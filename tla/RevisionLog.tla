---------------------------- MODULE RevisionLog ----------------------------
(***************************************************************************)
(* What the history of a document promises, without sessions, lease        *)
(* generations or the steps of a save: a log to which one editor at a time *)
(* may append, always on top of the latest entry; an entry is authored     *)
(* once or repeats a readable one exactly, never changes, and stays        *)
(* readable until it is forgotten or everything is.  The first and the     *)
(* latest entry are never forgotten.                                       *)
(***************************************************************************)
EXTENDS Integers

CONSTANTS Editors, Contents, Original, None, Numbers

VARIABLES
  mode,      (* of the document                                             *)
  latest,    (* the last entry of the log                                   *)
  content,   (* the log                                                     *)
  readable,  (* the entries that can be read                                *)
  right      (* who may append                                              *)

vars == <<mode, latest, content, readable, right>>

Init ==
  /\ mode = "absent"
  /\ latest = 0
  /\ content = [n \in Numbers |-> None]
  /\ readable = {}
  /\ right = None

Extended(c) ==
  /\ latest + 1 \in Numbers
  /\ latest' = latest + 1
  /\ content' = [content EXCEPT ![latest + 1] = c]
  /\ readable' = readable \cup {latest + 1}

Create ==
  /\ mode = "absent"
  /\ mode' = "active"
  /\ Extended(Original)
  /\ UNCHANGED right

(* The right is given when nobody has it, and may lapse at any time. *)
Grant(e) ==
  /\ mode = "active" /\ right = None
  /\ right' = e
  /\ UNCHANGED <<mode, latest, content, readable>>
Lapse ==
  /\ right' = None
  /\ UNCHANGED <<mode, latest, content, readable>>

(* Something new, or an exact repetition of a readable entry. *)
Append(e, c) ==
  /\ mode = "active" /\ right = e
  /\ \/ \A n \in Numbers : content[n] # c
     \/ \E n \in readable : content[n] = c
  /\ Extended(c)
  /\ UNCHANGED <<mode, right>>

Forget(n) ==
  /\ mode = "active"
  /\ n \in readable \ {1, latest}
  /\ readable' = readable \ {n}
  /\ UNCHANGED <<mode, latest, content, right>>

Hide ==
  /\ mode = "active"
  /\ mode' = "trashed" /\ right' = None
  /\ UNCHANGED <<latest, content, readable>>
Show ==
  /\ mode = "trashed"
  /\ mode' = "active"
  /\ UNCHANGED <<latest, content, readable, right>>
Destroy ==
  /\ mode \in {"active", "trashed"}
  /\ mode' = "deleted" /\ right' = None
  /\ readable' = {}
  /\ UNCHANGED <<latest, content>>

Next ==
  \/ Create \/ Lapse \/ Hide \/ Show \/ Destroy
  \/ \E n \in Numbers : Forget(n)
  \/ \E e \in Editors : Grant(e) \/ \E c \in Contents : Append(e, c)

Spec == Init /\ [][Next]_vars
==============================================================================
