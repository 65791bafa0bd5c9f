---------------------------- MODULE StorageLedger ----------------------------
(***************************************************************************)
(* What the storage service promises, without its transactions, flocks and *)
(* directory entries: every operation holds a share of its owner's quota   *)
(* from its first reservation until its bytes are physically gone, becomes *)
(* a readable file in one step, and is never readable and gone at once.    *)
(***************************************************************************)
EXTENDS Integers

CONSTANTS Owners, Ops, Owner, Limits, Sizes  (* Sizes an operation may hold *)

VARIABLES
  object,   (* the life of an operation's file                              *)
  held,     (* the quota it holds                                           *)
  content,  (* its bytes on the disk                                        *)
  charge,   (* what its owner is charged                                    *)
  limits    (* what its owner may be charged                                *)

vars == <<object, held, content, charge, limits>>

Init ==
  /\ object  = [k \in Ops |-> "absent"]
  /\ held    = [k \in Ops |-> 0]
  /\ content = [k \in Ops |-> 0]
  /\ charge  = [o \in Owners |-> 0]
  /\ limits \in [Owners -> Limits]

(* The object becomes s and holds n; its owner's charge moves with it, and  *)
(* grows only within the limit.                                             *)
Becomes(k, s, n) ==
  /\ object' = [object EXCEPT ![k] = s]
  /\ held'   = [held EXCEPT ![k] = n]
  /\ charge' = [charge EXCEPT ![Owner[k]] = @ + n - held[k]]
  /\ n > held[k] => charge'[Owner[k]] <= limits[Owner[k]]
  /\ UNCHANGED limits

Open(k, n) == object[k] = "absent" /\ Becomes(k, "open", n) /\ UNCHANGED content
Grow(k, n) ==
  /\ object[k] = "open" /\ n > held[k]
  /\ Becomes(k, "open", n)
  /\ UNCHANGED content

(* Bytes are written only into what is held. *)
Write(k) ==
  /\ object[k] = "open" /\ content[k] < held[k]
  /\ content' = [content EXCEPT ![k] = @ + 1]
  /\ UNCHANGED <<object, held, charge, limits>>

(* The file becomes readable with exactly the bytes it is charged for. *)
Store(k) ==
  /\ object[k] = "open"
  /\ content[k] <= held[k]
  /\ Becomes(k, "stored", content[k])
  /\ UNCHANGED content

Doom(k) == object[k] = "stored" /\ Becomes(k, "doomed", held[k]) /\ UNCHANGED content

Erase(k) ==
  /\ object[k] \in {"open", "doomed"}
  /\ content' = [content EXCEPT ![k] = 0]
  /\ UNCHANGED <<object, held, charge, limits>>

(* Quota is given back only after the bytes are gone. *)
Discard(k) ==
  /\ object[k] = "open" /\ content[k] = 0
  /\ Becomes(k, "discarded", 0)
  /\ UNCHANGED content
Remove(k) ==
  /\ object[k] = "doomed" /\ content[k] = 0
  /\ Becomes(k, "removed", 0)
  /\ UNCHANGED content

SetLimit(o, amount) ==
  /\ limits' = [limits EXCEPT ![o] = amount]
  /\ UNCHANGED <<object, held, content, charge>>

Next ==
  \/ \E k \in Ops :
       \/ \E n \in Sizes : Open(k, n) \/ Grow(k, n)
       \/ Write(k) \/ Store(k) \/ Doom(k) \/ Erase(k) \/ Discard(k) \/ Remove(k)
  \/ \E o \in Owners, amount \in Limits : SetLimit(o, amount)

Spec == Init /\ [][Next]_vars
==============================================================================
