------------------------- MODULE RevisionsProperties -------------------------
(* What must be true of a document's revisions, lease and deletion. *)
EXTENDS Revisions

Numbers == Versions \cup {0}

(* Every variable has its type. *)
TypeOK ==
  /\ doc \in [state : {"absent", "active", "trashed", "deleted"},
              current : Versions, due : BOOLEAN]
  /\ versions \in [Versions ->
       [file : {"none", "ready", "pending", "deleted"}, bytes : Contents \cup {None},
        model : Contents \cup {None}, parent : Numbers, origin : Numbers,
        by : Generations \cup {0}]]
  /\ lease \in [editor : Editors \cup {None}, id : Generations \cup {0},
                source : Numbers, live : BOOLEAN]
  /\ issued \in [Generations -> Editors \cup {None}]
  /\ generation \in Generations \cup {0}
  /\ sessions \subseteq Sessions
  /\ ops \in [Keys ->
       [kind : {"none", "save", "restore", "copy"},
        pc : {"none", "begun", "checked", "read", "prepared", "committed", "aborted"},
        editor : Editors \cup {None}, id : Generations \cup {0}, source : Numbers,
        selected : Numbers, model : Contents \cup {None}, bytes : Contents \cup {None}]]
  /\ keep \in Policies \cup {None}
  /\ batch \subseteq Versions
  /\ listed \in BOOLEAN

-----------------------------------------------------------------------------
(* What is in use or can be taken out of the trash has its current and its  *)
(* original file: no pruning listed earlier, under another policy or        *)
(* current revision, removes them.                                          *)
CurrentIsIntact ==
  doc.state \in {"active", "trashed"} =>
    Ready(doc.current) /\ Ready(1) /\ versions[doc.current].model # None

(* Every file that can be read belongs with the model stored beside it, and *)
(* a restored revision has exactly the bytes of the one it was taken from,  *)
(* whatever was pruned or saved while it was prepared.                      *)
PairsAreExact ==
  \A v \in Versions :
    /\ versions[v].file = "ready" => versions[v].model = versions[v].bytes
    /\ versions[v].origin # 0 =>
         /\ versions[v].origin < v
         /\ versions[v].bytes = versions[versions[v].origin].bytes

(* The history is linear, and generations never go back along it: no editor *)
(* publishes after another was given the lease and published.               *)
HistoryIsLinear ==
  \A v \in Versions \ {1} : Exists(v) =>
    /\ v <= doc.current
    /\ versions[v].parent = v - 1 /\ Exists(v - 1)
    /\ versions[v].by >= versions[v - 1].by

(* A lease belongs to an active document and its current revision, and is   *)
(* the last generation given out: a save takes its lease along.             *)
Leased == lease.editor # None
LeaseIsCurrent ==
  Leased =>
    /\ IsActive /\ lease.source = doc.current
    /\ lease.id = generation /\ lease.id # 0 /\ issued[lease.id] = lease.editor

(* Nothing of a deleted document can be read, and nobody may still edit it. *)
DeletedIsGone ==
  doc.state = "deleted" =>
    /\ ~Leased
    /\ \A v \in Versions : versions[v].file # "ready" /\ versions[v].model = None

-----------------------------------------------------------------------------
(* The rest of the inductive invariant: the revisions that exist are those  *)
(* up to the current one.                                                   *)
RevisionsAreNumbered ==
  /\ \A v \in Versions : IF Exists(v) THEN versions[v].bytes # None
                                       ELSE versions[v] = NoVersion
  /\ IF doc.state = "absent" THEN doc.current = 1 /\ \A v \in Versions : ~Exists(v)
                             ELSE \A v \in 1..doc.current : Exists(v)

(* Generations are given out in order. *)
GenerationsAreOrdered ==
  /\ \A g \in Generations : issued[g] # None => g <= generation
  /\ \A v \in Versions : versions[v].by <= generation

(* What a save wrote is in the history only once it has committed.          *)
AuthoredOnce ==
  \A v \in Versions, k \in Keys :
    versions[v].bytes = k => ops[k].kind = "save" /\ ops[k].pc = "committed"

(* What an operation knows while it is prepared.                            *)
OpInv(k) ==
  LET r == ops[k] IN
  /\ r.pc # "none" => r.kind # "none" /\ Exists(r.source)
  /\ r.pc # "none" /\ r.kind # "copy" =>
       r.editor # None /\ r.id # 0 /\ issued[r.id] = r.editor
  /\ IF r.pc # "none" /\ r.kind = "restore" THEN Exists(r.selected) ELSE r.selected = 0
  /\ r.pc \in {"read", "prepared"} =>
       r.model = IF r.kind = "save" THEN k ELSE versions[From(k)].bytes
  /\ r.pc = "prepared" => r.bytes = r.model

RevisionsInv ==
  /\ TypeOK
  /\ CurrentIsIntact
  /\ PairsAreExact
  /\ HistoryIsLinear
  /\ LeaseIsCurrent
  /\ DeletedIsGone
  /\ RevisionsAreNumbered
  /\ GenerationsAreOrdered
  /\ AuthoredOnce
  /\ \A k \in Keys : OpInv(k)
-----------------------------------------------------------------------------
(* A revision is published only under the last generation given out: from   *)
(* the acquisition on which a save relies to its commit, nobody else was    *)
(* given the document.                                                      *)
NoCommitAfterHandover ==
  [][doc'.current # doc.current => versions'[doc'.current].by = generation]_vars

(* A lease that has lapsed, by time or with its session, is not revived by  *)
(* a late renewal: its holder has to acquire it again.                      *)
LapsedStaysLapsed ==
  [][Leased /\ ~Live /\ lease'.id = lease.id => ~Live']_vars

(* A revision never changes; its file only moves towards deletion, its      *)
(* model is only cleared.                                                   *)
HistoryIsImmutable ==
  [][\A v \in Versions : Exists(v) =>
       LET old == versions[v]
           new == versions'[v] IN
       /\ new.bytes = old.bytes /\ new.parent = old.parent
       /\ new.origin = old.origin /\ new.by = old.by
       /\ new.model \in {old.model, None}
       /\ old.file # new.file =>
            <<old.file, new.file>> \in {<<"ready", "pending">>, <<"pending", "deleted">>}]_vars

(* While a document stays active, only a revision that the policy of that   *)
(* very moment gives up becomes unreadable.                                 *)
PruningObeysPolicy ==
  [][\A v \in Versions :
       Ready(v) /\ versions'[v].file # "ready" /\ doc'.state = "active" =>
         /\ keep # None
         /\ v # 1 /\ v + keep <= doc.current]_vars

(* A copy appears only of what is current then, and holds its bytes.        *)
CopyIsCurrent ==
  [][\A k \in Keys :
       ops[k].kind = "copy" /\ ops[k].pc # "committed" /\ ops'[k].pc = "committed" =>
         /\ IsActive /\ ops[k].bytes = versions[doc.current].bytes
         /\ ops[k].model = ops[k].bytes]_vars

(* Emptied or expired trash is deleted, and cannot be taken out any more.   *)
TrashEmpties ==
  doc.state = "trashed" /\ doc.due ~> doc.state = "deleted"

(* In the end nothing of a deleted document is left, and nothing returns:   *)
(* not by a save or a restore that was being prepared.                      *)
DeletedIsErased ==
  doc.state = "deleted" ~>
    [](\A v \in Versions : versions[v].file \in {"none", "deleted"})
-----------------------------------------------------------------------------
(* The history implements the log. *)
Log == INSTANCE RevisionLog WITH
  Numbers  <- Versions,
  mode     <- doc.state,
  latest   <- IF doc.state = "absent" THEN 0 ELSE doc.current,
  content  <- [v \in Versions |-> versions[v].bytes],
  readable <- {v \in Versions : versions[v].file = "ready"},
  right    <- IF Live THEN lease.editor ELSE None

ImplementsLog == Log!Spec
==============================================================================
