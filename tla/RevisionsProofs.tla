--------------------------- MODULE RevisionsProofs ---------------------------
(***************************************************************************)
(* Proofs about a document's revisions: the inductive invariant, what      *)
(* follows from it, and that the history implements the log.               *)
(***************************************************************************)
EXTENDS RevisionsProperties, TLAPS

(* What the types below are about. *)
LeaseType == [editor : Editors \cup {None}, id : Generations \cup {0},
              source : Numbers, live : BOOLEAN]
VersionType ==
  [file : {"none", "ready", "pending", "deleted"}, bytes : Contents \cup {None},
   model : Contents \cup {None}, parent : Numbers, origin : Numbers,
   by : Generations \cup {0}]
OpType ==
  [kind : {"none", "save", "restore", "copy"},
   pc : {"none", "begun", "checked", "read", "prepared", "committed", "aborted"},
   editor : Editors \cup {None}, id : Generations \cup {0}, source : Numbers,
   selected : Numbers, model : Contents \cup {None}, bytes : Contents \cup {None}]
DocType == [state : {"absent", "active", "trashed", "deleted"},
            current : Versions, due : BOOLEAN]

(* The parts of the type invariant. *)
Typed ==
  /\ doc \in DocType /\ versions \in [Versions -> VersionType]
  /\ lease \in LeaseType /\ issued \in [Generations -> Editors \cup {None}]
  /\ generation \in Generations \cup {0} /\ sessions \subseteq Sessions
  /\ ops \in [Keys -> OpType] /\ keep \in Policies \cup {None}
  /\ batch \subseteq Versions /\ listed \in BOOLEAN

(* They are all of it. *)
LEMMA Types == (TypeOK <=> Typed) /\ (TypeOK' <=> Typed')
BY DEF TypeOK, Typed, DocType, VersionType, LeaseType, OpType

(* None is no editor and no content; the bounds are numbers. *)
LEMMA Distinct ==
  /\ None \notin Editors /\ None \notin Contents /\ None \notin Nat
  /\ Original \notin Keys
  /\ MaxVersion \in Nat /\ MaxVersion >= 1 /\ MaxLease \in Nat
  /\ Versions \subseteq Nat /\ 1 \in Versions /\ 0 \notin Versions
  /\ Generations \subseteq Nat /\ 0 \notin Generations
  /\ Policies \subseteq Nat
BY RevisionsAssumptions DEF Versions, Generations

LEMMA Initially == Init => RevisionsInv
<1> SUFFICES ASSUME Init PROVE RevisionsInv
  OBVIOUS
<1> USE Distinct
<1>1. TypeOK
  BY DEF Init, TypeOK, NoVersion, NoLease, NoOp, Numbers, Contents
<1>2. \A v \in Versions : versions[v] = NoVersion /\ ~Exists(v) /\ ~Ready(v)
  BY DEF Init, NoVersion, Exists, Ready
<1>3. CurrentIsIntact /\ DeletedIsGone /\ ~Leased /\ LeaseIsCurrent
  BY DEF Init, CurrentIsIntact, DeletedIsGone, NoLease, Leased, LeaseIsCurrent
<1>4. PairsAreExact /\ HistoryIsLinear /\ RevisionsAreNumbered
  BY <1>2 DEF Init, NoVersion, PairsAreExact, HistoryIsLinear, RevisionsAreNumbered
<1>5. GenerationsAreOrdered
  BY <1>2 DEF Init, NoVersion, GenerationsAreOrdered
<1>6. AuthoredOnce
  BY <1>2, RevisionsAssumptions DEF AuthoredOnce, NoVersion, Contents
<1>7. \A k \in Keys : OpInv(k)
  BY DEF Init, NoOp, OpInv
<1> QED
  BY <1>1, <1>3, <1>4, <1>5, <1>6, <1>7 DEF RevisionsInv

-----------------------------------------------------------------------------
(* Types. *)

LEMMA LeaseTypes ==
  ASSUME TypeOK, Lease PROVE TypeOK'
<1> USE Distinct, Types DEF Typed
<1>1. ASSUME NEW e \in Editors, Acquire(e) PROVE TypeOK'
  <2>1. UNCHANGED <<doc, versions, sessions, ops, upkeep>>
    BY <1>1 DEF Acquire
  <2>2. CASE lease' = [lease EXCEPT !.live = TRUE] /\ UNCHANGED <<issued, generation>>
    BY <2>1, <2>2 DEF LeaseType, upkeep
  <2>3. CASE Granted(e)
    <3>1. generation + 1 \in Generations
      BY <2>3 DEF Granted, Generations
    <3>2. doc.current \in Numbers
      BY DEF DocType, Numbers
    <3>3. lease' \in LeaseType
      BY <2>3, <3>1, <3>2 DEF Granted, LeaseType
    <3> QED
      BY <2>1, <2>3, <3>1, <3>3 DEF Granted, upkeep
  <2> QED
    BY <1>1, <2>2, <2>3 DEF Acquire
<1>2. ASSUME NEW e \in Editors, NEW g \in Generations, Renew(e, g) PROVE TypeOK'
  BY <1>2 DEF Renew, LeaseType, upkeep
<1>3. ASSUME NEW e \in Editors, NEW g \in Generations, NEW s \in Versions, Release(e, g, s)
      PROVE TypeOK'
  BY <1>3 DEF Release, LeaseType, NoLease, Numbers, upkeep
<1>4. ASSUME LeaseExpires PROVE TypeOK'
  BY <1>4 DEF LeaseExpires, LeaseType, upkeep
<1>5. ASSUME NEW s \in Sessions, EndSession(s) PROVE TypeOK'
  BY <1>5 DEF EndSession, upkeep
<1> QED
  BY <1>1, <1>2, <1>3, <1>4, <1>5 DEF Lease

LEMMA WorkTypes ==
  ASSUME TypeOK, NEW k \in Keys, Work(k) PROVE TypeOK'
<1> USE Distinct, Types DEF Typed
<1>1. ops[k] \in OpType
  OBVIOUS
<1>2. CASE Check(k)
  BY <1>1, <1>2 DEF Check, OpType, access, upkeep
<1>3. CASE ReadRow(k)
  <2>1. From(k) \in Versions
    BY <1>3 DEF ReadRow, Ready
  <2>2. versions[From(k)].model \in Contents \cup {None} /\ k \in Contents
    BY <2>1 DEF VersionType, Contents
  <2> QED
    BY <1>1, <1>3, <2>2 DEF ReadRow, OpType, access, upkeep
<1>4. CASE ReadBytes(k)
  <2>1. ops[k].kind # "save" => versions[From(k)].bytes \in Contents \cup {None}
    BY <1>4 DEF ReadBytes, VersionType, Ready
  <2>2. k \in Contents
    BY DEF Contents
  <2> QED
    BY <1>1, <1>4, <2>1, <2>2 DEF ReadBytes, OpType, access, upkeep
<1>5. CASE Commit(k)
  <2>1. Revision(k) \in VersionType
    BY <1>1 DEF Revision, OpType, VersionType
  <2>2. PICK v : v = ops[k].source + 1 /\ v \in Versions
    BY <1>5 DEF Commit, Publish
  <2>3. /\ versions' = [versions EXCEPT ![v] = Revision(k)]
        /\ doc' = [doc EXCEPT !.current = v]
        /\ lease' = [lease EXCEPT !.source = v]
        /\ ops' = [ops EXCEPT ![k].pc = "committed"]
        /\ UNCHANGED <<issued, generation, sessions, upkeep>>
    BY <1>5, <2>2 DEF Commit, Publish
  <2>4. versions' \in [Versions -> VersionType] /\ doc' \in DocType
    BY <2>1, <2>2, <2>3 DEF DocType
  <2>5. lease' \in LeaseType
    BY <2>2, <2>3 DEF LeaseType, Numbers
  <2>6. ops' \in [Keys -> OpType]
    BY <1>1, <2>3 DEF OpType
  <2> QED
    BY <2>3, <2>4, <2>5, <2>6 DEF upkeep
<1>6. CASE CommitCopy(k)
  BY <1>1, <1>6 DEF CommitCopy, OpType, access, upkeep
<1>7. CASE Abort(k)
  BY <1>1, <1>7 DEF Abort, OpType, access, upkeep
<1> QED
  BY <1>2, <1>3, <1>4, <1>5, <1>6, <1>7 DEF Work

LEMMA PurgedTypes ==
  ASSUME TypeOK, Purged
  PROVE  doc' \in DocType /\ versions' \in [Versions -> VersionType] /\ lease' \in LeaseType
<1> USE Distinct, Types DEF Typed
<1>1. doc' \in DocType
  BY DEF Purged, DocType
<1>2. versions' \in [Versions -> VersionType]
  <2>1. SUFFICES ASSUME NEW v \in Versions
                 PROVE  [versions[v] EXCEPT !.model = None,
                           !.file = IF @ = "ready" THEN "pending" ELSE @] \in VersionType
    BY DEF Purged
  <2>2. PICK o : o = versions[v]
    OBVIOUS
  <2>3. o \in VersionType
    BY <2>2
  <2>4. [o EXCEPT !.model = None, !.file = IF @ = "ready" THEN "pending" ELSE @] \in VersionType
    BY <2>3 DEF VersionType
  <2> QED
    BY <2>2, <2>4
<1>3. lease' \in LeaseType
  BY DEF Purged, NoLease, LeaseType, Numbers
<1> QED
  BY <1>1, <1>2, <1>3

LEMMA OwnerTypes ==
  ASSUME TypeOK, Owner PROVE TypeOK'
<1> USE Distinct, Types DEF Typed
<1>1. ASSUME NEW e \in Editors, Upload(e) PROVE TypeOK'
  <2>1. First \in VersionType
    BY DEF First, NoVersion, VersionType, Numbers, Contents
  <2> QED
    BY <1>1, <2>1 DEF Upload, DocType, access, upkeep
<1>2. ASSUME NEW e \in Editors, Trash(e) PROVE TypeOK'
  BY <1>2 DEF Trash, DocType, LeaseType, NoLease, Numbers, upkeep
<1>3. ASSUME NEW e \in Editors, Untrash(e) PROVE TypeOK'
  BY <1>3 DEF Untrash, DocType, access, upkeep
<1>4. ASSUME NEW e \in Editors, Empty(e) PROVE TypeOK'
  BY <1>4 DEF Empty, DocType, access
<1>5. ASSUME NEW e \in Editors, Remove(e) PROVE TypeOK'
  BY <1>5, PurgedTypes DEF Remove, upkeep
<1>6. ASSUME NEW k \in Keys, NEW r \in Request, Begin(k, r) PROVE TypeOK'
  <2>1. PICK o : o = [kind |-> r.kind, pc |-> IF r.kind = "copy" THEN "checked" ELSE "begun",
          editor |-> r.editor, id |-> r.id, source |-> r.source,
          selected |-> r.selected, model |-> None, bytes |-> None]
    OBVIOUS
  <2>2. o \in OpType
    BY <2>1 DEF Request, OpType, Numbers
  <2>3. ops' = [ops EXCEPT ![k] = o] /\ UNCHANGED <<doc, versions, access, upkeep>>
    BY <1>6, <2>1 DEF Begin
  <2> QED
    BY <2>2, <2>3 DEF access, upkeep
<1> QED
  BY <1>1, <1>2, <1>3, <1>4, <1>5, <1>6 DEF Owner

LEMMA UpkeepTypes ==
  ASSUME TypeOK, Upkeep PROVE TypeOK'
<1> USE Distinct, Types DEF Typed
<1>1. CASE DeadlinePasses
  BY <1>1 DEF DeadlinePasses, DocType, access, upkeep
<1>2. CASE ListExpired
  BY <1>2 DEF ListExpired, access
<1>3. CASE PurgeExpired
  BY <1>3, PurgedTypes DEF PurgeExpired
<1>4. CASE ExpiryStops
  BY <1>4 DEF ExpiryStops, access
<1>5. ASSUME NEW v \in Versions, FileRemoved(v) PROVE TypeOK'
  BY <1>5 DEF FileRemoved, VersionType, access, upkeep
<1>6. ASSUME NEW v \in Versions, PruneOne(v) PROVE TypeOK'
  BY <1>6 DEF PruneOne, VersionType, access
<1>7. CASE PruneList
  BY <1>7 DEF PruneList, Candidates, access
<1>8. CASE PruneStops
  BY <1>8 DEF PruneStops, access
<1>9. ASSUME NEW n \in Policies \cup {None}, Configure(n) PROVE TypeOK'
  BY <1>9 DEF Configure, access
<1> QED
  BY <1>1, <1>2, <1>3, <1>4, <1>5, <1>6, <1>7, <1>8, <1>9 DEF Upkeep, Expiry

LEMMA TypesArePreserved ==
  ASSUME TypeOK, [Next]_vars PROVE TypeOK'
<1>1. CASE UNCHANGED vars
  BY <1>1 DEF vars, access, upkeep, TypeOK
<1> QED
  BY <1>1, LeaseTypes, OwnerTypes, UpkeepTypes, WorkTypes DEF Next
-----------------------------------------------------------------------------
(* The invariant, one lemma for each group of actions that change the same  *)
(* variables.                                                               *)

(* The parts of the invariant but for the types. *)
LEMMA Parts ==
  ASSUME RevisionsInv
  PROVE  /\ TypeOK /\ CurrentIsIntact /\ PairsAreExact /\ HistoryIsLinear /\ LeaseIsCurrent
         /\ DeletedIsGone /\ RevisionsAreNumbered /\ GenerationsAreOrdered /\ AuthoredOnce
         /\ \A k \in Keys : OpInv(k)
BY DEF RevisionsInv

(* What an operation starts from exists. *)
LEMMA Origins ==
  ASSUME RevisionsInv, NEW k \in Keys, ops[k].pc # "none"
  PROVE  /\ ops[k].source \in Versions /\ Exists(ops[k].source)
         /\ From(k) \in Versions /\ Exists(From(k))
BY Parts DEF OpInv, From, Exists

(* Only upkeep changes. *)
LEMMA UpkeepKeepsInv ==
  ASSUME RevisionsInv, TypeOK', UNCHANGED <<doc, versions, access, ops>>
  PROVE  RevisionsInv'
<1> USE Parts DEF access
<1>1. CurrentIsIntact' /\ PairsAreExact' /\ HistoryIsLinear'
  BY DEF CurrentIsIntact, PairsAreExact, HistoryIsLinear, Ready, Exists
<1>2. LeaseIsCurrent' /\ DeletedIsGone'
  BY DEF LeaseIsCurrent, DeletedIsGone, Leased, IsActive
<1>3. RevisionsAreNumbered' /\ GenerationsAreOrdered' /\ AuthoredOnce'
  BY DEF RevisionsAreNumbered, GenerationsAreOrdered, AuthoredOnce, Exists
<1>4. \A k \in Keys : OpInv(k)'
  BY DEF OpInv, Exists, From
<1> QED
  BY <1>1, <1>2, <1>3, <1>4 DEF RevisionsInv

(* Only the lease, the generations and the sessions change. *)
LEMMA AccessKeepsInv ==
  ASSUME RevisionsInv, TypeOK', UNCHANGED <<doc, versions, ops>>,
         LeaseIsCurrent', GenerationsAreOrdered',
         \A g \in Generations : issued[g] # None => issued'[g] = issued[g]
  PROVE  RevisionsInv'
<1> USE Parts
<1>1. CurrentIsIntact' /\ PairsAreExact' /\ HistoryIsLinear'
  BY DEF CurrentIsIntact, PairsAreExact, HistoryIsLinear, Ready, Exists
<1>2. DeletedIsGone'
  BY DEF LeaseIsCurrent, DeletedIsGone, Leased, IsActive
<1>3. RevisionsAreNumbered' /\ AuthoredOnce'
  BY DEF RevisionsAreNumbered, AuthoredOnce, Exists
<1>4. ASSUME NEW k \in Keys PROVE OpInv(k)'
  <2>1. ops[k].id \in Generations \cup {0}
    BY Types DEF Typed, OpType
  <2>2. ops[k].pc # "none" /\ ops[k].kind # "copy" => issued'[ops[k].id] = ops[k].editor
    BY <2>1 DEF OpInv
  <2> QED
    BY <2>2 DEF OpInv, Exists, From
<1> QED
  BY <1>1, <1>2, <1>3, <1>4 DEF RevisionsInv

LEMMA LeaseKeepsInv ==
  ASSUME RevisionsInv, TypeOK', Lease PROVE RevisionsInv'
<1> USE Parts, Distinct
<1> DEFINE Quiet == UNCHANGED <<doc, versions, issued, generation, ops>>
<1>1. ASSUME Quiet, LeaseIsCurrent' PROVE RevisionsInv'
  <2>1. GenerationsAreOrdered'
    BY <1>1 DEF GenerationsAreOrdered
  <2> QED
    BY <1>1, <2>1, AccessKeepsInv
<1>2. ASSUME Quiet, lease' = [lease EXCEPT !.live = TRUE] \/ lease' = [lease EXCEPT !.live = FALSE]
      PROVE RevisionsInv'
  <2>1. lease'.editor = lease.editor /\ lease'.id = lease.id /\ lease'.source = lease.source
    BY <1>2, Types DEF Typed, LeaseType
  <2>2. LeaseIsCurrent'
    BY <1>2, <2>1 DEF LeaseIsCurrent, Leased, IsActive
  <2> QED
    BY <1>1, <1>2, <2>2
<1>3. ASSUME Quiet, lease' = NoLease PROVE RevisionsInv'
  <2>1. LeaseIsCurrent'
    BY <1>3 DEF LeaseIsCurrent, Leased, NoLease
  <2> QED
    BY <1>1, <1>3, <2>1
<1>4. ASSUME NEW e \in Editors, Acquire(e) PROVE RevisionsInv'
  <2>1. CASE lease' = [lease EXCEPT !.live = TRUE] /\ UNCHANGED <<issued, generation>>
    BY <1>2, <1>4, <2>1 DEF Acquire
  <2>2. CASE Granted(e)
    <3>1. /\ IsActive /\ UNCHANGED <<doc, versions, ops>>
          /\ generation' = generation + 1 /\ generation \in Nat
          /\ generation + 1 \in Generations
          /\ issued' = [issued EXCEPT ![generation + 1] = e]
          /\ lease'.editor = e /\ lease'.id = generation + 1 /\ lease'.source = doc.current
      BY <1>4, <2>2, Types DEF Typed, Acquire, Granted, Visible, Generations
    <3>2. issued[generation + 1] = None
      BY <3>1 DEF GenerationsAreOrdered
    <3>3. \A g \in Generations : issued[g] # None => issued'[g] = issued[g]
      BY <3>1, <3>2, Types DEF Typed
    <3>4. issued'[generation + 1] = e
      BY <3>1, Types DEF Typed
    <3>5. LeaseIsCurrent'
      BY <3>1, <3>4 DEF LeaseIsCurrent, Leased, IsActive
    <3>6. \A g \in Generations : issued'[g] # None => g <= generation'
      BY <3>1, Types DEF Typed, GenerationsAreOrdered
    <3>7. \A v \in Versions : versions[v].by \in Nat
      <4>1. \A v \in Versions : versions[v].by \in Generations \cup {0}
        BY Types DEF Typed, VersionType
      <4> QED
        BY <4>1 DEF Generations
    <3>8. GenerationsAreOrdered'
      BY <3>1, <3>6, <3>7 DEF GenerationsAreOrdered
    <3> QED
      BY <3>1, <3>3, <3>5, <3>8, AccessKeepsInv
  <2> QED
    BY <1>4, <2>1, <2>2 DEF Acquire
<1>5. ASSUME NEW e \in Editors, NEW g \in Generations, Renew(e, g) PROVE RevisionsInv'
  BY <1>2, <1>5 DEF Renew
<1>6. ASSUME NEW e \in Editors, NEW g \in Generations, NEW s \in Versions, Release(e, g, s)
      PROVE RevisionsInv'
  BY <1>3, <1>6 DEF Release
<1>7. ASSUME LeaseExpires PROVE RevisionsInv'
  BY <1>2, <1>7 DEF LeaseExpires
<1>8. ASSUME NEW s \in Sessions, EndSession(s) PROVE RevisionsInv'
  <2>1. LeaseIsCurrent'
    BY <1>8 DEF EndSession, LeaseIsCurrent, Leased, IsActive
  <2> QED
    BY <1>1, <1>8, <2>1 DEF EndSession
<1> QED
  BY <1>4, <1>5, <1>6, <1>7, <1>8 DEF Lease

(* Only one operation changes, and not after it has committed. *)
LEMMA OperationKeepsInv ==
  ASSUME RevisionsInv, TypeOK', UNCHANGED <<doc, versions, access>>,
         NEW k \in Keys, ops[k].pc # "committed",
         \A j \in Keys \ {k} : ops'[j] = ops[j],
         OpInv(k)'
  PROVE  RevisionsInv'
<1> USE Parts DEF access
<1>1. CurrentIsIntact' /\ PairsAreExact' /\ HistoryIsLinear'
  BY DEF CurrentIsIntact, PairsAreExact, HistoryIsLinear, Ready, Exists
<1>2. LeaseIsCurrent' /\ DeletedIsGone'
  BY DEF LeaseIsCurrent, DeletedIsGone, Leased, IsActive
<1>3. RevisionsAreNumbered' /\ GenerationsAreOrdered' /\ AuthoredOnce'
  BY DEF RevisionsAreNumbered, GenerationsAreOrdered, AuthoredOnce, Exists
<1>4. \A j \in Keys : OpInv(j)'
  BY DEF OpInv, Exists, From
<1> QED
  BY <1>1, <1>2, <1>3, <1>4 DEF RevisionsInv

LEMMA BeginKeepsInv ==
  ASSUME RevisionsInv, TypeOK', NEW k \in Keys, NEW r \in Request, Begin(k, r)
  PROVE  RevisionsInv'
<1>1. PICK o : o = [kind |-> r.kind, pc |-> IF r.kind = "copy" THEN "checked" ELSE "begun",
        editor |-> r.editor, id |-> r.id, source |-> r.source,
        selected |-> r.selected, model |-> None, bytes |-> None]
  OBVIOUS
<1>2. /\ ops[k].pc = "none" /\ WellFormed(r)
      /\ ops' = [ops EXCEPT ![k] = o] /\ UNCHANGED <<doc, versions, access, upkeep>>
  BY <1>1 DEF Begin
<1>3. ops'[k] = o /\ \A j \in Keys \ {k} : ops'[j] = ops[j]
  BY <1>2, Types, Parts DEF Typed
<1>4. /\ o.pc \in {"begun", "checked"} /\ o.kind # "none" /\ o.kind = r.kind
      /\ o.source = r.source /\ o.selected = r.selected /\ o.id = r.id /\ o.editor = r.editor
      /\ r.editor \in Editors
  BY <1>1 DEF Request
<1>5. OpInv(k)'
  BY <1>2, <1>3, <1>4, Distinct DEF OpInv, WellFormed, Exists, access
<1> QED
  BY <1>2, <1>3, <1>5, OperationKeepsInv

(* The steps of an operation that publish no revision. *)
LEMMA PreparationKeepsInv ==
  ASSUME RevisionsInv, TypeOK', NEW k \in Keys,
         Check(k) \/ ReadRow(k) \/ ReadBytes(k) \/ CommitCopy(k) \/ Abort(k)
  PROVE  RevisionsInv'
<1> DEFINE r == ops[k]
           n == ops'[k]
<1> USE Parts
<1>0. r \in OpType /\ UNCHANGED <<doc, versions, access, upkeep>>
  BY Types DEF Typed, Check, ReadRow, ReadBytes, CommitCopy, Abort
<1>1. r.pc \notin {"none", "committed"} /\ \A j \in Keys \ {k} : ops'[j] = ops[j]
  BY Types DEF Typed, Check, ReadRow, ReadBytes, CommitCopy, Abort
<1>2. /\ n.kind = r.kind /\ n.source = r.source /\ n.selected = r.selected
      /\ n.editor = r.editor /\ n.id = r.id
  BY <1>0, Types DEF Typed, OpType, Check, ReadRow, ReadBytes, CommitCopy, Abort
<1>3. n.pc \in {"read", "prepared"} =>
        n.model = IF r.kind = "save" THEN k ELSE versions[From(k)].bytes
  <2>1. CASE Check(k) \/ CommitCopy(k) \/ Abort(k)
    BY <1>0, <2>1, Types DEF Typed, OpType, Check, CommitCopy, Abort
  <2>2. CASE ReadRow(k)
    <3>1. n.model = IF r.kind = "save" THEN k ELSE versions[From(k)].model
      BY <1>0, <2>2, Types DEF Typed, OpType, ReadRow
    <3>2. versions[From(k)].model = versions[From(k)].bytes
      BY <2>2 DEF ReadRow, Ready, PairsAreExact
    <3> QED
      BY <3>1, <3>2
  <2>3. CASE ReadBytes(k)
    BY <1>0, <2>3, Types DEF Typed, OpType, ReadBytes, OpInv
  <2> QED
    BY <2>1, <2>2, <2>3
<1>4. n.pc = "prepared" => n.bytes = n.model
  <2>1. CASE Check(k) \/ ReadRow(k) \/ CommitCopy(k) \/ Abort(k)
    BY <1>0, <2>1, Types DEF Typed, OpType, Check, ReadRow, CommitCopy, Abort
  <2>2. CASE ReadBytes(k)
    <3>1. n.bytes = (IF r.kind = "save" THEN k ELSE versions[From(k)].bytes) /\ n.model = r.model
      BY <1>0, <2>2, Types DEF Typed, OpType, ReadBytes
    <3> QED
      BY <2>2, <3>1 DEF ReadBytes, OpInv
  <2> QED
    BY <2>1, <2>2
<1>5. OpInv(k)'
  <2>1. From(k)' = From(k) /\ \A v : Exists(v)' = Exists(v)
    BY <1>0, <1>2 DEF From, Exists
  <2>2. /\ n.kind # "none" /\ Exists(n.source)
        /\ n.kind # "copy" => n.editor # None /\ n.id # 0 /\ issued[n.id] = n.editor
        /\ IF n.kind = "restore" THEN Exists(n.selected) ELSE n.selected = 0
    BY <1>1, <1>2 DEF OpInv
  <2>3. n.pc \in {"read", "prepared"} =>
          n.model = IF n.kind = "save" THEN k ELSE versions[From(k)].bytes
    BY <1>2, <1>3
  <2>4. n.pc # "none"
    BY <1>0, <1>1, Types DEF Typed, OpType, Check, ReadRow, ReadBytes, CommitCopy, Abort
  <2>5. UNCHANGED <<versions, issued>>
    BY <1>0 DEF access
  <2> QED
    BY <1>4, <2>1, <2>2, <2>3, <2>4, <2>5 DEF OpInv
<1> QED
  BY <1>0, <1>1, <1>5, OperationKeepsInv

(* The document moves in or out of the trash, or its deadline passes. *)
LEMMA TrashKeepsInv ==
  ASSUME RevisionsInv, TypeOK', UNCHANGED <<versions, issued, generation, ops>>,
         doc.state \in {"active", "trashed"}, doc'.state \in {"active", "trashed"},
         doc'.current = doc.current, ~Leased'
  PROVE  RevisionsInv'
<1> USE Parts
<1>1. CurrentIsIntact' /\ PairsAreExact' /\ HistoryIsLinear'
  BY DEF CurrentIsIntact, PairsAreExact, HistoryIsLinear, Ready, Exists
<1>2. LeaseIsCurrent' /\ DeletedIsGone'
  BY DEF LeaseIsCurrent, DeletedIsGone
<1>3. RevisionsAreNumbered' /\ GenerationsAreOrdered' /\ AuthoredOnce'
  BY DEF RevisionsAreNumbered, GenerationsAreOrdered, AuthoredOnce, Exists
<1>4. \A k \in Keys : OpInv(k)'
  BY DEF OpInv, Exists, From
<1> QED
  BY <1>1, <1>2, <1>3, <1>4 DEF RevisionsInv

-----------------------------------------------------------------------------
(* Files go, revisions stay. *)
Fades(v) ==
  /\ versions'[v].bytes = versions[v].bytes /\ versions'[v].parent = versions[v].parent
  /\ versions'[v].origin = versions[v].origin /\ versions'[v].by = versions[v].by
  /\ versions[v].file \in {"none", "ready"} \/ versions'[v].file # "ready"
  /\ versions'[v].file = "none" <=> versions[v].file = "none"
  /\ versions'[v].file \in {"none", "ready"} => versions'[v] = versions[v]

LEMMA FadingKeepsInv ==
  ASSUME RevisionsInv, TypeOK', UNCHANGED <<issued, generation, ops>>,
         \A v \in Versions : Fades(v),
         doc'.current = doc.current, doc'.state = "absent" <=> doc.state = "absent",
         CurrentIsIntact', LeaseIsCurrent', DeletedIsGone'
  PROVE  RevisionsInv'
<1> USE Parts
<1>0. /\ \A v : Exists(v)' <=> Exists(v)
      /\ \A v \in Versions : /\ versions'[v].bytes = versions[v].bytes
                             /\ versions'[v].parent = versions[v].parent
                             /\ versions'[v].origin = versions[v].origin
                             /\ versions'[v].by = versions[v].by
  BY DEF Fades, Exists
<1>1. PairsAreExact'
  <2> SUFFICES ASSUME NEW v \in Versions
               PROVE  /\ versions'[v].file = "ready" => versions'[v].model = versions'[v].bytes
                      /\ versions'[v].origin # 0 =>
                           /\ versions'[v].origin < v
                           /\ versions'[v].bytes = versions'[versions'[v].origin].bytes
    BY DEF PairsAreExact
  <2>1. versions'[v].file = "ready" => versions'[v] = versions[v]
    BY DEF Fades
  <2>2. versions[v].origin # 0 => versions[v].origin \in Versions
    BY Types DEF Typed, VersionType, Numbers
  <2> QED
    BY <1>0, <2>1, <2>2 DEF PairsAreExact
<1>2. HistoryIsLinear'
  BY <1>0, Distinct DEF HistoryIsLinear, Exists
<1>3. RevisionsAreNumbered'
  <2>1. \A v \in Versions : ~Exists(v) => versions'[v] = versions[v]
    BY DEF Fades, Exists
  <2> QED
    BY <1>0, <2>1 DEF RevisionsAreNumbered
<1>4. GenerationsAreOrdered' /\ AuthoredOnce'
  BY <1>0 DEF GenerationsAreOrdered, AuthoredOnce
<1>5. ASSUME NEW k \in Keys PROVE OpInv(k)'
  <2>1. ops[k].pc # "none" => versions'[From(k)].bytes = versions[From(k)].bytes
    BY <1>0, Origins
  <2>2. From(k)' = From(k)
    BY DEF From
  <2> QED
    BY <1>0, <2>1, <2>2 DEF OpInv
<1> QED
  BY <1>1, <1>2, <1>3, <1>4, <1>5 DEF RevisionsInv

LEMMA PurgeFades ==
  ASSUME RevisionsInv, Purged
  PROVE  /\ \A v \in Versions : Fades(v) /\ versions'[v].file # "ready" /\ versions'[v].model = None
         /\ doc'.state = "deleted" /\ doc'.current = doc.current /\ ~Leased'
<1> USE Parts
<1>1. doc'.state = "deleted" /\ doc'.current = doc.current /\ ~Leased'
  BY Types DEF Typed, DocType, Purged, Leased, NoLease
<1>2. ASSUME NEW v \in Versions
      PROVE  Fades(v) /\ versions'[v].file # "ready" /\ versions'[v].model = None
  <2>1. PICK o : o = versions[v]
    OBVIOUS
  <2>2. o \in VersionType
    BY <2>1, Types DEF Typed
  <2>3. versions'[v] = [o EXCEPT !.model = None, !.file = IF @ = "ready" THEN "pending" ELSE @]
    BY <2>1 DEF Purged
  <2>4. /\ versions'[v].bytes = o.bytes /\ versions'[v].parent = o.parent
        /\ versions'[v].origin = o.origin /\ versions'[v].by = o.by
        /\ versions'[v].model = None
        /\ versions'[v].file = IF o.file = "ready" THEN "pending" ELSE o.file
    BY <2>2, <2>3 DEF VersionType
  <2>5. o.file = "none" => o = NoVersion
    BY <2>1 DEF RevisionsAreNumbered, Exists
  <2>6. o.file = "none" => versions'[v] = o
    <3> HAVE o.file = "none"
    <3>1. o.model = None /\ o.file # "ready"
      BY <2>5 DEF NoVersion
    <3>2. [o EXCEPT !.model = None, !.file = o.file] = o
      BY <2>2, <3>1 DEF VersionType
    <3> QED
      BY <2>3, <3>1, <3>2
  <2> QED
    BY <2>1, <2>4, <2>6 DEF Fades
<1> QED
  BY <1>1, <1>2

LEMMA PurgeKeepsInv ==
  ASSUME RevisionsInv, TypeOK', Purged, doc.state # "absent", UNCHANGED <<issued, generation, ops>>
  PROVE  RevisionsInv'
<1>1. CurrentIsIntact' /\ LeaseIsCurrent' /\ DeletedIsGone'
  BY PurgeFades DEF CurrentIsIntact, LeaseIsCurrent, DeletedIsGone
<1> QED
  BY <1>1, PurgeFades, FadingKeepsInv

(* One file goes, of a revision that is not in the way. *)
LEMMA FileKeepsInv ==
  ASSUME RevisionsInv, TypeOK', UNCHANGED <<doc, issued, generation, ops, lease>>,
         NEW v \in Versions, Fades(v),
         \A w \in Versions \ {v} : versions'[w] = versions[w],
         versions[v].file # "ready" \/ (v # 1 /\ v # doc.current),
         versions'[v].file # "ready",
         versions'[v].model \in {versions[v].model, None}
  PROVE  RevisionsInv'
<1> USE Parts
<1>1. \A w \in Versions : Fades(w)
  BY DEF Fades
<1>2. CurrentIsIntact'
  BY DEF CurrentIsIntact, Ready
<1>3. LeaseIsCurrent' /\ DeletedIsGone'
  BY DEF LeaseIsCurrent, DeletedIsGone, Leased, IsActive
<1> QED
  BY <1>1, <1>2, <1>3, FadingKeepsInv
-----------------------------------------------------------------------------
(* The first revision. *)
LEMMA UploadKeepsInv ==
  ASSUME RevisionsInv, TypeOK', NEW e \in Editors, Upload(e)
  PROVE  RevisionsInv'
<1> USE Parts, Distinct
<1>1. /\ doc.state = "absent" /\ doc'.state = "active" /\ doc'.current = 1
      /\ UNCHANGED <<lease, issued, generation, ops>>
  BY Types DEF Typed, DocType, Upload, access, RevisionsAreNumbered
<1>2. /\ versions'[1] = First
      /\ \A v \in Versions \ {1} : versions'[v] = NoVersion
  BY <1>1, Types DEF Typed, Upload, RevisionsAreNumbered
<1>3. /\ First.file = "ready" /\ First.bytes = Original /\ First.model = Original
      /\ First.parent = 0 /\ First.origin = 0 /\ First.by = 0
      /\ NoVersion.file = "none" /\ NoVersion.bytes = None /\ NoVersion.origin = 0
      /\ NoVersion.by = 0
  BY DEF First, NoVersion
<1>4. Original # None /\ generation \in Nat
  BY Types DEF Contents, Typed, Generations
<1>5. \A v \in Versions : Exists(v)' <=> v = 1
  BY <1>2, <1>3 DEF Exists
<1>6. CurrentIsIntact' /\ DeletedIsGone' /\ LeaseIsCurrent'
  BY <1>1, <1>2, <1>3, <1>4
     DEF CurrentIsIntact, DeletedIsGone, Ready, LeaseIsCurrent, Leased, IsActive
<1>7. PairsAreExact' /\ HistoryIsLinear'
  BY <1>2, <1>3, <1>5 DEF PairsAreExact, HistoryIsLinear
<1>8. RevisionsAreNumbered'
  <2>1. \A v \in Versions : IF Exists(v)' THEN versions'[v].bytes # None
                                          ELSE versions'[v] = NoVersion
    BY <1>2, <1>3, <1>4, <1>5
  <2>2. \A v \in 1..1 : Exists(v)'
    BY <1>5
  <2> QED
    BY <1>1, <2>1, <2>2 DEF RevisionsAreNumbered
<1>9. GenerationsAreOrdered'
  <2>1. \A v \in Versions : versions'[v].by = 0
    BY <1>2, <1>3
  <2>2. generation >= 0
    BY <1>4
  <2>3. \A g \in Generations : issued'[g] # None => g <= generation'
    BY <1>1 DEF GenerationsAreOrdered
  <2> QED
    BY <1>1, <2>1, <2>2, <2>3 DEF GenerationsAreOrdered
<1>10. AuthoredOnce'
  BY <1>2, <1>3 DEF AuthoredOnce, Contents
<1>11. \A k \in Keys : ops[k].pc = "none"
  BY <1>1 DEF OpInv, RevisionsAreNumbered, Exists
<1>12. ASSUME NEW k \in Keys PROVE OpInv(k)'
  BY <1>1, <1>11 DEF OpInv
<1> QED
  BY <1>6, <1>7, <1>8, <1>9, <1>10, <1>12 DEF RevisionsInv

(* What a commit does: the revision follows the current one, under the last *)
(* generation given out, and has the bytes the operation prepared.          *)
LEMMA Committed ==
  ASSUME RevisionsInv, NEW k \in Keys, Commit(k)
  PROVE  \E v \in Versions, n \in VersionType :
           /\ v = doc.current + 1 /\ v \in Versions /\ ~Exists(v) /\ IsActive
           /\ versions'[v] = n /\ \A w \in Versions \ {v} : versions'[w] = versions[w]
           /\ n.file = "ready" /\ n.model = n.bytes /\ n.parent = doc.current
           /\ n.origin = ops[k].selected /\ n.by = generation
           /\ n.bytes = IF ops[k].kind = "save" THEN k ELSE versions[ops[k].selected].bytes
           /\ ops[k].kind = "save" => ops[k].selected = 0
           /\ ops[k].kind # "save" => Ready(ops[k].selected)
           /\ doc'.current = v /\ doc'.state = "active"
           /\ lease'.source = v /\ lease'.editor = lease.editor /\ lease'.id = lease.id
           /\ lease'.live = lease.live
           /\ lease.editor = ops[k].editor /\ Live
           /\ ops[k].kind \in {"save", "restore"} /\ ops[k].pc = "prepared"
           /\ ops'[k].kind = ops[k].kind /\ ops'[k].pc = "committed"
           /\ ops'[k].editor = ops[k].editor /\ ops'[k].id = ops[k].id
           /\ ops'[k].source = ops[k].source /\ ops'[k].selected = ops[k].selected
           /\ \A j \in Keys \ {k} : ops'[j] = ops[j]
           /\ UNCHANGED <<issued, generation, sessions, upkeep>>
<1> USE Parts
<1>1. PICK v : v = ops[k].source + 1 /\ v \in Versions /\ versions[v].file = "none"
  BY DEF Commit, Publish
<1>2. PICK n : n = Revision(k)
  OBVIOUS
<1>3. /\ versions' = [versions EXCEPT ![v] = n]
      /\ doc' = [doc EXCEPT !.current = v]
      /\ lease' = [lease EXCEPT !.source = v]
      /\ ops' = [ops EXCEPT ![k].pc = "committed"]
      /\ UNCHANGED <<issued, generation, sessions, upkeep>>
  BY <1>1, <1>2 DEF Commit, Publish
<1>4. /\ ops[k].pc = "prepared" /\ ops[k].kind # "copy" /\ Holds(k)
      /\ ops[k].kind = "restore" => Ready(ops[k].selected)
  BY DEF Commit
<1>5. /\ IsActive /\ doc.current = ops[k].source
      /\ lease.editor = ops[k].editor /\ lease.id = ops[k].id /\ lease.live
      /\ Authenticated(ops[k].editor)
  BY <1>4 DEF Holds
<1>6. /\ ops[k].kind \in {"save", "restore"} /\ ops[k].editor # None
      /\ ops[k].bytes = ops[k].model
      /\ ops[k].model = IF ops[k].kind = "save" THEN k ELSE versions[From(k)].bytes
      /\ ops[k].kind = "save" => ops[k].selected = 0
  BY <1>4, Types DEF Typed, OpType, OpInv
<1>7. /\ n.file = "ready" /\ n.model = ops[k].model /\ n.bytes = ops[k].bytes
      /\ n.parent = ops[k].source /\ n.origin = ops[k].selected /\ n.by = ops[k].id
  BY <1>2 DEF Revision
<1>8. n \in VersionType
  BY <1>2, Types DEF Typed, OpType, Revision, VersionType
<1>9. lease.id = generation
  BY <1>5, <1>6 DEF LeaseIsCurrent, Leased
<1>10. versions'[v] = n /\ \A w \in Versions \ {v} : versions'[w] = versions[w]
  BY <1>1, <1>3, Types DEF Typed
<1>11. doc'.current = v /\ doc'.state = "active"
  BY <1>3, <1>5, Types DEF Typed, DocType, IsActive
<1>12. /\ lease'.source = v /\ lease'.editor = lease.editor /\ lease'.id = lease.id
       /\ lease'.live = lease.live
  BY <1>3, Types DEF Typed, LeaseType
<1>13. /\ ops'[k].kind = ops[k].kind /\ ops'[k].pc = "committed"
       /\ ops'[k].editor = ops[k].editor /\ ops'[k].id = ops[k].id
       /\ ops'[k].source = ops[k].source /\ ops'[k].selected = ops[k].selected
       /\ \A j \in Keys \ {k} : ops'[j] = ops[j]
  BY <1>3, Types DEF Typed, OpType
<1>14. ~Exists(v) /\ Live
  BY <1>1, <1>5, <1>6 DEF Exists, Live
<1>15. n.bytes = IF ops[k].kind = "save" THEN k ELSE versions[ops[k].selected].bytes
  BY <1>6, <1>7 DEF From
<1>16. /\ v = doc.current + 1 /\ n.parent = doc.current /\ n.by = generation
       /\ n.model = n.bytes /\ n.origin = ops[k].selected
       /\ ops[k].kind # "save" => Ready(ops[k].selected)
  BY <1>1, <1>4, <1>5, <1>6, <1>7, <1>9
<1>17. WITNESS v \in Versions, n \in VersionType
<1> QED
  BY <1>1, <1>3, <1>4, <1>5, <1>6, <1>7, <1>10, <1>11, <1>12, <1>13, <1>14, <1>15, <1>16

LEMMA CommitKeepsInv ==
  ASSUME RevisionsInv, TypeOK', NEW k \in Keys, Commit(k)
  PROVE  RevisionsInv'
<1> USE Parts, Distinct
<1>1. PICK v \in Versions, n \in VersionType :
        /\ v = doc.current + 1 /\ v \in Versions /\ ~Exists(v) /\ IsActive
        /\ versions'[v] = n /\ \A w \in Versions \ {v} : versions'[w] = versions[w]
        /\ n.file = "ready" /\ n.model = n.bytes /\ n.parent = doc.current
        /\ n.origin = ops[k].selected /\ n.by = generation
        /\ n.bytes = IF ops[k].kind = "save" THEN k ELSE versions[ops[k].selected].bytes
        /\ ops[k].kind = "save" => ops[k].selected = 0
        /\ ops[k].kind # "save" => Ready(ops[k].selected)
        /\ doc'.current = v /\ doc'.state = "active"
        /\ lease'.source = v /\ lease'.editor = lease.editor /\ lease'.id = lease.id
        /\ ops[k].kind \in {"save", "restore"} /\ ops[k].pc = "prepared"
        /\ ops'[k].kind = ops[k].kind /\ ops'[k].pc = "committed"
        /\ ops'[k].editor = ops[k].editor /\ ops'[k].id = ops[k].id
        /\ ops'[k].source = ops[k].source /\ ops'[k].selected = ops[k].selected
        /\ \A j \in Keys \ {k} : ops'[j] = ops[j]
        /\ UNCHANGED <<issued, generation>>
  BY Committed
<1>2. doc.current \in Versions /\ generation \in Nat
  BY Types DEF Typed, DocType, Generations
<1>3. v # 1 /\ v # doc.current /\ v \in Nat
  BY <1>1, <1>2 DEF Versions
<1>4. \A w : Exists(w)' <=> Exists(w) \/ w = v
  BY <1>1 DEF Exists
<1>5. \A w \in Versions : Exists(w) => w # v /\ w < v
  BY <1>1, <1>2 DEF HistoryIsLinear, Versions
<1>6. ops[k].kind # "save" => Exists(ops[k].selected) /\ ops[k].selected \in Versions
  BY <1>1 DEF Ready, Exists
<1>7. n.bytes # None
  BY <1>1, <1>6 DEF RevisionsAreNumbered, Contents
<1>8. CurrentIsIntact'
  BY <1>1, <1>3, <1>7 DEF CurrentIsIntact, Ready, IsActive
<1>9. PairsAreExact'
  <2> SUFFICES ASSUME NEW w \in Versions
               PROVE  /\ versions'[w].file = "ready" => versions'[w].model = versions'[w].bytes
                      /\ versions'[w].origin # 0 =>
                           /\ versions'[w].origin < w
                           /\ versions'[w].bytes = versions'[versions'[w].origin].bytes
    BY DEF PairsAreExact
  <2>1. CASE w = v
    <3>1. CASE ops[k].kind = "save"
      BY <1>1, <2>1, <3>1
    <3>2. CASE ops[k].kind # "save"
      <4>1. ops[k].selected \in Versions /\ ops[k].selected # v /\ ops[k].selected < v
        BY <1>5, <1>6, <3>2
      <4>2. versions'[ops[k].selected] = versions[ops[k].selected]
        BY <1>1, <4>1
      <4>3. n.bytes = versions[ops[k].selected].bytes
        BY <1>1, <3>2
      <4> QED
        BY <1>1, <2>1, <4>1, <4>2, <4>3
    <3> QED
      BY <3>1, <3>2
  <2>2. CASE w # v
    <3>1. versions'[w] = versions[w]
      BY <1>1, <2>2
    <3>2. CASE ~Exists(w)
      <4>1. versions[w] = NoVersion
        BY <3>2 DEF RevisionsAreNumbered
      <4>2. NoVersion.file = "none" /\ NoVersion.origin = 0
        BY DEF NoVersion
      <4> QED
        BY <3>1, <4>1, <4>2
    <3>3. CASE Exists(w)
      <4>1. versions[w].origin \in Versions \cup {0}
        BY Types DEF Typed, VersionType, Numbers
      <4>2. versions[w].origin # 0 => versions[w].origin < w /\ w < v
        BY <1>5, <3>3 DEF PairsAreExact
      <4>3. versions[w].origin # 0 => versions[w].origin # v
        BY <4>2 DEF Versions
      <4>4. versions[w].origin # 0 =>
              versions'[versions[w].origin] = versions[versions[w].origin]
        BY <1>1, <4>1, <4>3
      <4> QED
        BY <3>1, <4>4 DEF PairsAreExact
    <3> QED
      BY <3>2, <3>3
  <2> QED
    BY <2>1, <2>2
<1>10. HistoryIsLinear'
  <2> SUFFICES ASSUME NEW w \in Versions \ {1}, Exists(w)'
               PROVE  /\ w <= doc'.current
                      /\ versions'[w].parent = w - 1 /\ Exists(w - 1)'
                      /\ versions'[w].by >= versions'[w - 1].by
    BY DEF HistoryIsLinear
  <2>1. CASE w = v
    <3>1. w - 1 = doc.current /\ versions'[w - 1] = versions[w - 1]
      <4>1. w - 1 = doc.current
        BY <1>1, <1>2, <2>1 DEF Versions
      <4> QED
        BY <1>1, <1>2, <1>3, <4>1
    <3>2. Exists(doc.current) /\ versions[doc.current].by <= generation
      BY <1>1, <1>2 DEF CurrentIsIntact, IsActive, Ready, Exists, GenerationsAreOrdered
    <3>3. versions[doc.current].by \in Nat
      <4>1. versions[doc.current].by \in Generations \cup {0}
        BY <1>2, Types DEF Typed, VersionType
      <4> QED
        BY <4>1 DEF Generations
    <3> QED
      BY <1>1, <1>2, <1>3, <1>4, <2>1, <3>1, <3>2, <3>3
  <2>2. CASE w # v
    <3>1. Exists(w) /\ w < v /\ versions'[w] = versions[w]
      BY <1>1, <1>4, <1>5, <2>2
    <3>2. w \in Nat /\ w - 1 # v
      BY <3>1 DEF Versions
    <3>3. /\ Exists(w - 1) /\ versions[w].parent = w - 1
          /\ versions[w].by >= versions[w - 1].by
      BY <3>1 DEF HistoryIsLinear
    <3>4. versions'[w - 1] = versions[w - 1]
      BY <1>1, <3>2, <3>3 DEF Exists
    <3> QED
      BY <1>1, <1>3, <1>4, <3>1, <3>2, <3>3, <3>4
  <2> QED
    BY <2>1, <2>2
<1>11. LeaseIsCurrent' /\ DeletedIsGone'
  BY <1>1 DEF LeaseIsCurrent, DeletedIsGone, Leased, IsActive
<1>12. RevisionsAreNumbered'
  <2>1. \A w \in Versions : IF Exists(w)' THEN versions'[w].bytes # None
                                          ELSE versions'[w] = NoVersion
    BY <1>1, <1>4, <1>7 DEF RevisionsAreNumbered
  <2>2. \A w \in 1..v : Exists(w)'
    <3>1. \A w \in 1..doc.current : Exists(w)
      BY <1>1 DEF RevisionsAreNumbered, IsActive
    <3>2. \A w \in 1..v : w = v \/ w \in 1..doc.current
      BY <1>1, <1>2 DEF Versions
    <3> QED
      BY <1>4, <3>1, <3>2
  <2> QED
    BY <1>1, <2>1, <2>2 DEF RevisionsAreNumbered
<1>13. GenerationsAreOrdered'
  BY <1>1, <1>2 DEF GenerationsAreOrdered
<1>14. AuthoredOnce'
  <2> SUFFICES ASSUME NEW w \in Versions, NEW j \in Keys, versions'[w].bytes = j
               PROVE  ops'[j].kind = "save" /\ ops'[j].pc = "committed"
    BY DEF AuthoredOnce
  <2>1. CASE w = v /\ ops[k].kind = "save"
    BY <1>1, <2>1
  <2>2. CASE w = v /\ ops[k].kind # "save"
    <3>1. versions[ops[k].selected].bytes = j
      BY <1>1, <2>2
    <3>2. ops[j].kind = "save" /\ ops[j].pc = "committed"
      BY <1>6, <2>2, <3>1 DEF AuthoredOnce
    <3>3. ops'[j] = ops[j]
      BY <1>1, <3>2
    <3> QED
      BY <3>2, <3>3
  <2>3. CASE w # v
    BY <1>1, <2>3 DEF AuthoredOnce
  <2> QED
    BY <2>1, <2>2, <2>3
<1>15. ASSUME NEW j \in Keys PROVE OpInv(j)'
  <2>1. CASE j = k
    BY <1>1, <1>4, <2>1 DEF OpInv
  <2>2. CASE j # k
    <3>1. ops'[j] = ops[j] /\ From(j)' = From(j)
      BY <1>1, <2>2 DEF From
    <3>2. ops[j].pc # "none" => versions'[From(j)] = versions[From(j)]
      BY <1>1, Origins
    <3> QED
      BY <1>1, <1>4, <3>1, <3>2 DEF OpInv
  <2> QED
    BY <2>1, <2>2
<1> QED
  BY <1>8, <1>9, <1>10, <1>11, <1>12, <1>13, <1>14, <1>15 DEF RevisionsInv

(* What pruning does to one revision. *)
LEMMA PrunedOne ==
  ASSUME RevisionsInv, NEW v \in Versions, PruneOne(v), keep # None, v \in Candidates(keep)
  PROVE  /\ IsActive /\ Ready(v) /\ v # 1 /\ v # doc.current /\ Fades(v)
         /\ keep \in Nat /\ v <= doc.current - keep
         /\ versions'[v].file = "pending" /\ versions'[v].model = None
         /\ \A w \in Versions \ {v} : versions'[w] = versions[w]
         /\ UNCHANGED <<doc, access, ops, keep, listed>>
<1> USE Parts
<1>1. PICK o : o = versions[v]
  OBVIOUS
<1>2. o \in VersionType
  BY <1>1, Types DEF Typed
<1>3. /\ versions' = [versions EXCEPT ![v].file = "pending", ![v].model = None]
      /\ UNCHANGED <<doc, access, ops, keep, listed>>
  BY DEF PruneOne
<1>4. /\ versions'[v] = [o EXCEPT !.file = "pending", !.model = None]
      /\ \A w \in Versions \ {v} : versions'[w] = versions[w]
  BY <1>1, <1>3, Types DEF Typed
<1>5. IsActive /\ Ready(v) /\ v > 1 /\ v # doc.current /\ v <= doc.current - keep
  BY DEF Candidates
<1>6. keep \in Nat /\ v # 1
  BY <1>5, Distinct, Types DEF Typed
<1>7. /\ versions'[v].bytes = o.bytes /\ versions'[v].parent = o.parent
      /\ versions'[v].origin = o.origin /\ versions'[v].by = o.by
      /\ versions'[v].file = "pending" /\ versions'[v].model = None
  BY <1>2, <1>4 DEF VersionType
<1>8. Fades(v)
  BY <1>1, <1>5, <1>7 DEF Fades, Ready
<1> QED
  BY <1>3, <1>4, <1>5, <1>6, <1>7, <1>8

LEMMA RemovedFile ==
  ASSUME RevisionsInv, NEW v \in Versions, FileRemoved(v)
  PROVE  /\ versions[v].file = "pending" /\ versions'[v].file = "deleted" /\ Fades(v)
         /\ versions'[v].model = versions[v].model
         /\ \A w \in Versions \ {v} : versions'[w] = versions[w]
         /\ UNCHANGED <<doc, access, ops, upkeep>>
<1> USE Parts
<1>1. PICK o : o = versions[v]
  OBVIOUS
<1>2. o \in VersionType
  BY <1>1, Types DEF Typed
<1>3. /\ o.file = "pending" /\ versions'[v] = [o EXCEPT !.file = "deleted"]
      /\ \A w \in Versions \ {v} : versions'[w] = versions[w]
      /\ UNCHANGED <<doc, access, ops, upkeep>>
  BY <1>1, Types DEF Typed, FileRemoved
<1>4. /\ versions'[v].bytes = o.bytes /\ versions'[v].parent = o.parent
      /\ versions'[v].origin = o.origin /\ versions'[v].by = o.by
      /\ versions'[v].file = "deleted" /\ versions'[v].model = o.model
  BY <1>2, <1>3 DEF VersionType
<1> QED
  BY <1>1, <1>3, <1>4 DEF Fades

LEMMA OwnerKeepsInv ==
  ASSUME RevisionsInv, TypeOK', Owner PROVE RevisionsInv'
<1> USE Parts, Distinct
<1>1. ASSUME NEW e \in Editors, Trash(e) PROVE RevisionsInv'
  <2>1. /\ doc'.state = "trashed" /\ doc'.current = doc.current /\ ~Leased'
        /\ doc.state = "active" /\ UNCHANGED <<versions, issued, generation, ops>>
    BY <1>1, Types DEF Typed, DocType, Trash, IsActive, Leased, NoLease
  <2> QED
    BY <2>1, TrashKeepsInv
<1>2. ASSUME NEW e \in Editors, Untrash(e) PROVE RevisionsInv'
  <2>1. /\ doc'.state = "active" /\ doc'.current = doc.current /\ doc.state = "trashed"
        /\ UNCHANGED <<versions, issued, generation, ops, lease>>
    BY <1>2, Types DEF Typed, DocType, Untrash, access
  <2>2. ~Leased'
    BY <2>1 DEF LeaseIsCurrent, Leased, IsActive
  <2> QED
    BY <2>1, <2>2, TrashKeepsInv
<1>3. ASSUME NEW e \in Editors, Empty(e) PROVE RevisionsInv'
  <2>1. /\ doc'.state = "trashed" /\ doc'.current = doc.current /\ doc.state = "trashed"
        /\ UNCHANGED <<versions, issued, generation, ops, lease>>
    BY <1>3, Types DEF Typed, DocType, Empty, access
  <2>2. ~Leased'
    BY <2>1 DEF LeaseIsCurrent, Leased, IsActive
  <2> QED
    BY <2>1, <2>2, TrashKeepsInv
<1>4. ASSUME NEW e \in Editors, Remove(e) PROVE RevisionsInv'
  BY <1>4, PurgeKeepsInv DEF Remove
<1> QED
  BY <1>1, <1>2, <1>3, <1>4, UploadKeepsInv, BeginKeepsInv DEF Owner

LEMMA UpkeepStepKeepsInv ==
  ASSUME RevisionsInv, TypeOK', Upkeep PROVE RevisionsInv'
<1> USE Parts
<1>1. CASE DeadlinePasses
  <2>1. /\ doc'.state = "trashed" /\ doc'.current = doc.current /\ doc.state = "trashed"
        /\ UNCHANGED <<versions, issued, generation, ops, lease>>
    BY <1>1, Types DEF Typed, DocType, DeadlinePasses, access
  <2>2. ~Leased'
    BY <2>1 DEF LeaseIsCurrent, Leased, IsActive
  <2> QED
    BY <2>1, <2>2, TrashKeepsInv
<1>2. CASE ListExpired \/ ExpiryStops \/ PruneList \/ PruneStops
  BY <1>2, UpkeepKeepsInv DEF ListExpired, ExpiryStops, PruneList, PruneStops
<1>3. ASSUME NEW n \in Policies \cup {None}, Configure(n) PROVE RevisionsInv'
  BY <1>3, UpkeepKeepsInv DEF Configure
<1>4. CASE PurgeExpired
  <2>1. CASE UNCHANGED <<doc, versions, lease>>
    BY <1>4, <2>1, UpkeepKeepsInv DEF PurgeExpired, access
  <2>2. CASE doc.state = "trashed" /\ Purged
    BY <1>4, <2>2, PurgeKeepsInv DEF PurgeExpired
  <2> QED
    BY <1>4, <2>1, <2>2 DEF PurgeExpired
<1>5. ASSUME NEW v \in Versions, FileRemoved(v) PROVE RevisionsInv'
  BY <1>5, RemovedFile, FileKeepsInv DEF access
<1>6. ASSUME NEW v \in Versions, PruneOne(v) PROVE RevisionsInv'
  <2>1. CASE keep # None /\ v \in Candidates(keep)
    <3>1. versions[v].file # "ready" \/ (v # 1 /\ v # doc.current)
      BY <1>6, <2>1, PrunedOne
    <3>2. versions'[v].file # "ready" /\ versions'[v].model = None
      BY <1>6, <2>1, PrunedOne
    <3>3. /\ Fades(v) /\ \A w \in Versions \ {v} : versions'[w] = versions[w]
          /\ UNCHANGED <<doc, issued, generation, ops, lease>>
      BY <1>6, <2>1, PrunedOne DEF access
    <3> QED
      BY <3>1, <3>2, <3>3, FileKeepsInv
  <2>2. CASE ~(keep # None /\ v \in Candidates(keep))
    BY <1>6, <2>2, UpkeepKeepsInv DEF PruneOne
  <2> QED
    BY <2>1, <2>2
<1> QED
  BY <1>1, <1>2, <1>3, <1>4, <1>5, <1>6 DEF Upkeep, Expiry

LEMMA NextKeepsInv ==
  ASSUME RevisionsInv, [Next]_vars PROVE RevisionsInv'
<1>1. TypeOK'
  BY Parts, TypesArePreserved
<1>2. CASE UNCHANGED vars
  BY <1>1, <1>2, UpkeepKeepsInv DEF vars
<1>3. ASSUME NEW k \in Keys, Work(k) PROVE RevisionsInv'
  BY <1>1, <1>3, PreparationKeepsInv, CommitKeepsInv DEF Work
<1> QED
  BY <1>1, <1>2, <1>3, LeaseKeepsInv, OwnerKeepsInv, UpkeepStepKeepsInv DEF Next

(* The invariant holds in every behaviour. *)
THEOREM RevisionsInvariant == Spec => []RevisionsInv
<1>1. Init => RevisionsInv
  BY Initially
<1>2. RevisionsInv /\ [Next]_vars => RevisionsInv'
  BY NextKeepsInv
<1> QED
  BY <1>1, <1>2, PTL DEF Spec

-----------------------------------------------------------------------------
(* What follows for every state. *)

(* Every variable keeps its type. *)
THEOREM TypeCorrect == Spec => []TypeOK
<1>1. RevisionsInv => TypeOK
  BY DEF RevisionsInv
<1> QED
  BY <1>1, RevisionsInvariant, PTL

(* What is in use or in the trash has its current and its original file.    *)
THEOREM CurrentStaysIntact == Spec => []CurrentIsIntact
<1>1. RevisionsInv => CurrentIsIntact
  BY DEF RevisionsInv
<1> QED
  BY <1>1, RevisionsInvariant, PTL

(* Bytes and model belong together, restored revisions repeat exactly.      *)
THEOREM PairsStayExact == Spec => []PairsAreExact
<1>1. RevisionsInv => PairsAreExact
  BY DEF RevisionsInv
<1> QED
  BY <1>1, RevisionsInvariant, PTL

(* The history is linear, and generations never go back along it.           *)
THEOREM HistoryStaysLinear == Spec => []HistoryIsLinear
<1>1. RevisionsInv => HistoryIsLinear
  BY DEF RevisionsInv
<1> QED
  BY <1>1, RevisionsInvariant, PTL

(* A lease is of an active document, its current revision and the last      *)
(* generation.                                                              *)
THEOREM LeaseStaysCurrent == Spec => []LeaseIsCurrent
<1>1. RevisionsInv => LeaseIsCurrent
  BY DEF RevisionsInv
<1> QED
  BY <1>1, RevisionsInvariant, PTL

(* Nothing of a deleted document can be read or edited.                     *)
THEOREM DeletedStaysGone == Spec => []DeletedIsGone
<1>1. RevisionsInv => DeletedIsGone
  BY DEF RevisionsInv
<1> QED
  BY <1>1, RevisionsInvariant, PTL

-----------------------------------------------------------------------------
(* What follows for every step. *)

(* The steps that change revisions. *)
LEMMA VersionSteps ==
  ASSUME RevisionsInv, [Next]_vars
  PROVE  \/ UNCHANGED versions /\ doc'.current = doc.current
         \/ \E e \in Editors : Upload(e)
         \/ \E k \in Keys : Commit(k)
         \/ Purged
         \/ \E v \in Versions : FileRemoved(v)
         \/ \E v \in Versions : PruneOne(v) /\ keep # None /\ v \in Candidates(keep)
<1> DEFINE Still == UNCHANGED versions /\ doc'.current = doc.current
<1> USE Parts
<1>1. CASE UNCHANGED vars
  BY <1>1 DEF vars
<1>2. CASE Lease
  BY <1>2 DEF Lease, LeaseExpires, EndSession, Acquire, Renew, Release
<1>3. ASSUME NEW k \in Keys, Work(k), ~Commit(k) PROVE Still
  BY <1>3 DEF Work, Check, ReadRow, ReadBytes, CommitCopy, Abort
<1>4. ASSUME NEW e \in Editors, Trash(e) \/ Untrash(e) \/ Empty(e) PROVE Still
  BY <1>4, Types DEF Typed, DocType, Trash, Untrash, Empty
<1>5. ASSUME NEW k \in Keys, NEW r \in Request, Begin(k, r) PROVE Still
  BY <1>5 DEF Begin
<1>6. ASSUME NEW e \in Editors, Remove(e) PROVE Purged
  BY <1>6 DEF Remove
<1>7. CASE DeadlinePasses
  BY <1>7, Types DEF Typed, DocType, DeadlinePasses
<1>8. CASE ListExpired \/ ExpiryStops \/ PruneList \/ PruneStops
  BY <1>8 DEF ListExpired, ExpiryStops, PruneList, PruneStops
<1>9. ASSUME NEW n \in Policies \cup {None}, Configure(n) PROVE Still
  BY <1>9 DEF Configure
<1>10. CASE PurgeExpired
  BY <1>10 DEF PurgeExpired
<1>11. ASSUME NEW v \in Versions, PruneOne(v), ~(keep # None /\ v \in Candidates(keep)) PROVE Still
  BY <1>11 DEF PruneOne
<1> QED
  BY <1>1, <1>2, <1>3, <1>4, <1>5, <1>6, <1>7, <1>8, <1>9, <1>10, <1>11
     DEF Next, Owner, Upkeep, Expiry

(* The steps that change the lease. *)
LEMMA AccessSteps ==
  ASSUME [Next]_vars
  PROVE  \/ UNCHANGED <<lease, sessions>>
         \/ lease' = NoLease
         \/ Lease
         \/ \E k \in Keys : Commit(k)
<1> DEFINE Kept == UNCHANGED <<lease, sessions>> \/ lease' = NoLease
<1>1. CASE UNCHANGED vars
  BY <1>1 DEF vars, access
<1>2. ASSUME NEW k \in Keys, Work(k), ~Commit(k) PROVE Kept
  BY <1>2 DEF Work, Check, ReadRow, ReadBytes, CommitCopy, Abort, access
<1>3. CASE Owner
  BY <1>3 DEF Owner, Upload, Trash, Untrash, Empty, Remove, Begin, Purged, access
<1>4. CASE Upkeep
  BY <1>4 DEF Upkeep, Expiry, DeadlinePasses, ListExpired, PurgeExpired, ExpiryStops,
              FileRemoved, PruneOne, PruneList, PruneStops, Configure, Purged, access
<1> QED
  BY <1>1, <1>2, <1>3, <1>4 DEF Next

(* A revision is published only under the last generation given out.        *)
THEOREM NoLateCommit == Spec => NoCommitAfterHandover
<1>1. ASSUME RevisionsInv, [Next]_vars
      PROVE  doc'.current # doc.current => versions'[doc'.current].by = generation
  <2>1. CASE \E k \in Keys : Commit(k)
    BY <1>1, <2>1, Committed
  <2>2. ASSUME NEW e \in Editors, Upload(e) PROVE doc'.current = doc.current
    BY <1>1, <2>2, Types, Parts DEF Typed, DocType, Upload
  <2>3. CASE Purged
    BY <1>1, <2>3, PurgeFades
  <2>4. ASSUME NEW v \in Versions, FileRemoved(v) PROVE doc' = doc
    BY <2>4 DEF FileRemoved
  <2>5. ASSUME NEW v \in Versions, PruneOne(v) PROVE doc' = doc
    BY <2>5 DEF PruneOne
  <2> QED
    BY <1>1, <2>1, <2>2, <2>3, <2>4, <2>5, VersionSteps
<1>2. RevisionsInv /\ [Next]_vars =>
        [doc'.current # doc.current => versions'[doc'.current].by = generation]_vars
  BY <1>1
<1> QED
  BY <1>2, RevisionsInvariant, PTL DEF Spec, NoCommitAfterHandover

(* A lease that has lapsed is not revived.                                  *)
THEOREM NoRevival == Spec => LapsedStaysLapsed
<1>1. ASSUME RevisionsInv, [Next]_vars, Leased, ~Live, lease'.id = lease.id PROVE ~Live'
  <2> USE Parts, Distinct
  <2>1. CASE UNCHANGED <<lease, sessions>>
    BY <1>1, <2>1 DEF Live, Authenticated
  <2>2. CASE lease' = NoLease
    BY <2>2 DEF Live, NoLease
  <2>3. CASE \E k \in Keys : Commit(k)
    BY <1>1, <2>3, Committed
  <2>4. CASE Lease
    <3>1. ASSUME NEW e \in Editors, Acquire(e) PROVE FALSE
      <4>1. Granted(e)
        BY <1>1, <3>1 DEF Acquire
      <4>2. lease'.id = generation + 1 /\ lease.id = generation /\ generation \in Nat
        BY <1>1, <4>1, Types DEF Typed, Granted, LeaseIsCurrent, Generations
      <4>3. generation + 1 # generation
        BY <4>2
      <4> QED
        BY <1>1, <4>2, <4>3
    <3>2. ASSUME NEW e \in Editors, NEW g \in Generations, Renew(e, g) PROVE FALSE
      BY <1>1, <3>2 DEF Renew
    <3>3. ASSUME NEW e \in Editors, NEW g \in Generations, NEW s \in Versions, Release(e, g, s)
          PROVE ~Live'
      BY <3>3 DEF Release, Live, NoLease
    <3>4. ASSUME LeaseExpires PROVE ~Live'
      <4>1. lease'.live = FALSE
        BY <1>1, <3>4, Types DEF Typed, LeaseType, LeaseExpires
      <4> QED
        BY <4>1 DEF Live
    <3>5. ASSUME NEW s \in Sessions, EndSession(s) PROVE ~Live'
      BY <1>1, <3>5 DEF EndSession, Live, Authenticated
    <3> QED
      BY <2>4, <3>1, <3>2, <3>3, <3>4, <3>5 DEF Lease
  <2> QED
    BY <1>1, <2>1, <2>2, <2>3, <2>4, AccessSteps
<1>2. RevisionsInv /\ [Next]_vars =>
        [Leased /\ ~Live /\ lease'.id = lease.id => ~Live']_vars
  BY <1>1
<1> QED
  BY <1>2, RevisionsInvariant, PTL DEF Spec, LapsedStaysLapsed

(* A revision never changes; its file moves towards deletion, its model is  *)
(* cleared.                                                                 *)
THEOREM HistoryStaysImmutable == Spec => HistoryIsImmutable
<1> DEFINE Fixed(v) ==
      LET old == versions[v]
          new == versions'[v] IN
      /\ new.bytes = old.bytes /\ new.parent = old.parent
      /\ new.origin = old.origin /\ new.by = old.by
      /\ new.model \in {old.model, None}
      /\ old.file # new.file =>
           <<old.file, new.file>> \in {<<"ready", "pending">>, <<"pending", "deleted">>}
<1>1. ASSUME RevisionsInv, [Next]_vars, NEW v \in Versions, Exists(v) PROVE Fixed(v)
  <2> USE Parts
  <2>1. CASE versions'[v] = versions[v]
    BY <2>1
  <2>2. ASSUME NEW e \in Editors, Upload(e) PROVE FALSE
    BY <1>1, <2>2 DEF Upload, RevisionsAreNumbered
  <2>3. ASSUME NEW k \in Keys, Commit(k) PROVE versions'[v] = versions[v]
    BY <1>1, <2>3, Committed
  <2>4. CASE Purged
    <3>1. PICK o : o = versions[v]
      OBVIOUS
    <3>2. o \in VersionType
      BY <1>1, <3>1, Types DEF Typed
    <3>3. versions'[v] = [o EXCEPT !.model = None, !.file = IF @ = "ready" THEN "pending" ELSE @]
      BY <2>4, <3>1 DEF Purged
    <3> QED
      BY <3>1, <3>2, <3>3 DEF VersionType
  <2>5. ASSUME NEW w \in Versions, FileRemoved(w) PROVE Fixed(v)
    <3>1. w # v => versions'[v] = versions[v]
      BY <1>1, <2>5, RemovedFile
    <3>2. w = v => Fixed(v)
      BY <1>1, <2>5, RemovedFile DEF Fades
    <3> QED
      BY <2>1, <3>1, <3>2
  <2>6. ASSUME NEW w \in Versions, PruneOne(w), keep # None, w \in Candidates(keep) PROVE Fixed(v)
    <3>1. w # v => versions'[v] = versions[v]
      BY <1>1, <2>6, PrunedOne
    <3>2. w = v => Fixed(v)
      BY <1>1, <2>6, PrunedOne DEF Fades, Ready
    <3> QED
      BY <2>1, <3>1, <3>2
  <2> QED
    BY <1>1, <2>1, <2>2, <2>3, <2>4, <2>5, <2>6, VersionSteps
<1>2. RevisionsInv /\ [Next]_vars => [\A v \in Versions : Exists(v) => Fixed(v)]_vars
  BY <1>1
<1> QED
  BY <1>2, RevisionsInvariant, PTL DEF Spec, HistoryIsImmutable

(* Pruning takes only what the policy of that moment gives up.              *)
THEOREM PruningStaysPolicy == Spec => PruningObeysPolicy
<1>1. ASSUME RevisionsInv, [Next]_vars, NEW v \in Versions,
             Ready(v), versions'[v].file # "ready", doc'.state = "active"
      PROVE  keep # None /\ v # 1 /\ v + keep <= doc.current
  <2> USE Parts
  <2>1. CASE UNCHANGED versions
    BY <1>1, <2>1 DEF Ready
  <2>2. ASSUME NEW e \in Editors, Upload(e) PROVE FALSE
    BY <1>1, <2>2 DEF Upload, RevisionsAreNumbered, Exists, Ready
  <2>3. ASSUME NEW k \in Keys, Commit(k) PROVE versions'[v] = versions[v]
    BY <1>1, <2>3, Committed DEF Ready, Exists
  <2>4. CASE Purged
    BY <1>1, <2>4, PurgeFades
  <2>5. ASSUME NEW w \in Versions, FileRemoved(w) PROVE versions'[v] = versions[v]
    BY <1>1, <2>5, RemovedFile DEF Ready
  <2>6. ASSUME NEW w \in Versions, PruneOne(w), keep # None, w \in Candidates(keep)
        PROVE  v # 1 /\ v + keep <= doc.current
    <3>1. w = v
      BY <1>1, <2>6, PrunedOne DEF Ready
    <3>2. keep \in Nat /\ v # 1 /\ v <= doc.current - keep
      BY <1>1, <2>6, <3>1, PrunedOne
    <3>3. v \in Nat /\ doc.current \in Nat
      BY <1>1, Distinct, Types DEF Typed, DocType
    <3> QED
      BY <3>2, <3>3
  <2> QED
    BY <1>1, <2>1, <2>2, <2>3, <2>4, <2>5, <2>6, VersionSteps DEF Ready
<1>2. RevisionsInv /\ [Next]_vars =>
        [\A v \in Versions :
           Ready(v) /\ versions'[v].file # "ready" /\ doc'.state = "active" =>
             /\ keep # None
             /\ v # 1 /\ v + keep <= doc.current]_vars
  BY <1>1
<1> QED
  BY <1>2, RevisionsInvariant, PTL DEF Spec, PruningObeysPolicy

(* A copy appears only of what is current, with its bytes.                  *)
THEOREM CopiesAreCurrent == Spec => CopyIsCurrent
<1> DEFINE Exact(k) == /\ IsActive /\ ops[k].bytes = versions[doc.current].bytes
                       /\ ops[k].model = ops[k].bytes
<1>1. ASSUME RevisionsInv, [Next]_vars, NEW k \in Keys,
             ops[k].kind = "copy", ops[k].pc # "committed", ops'[k].pc = "committed"
      PROVE  Exact(k)
  <2> USE Parts
  <2>1. CASE CommitCopy(k)
    <3>1. /\ ops[k].pc = "prepared" /\ IsActive /\ doc.current = ops[k].source
          /\ From(k) = ops[k].source
      BY <1>1, <2>1 DEF CommitCopy, From
    <3>2. ops[k].bytes = ops[k].model /\ ops[k].model = versions[From(k)].bytes
      BY <1>1, <3>1 DEF OpInv
    <3> QED
      BY <3>1, <3>2
  <2>2. CASE UNCHANGED ops
    BY <1>1, <2>2
  <2>3. ASSUME NEW j \in Keys, Work(j), ~CommitCopy(j) \/ j # k PROVE FALSE
    <3>1. ops[k] \in OpType /\ ops \in [Keys -> OpType]
      BY <1>1, Types DEF Typed
    <3>2. CASE j # k
      <4>1. ops'[k] = ops[k]
        BY <2>3, <3>1, <3>2
           DEF Work, Check, ReadRow, ReadBytes, Commit, Publish, CommitCopy, Abort
      <4> QED
        BY <1>1, <4>1
    <3>3. CASE Check(k) \/ ReadRow(k) \/ ReadBytes(k) \/ Abort(k)
      BY <1>1, <3>1, <3>3 DEF Check, ReadRow, ReadBytes, Abort, OpType
    <3>4. CASE Commit(k)
      BY <1>1, <3>4 DEF Commit
    <3> QED
      BY <2>3, <3>2, <3>3, <3>4 DEF Work
  <2>4. CASE Lease
    BY <2>2, <2>4 DEF Lease, LeaseExpires, EndSession, Acquire, Renew, Release
  <2>5. CASE Owner
    <3>1. ASSUME NEW j \in Keys, NEW r \in Request, Begin(j, r) PROVE ops'[k].pc # "committed"
      <4>1. j # k => ops'[k] = ops[k]
        BY <1>1, <3>1, Types DEF Typed, Begin
      <4>2. j = k => ops'[k].pc \in {"begun", "checked"}
        BY <1>1, <3>1, Types DEF Typed, Begin
      <4> QED
        BY <1>1, <4>1, <4>2
    <3> QED
      BY <1>1, <2>2, <2>5, <3>1 DEF Owner, Upload, Trash, Untrash, Empty, Remove
  <2>6. CASE Upkeep
    BY <2>2, <2>6 DEF Upkeep, Expiry, DeadlinePasses, ListExpired, PurgeExpired, ExpiryStops,
                      FileRemoved, PruneOne, PruneList, PruneStops, Configure
  <2> QED
    BY <1>1, <2>1, <2>2, <2>3, <2>4, <2>5, <2>6 DEF Next, vars
<1>2. RevisionsInv /\ [Next]_vars =>
        [\A k \in Keys :
           ops[k].kind = "copy" /\ ops[k].pc # "committed" /\ ops'[k].pc = "committed"
             => Exact(k)]_vars
  BY <1>1
<1> QED
  BY <1>2, RevisionsInvariant, PTL DEF Spec, CopyIsCurrent

-----------------------------------------------------------------------------
(* The history implements the log. *)
Right == IF Live THEN lease.editor ELSE None

(* A step that changes neither the revisions nor the document maps to a     *)
(* stutter, a grant or a lapse.                                             *)
LEMMA LogView ==
  ASSUME doc'.state = doc.state, doc'.current = doc.current,
         \A v \in Versions : /\ versions'[v].bytes = versions[v].bytes
                             /\ versions'[v].file = "ready" <=> versions[v].file = "ready"
  PROVE  /\ Right' = Right => UNCHANGED Log!vars
         /\ Right' = None => Log!Lapse
         /\ \A e : IsActive /\ Right = None /\ Right' = e => Log!Grant(e)
BY DEF Log!vars, Log!Lapse, Log!Grant, Right, IsActive

LEMMA LeaseIsLogged ==
  ASSUME RevisionsInv, Lease PROVE [Log!Next]_Log!vars
<1> USE Parts, Distinct
<1>1. UNCHANGED <<doc, versions>>
  BY DEF Lease, LeaseExpires, EndSession, Acquire, Renew, Release
<1>2. /\ Right' = Right => UNCHANGED Log!vars
      /\ Right' = None => Log!Lapse
      /\ \A e : IsActive /\ Right = None /\ Right' = e => Log!Grant(e)
  BY <1>1, LogView
<1>3. Right' = Right \/ Right' = None => [Log!Next]_Log!vars
  BY <1>2 DEF Log!Next
<1>4. ASSUME NEW e \in Editors, Acquire(e) PROVE [Log!Next]_Log!vars
  <2>1. IsActive /\ Authenticated(e) /\ sessions' = sessions
    BY <1>4 DEF Acquire, Visible
  <2>2. CASE Live /\ lease' = [lease EXCEPT !.live = TRUE]
    <3>1. lease'.editor = lease.editor /\ lease'.live = TRUE
      BY <2>2, Types DEF Typed, LeaseType
    <3>2. Right' = Right
      BY <2>1, <2>2, <3>1 DEF Right, Live, Authenticated
    <3> QED
      BY <1>3, <3>2
  <2>3. CASE Granted(e) /\ (Live => lease.source # doc.current)
    <3>1. ~Live
      BY <2>3 DEF Live, LeaseIsCurrent, Leased
    <3>2. lease'.editor = e /\ lease'.live = TRUE
      BY <2>3 DEF Granted
    <3>3. Right = None /\ Right' = e
      BY <2>1, <3>1, <3>2 DEF Right, Live, Authenticated
    <3>4. Log!Grant(e)
      BY <1>2, <2>1, <3>3
    <3> QED
      BY <3>4 DEF Log!Next
  <2> QED
    BY <1>4, <2>2, <2>3 DEF Acquire
<1>5. ASSUME NEW e \in Editors, NEW g \in Generations, Renew(e, g) PROVE Right' = Right
  <2>1. lease'.editor = lease.editor /\ lease'.live = TRUE
    BY <1>5, Types DEF Typed, LeaseType, Renew
  <2> QED
    BY <1>5, <2>1 DEF Renew, Right, Live, Authenticated
<1>6. ASSUME NEW e \in Editors, NEW g \in Generations, NEW s \in Versions, Release(e, g, s)
      PROVE Right' = None
  BY <1>6 DEF Release, NoLease, Right, Live
<1>7. ASSUME LeaseExpires PROVE Right' = None
  <2>1. lease'.live = FALSE
    BY <1>7, Types DEF Typed, LeaseType, LeaseExpires
  <2> QED
    BY <2>1 DEF Right, Live
<1>8. ASSUME NEW s \in Sessions, EndSession(s) PROVE Right' = Right \/ Right' = None
  BY <1>8 DEF EndSession, Right, Live, Authenticated
<1> QED
  BY <1>3, <1>4, <1>5, <1>6, <1>7, <1>8 DEF Lease

LEMMA UploadIsLogged ==
  ASSUME RevisionsInv, NEW e \in Editors, Upload(e) PROVE Log!Create
<1> USE Parts, Distinct
<1>1. /\ doc.state = "absent" /\ doc'.state = "active" /\ doc'.current = 1
      /\ doc.current = 1 /\ UNCHANGED <<lease, sessions>>
  BY Types DEF Typed, DocType, Upload, access, RevisionsAreNumbered
<1>2. /\ versions'[1] = First /\ \A v \in Versions \ {1} : versions'[v] = versions[v]
      /\ \A v \in Versions : versions[v].file = "none"
  BY <1>1, Types DEF Typed, Upload, RevisionsAreNumbered, Exists
<1>3. First.file = "ready" /\ First.bytes = Original
  BY DEF First, NoVersion
<1>4. Right' = Right
  BY <1>1 DEF Right, Live, Authenticated
<1>5. [v \in Versions |-> versions'[v].bytes] =
        [[v \in Versions |-> versions[v].bytes] EXCEPT ![1] = Original]
  BY <1>2, <1>3
<1>6. {v \in Versions : versions'[v].file = "ready"} =
        {v \in Versions : versions[v].file = "ready"} \cup {1}
  BY <1>2, <1>3
<1> QED
  BY <1>1, <1>4, <1>5, <1>6 DEF Log!Create, Log!Extended, Right

LEMMA CommitIsLogged ==
  ASSUME RevisionsInv, NEW k \in Keys, Commit(k) PROVE Log!Next
<1>1. PICK v \in Versions, n \in VersionType :
        /\ v = doc.current + 1 /\ ~Exists(v) /\ IsActive
        /\ versions'[v] = n /\ \A w \in Versions \ {v} : versions'[w] = versions[w]
        /\ n.file = "ready"
        /\ n.bytes = IF ops[k].kind = "save" THEN k ELSE versions[ops[k].selected].bytes
        /\ ops[k].kind # "save" => Ready(ops[k].selected)
        /\ doc'.current = v /\ doc'.state = "active"
        /\ lease'.editor = lease.editor /\ lease'.live = lease.live
        /\ Live /\ ops[k].pc = "prepared"
        /\ UNCHANGED <<issued, generation, sessions, upkeep>>
  BY Committed
<1> USE Parts, Distinct
<1>2. Right = lease.editor /\ Right' = lease.editor /\ lease.editor \in Editors
  BY <1>1, Types DEF Typed, LeaseType, Right, Live, Authenticated
<1>3. n.bytes \in Contents
  <2>1. CASE ops[k].kind = "save"
    BY <1>1, <2>1 DEF Contents
  <2>2. CASE ops[k].kind # "save"
    <3>1. n.bytes = versions[ops[k].selected].bytes /\ n.bytes # None
      BY <1>1, <2>2 DEF Ready, Exists, RevisionsAreNumbered
    <3> QED
      BY <3>1 DEF VersionType
  <2> QED
    BY <2>1, <2>2
<1>4. \/ \A w \in Versions : versions[w].bytes # n.bytes
      \/ \E w \in {x \in Versions : versions[x].file = "ready"} : versions[w].bytes = n.bytes
  <2>1. CASE ops[k].kind = "save"
    BY <1>1, <2>1 DEF AuthoredOnce
  <2>2. CASE ops[k].kind # "save"
    BY <1>1, <2>2 DEF Ready
  <2> QED
    BY <2>1, <2>2
<1>5. [w \in Versions |-> versions'[w].bytes] =
        [[w \in Versions |-> versions[w].bytes] EXCEPT ![v] = n.bytes]
  BY <1>1
<1>6. {w \in Versions : versions'[w].file = "ready"} =
        {w \in Versions : versions[w].file = "ready"} \cup {v}
  BY <1>1
<1>7. Log!Extended(n.bytes)
  BY <1>1, <1>5, <1>6 DEF Log!Extended, IsActive
<1>8. Log!Append(lease.editor, n.bytes)
  BY <1>1, <1>2, <1>4, <1>7 DEF Log!Append, Right, IsActive
<1> QED
  BY <1>2, <1>3, <1>8 DEF Log!Next

LEMMA PurgeIsLogged ==
  ASSUME RevisionsInv, Purged, doc.state \in {"active", "trashed"} PROVE Log!Next
<1>1. /\ \A v \in Versions : versions'[v].file # "ready" /\ versions'[v].bytes = versions[v].bytes
      /\ doc'.state = "deleted" /\ doc'.current = doc.current /\ ~Leased'
  BY PurgeFades DEF Fades
<1>2. Right' = None
  BY <1>1 DEF Leased, Live, Right
<1>3. {v \in Versions : versions'[v].file = "ready"} = {}
  BY <1>1
<1>4. [v \in Versions |-> versions'[v].bytes] = [v \in Versions |-> versions[v].bytes]
  BY <1>1
<1>5. Log!Destroy
  BY <1>1, <1>2, <1>3, <1>4 DEF Log!Destroy, Right
<1> QED
  BY <1>5 DEF Log!Next

LEMMA OwnerIsLogged ==
  ASSUME RevisionsInv, Owner PROVE [Log!Next]_Log!vars
<1> USE Parts, Distinct
<1>1. ASSUME NEW e \in Editors, Upload(e) PROVE [Log!Next]_Log!vars
  BY <1>1, UploadIsLogged DEF Log!Next
<1>2. ASSUME NEW e \in Editors, Trash(e) PROVE Log!Hide
  <2>1. /\ doc.state = "active" /\ doc'.state = "trashed" /\ doc'.current = doc.current
        /\ versions' = versions /\ lease' = NoLease
    BY <1>2, Types DEF Typed, DocType, Trash, IsActive
  <2>2. Right' = None
    BY <2>1 DEF Right, Live, NoLease
  <2> QED
    BY <2>1, <2>2 DEF Log!Hide, Right
<1>3. ASSUME NEW e \in Editors, Untrash(e) PROVE Log!Show
  <2>1. /\ doc.state = "trashed" /\ doc'.state = "active" /\ doc'.current = doc.current
        /\ UNCHANGED <<versions, lease, sessions>>
    BY <1>3, Types DEF Typed, DocType, Untrash, access
  <2>2. Right' = Right
    BY <2>1 DEF Right, Live, Authenticated
  <2> QED
    BY <2>1, <2>2 DEF Log!Show, Right
<1>4. ASSUME NEW e \in Editors, Empty(e) PROVE UNCHANGED Log!vars
  <2>1. /\ doc'.state = doc.state /\ doc'.current = doc.current
        /\ UNCHANGED <<versions, lease, sessions>>
    BY <1>4, Types DEF Typed, DocType, Empty, access
  <2>2. Right' = Right
    BY <2>1 DEF Right, Live, Authenticated
  <2> QED
    BY <2>1, <2>2, LogView
<1>5. ASSUME NEW e \in Editors, Remove(e) PROVE Log!Next
  BY <1>5, PurgeIsLogged DEF Remove
<1>6. ASSUME NEW k \in Keys, NEW r \in Request, Begin(k, r) PROVE UNCHANGED Log!vars
  <2>1. UNCHANGED <<doc, versions, lease, sessions>>
    BY <1>6 DEF Begin, access
  <2>2. Right' = Right
    BY <2>1 DEF Right, Live, Authenticated
  <2> QED
    BY <2>1, <2>2, LogView
<1> QED
  BY <1>1, <1>2, <1>3, <1>4, <1>5, <1>6 DEF Owner, Log!Next

LEMMA UpkeepIsLogged ==
  ASSUME RevisionsInv, Upkeep PROVE [Log!Next]_Log!vars
<1> USE Parts
<1>1. ASSUME doc'.state = doc.state, doc'.current = doc.current,
             UNCHANGED <<versions, lease, sessions>>
      PROVE  UNCHANGED Log!vars
  <2>1. Right' = Right
    BY <1>1 DEF Right, Live, Authenticated
  <2> QED
    BY <1>1, <2>1, LogView
<1>2. CASE DeadlinePasses
  BY <1>1, <1>2, Types DEF Typed, DocType, DeadlinePasses, access
<1>3. CASE ListExpired \/ ExpiryStops \/ PruneList \/ PruneStops
  BY <1>1, <1>3 DEF ListExpired, ExpiryStops, PruneList, PruneStops, access
<1>4. ASSUME NEW n \in Policies \cup {None}, Configure(n) PROVE UNCHANGED Log!vars
  BY <1>1, <1>4 DEF Configure, access
<1>5. CASE PurgeExpired
  <2>1. CASE UNCHANGED <<doc, versions, lease>>
    BY <1>1, <1>5, <2>1 DEF PurgeExpired
  <2>2. CASE doc.state = "trashed" /\ Purged
    BY <2>2, PurgeIsLogged
  <2> QED
    BY <1>5, <2>1, <2>2 DEF PurgeExpired
<1>6. ASSUME NEW v \in Versions, FileRemoved(v) PROVE UNCHANGED Log!vars
  <2>1. /\ versions[v].file = "pending" /\ versions'[v].file = "deleted"
        /\ versions'[v].bytes = versions[v].bytes
        /\ \A w \in Versions \ {v} : versions'[w] = versions[w]
        /\ UNCHANGED <<doc, lease, sessions>>
    BY <1>6, RemovedFile DEF Fades, access
  <2>2. Right' = Right
    BY <2>1 DEF Right, Live, Authenticated
  <2> QED
    BY <2>1, <2>2, LogView
<1>7. ASSUME NEW v \in Versions, PruneOne(v) PROVE [Log!Next]_Log!vars
  <2>1. CASE keep # None /\ v \in Candidates(keep)
    <3>1. /\ doc.state = "active" /\ versions[v].file = "ready" /\ v # 1 /\ v # doc.current
          /\ versions'[v].file = "pending" /\ versions'[v].bytes = versions[v].bytes
          /\ \A w \in Versions \ {v} : versions'[w] = versions[w]
          /\ UNCHANGED <<doc, lease, sessions>>
      BY <1>7, <2>1, PrunedOne DEF Fades, access, IsActive, Ready
    <3>2. Right' = Right
      BY <3>1 DEF Right, Live, Authenticated
    <3>3. {w \in Versions : versions'[w].file = "ready"} =
            {w \in Versions : versions[w].file = "ready"} \ {v}
      BY <3>1
    <3>4. [w \in Versions |-> versions'[w].bytes] = [w \in Versions |-> versions[w].bytes]
      BY <3>1
    <3>5. Log!Forget(v)
      BY <3>1, <3>2, <3>3, <3>4 DEF Log!Forget, Right
    <3> QED
      BY <3>5 DEF Log!Next
  <2>2. CASE ~(keep # None /\ v \in Candidates(keep))
    BY <1>1, <1>7, <2>2 DEF PruneOne, access
  <2> QED
    BY <2>1, <2>2
<1> QED
  BY <1>2, <1>3, <1>4, <1>5, <1>6, <1>7 DEF Upkeep, Expiry

LEMMA WorkIsLogged ==
  ASSUME RevisionsInv, NEW k \in Keys, Work(k) PROVE [Log!Next]_Log!vars
<1>1. CASE Commit(k)
  BY <1>1, CommitIsLogged
<1>2. CASE ~Commit(k)
  <2>1. UNCHANGED <<doc, versions, lease, sessions>>
    BY <1>2 DEF Work, Check, ReadRow, ReadBytes, CommitCopy, Abort, access
  <2>2. Right' = Right
    BY <2>1 DEF Right, Live, Authenticated
  <2> QED
    BY <2>1, <2>2, LogView
<1> QED
  BY <1>1, <1>2

(* Sessions, generations, saves in several steps, restores, pruning and     *)
(* trash implement the append-only log of one editor at a time.             *)
THEOREM HistoryImplementsLog == Spec => ImplementsLog
<1>1. Init => Log!Init
  <2> SUFFICES ASSUME Init PROVE Log!Init
    OBVIOUS
  <2>1. \A v \in Versions : versions[v].bytes = None /\ versions[v].file # "ready"
    BY DEF Init, NoVersion
  <2>2. doc.state = "absent" /\ lease.editor = None
    BY DEF Init, NoLease
  <2> QED
    BY <2>1, <2>2 DEF Log!Init, Live
<1>2. RevisionsInv /\ [Next]_vars => [Log!Next]_Log!vars
  <2> SUFFICES ASSUME RevisionsInv, [Next]_vars PROVE [Log!Next]_Log!vars
    OBVIOUS
  <2>1. CASE UNCHANGED vars
    <3>1. UNCHANGED <<doc, versions, lease, sessions>>
      BY <2>1 DEF vars, access
    <3>2. Right' = Right
      BY <3>1 DEF Right, Live, Authenticated
    <3> QED
      BY <3>1, <3>2, LogView
  <2> QED
    BY <2>1, LeaseIsLogged, OwnerIsLogged, UpkeepIsLogged, WorkIsLogged DEF Next
<1> QED
  BY <1>1, <1>2, RevisionsInvariant, PTL DEF Spec, ImplementsLog, Log!Spec
==============================================================================
