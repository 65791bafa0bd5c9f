---------------------------- MODULE StorageProofs ----------------------------
(***************************************************************************)
(* StorageInv is inductive, so the invariants it contains hold of every    *)
(* behaviour, for every set of owners, operations and processes and every  *)
(* bound.  A step is analysed by what it moves: the process p that takes   *)
(* it, and the operation k whose rows and directory entries it changes.    *)
(***************************************************************************)
EXTENDS StorageProperties, SumTheorems, TLAPS

ProcType == [pc : Labels, op : Ops \cup {0}, size : Nat, then : Outcomes]

LEMMA NoProcIsNone == \A p \in Procs : p # NoProc
  BY StorageAssumptions

LEMMA RequestsEnd ==
  ASSUME NEW p \in Requests
  PROVE  p \in Procs /\ p \notin Maintainers
  BY StorageAssumptions DEF Procs

(* Only p moves, and only the rows and entries of k change. *)
Moved(p, k) ==
  /\ \A q \in Procs : q # p => proc'[q] = proc[q]
  /\ \A j \in Ops : j # k =>
       /\ reservations'[j] = reservations[j]
       /\ files'[j] = files[j]
       /\ bytes'[j] = bytes[j]
       /\ final'[j] = final[j]
       /\ staging'[j] = staging[j]

(* The type of proc and of the flocks after each way a process can move.    *)
LEMMA GotoType ==
  ASSUME proc \in [Procs -> ProcType], NEW p \in Procs, NEW l \in Labels,
         Goto(p, l)
  PROVE  /\ proc' \in [Procs -> ProcType]
         /\ proc'[p] = [proc[p] EXCEPT !.pc = l]
         /\ \A q \in Procs : q # p => proc'[q] = proc[q]
  BY DEF Goto, ProcType

LEMMA StartedType ==
  ASSUME proc \in [Procs -> ProcType], NEW p \in Procs, NEW l \in Labels,
         NEW k \in Ops, Started(p, k, l)
  PROVE  /\ proc' \in [Procs -> ProcType]
         /\ proc'[p] = [pc |-> l, op |-> k, size |-> 0, then |-> "none"]
         /\ \A q \in Procs : q # p => proc'[q] = proc[q]
  BY DEF Started, ProcType, Idle, Outcomes

LEMMA FinishType ==
  ASSUME proc \in [Procs -> ProcType], writer \in [Ops -> Procs \cup {NoProc}],
         readers \in [Ops -> SUBSET Procs],
         NEW p \in Procs, NEW r \in Outcomes, Finish(p, r)
  PROVE  /\ proc' \in [Procs -> ProcType]
         /\ writer' \in [Ops -> Procs \cup {NoProc}]
         /\ readers' \in [Ops -> SUBSET Procs]
         /\ proc'[p].pc \in {"idle", "done"}
         /\ p \in Requests => proc'[p].pc = "done" /\ proc'[p].op = Op(p)
         /\ p \notin Requests => proc'[p].pc = "idle" /\ proc'[p].op = 0
         /\ \A q \in Procs : q # p => proc'[q] = proc[q]
<1>1. proc' = [proc EXCEPT ![p] = Ended(p, r)] /\ Unlocked(p)
  BY DEF Finish
<1>2. Idle \in ProcType
  BY DEF Idle, ProcType, Labels, Outcomes
<1>3. [proc[p] EXCEPT !.pc = "done", !.then = r] \in ProcType
  <2>1. "done" \in Labels
    BY DEF Labels
  <2>2. proc[p] \in ProcType
    OBVIOUS
  <2>3. QED BY <2>1, <2>2 DEF ProcType
<1>4. Ended(p, r) \in ProcType
  BY <1>2, <1>3 DEF Ended
<1>5. proc' \in [Procs -> ProcType] /\ proc'[p] = Ended(p, r)
      /\ \A q \in Procs : q # p => proc'[q] = proc[q]
  BY <1>1, <1>4
<1>6. writer' \in [Ops -> Procs \cup {NoProc}] /\ readers' \in [Ops -> SUBSET Procs]
  BY <1>1 DEF Unlocked
<1>7. p \in Requests => Ended(p, r).pc = "done" /\ Ended(p, r).op = Op(p)
  BY RequestsEnd DEF Ended, ProcType, Op
<1>8. p \notin Requests => Ended(p, r).pc = "idle" /\ Ended(p, r).op = 0
  BY DEF Ended, Idle, Procs
<1>9. QED BY <1>5, <1>6, <1>7, <1>8
-----------------------------------------------------------------------------
(* The flocks after a step that keeps them, takes one, or releases them.    *)

LEMMA FlockKept ==
  ASSUME FlockInv, UNCHANGED locks, NEW p \in Procs, proc'[p].op = Op(p),
         Op(p) \in Ops, proc[p].pc \in Running,
         \A q \in Procs : q # p => proc'[q] = proc[q],
         proc'[p].pc \in Exclusive => proc[p].pc \in Exclusive,
         proc'[p].pc \in Shared => proc[p].pc \in Shared,
         proc'[p].pc \in Fresh => proc[p].pc \in Fresh
  PROVE  FlockInv'
  BY DEF FlockInv, locks, Op

LEMMA FlockTaken ==
  ASSUME FlockInv, NEW p \in Procs, NEW k \in Ops, Op(p) = k,
         writer \in [Ops -> Procs \cup {NoProc}],
         FreeExclusive(k), writer' = [writer EXCEPT ![k] = p], readers' = readers,
         proc'[p].op = k, proc'[p].pc \notin Shared,
         \A q \in Procs : q # p => proc'[q] = proc[q],
         proc'[p].pc \in Fresh => proc[p].pc \in Fresh
  PROVE  FlockInv'
<1>1. \A j \in Ops : writer'[j] = IF j = k THEN p ELSE writer[j]
  OBVIOUS
<1>2. \A q \in Procs : proc[q].pc \in Exclusive => Op(q) \in Ops
  BY DEF FlockInv, Exclusive, Fresh, Running, Labels
<1>3. ASSUME NEW q \in Procs, q # p, proc'[q].pc \in Exclusive
      PROVE  writer'[Op(q)'] = q
  BY <1>1, <1>2, <1>3, NoProcIsNone DEF FlockInv, FreeExclusive, Op
<1>4. \A j \in Ops : writer'[j] # NoProc => readers'[j] = {}
  BY <1>1 DEF FlockInv, FreeExclusive
<1>5. QED BY <1>1, <1>3, <1>4 DEF FlockInv, Op

LEMMA FlockReleased ==
  ASSUME FlockInv, NEW p \in Procs, Unlocked(p),
         proc'[p].pc \notin Exclusive \cup Shared \cup Fresh,
         proc'[p].pc \in Running => proc'[p].op \in Ops,
         \A q \in Procs : q # p => proc'[q] = proc[q]
  PROVE  FlockInv'
<1>1. ASSUME NEW j \in Ops
      PROVE  /\ writer'[j] = IF writer[j] = p THEN NoProc ELSE writer[j]
             /\ \A q \in Procs : q # p => (q \in readers'[j] <=> q \in readers[j])
             /\ readers[j] = {} => readers'[j] = {}
  BY DEF Unlocked
<1>2. \A q \in Procs : proc[q].pc \in Exclusive \cup Shared => Op(q) \in Ops
  BY DEF FlockInv, Exclusive, Shared, Fresh, Running, Labels
<1>3. ASSUME NEW q \in Procs, q # p
      PROVE  /\ proc'[q].pc \in Exclusive => writer'[Op(q)'] = q
             /\ proc'[q].pc \in Shared => q \in readers'[Op(q)']
  BY <1>1, <1>2, <1>3 DEF FlockInv, Op
<1>4. ASSUME NEW j \in Ops, writer'[j] # NoProc PROVE readers'[j] = {}
  BY <1>1, <1>4 DEF FlockInv
<1>5. QED BY <1>3, <1>4 DEF FlockInv, Op

LEMMA OneWriterKept ==
  ASSUME OneWriter, NEW p \in Procs, FlockInv,
         \A q \in Procs : q # p => proc'[q] = proc[q],
         proc'[p].pc \in Fresh => proc[p].pc \in Fresh /\ proc'[p].op = Op(p),
         \A k \in Ops : reservations[k].state # "none"
                           => reservations'[k].state # "none"
  PROVE  OneWriter'
<1>1. \A q \in Procs : proc[q].pc \in Fresh => Op(q) \in Ops
  BY DEF FlockInv, Fresh, Running, Labels
<1>2. \A q \in Procs : proc'[q].pc \in Fresh => proc[q].pc \in Fresh /\ Op(q)' = Op(q)
  BY DEF Op
<1>3. QED BY <1>1, <1>2 DEF OneWriter

(* The open transaction after a step of another process, or of one that     *)
(* works on another operation.                                              *)
LEMMA SqlKept ==
  ASSUME SqlInv, NEW p \in Procs, NEW k \in Ops, Moved(p, k), sql' = sql,
         sql = p => proc'[p].op = Op(p) /\ proc'[p].pc \in {"commit", "done"},
         sql # NoProc /\ k = Op(sql) =>
           /\ files'[k] = files[k]
           /\ bytes'[k] = bytes[k] /\ staging'[k] = staging[k] /\ final'[k] = final[k],
         sql # NoProc /\ sql # p /\ proc'[p].op = Op(sql) => proc'[p].pc \notin Changing
  PROVE  SqlInv'
<1>1. SUFFICES ASSUME sql # NoProc PROVE SqlInv'
  BY DEF SqlInv
<1>2. sql \in Requests /\ sql \in Procs /\ Op(sql) \in Ops
  BY <1>1 DEF SqlInv, Procs
<1>3. Op(sql)' = Op(sql) /\ proc'[sql].pc \in {"commit", "done"}
  BY <1>1, <1>2 DEF SqlInv, Moved, Op
<1>4. LET j == Op(sql) IN
      files'[j] = files[j] /\ bytes'[j] = bytes[j] /\ staging'[j] = staging[j]
      /\ final'[j] = final[j]
  BY <1>1, <1>2 DEF Moved
<1>5. \A q \in Procs : Op(q)' = Op(sql) /\ q # sql => proc'[q].pc \notin Changing
  BY <1>1, <1>2 DEF SqlInv, Moved, Op
<1>6. QED BY <1>1, <1>2, <1>3, <1>4, <1>5 DEF SqlInv, Op

(* What the other rows and the other processes know survives a step that    *)
(* changes one operation under its exclusive flock.                         *)
LEMMA HolderKeeps ==
  ASSUME StorageInv, NEW p \in Procs, NEW k \in Ops, Op(p) = k, writer[k] = p,
         Moved(p, k), \A q \in Procs : q # p /\ sql = q => sql' = q,
         TypeOK', FlockInv', OneWriter', SqlInv', RowInv(k)', StepInv(p)',
         \A q \in Procs : q # p /\ Op(q) = k /\ proc[q].pc = "lock"
            => bytes'[k] = 0 /\ files'[k].state = "none" /\ ~final'[k]
  PROVE  StorageInv'
<1>1. ASSUME NEW j \in Ops, j # k PROVE RowInv(j)'
  BY <1>1 DEF StorageInv, RowInv, Moved, IsActive, Held, Intact
<1>2. ASSUME NEW q \in Procs, q # p PROVE StepInv(q)'
  <2>0. StepInv(q) /\ proc'[q] = proc[q] /\ Op(q)' = Op(q)
    BY <1>2 DEF StorageInv, Moved, Op
  <2>1. CASE Op(q) \in Ops \ {k}
    <3>1. /\ reservations'[Op(q)] = reservations[Op(q)]
          /\ files'[Op(q)] = files[Op(q)]
          /\ bytes'[Op(q)] = bytes[Op(q)]
          /\ final'[Op(q)] = final[Op(q)]
      BY <2>1 DEF Moved
    <3>2. QED BY <1>2, <2>0, <3>1 DEF StepInv, IsActive, Intact
  <2>2. CASE Op(q) = k
    <3>1. proc[q].pc \notin Exclusive \cup Shared
      BY <1>2, <2>2, NoProcIsNone DEF StorageInv, FlockInv
    <3>2. QED BY <1>2, <2>0, <2>2, <3>1 DEF StepInv, Exclusive, Shared, Fresh
  <2>3. CASE Op(q) \notin Ops
    <3>1. proc[q].pc \notin Running
      BY <2>3 DEF StorageInv, FlockInv
    <3>2. QED BY <2>0, <3>1 DEF StepInv, Running, Labels
  <2>4. QED BY <2>1, <2>2, <2>3
<1>3. QED BY <1>1, <1>2 DEF StorageInv

(* ... and a step that changes no row and no entry at all. *)
LEMMA BystanderKeeps ==
  ASSUME StorageInv, NEW p \in Procs, UNCHANGED <<rows, disk, sql>>,
         \A q \in Procs : q # p => proc'[q] = proc[q],
         TypeOK', FlockInv', StepInv(p)',
         proc'[p].pc \in Fresh => proc[p].pc \in Fresh /\ proc'[p].op = Op(p),
         sql = p => proc'[p].op = Op(p) /\ proc'[p].pc \in {"commit", "done"},
         sql # NoProc /\ sql # p /\ proc'[p].op = Op(sql) => proc'[p].pc \notin Changing
  PROVE  StorageInv'
<1>0. UNCHANGED <<reservations, files, bytes, staging, final, sql>>
  BY DEF rows, disk
<1>1. OneWriter'
  BY <1>0, OneWriterKept DEF StorageInv
<1>2. SqlInv'
  <2>1. ASSUME sql = NoProc PROVE SqlInv'
    BY <1>0, <2>1 DEF SqlInv
  <2>2. ASSUME sql # NoProc PROVE SqlInv'
    BY <1>0, <2>2, SqlKept DEF StorageInv, SqlInv, Moved
  <2>3. QED BY <2>1, <2>2
<1>3. \A j \in Ops : RowInv(j)'
  BY <1>0 DEF StorageInv, RowInv, IsActive, Held, Intact
<1>4. ASSUME NEW q \in Procs, q # p PROVE StepInv(q)'
  <2>1. StepInv(q) /\ proc'[q] = proc[q]
    BY <1>4 DEF StorageInv
  <2>2. QED BY <1>0, <2>1 DEF StepInv, IsActive, Intact, Op
<1>5. QED BY <1>1, <1>2, <1>3, <1>4 DEF StorageInv
-----------------------------------------------------------------------------
(* Steps that change no row and no directory entry.                         *)

LEMMA BystanderType ==
  ASSUME TypeOK, UNCHANGED <<rows, disk, sql>>,
         proc' \in [Procs -> ProcType],
         writer' \in [Ops -> Procs \cup {NoProc}], readers' \in [Ops -> SUBSET Procs],
         cursor' \in [Maintainers -> Ops \cup {0}], faults' \in 0..MaxFaults
  PROVE  TypeOK'
  BY DEF TypeOK, rows, disk, ProcType

LEMMA ProcTyped ==
  ASSUME StorageInv
  PROVE  /\ proc \in [Procs -> ProcType]
         /\ writer \in [Ops -> Procs \cup {NoProc}]
         /\ readers \in [Ops -> SUBSET Procs]
         /\ cursor \in [Maintainers -> Ops \cup {0}] /\ faults \in 0..MaxFaults
  BY DEF StorageInv, TypeOK, ProcType

(* A process ends its call, or dies: its flocks are gone. *)
LEMMA FinishInv ==
  ASSUME StorageInv, NEW p \in Procs, NEW r \in Outcomes, Finish(p, r),
         UNCHANGED <<rows, disk, sql>>,
         cursor' \in [Maintainers -> Ops \cup {0}], faults' \in 0..MaxFaults
  PROVE  StorageInv'
<1>1. /\ proc' \in [Procs -> ProcType]
      /\ writer' \in [Ops -> Procs \cup {NoProc}]
      /\ readers' \in [Ops -> SUBSET Procs]
      /\ proc'[p].pc \in {"idle", "done"}
      /\ p \in Requests => proc'[p].pc = "done" /\ proc'[p].op = Op(p)
      /\ \A q \in Procs : q # p => proc'[q] = proc[q]
  BY ProcTyped, FinishType
<1>2. TypeOK'
  BY <1>1, BystanderType DEF StorageInv
<1>3. proc'[p].pc \notin Exclusive \cup Shared \cup Fresh \cup Running \cup Changing
  BY <1>1 DEF Exclusive, Shared, Fresh, Running, Changing
<1>4. FlockInv'
  BY <1>1, <1>3, FlockReleased DEF StorageInv, Finish
<1>5. StepInv(p)'
  BY <1>1 DEF StepInv
<1>6. sql = p => p \in Requests
  BY NoProcIsNone DEF StorageInv, SqlInv
<1>7. QED BY <1>1, <1>2, <1>3, <1>4, <1>5, <1>6, BystanderKeeps

(* A process begins a call that first waits for a flock. *)
LEMMA StartedInv ==
  ASSUME StorageInv, NEW p \in Procs, NEW k \in Ops, At(p, "idle"),
         NEW l \in {"replay_lock", "recover_lock", "read_lock", "delete_lock"},
         Started(p, k, l), UNCHANGED <<rows, disk, locks, sql, faults>>,
         cursor' \in [Maintainers -> Ops \cup {0}]
  PROVE  StorageInv'
<1>0. l \in Labels /\ l \notin Exclusive \cup Shared \cup Fresh \cup Changing
  BY DEF Labels, Exclusive, Shared, Fresh, Changing
<1>1. /\ proc' \in [Procs -> ProcType]
      /\ proc'[p] = [pc |-> l, op |-> k, size |-> 0, then |-> "none"]
      /\ \A q \in Procs : q # p => proc'[q] = proc[q]
  BY <1>0, ProcTyped, StartedType
<1>2. TypeOK'
  BY <1>1, ProcTyped, BystanderType DEF StorageInv, locks
<1>3. FlockInv'
  BY <1>0, <1>1 DEF StorageInv, FlockInv, locks, Op
<1>4. StepInv(p)'
  BY <1>1 DEF StepInv
<1>5. sql # p
  BY NoProcIsNone DEF StorageInv, SqlInv, At
<1>6. QED BY <1>0, <1>1, <1>2, <1>3, <1>4, <1>5, BystanderKeeps

(* A process takes the exclusive flock it waited for, or gives up. *)
Waits == {<<"lock", "stage">>, <<"replay_lock", "replay">>,
          <<"recover_lock", "recover_check">>, <<"delete_lock", "delete_mark">>}
LEMMA LockInv ==
  ASSUME StorageInv, NEW p \in Procs, NEW l, <<proc[p].pc, l>> \in Waits,
         LockOrRefuse(p, l), UNCHANGED <<rows, disk, sql, cursor, faults>>
  PROVE  StorageInv'
<1>0. /\ l \in {"stage", "replay", "recover_check", "delete_mark"}
      /\ proc[p].pc \in {"lock", "replay_lock", "recover_lock", "delete_lock"}
      /\ l = "stage" <=> proc[p].pc = "lock"
  BY DEF Waits
<1>1. Op(p) \in Ops /\ sql # p
  BY <1>0, NoProcIsNone DEF StorageInv, FlockInv, SqlInv, Running, Labels
<1>2. CASE Finish(p, "refused")
  BY <1>2, ProcTyped, FinishInv DEF Outcomes
<1>3. CASE /\ FreeExclusive(Op(p)) /\ Goto(p, l)
           /\ writer' = [writer EXCEPT ![Op(p)] = p] /\ readers' = readers
  <2>0. l \in Labels
    BY <1>0 DEF Labels
  <2>1. /\ proc' \in [Procs -> ProcType]
        /\ proc'[p] = [proc[p] EXCEPT !.pc = l]
        /\ \A q \in Procs : q # p => proc'[q] = proc[q]
    BY <2>0, <1>3, ProcTyped, GotoType
  <2>2. proc[p] \in ProcType
    BY ProcTyped
  <2>3. proc'[p].pc = l /\ proc'[p].op = Op(p) /\ proc'[p].size = proc[p].size
    BY <2>1, <2>2 DEF ProcType, Op
  <2>4. TypeOK'
    BY <1>1, <1>3, <2>1, ProcTyped, BystanderType DEF StorageInv
  <2>5. l \notin Shared /\ (l \in Fresh => proc[p].pc \in Fresh)
        /\ (l \in Changing => proc[p].pc \in Changing)
    BY <1>0 DEF Shared, Fresh, Changing
  <2>6. FlockInv'
    BY <1>1, <1>3, <2>1, <2>3, <2>5, ProcTyped, FlockTaken DEF StorageInv
  <2>7. StepInv(p)'
    <3>1. StepInv(p)
      BY DEF StorageInv
    <3>2. UNCHANGED <<bytes, files, final>>
      BY DEF rows, disk
    <3>3. QED BY <1>0, <2>3, <3>1, <3>2 DEF StepInv, Op
  <2>8. sql # NoProc /\ proc'[p].op = Op(sql) => proc'[p].pc \notin Changing
    BY <1>1, <2>3, <2>5 DEF StorageInv, SqlInv
  <2>9. QED BY <1>1, <2>1, <2>3, <2>4, <2>5, <2>6, <2>7, <2>8, BystanderKeeps
<1>4. QED BY <1>2, <1>3 DEF LockOrRefuse

(* A process moves on, keeping its operation and its size. *)
Advances(p, l) ==
  /\ proc' \in [Procs -> ProcType]
  /\ proc'[p].pc = l /\ proc'[p].op = Op(p) /\ proc'[p].size = proc[p].size
  /\ \A q \in Procs : q # p => proc'[q] = proc[q]

LEMMA GotoAdvances ==
  ASSUME StorageInv, NEW p \in Procs, NEW l \in Labels, Goto(p, l)
  PROVE  Advances(p, l)
<1>1. proc[p] \in ProcType
  BY ProcTyped
<1>2. /\ proc' \in [Procs -> ProcType]
      /\ proc'[p] = [proc[p] EXCEPT !.pc = l]
      /\ \A q \in Procs : q # p => proc'[q] = proc[q]
  BY ProcTyped, GotoType
<1>3. QED BY <1>1, <1>2 DEF Advances, ProcType, Op

LEMMA CleanAdvances ==
  ASSUME StorageInv, NEW p \in Procs, NEW r \in Outcomes,
         proc' = [proc EXCEPT ![p].pc = "clean", ![p].then = r]
  PROVE  Advances(p, "clean")
<1>1. proc[p] \in ProcType /\ proc \in [Procs -> ProcType]
  BY ProcTyped
<1>2. "clean" \in Labels
  BY DEF Labels
<1>3. [proc[p] EXCEPT !.pc = "clean", !.then = r] \in ProcType
  BY <1>1, <1>2 DEF ProcType
<1>4. /\ proc' \in [Procs -> ProcType]
      /\ proc'[p] = [proc[p] EXCEPT !.pc = "clean", !.then = r]
      /\ \A q \in Procs : q # p => proc'[q] = proc[q]
  BY <1>1, <1>3
<1>5. QED BY <1>1, <1>4 DEF Advances, ProcType, Op

LEMMA AdvanceInv ==
  ASSUME StorageInv, NEW p \in Procs, NEW l \in Labels, Advances(p, l),
         proc[p].pc \in Running,
         UNCHANGED <<rows, disk, locks, sql, cursor, faults>>,
         l \in Exclusive => proc[p].pc \in Exclusive,
         l \in Shared => proc[p].pc \in Shared,
         l \in Fresh => proc[p].pc \in Fresh,
         l \in Changing => proc[p].pc \in Changing \/ sql = NoProc,
         sql # p, StepInv(p)'
  PROVE  StorageInv'
<1>1. Op(p) \in Ops
  BY DEF StorageInv, FlockInv
<1>2. TypeOK'
  BY ProcTyped, BystanderType DEF StorageInv, locks, Advances
<1>3. FlockInv'
  BY <1>1, FlockKept DEF StorageInv, Advances
<1>4. sql # NoProc /\ proc'[p].op = Op(sql) => proc'[p].pc \notin Changing
  BY <1>1 DEF StorageInv, SqlInv, Advances
<1>5. QED BY <1>2, <1>3, <1>4, BystanderKeeps DEF Advances

(* The publishing transaction is open only in a process that is at commit   *)
(* or dead.                                                                 *)
LEMMA SqlElsewhere ==
  ASSUME StorageInv, NEW p \in Procs, proc[p].pc \notin {"commit", "done"}
  PROVE  sql # p
  BY NoProcIsNone DEF StorageInv, SqlInv

LEMMA OpInOps ==
  ASSUME StorageInv, NEW p \in Procs, proc[p].pc \in Running
  PROVE  Op(p) \in Ops
  BY DEF StorageInv, FlockInv

LEMMA EndOfStreamInv ==
  ASSUME StorageInv, NEW p \in Procs, EndOfStream(p)
  PROVE  StorageInv'
<1>1. proc[p].pc = "stream" /\ Advances(p, "insert") /\ sql # p
  BY GotoAdvances, SqlElsewhere DEF EndOfStream, At, Labels
<1>2. UNCHANGED <<rows, disk, locks, sql, cursor, faults>>
  BY DEF EndOfStream
<1>3. StepInv(p)'
  BY <1>1, <1>2 DEF StorageInv, StepInv, Advances, rows, disk, Op
<1>4. QED BY <1>1, <1>2, <1>3, AdvanceInv DEF Labels, Running, Exclusive, Shared, Fresh, Changing

LEMMA StoreFailsInv ==
  ASSUME StorageInv, NEW p \in Procs, StoreFails(p)
  PROVE  StorageInv'
<1>1. /\ proc[p].pc \in {"stage", "stream", "write", "written", "insert", "publish"}
      /\ Advances(p, "clean") /\ sql # p
  BY CleanAdvances, SqlElsewhere DEF StoreFails, Outcomes
<1>2. UNCHANGED <<rows, disk, locks, sql, cursor, faults>>
  BY DEF StoreFails
<1>3. StepInv(p)'
  BY <1>1 DEF StepInv, Advances
<1>4. QED BY <1>1, <1>2, <1>3, AdvanceInv DEF Labels, Running, Exclusive, Shared, Fresh, Changing

LEMMA RecoverCheckInv ==
  ASSUME StorageInv, NEW p \in Procs, RecoverCheck(p)
  PROVE  StorageInv'
<1>1. proc[p].pc = "recover_check" /\ sql # p
      /\ UNCHANGED <<rows, disk, sql, cursor, faults>>
  BY SqlElsewhere DEF RecoverCheck, At
<1>2. CASE Finish(p, "refused")
  BY <1>1, <1>2, ProcTyped, FinishInv DEF Outcomes
<1>3. CASE /\ proc' = [proc EXCEPT ![p].pc = "clean", ![p].then = "ok"]
           /\ UNCHANGED locks
  <2>1. Advances(p, "clean")
    BY <1>3, CleanAdvances DEF Outcomes
  <2>2. StepInv(p)'
    BY <2>1 DEF StepInv, Advances
  <2>3. QED BY <1>1, <1>3, <2>1, <2>2, AdvanceInv
            DEF Labels, Running, Exclusive, Shared, Fresh, Changing
<1>4. QED BY <1>2, <1>3 DEF RecoverCheck

LEMMA ReadLockInv ==
  ASSUME StorageInv, NEW p \in Procs, ReadLock(p)
  PROVE  StorageInv'
<1>1. proc[p].pc = "read_lock" /\ sql # p /\ Op(p) \in Ops
      /\ UNCHANGED <<rows, disk, sql, cursor, faults>>
  BY SqlElsewhere, OpInOps DEF ReadLock, At, Running, Labels
<1>2. CASE Finish(p, "refused")
  BY <1>1, <1>2, ProcTyped, FinishInv DEF Outcomes
<1>3. CASE /\ FreeShared(Op(p)) /\ Goto(p, "read_check") /\ UNCHANGED writer
           /\ readers' = [readers EXCEPT ![Op(p)] = @ \cup {p}]
  <2>1. Advances(p, "read_check")
    BY <1>3, GotoAdvances DEF Labels
  <2>2. /\ readers' \in [Ops -> SUBSET Procs]
        /\ \A j \in Ops : readers'[j] = IF j = Op(p) THEN readers[j] \cup {p}
                                        ELSE readers[j]
    BY <1>1, <1>3, ProcTyped
  <2>3. TypeOK'
    BY <1>1, <1>3, <2>1, <2>2, ProcTyped, BystanderType DEF StorageInv, Advances
  <2>4. \A q \in Procs : proc[q].pc \in Shared \cup Exclusive => Op(q) \in Ops
    BY OpInOps DEF Shared, Exclusive, Fresh, Running, Labels
  <2>5. FlockInv'
    <3>1. ASSUME NEW q \in Procs, q # p
          PROVE  /\ proc'[q].pc \in Running => Op(q)' \in Ops
                 /\ proc'[q].pc \in Exclusive => writer'[Op(q)'] = q
                 /\ proc'[q].pc \in Shared => q \in readers'[Op(q)']
                 /\ proc'[q].pc \in Fresh => q \in Requests
      BY <1>3, <2>1, <2>2, <2>4, <3>1 DEF StorageInv, FlockInv, Advances, Op
    <3>2. /\ Op(p)' \in Ops /\ p \in readers'[Op(p)']
          /\ proc'[p].pc \notin Exclusive \cup Fresh
      BY <1>1, <2>1, <2>2 DEF Advances, Op, Exclusive, Fresh
    <3>3. \A j \in Ops : writer'[j] # NoProc => readers'[j] = {}
      BY <1>3, <2>2 DEF StorageInv, FlockInv, FreeShared
    <3>4. QED BY <3>1, <3>2, <3>3 DEF FlockInv
  <2>6. StepInv(p)'
    BY <2>1 DEF StepInv, Advances
  <2>7. "read_check" \notin Fresh \cup Changing
    BY DEF Fresh, Changing
  <2>8. QED BY <1>1, <2>1, <2>3, <2>5, <2>6, <2>7, BystanderKeeps DEF Advances
<1>4. QED BY <1>2, <1>3 DEF ReadLock

LEMMA ReadCheckInv ==
  ASSUME StorageInv, NEW p \in Procs, ReadCheck(p)
  PROVE  StorageInv'
<1>1. proc[p].pc = "read_check" /\ sql # p /\ Op(p) \in Ops
      /\ UNCHANGED <<rows, disk, sql, cursor, faults>>
  BY SqlElsewhere, OpInOps DEF ReadCheck, At, Running, Labels
<1>2. CASE Finish(p, "refused")
  BY <1>1, <1>2, ProcTyped, FinishInv DEF Outcomes
<1>3. CASE /\ files[Op(p)].state = "ready" /\ Goto(p, "read_open")
           /\ UNCHANGED locks
  <2>1. Advances(p, "read_open")
    BY <1>3, GotoAdvances DEF Labels
  <2>2. Intact(Op(p))
    BY <1>1, <1>3 DEF StorageInv, RowInv
  <2>3. StepInv(p)'
    BY <1>1, <2>1, <2>2 DEF StepInv, Advances, Intact, Op, rows, disk
  <2>4. QED BY <1>1, <1>3, <2>1, <2>3, AdvanceInv
            DEF Labels, Running, Exclusive, Shared, Fresh, Changing
<1>4. QED BY <1>2, <1>3 DEF ReadCheck

LEMMA ReadOpenInv ==
  ASSUME StorageInv, NEW p \in Procs, ReadOpen(p)
  PROVE  StorageInv'
<1>1. proc[p].pc = "read_open" /\ sql # p /\ Op(p) \in Ops
      /\ UNCHANGED <<rows, disk, sql, cursor, faults>>
  BY SqlElsewhere, OpInOps DEF ReadOpen, At, Running, Labels
<1>2. Intact(Op(p))
  BY <1>1 DEF StorageInv, StepInv
<1>3. Advances(p, "reading") /\ UNCHANGED locks
  BY <1>2, GotoAdvances DEF ReadOpen, Labels
<1>4. StepInv(p)'
  BY <1>1, <1>2, <1>3 DEF StepInv, Advances, Intact, Op, rows, disk
<1>5. QED BY <1>1, <1>3, <1>4, AdvanceInv
          DEF Labels, Running, Exclusive, Shared, Fresh, Changing

LEMMA ReadCloseInv ==
  ASSUME StorageInv, NEW p \in Procs, ReadClose(p)
  PROVE  StorageInv'
<1>1. proc[p].pc = "reading" /\ sql # p /\ Op(p) \in Ops
      /\ UNCHANGED <<rows, disk, sql, cursor, faults>>
  BY SqlElsewhere, OpInOps DEF ReadClose, At, Running, Labels
<1>2. CASE Finish(p, "ok")
  BY <1>1, <1>2, ProcTyped, FinishInv DEF Outcomes
<1>3. CASE Goto(p, "recover_lock") /\ Unlocked(p)
  <2>1. Advances(p, "recover_lock")
    BY <1>3, GotoAdvances DEF Labels
  <2>2. writer' \in [Ops -> Procs \cup {NoProc}] /\ readers' \in [Ops -> SUBSET Procs]
    BY <1>3, ProcTyped DEF Unlocked
  <2>3. TypeOK'
    BY <1>1, <2>1, <2>2, ProcTyped, BystanderType DEF StorageInv, Advances
  <2>4. "recover_lock" \notin Exclusive \cup Shared \cup Fresh \cup Changing
    BY DEF Exclusive, Shared, Fresh, Changing
  <2>5. FlockInv'
    BY <1>1, <1>3, <2>1, <2>4, FlockReleased DEF StorageInv, Advances
  <2>6. StepInv(p)'
    BY <2>1 DEF StepInv, Advances
  <2>7. QED BY <1>1, <2>1, <2>3, <2>4, <2>5, <2>6, BystanderKeeps DEF Advances
<1>4. QED BY <1>2, <1>3 DEF ReadClose

(* The remaining steps that end a call: a replay's answer, a failed step, a *)
(* crash.                                                                   *)
LEMMA EndInv ==
  ASSUME StorageInv, NEW p \in Procs, Replay(p) \/ StepFails(p) \/ Crash(p)
  PROVE  StorageInv'
<1>1. faults \in Nat /\ MaxFaults \in Nat
  BY ProcTyped, StorageAssumptions
<1>2. CASE Replay(p)
  BY <1>2, ProcTyped, FinishInv DEF Replay, Outcomes
<1>3. CASE StepFails(p)
  <2>1. faults' \in 0..MaxFaults /\ cursor' = cursor
    BY <1>1, <1>3 DEF StepFails
  <2>2. QED BY <1>3, <2>1, ProcTyped, FinishInv DEF StepFails, Outcomes
<1>4. CASE Crash(p)
  <2>1. faults' \in 0..MaxFaults /\ cursor' = cursor
    BY <1>1, <1>4 DEF Crash
  <2>2. QED BY <1>4, <2>1, ProcTyped, FinishInv DEF Crash, Outcomes
<1>5. QED BY <1>2, <1>3, <1>4

LEMMA BeginInv ==
  ASSUME StorageInv, NEW p \in Procs, NEW k \in Ops, NEW e,
         BeginReplay(p, k, e) \/ RecoverStart(p, k) \/ ReadStart(p, k)
         \/ DeleteStart(p, k)
  PROVE  StorageInv'
<1>1. CASE BeginReplay(p, k, e)
  BY <1>1, ProcTyped, StartedInv DEF BeginReplay
<1>2. CASE RecoverStart(p, k)
  BY <1>2, ProcTyped, StartedInv DEF RecoverStart
<1>3. CASE ReadStart(p, k)
  BY <1>3, ProcTyped, StartedInv DEF ReadStart
<1>4. CASE DeleteStart(p, k)
  BY <1>4, ProcTyped, StartedInv DEF DeleteStart
<1>5. QED BY <1>1, <1>2, <1>3, <1>4

LEMMA ReconcileInv ==
  ASSUME StorageInv, NEW m \in Maintainers, ReconcileNext(m) \/ ReconcileAgain(m)
  PROVE  StorageInv'
<1>0. m \in Procs
  BY DEF Procs
<1>1. CASE ReconcileNext(m)
  <2>1. PICK k \in Ops :
          /\ cursor' = [cursor EXCEPT ![m] = k]
          /\ Started(m, k, CASE files[k].state = "pending_delete" -> "delete_lock"
                             [] files[k].state = "ready" -> "read_lock"
                             [] OTHER -> "recover_lock")
    BY <1>1 DEF ReconcileNext
  <2>2. cursor' \in [Maintainers -> Ops \cup {0}]
    BY <2>1, ProcTyped
  <2>3. QED BY <1>0, <1>1, <2>1, <2>2, StartedInv DEF ReconcileNext
<1>2. CASE ReconcileAgain(m)
  <2>1. cursor' \in [Maintainers -> Ops \cup {0}]
    BY <1>2, ProcTyped DEF ReconcileAgain
  <2>2. UNCHANGED <<rows, disk, locks, sql, proc, faults>>
    BY <1>2 DEF ReconcileAgain
  <2>3. TypeOK'
    BY <2>1, <2>2, ProcTyped, BystanderType DEF StorageInv, locks
  <2>4. FlockInv' /\ StepInv(m)'
    BY <1>0, <2>2 DEF StorageInv, FlockInv, StepInv, locks, rows, disk, Op, IsActive, Intact
  <2>5. sql # m
    BY <1>0, NoProcIsNone, RequestsEnd DEF StorageInv, SqlInv
  <2>6. Op(m) = Op(sql) /\ sql # NoProc => proc[m].pc \notin Changing
    BY <1>0, <2>5 DEF StorageInv, SqlInv
  <2>7. QED BY <1>0, <2>2, <2>3, <2>4, <2>5, <2>6, BystanderKeeps DEF Op
<1>3. QED BY <1>1, <1>2
-----------------------------------------------------------------------------
(* Steps that change the rows and entries of one operation.                 *)

ResType  == [state : States, allocated : Nat, written : Nat,
             expected : Nat \cup {Undeclared}, live : BOOLEAN]
FileType == [state : {"none", "staged", "ready", "pending_delete", "deleted"},
             size : Nat]
AcctType == [used : Int, reserved : Int]

LEMMA RowTyped ==
  ASSUME StorageInv
  PROVE  /\ reservations \in [Ops -> ResType] /\ files \in [Ops -> FileType]
         /\ accounts \in [Owners -> AcctType] /\ limits \in [Owners -> Limits]
         /\ staging \in [Ops -> BOOLEAN] /\ final \in [Ops -> BOOLEAN]
         /\ bytes \in [Ops -> Nat] /\ sql \in Procs \cup {NoProc}
  BY DEF StorageInv, TypeOK, ResType, FileType, AcctType

LEMMA TypeIs ==
  ASSUME reservations' \in [Ops -> ResType], files' \in [Ops -> FileType],
         accounts' \in [Owners -> AcctType], limits' \in [Owners -> Limits],
         staging' \in [Ops -> BOOLEAN], final' \in [Ops -> BOOLEAN],
         bytes' \in [Ops -> Nat], sql' \in Procs \cup {NoProc},
         proc' \in [Procs -> ProcType],
         writer' \in [Ops -> Procs \cup {NoProc}], readers' \in [Ops -> SUBSET Procs],
         cursor' \in [Maintainers -> Ops \cup {0}], faults' \in 0..MaxFaults
  PROVE  TypeOK'
  BY DEF TypeOK, ResType, FileType, AcctType, ProcType

(* A process with the exclusive flock of k changes k. *)
LEMMA HolderInv ==
  ASSUME StorageInv, NEW p \in Procs, NEW k \in Ops, Op(p) = k,
         proc[p].pc \in Exclusive, Moved(p, k), sql' = sql, sql # p,
         sql = NoProc \/ proc[p].pc \in Changing,
         proc'[p].pc \in Fresh => proc[p].pc \in Fresh,
         proc'[p].pc \in Fresh \cup Changing => proc'[p].op = k,
         reservations[k].state # "none" => reservations'[k].state # "none",
         TypeOK', FlockInv', RowInv(k)', StepInv(p)',
         \A q \in Procs : q # p /\ Op(q) = k /\ proc[q].pc = "lock"
            => bytes'[k] = 0 /\ files'[k].state = "none" /\ ~final'[k]
  PROVE  StorageInv'
<1>1. writer[k] = p
  BY DEF StorageInv, FlockInv
<1>2. OneWriter'
  BY OneWriterKept DEF StorageInv, Moved
<1>3. SqlInv'
  <2>1. ASSUME sql = NoProc PROVE SqlInv'
    BY <2>1 DEF SqlInv
  <2>2. ASSUME sql # NoProc PROVE SqlInv'
    <3>1. proc[p].pc \in Changing /\ k # Op(sql)
      BY <2>2 DEF StorageInv, SqlInv
    <3>2. proc'[p].op = Op(sql) => proc'[p].pc \notin Changing
      BY <3>1
    <3>3. QED BY <3>1, <3>2, SqlKept DEF StorageInv
  <2>3. QED BY <2>1, <2>2
<1>4. QED BY <1>1, <1>2, <1>3, HolderKeeps DEF StorageInv

(* No second process waits to stage an operation that has its writer. *)
LEMMA NoOtherWriter ==
  ASSUME StorageInv, NEW p \in Procs, proc[p].pc \in Fresh
  PROVE  \A q \in Procs : q # p /\ Op(q) = Op(p) => proc[q].pc # "lock"
  BY DEF StorageInv, OneWriter, Fresh

(* The two ways such a step goes on: to the next label, or to its end. *)
RowsTyped ==
  /\ reservations' \in [Ops -> ResType] /\ files' \in [Ops -> FileType]
  /\ accounts' \in [Owners -> AcctType] /\ staging' \in [Ops -> BOOLEAN]
  /\ final' \in [Ops -> BOOLEAN] /\ bytes' \in [Ops -> Nat]

OthersSame(k) ==
  \A j \in Ops : j # k =>
    /\ reservations'[j] = reservations[j] /\ files'[j] = files[j]
    /\ bytes'[j] = bytes[j] /\ final'[j] = final[j] /\ staging'[j] = staging[j]

LEMMA HolderAdvances ==
  ASSUME StorageInv, NEW p \in Procs, NEW k \in Ops, Op(p) = k, NEW l \in Labels,
         Advances(p, l), UNCHANGED <<limits, locks, sql, cursor, faults>>,
         RowsTyped, OthersSame(k),
         proc[p].pc \in Exclusive, l \in Exclusive, l \notin Shared,
         l \in Fresh => proc[p].pc \in Fresh,
         sql = NoProc \/ proc[p].pc \in Changing, sql # p,
         reservations[k].state # "none" => reservations'[k].state # "none",
         RowInv(k)', StepInv(p)',
         \A q \in Procs : q # p /\ Op(q) = k /\ proc[q].pc = "lock"
            => bytes'[k] = 0 /\ files'[k].state = "none" /\ ~final'[k]
  PROVE  StorageInv'
<1>1. TypeOK'
  BY RowTyped, ProcTyped, TypeIs DEF Advances, RowsTyped, locks
<1>2. proc[p].pc \in Running
  BY DEF Exclusive, Fresh, Running, Labels
<1>3. FlockInv'
  BY <1>2, FlockKept DEF StorageInv, Advances
<1>4. Moved(p, k)
  BY DEF Moved, OthersSame, Advances
<1>5. QED BY <1>1, <1>3, <1>4, HolderInv DEF Advances

LEMMA HolderFinishes ==
  ASSUME StorageInv, NEW p \in Procs, NEW k \in Ops, Op(p) = k,
         NEW r \in Outcomes, Finish(p, r),
         UNCHANGED <<limits, sql, cursor, faults>>, RowsTyped, OthersSame(k),
         proc[p].pc \in Exclusive,
         sql = NoProc \/ proc[p].pc \in Changing, sql # p,
         reservations[k].state # "none" => reservations'[k].state # "none",
         RowInv(k)',
         \A q \in Procs : q # p /\ Op(q) = k /\ proc[q].pc = "lock"
            => bytes'[k] = 0 /\ files'[k].state = "none" /\ ~final'[k]
  PROVE  StorageInv'
<1>1. /\ proc' \in [Procs -> ProcType]
      /\ writer' \in [Ops -> Procs \cup {NoProc}]
      /\ readers' \in [Ops -> SUBSET Procs]
      /\ proc'[p].pc \in {"idle", "done"}
      /\ \A q \in Procs : q # p => proc'[q] = proc[q]
  BY ProcTyped, FinishType
<1>2. TypeOK'
  BY <1>1, RowTyped, ProcTyped, TypeIs DEF RowsTyped
<1>3. proc'[p].pc \notin Exclusive \cup Shared \cup Fresh \cup Running \cup Changing
  BY <1>1 DEF Exclusive, Shared, Fresh, Running, Changing
<1>4. FlockInv'
  BY <1>1, <1>3, FlockReleased DEF StorageInv, Finish
<1>5. StepInv(p)'
  BY <1>1 DEF StepInv
<1>6. Moved(p, k)
  BY <1>1 DEF Moved, OthersSame
<1>7. QED BY <1>2, <1>3, <1>4, <1>5, <1>6, HolderInv

LEMMA StageInv ==
  ASSUME StorageInv, NEW p \in Procs, Stage(p)
  PROVE  StorageInv'
<1>1. proc[p].pc = "stage" /\ sql # p
  BY SqlElsewhere DEF Stage, At
<1>k. PICK k \in Ops : Op(p) = k
  BY <1>1, OpInOps DEF Running, Labels
<1>2. /\ Advances(p, "stream")
      /\ staging' = [staging EXCEPT ![k] = TRUE]
      /\ UNCHANGED <<reservations, files, accounts, limits, final, bytes, writer,
                     readers, sql, cursor, faults>>
  BY <1>k, GotoAdvances DEF Stage, Labels, rows, locks
<1>3. RowsTyped /\ OthersSame(k) /\ staging'[k]
  BY <1>2, RowTyped DEF RowsTyped, OthersSame
<1>4. proc[p].pc \in Fresh \cap Exclusive \cap Changing
      /\ "stream" \in (Labels \cap Exclusive) \ Shared
  BY <1>1 DEF Fresh, Exclusive, Changing, Shared, Labels
<1>5. reservations[k].state # "none"
  BY <1>k, <1>4 DEF StorageInv, OneWriter
<1>6. RowInv(k)'
  BY <1>2, <1>3, <1>5 DEF StorageInv, RowInv, Intact, Held, IsActive
<1>7. StepInv(p)'
  <2>1. StepInv(p)
    BY DEF StorageInv
  <2>2. bytes[k] = 0 /\ proc[p].size = 0 /\ files[k].state = "none" /\ ~final[k]
    BY <1>k, <1>1, <2>1 DEF StepInv
  <2>3. proc'[p].pc = "stream" /\ proc'[p].op = k /\ proc'[p].size = 0
    BY <1>k, <1>2, <2>2 DEF Advances, Op
  <2>4. QED BY <1>2, <2>2, <2>3 DEF StepInv, Op
<1>8. QED
  BY <1>k, <1>1, <1>2, <1>3, <1>4, <1>5, <1>6, <1>7, NoOtherWriter, HolderAdvances
     DEF locks

LEMMA WriteInv ==
  ASSUME StorageInv, NEW p \in Procs, Write(p)
  PROVE  StorageInv'
<1>1. proc[p].pc = "write" /\ sql # p
  BY SqlElsewhere DEF Write, At
<1>k. PICK k \in Ops : Op(p) = k
  BY <1>1, OpInOps DEF Running, Labels
<1>2. /\ Advances(p, "written")
      /\ bytes' = [bytes EXCEPT ![k] = @ + 1]
      /\ UNCHANGED <<reservations, files, accounts, limits, staging, final, writer,
                     readers, sql, cursor, faults>>
  BY <1>k, GotoAdvances DEF Write, Labels, rows, locks
<1>3. RowsTyped /\ OthersSame(k) /\ bytes'[k] = bytes[k] + 1
  BY <1>2, RowTyped DEF RowsTyped, OthersSame
<1>4. proc[p].pc \in Fresh \cap Exclusive \cap Changing
      /\ "written" \in (Labels \cap Exclusive) \ Shared
  BY <1>1 DEF Fresh, Exclusive, Changing, Shared, Labels
<1>5. /\ IsActive(k) /\ reservations[k].allocated > proc[p].size
      /\ bytes[k] = proc[p].size /\ files[k].state = "none" /\ ~final[k]
  BY <1>k, <1>1 DEF StorageInv, StepInv
<1>t. reservations[k].allocated \in Nat /\ proc[p].size \in Nat
  BY RowTyped, ProcTyped DEF ResType, ProcType
<1>6. RowInv(k)'
  BY <1>2, <1>3, <1>5, <1>t DEF StorageInv, RowInv, Intact, Held, IsActive, Active
<1>7. StepInv(p)'
  BY <1>k, <1>1, <1>2, <1>3, <1>5 DEF StepInv, Advances, Op, IsActive
<1>8. QED
  BY <1>k, <1>1, <1>2, <1>3, <1>4, <1>6, <1>7, NoOtherWriter, HolderAdvances
     DEF locks

LEMMA ReserveInv ==
  ASSUME StorageInv, NEW p \in Procs, Reserve(p)
  PROVE  StorageInv'
<1>1. proc[p].pc = "stream" /\ sql # p
  BY SqlElsewhere DEF Reserve, At
<1>k. PICK k \in Ops : Op(p) = k
  BY <1>1, OpInOps DEF Running, Labels
<1>t. reservations[k] \in ResType /\ proc[p].size \in Nat /\ Owner[k] \in Owners
  BY RowTyped, ProcTyped, StorageAssumptions DEF ProcType
<1> DEFINE growth == Growth(k, proc[p].size + 1)
<1>2. /\ accounts' = [accounts EXCEPT ![Owner[k]].reserved = @ + growth]
      /\ reservations' = [reservations EXCEPT
           ![k].allocated = @ + growth, ![k].state = "writing", ![k].live = TRUE]
  BY <1>k DEF Reserve
<1>g. /\ growth \in Nat /\ reservations[k].allocated \in Nat
      /\ reservations[k].allocated + growth \in Nat
      /\ reservations[k].allocated + growth > proc[p].size
  BY <1>t DEF ResType, Growth
<1> HIDE DEF growth
<1>3. /\ Advances(p, "write") /\ IsActive(k)
      /\ UNCHANGED <<files, limits, disk, locks, sql, cursor, faults>>
  BY <1>k, GotoAdvances DEF Reserve, Labels
<1>4. accounts' \in [Owners -> AcctType]
  BY <1>2, <1>g, <1>t, RowTyped DEF AcctType
<1>5. [reservations[k] EXCEPT !.allocated = @ + growth, !.state = "writing",
                             !.live = TRUE] \in ResType
  <2>1. "writing" \in States
    BY DEF States, Active
  <2>2. QED BY <2>1, <1>g, <1>t DEF ResType
<1>6. /\ reservations' \in [Ops -> ResType]
      /\ reservations'[k] = [reservations[k] EXCEPT !.allocated = @ + growth,
                               !.state = "writing", !.live = TRUE]
      /\ \A j \in Ops : j # k => reservations'[j] = reservations[j]
  BY <1>2, <1>5, RowTyped
<1>7. /\ reservations'[k].state = "writing"
      /\ reservations'[k].allocated = reservations[k].allocated + growth
      /\ reservations'[k].allocated > proc[p].size
      /\ reservations'[k].allocated \in Nat
  BY <1>6, <1>g, <1>t DEF ResType
<1>8. RowsTyped /\ OthersSame(k)
  BY <1>3, <1>4, <1>6, RowTyped DEF RowsTyped, OthersSame, disk
<1>9. proc[p].pc \in Fresh \cap Exclusive \cap Changing
      /\ "write" \in (Labels \cap Exclusive) \ Shared
  BY <1>1 DEF Fresh, Exclusive, Changing, Shared, Labels
<1>10. /\ bytes[k] = proc[p].size /\ files[k].state = "none" /\ ~final[k]
  BY <1>k, <1>1 DEF StorageInv, StepInv
<1>11. RowInv(k)'
  BY <1>3, <1>g, <1>7, <1>10, <1>t DEF RowInv, Intact, Held, IsActive, Active, disk
<1>12. StepInv(p)'
  BY <1>k, <1>3, <1>7, <1>10 DEF StepInv, Advances, Op, IsActive, Active, disk
<1>13. QED
  BY <1>k, <1>1, <1>3, <1>7, <1>8, <1>9, <1>11, <1>12, NoOtherWriter, HolderAdvances

LEMMA WrittenInv ==
  ASSUME StorageInv, NEW p \in Procs, Written(p)
  PROVE  StorageInv'
<1>1. proc[p].pc = "written" /\ sql # p
  BY SqlElsewhere DEF Written, At
<1>k. PICK k \in Ops : Op(p) = k
  BY <1>1, OpInOps DEF Running, Labels
<1>t. /\ reservations[k] \in ResType /\ proc[p] \in ProcType /\ Owner[k] \in Owners
      /\ proc[p].size \in Nat /\ reservations[k].allocated \in Nat
  BY RowTyped, ProcTyped, StorageAssumptions DEF ProcType, ResType
<1>2. /\ bytes[k] = proc[p].size + 1 /\ files[k].state = "none" /\ ~final[k]
      /\ reservations[k].allocated > proc[p].size
  BY <1>k, <1>1 DEF StorageInv, StepInv
<1>3. /\ accounts' = [accounts EXCEPT ![Owner[k]].reserved = @ + 0]
      /\ reservations' = [reservations EXCEPT
           ![k].allocated = @ + 0, ![k].state = "writing", ![k].live = TRUE,
           ![k].written = proc[p].size + 1]
      /\ proc' = [proc EXCEPT ![p].pc = "stream", ![p].size = proc[p].size + 1]
      /\ UNCHANGED <<files, limits, disk, locks, sql, cursor, faults>>
  <2>1. Growth(k, proc[p].size + 1) = 0
    BY <1>2, <1>t DEF Growth
  <2>2. QED BY <1>k, <2>1 DEF Written
<1>4. accounts' \in [Owners -> AcctType]
  BY <1>3, <1>t, RowTyped DEF AcctType
<1>5. [reservations[k] EXCEPT !.allocated = @ + 0, !.state = "writing", !.live = TRUE,
                             !.written = proc[p].size + 1] \in ResType
  <2>1. "writing" \in States /\ proc[p].size + 1 \in Nat
        /\ reservations[k].allocated + 0 \in Nat
    BY <1>t DEF States, Active
  <2>2. QED BY <2>1, <1>t DEF ResType
<1>6. /\ reservations' \in [Ops -> ResType]
      /\ reservations'[k] = [reservations[k] EXCEPT !.allocated = @ + 0,
           !.state = "writing", !.live = TRUE, !.written = proc[p].size + 1]
      /\ \A j \in Ops : j # k => reservations'[j] = reservations[j]
  BY <1>3, <1>5, RowTyped
<1>7. /\ reservations'[k].state = "writing"
      /\ reservations'[k].allocated = reservations[k].allocated
  BY <1>6, <1>t DEF ResType
<1>8. [proc[p] EXCEPT !.pc = "stream", !.size = proc[p].size + 1] \in ProcType
  <2>1. "stream" \in Labels /\ proc[p].size + 1 \in Nat
    BY <1>t DEF Labels
  <2>2. QED BY <2>1, <1>t DEF ProcType
<1>9. /\ proc' \in [Procs -> ProcType]
      /\ proc'[p] = [proc[p] EXCEPT !.pc = "stream", !.size = proc[p].size + 1]
      /\ \A q \in Procs : q # p => proc'[q] = proc[q]
  BY <1>3, <1>8, ProcTyped
<1>10. /\ proc'[p].pc = "stream" /\ proc'[p].op = k
       /\ proc'[p].size = proc[p].size + 1
  BY <1>k, <1>9, <1>t DEF ProcType, Op
<1>11. RowsTyped /\ OthersSame(k) /\ Moved(p, k)
  BY <1>3, <1>4, <1>6, <1>9, RowTyped DEF RowsTyped, OthersSame, Moved, disk
<1>12. TypeOK'
  BY <1>3, <1>9, <1>11, RowTyped, ProcTyped, TypeIs DEF RowsTyped, locks
<1>13. /\ proc[p].pc \in Fresh \cap Exclusive \cap Changing \cap Running
       /\ "stream" \in (Fresh \cap Exclusive) \ Shared
  BY <1>1 DEF Fresh, Exclusive, Changing, Shared, Labels, Running
<1>14. FlockInv'
  BY <1>k, <1>3, <1>9, <1>10, <1>13, FlockKept DEF StorageInv
<1>15. RowInv(k)'
  BY <1>2, <1>3, <1>7, <1>t DEF RowInv, Intact, Held, IsActive, Active, disk
<1>16. StepInv(p)'
  BY <1>2, <1>3, <1>10 DEF StepInv, Op, disk
<1>17. QED
  BY <1>k, <1>1, <1>3, <1>7, <1>10, <1>11, <1>12, <1>13, <1>14, <1>15, <1>16,
     NoOtherWriter, HolderInv

LEMMA InsertFileInv ==
  ASSUME StorageInv, NEW p \in Procs, InsertFile(p)
  PROVE  StorageInv'
<1>1. proc[p].pc = "insert" /\ sql # p
  BY SqlElsewhere DEF InsertFile, At
<1>k. PICK k \in Ops : Op(p) = k
  BY <1>1, OpInOps DEF Running, Labels
<1>t. reservations[k] \in ResType /\ proc[p].size \in Nat
  BY RowTyped, ProcTyped DEF ProcType
<1>2. /\ Advances(p, "publish") /\ IsActive(k)
      /\ files' = [files EXCEPT ![k] = [state |-> "staged", size |-> proc[p].size]]
      /\ reservations' = [reservations EXCEPT ![k].state = "staged"]
      /\ UNCHANGED <<accounts, limits, disk, locks, sql, cursor, faults>>
  BY <1>k, GotoAdvances DEF InsertFile, Labels
<1>3. [state |-> "staged", size |-> proc[p].size] \in FileType
      /\ [reservations[k] EXCEPT !.state = "staged"] \in ResType
  BY <1>t DEF FileType, ResType, States, Active
<1>4. /\ files' \in [Ops -> FileType] /\ reservations' \in [Ops -> ResType]
      /\ files'[k] = [state |-> "staged", size |-> proc[p].size]
      /\ reservations'[k] = [reservations[k] EXCEPT !.state = "staged"]
      /\ \A j \in Ops : j # k => files'[j] = files[j] /\ reservations'[j] = reservations[j]
  BY <1>2, <1>3, RowTyped
<1>5. reservations'[k].state = "staged"
      /\ reservations'[k].allocated = reservations[k].allocated
  BY <1>4, <1>t DEF ResType
<1>6. RowsTyped /\ OthersSame(k)
  BY <1>2, <1>4, RowTyped DEF RowsTyped, OthersSame, disk
<1>7. proc[p].pc \in Fresh \cap Exclusive \cap Changing
      /\ "publish" \in (Labels \cap Exclusive) \ Shared
  BY <1>1 DEF Fresh, Exclusive, Changing, Shared, Labels
<1>8. bytes[k] = proc[p].size /\ ~final[k] /\ bytes[k] <= reservations[k].allocated
  BY <1>k, <1>1, <1>2 DEF StorageInv, StepInv, RowInv, Held
<1>9. RowInv(k)'
  BY <1>2, <1>4, <1>5, <1>8 DEF RowInv, Intact, Held, IsActive, Active, disk
<1>10. StepInv(p)'
  BY <1>k, <1>2, <1>4, <1>8 DEF StepInv, Advances, Op, disk
<1>11. QED
  BY <1>k, <1>1, <1>2, <1>5, <1>6, <1>7, <1>9, <1>10, NoOtherWriter, HolderAdvances

(* A process that waits to stage an operation finds nothing of it yet. *)
LEMMA WaiterFindsNothing ==
  ASSUME StorageInv, NEW q \in Procs, proc[q].pc = "lock"
  PROVE  bytes[Op(q)] = 0 /\ files[Op(q)].state = "none" /\ ~final[Op(q)]
  BY DEF StorageInv, StepInv

LEMMA MarkInv ==
  ASSUME StorageInv, NEW p \in Procs, Mark(p)
  PROVE  StorageInv'
<1>1. proc[p].pc = "clean" /\ sql # p /\ sql = NoProc
      /\ UNCHANGED <<files, accounts, limits, disk, sql, cursor, faults>>
  BY SqlElsewhere DEF Mark, At, SqlFree
<1>k. PICK k \in Ops : Op(p) = k
  BY <1>1, OpInOps DEF Running, Labels
<1>r. proc[p].then \in Outcomes /\ reservations[k] \in ResType
  BY RowTyped, ProcTyped DEF ProcType
<1>2. CASE Finish(p, proc[p].then) /\ UNCHANGED reservations
  BY <1>1, <1>2, <1>r, ProcTyped, FinishInv DEF rows
<1>3. CASE /\ reservations[k].state = "committed"
           /\ Goto(p, "clean_committed") /\ UNCHANGED <<reservations, locks>>
  <2>1. Advances(p, "clean_committed")
    BY <1>3, GotoAdvances DEF Labels
  <2>2. StepInv(p)'
    BY <1>k, <1>3, <2>1 DEF StepInv, Advances, Op
  <2>3. UNCHANGED <<rows, disk, locks, sql, cursor, faults>>
    BY <1>1, <1>3 DEF rows
  <2>4. QED BY <1>1, <2>1, <2>2, <2>3, AdvanceInv
            DEF Labels, Running, Exclusive, Shared, Fresh, Changing
<1>4. CASE /\ IsActive(k) /\ Goto(p, "clean_final") /\ UNCHANGED locks
           /\ reservations' = [reservations EXCEPT ![k].state = "cleanup_pending"]
  <2>1. Advances(p, "clean_final")
    BY <1>4, GotoAdvances DEF Labels
  <2>2. "cleanup_pending" \in States
    BY DEF States, Active
  <2>3. [reservations[k] EXCEPT !.state = "cleanup_pending"] \in ResType
    BY <1>r, <2>2 DEF ResType
  <2>4. /\ reservations' \in [Ops -> ResType]
        /\ reservations'[k] = [reservations[k] EXCEPT !.state = "cleanup_pending"]
        /\ \A j \in Ops : j # k => reservations'[j] = reservations[j]
    BY <1>4, <2>3, RowTyped
  <2>5. /\ reservations'[k].state = "cleanup_pending"
        /\ reservations'[k].allocated = reservations[k].allocated
    BY <2>4, <1>r DEF ResType
  <2>6. RowsTyped /\ OthersSame(k)
    BY <1>1, <2>4, RowTyped DEF RowsTyped, OthersSame, disk
  <2>7. /\ proc[p].pc \in Exclusive
        /\ "clean_final" \in (Labels \cap Exclusive) \ (Shared \cup Fresh)
    BY <1>1 DEF Fresh, Exclusive, Shared, Labels
  <2>8. RowInv(k)'
    BY <1>1, <1>4, <2>5 DEF StorageInv, RowInv, Intact, Held, IsActive, Active, disk
  <2>9. StepInv(p)'
    BY <1>k, <2>1, <2>5 DEF StepInv, Advances, Op, IsActive, Active
  <2>10. QED
    BY <1>k, <1>1, <1>4, <2>1, <2>5, <2>6, <2>7, <2>8, <2>9, WaiterFindsNothing,
       HolderAdvances DEF disk
<1>5. QED BY <1>k, <1>2, <1>3, <1>4 DEF Mark

LEMMA CleanCommittedInv ==
  ASSUME StorageInv, NEW p \in Procs, CleanCommitted(p)
  PROVE  StorageInv'
<1>1. proc[p].pc = "clean_committed" /\ sql # p
  BY SqlElsewhere DEF CleanCommitted, At
<1>k. PICK k \in Ops : Op(p) = k
  BY <1>1, OpInOps DEF Running, Labels
<1>r. proc[p].then \in Outcomes
  BY ProcTyped DEF ProcType
<1>2. /\ Finish(p, proc[p].then)
      /\ staging' = [staging EXCEPT ![k] = @ /\ ~final[k]]
      /\ UNCHANGED <<reservations, files, accounts, limits, final, bytes, sql, cursor,
                     faults>>
  BY <1>k DEF CleanCommitted, rows
<1>3. RowsTyped /\ OthersSame(k)
  BY <1>2, RowTyped DEF RowsTyped, OthersSame
<1>4. proc[p].pc \in Exclusive \cap Changing
  BY <1>1 DEF Exclusive, Changing
<1>5. reservations[k].state = "committed"
  BY <1>k, <1>1 DEF StorageInv, StepInv
<1>6. RowInv(k)'
  BY <1>2, <1>5 DEF StorageInv, RowInv, Intact, Held, IsActive
<1>7. QED
  BY <1>k, <1>r, <1>1, <1>2, <1>3, <1>4, <1>6, WaiterFindsNothing, HolderFinishes

LEMMA CleanFinalInv ==
  ASSUME StorageInv, NEW p \in Procs, CleanFinal(p)
  PROVE  StorageInv'
<1>1. proc[p].pc = "clean_final" /\ sql # p
  BY SqlElsewhere DEF CleanFinal, At
<1>k. PICK k \in Ops : Op(p) = k
  BY <1>1, OpInOps DEF Running, Labels
<1>2. /\ Advances(p, "clean_staging")
      /\ final' = [final EXCEPT ![k] = FALSE]
      /\ UNCHANGED <<reservations, files, accounts, limits, staging, bytes, writer,
                     readers, sql, cursor, faults>>
  BY <1>k, GotoAdvances DEF CleanFinal, Labels, rows, locks
<1>3. RowsTyped /\ OthersSame(k) /\ ~final'[k]
  BY <1>2, RowTyped DEF RowsTyped, OthersSame
<1>4. proc[p].pc \in Exclusive \cap Changing
      /\ "clean_staging" \in (Labels \cap Exclusive) \ (Shared \cup Fresh)
  BY <1>1 DEF Fresh, Exclusive, Changing, Shared, Labels
<1>5. IsActive(k)
  BY <1>k, <1>1 DEF StorageInv, StepInv
<1>6. RowInv(k)'
  BY <1>2, <1>3, <1>5 DEF StorageInv, RowInv, Intact, Held, IsActive, Active
<1>7. StepInv(p)'
  BY <1>k, <1>2, <1>3, <1>5 DEF StepInv, Advances, Op, IsActive
<1>8. QED
  BY <1>k, <1>1, <1>2, <1>3, <1>4, <1>6, <1>7, WaiterFindsNothing, HolderAdvances
     DEF locks

LEMMA CleanStagingInv ==
  ASSUME StorageInv, NEW p \in Procs, CleanStaging(p)
  PROVE  StorageInv'
<1>1. proc[p].pc = "clean_staging" /\ sql # p
  BY SqlElsewhere DEF CleanStaging, At
<1>k. PICK k \in Ops : Op(p) = k
  BY <1>1, OpInOps DEF Running, Labels
<1>2. /\ Advances(p, "clean_abort")
      /\ staging' = [staging EXCEPT ![k] = FALSE]
      /\ bytes' = [bytes EXCEPT ![k] = IF final[k] THEN @ ELSE 0]
      /\ UNCHANGED <<reservations, files, accounts, limits, final, writer,
                     readers, sql, cursor, faults>>
  BY <1>k, GotoAdvances DEF CleanStaging, Labels, rows, locks
<1>3. IsActive(k) /\ ~final[k]
  BY <1>k, <1>1 DEF StorageInv, StepInv
<1>4. RowsTyped /\ OthersSame(k) /\ bytes'[k] = 0
  BY <1>2, <1>3, RowTyped DEF RowsTyped, OthersSame
<1>5. proc[p].pc \in Exclusive \cap Changing
      /\ "clean_abort" \in (Labels \cap Exclusive) \ (Shared \cup Fresh)
  BY <1>1 DEF Fresh, Exclusive, Changing, Shared, Labels
<1>6. reservations[k].allocated \in Nat /\ files[k].size \in Nat
  BY RowTyped DEF ResType, FileType
<1>7. RowInv(k)'
  BY <1>2, <1>3, <1>4, <1>6 DEF StorageInv, RowInv, Intact, Held, IsActive, Active
<1>8. StepInv(p)'
  BY <1>k, <1>2, <1>3, <1>4 DEF StepInv, Advances, Op, IsActive
<1>9. QED
  BY <1>k, <1>1, <1>2, <1>3, <1>4, <1>5, <1>7, <1>8, WaiterFindsNothing,
     HolderAdvances DEF locks

LEMMA AbortInv ==
  ASSUME StorageInv, NEW p \in Procs, Abort(p)
  PROVE  StorageInv'
<1>1. proc[p].pc = "clean_abort" /\ sql # p
  BY SqlElsewhere DEF Abort, At
<1>k. PICK k \in Ops : Op(p) = k
  BY <1>1, OpInOps DEF Running, Labels
<1>r. /\ proc[p].then \in Outcomes /\ Owner[k] \in Owners
      /\ reservations[k] \in ResType /\ files[k] \in FileType
      /\ reservations[k].allocated \in Nat
  BY RowTyped, ProcTyped, StorageAssumptions DEF ProcType, ResType
<1>2. /\ Finish(p, proc[p].then) /\ IsActive(k)
      /\ accounts' = [accounts EXCEPT ![Owner[k]].reserved =
                                         @ - reservations[k].allocated]
      /\ files' = [files EXCEPT ![k].state = IF @ = "none" THEN @ ELSE "deleted"]
      /\ reservations' = [reservations EXCEPT ![k].state = "aborted"]
      /\ UNCHANGED <<limits, disk, sql, cursor, faults>>
  BY <1>k DEF Abort
<1>3. accounts' \in [Owners -> AcctType]
  BY <1>2, <1>r, RowTyped DEF AcctType
<1>4. /\ [reservations[k] EXCEPT !.state = "aborted"] \in ResType
      /\ [files[k] EXCEPT !.state = IF @ = "none" THEN @ ELSE "deleted"] \in FileType
  <2>1. "aborted" \in States
    BY DEF States
  <2>2. QED BY <2>1, <1>r DEF ResType, FileType
<1>5. /\ reservations' \in [Ops -> ResType] /\ files' \in [Ops -> FileType]
      /\ reservations'[k] = [reservations[k] EXCEPT !.state = "aborted"]
      /\ files'[k] = [files[k] EXCEPT !.state = IF @ = "none" THEN @ ELSE "deleted"]
      /\ \A j \in Ops : j # k => files'[j] = files[j] /\ reservations'[j] = reservations[j]
  BY <1>2, <1>4, RowTyped
<1>6. /\ reservations'[k].state = "aborted"
      /\ files'[k].state = IF files[k].state = "none" THEN "none" ELSE "deleted"
  BY <1>5, <1>r DEF ResType, FileType
<1>7. RowsTyped /\ OthersSame(k)
  BY <1>2, <1>3, <1>5, RowTyped DEF RowsTyped, OthersSame, disk
<1>8. proc[p].pc \in Exclusive \cap Changing
  BY <1>1 DEF Exclusive, Changing
<1>9. bytes[k] = 0 /\ ~final[k]
  BY <1>k, <1>1 DEF StorageInv, StepInv
<1>10. RowInv(k)'
  BY <1>2, <1>6, <1>9 DEF RowInv, Intact, Held, IsActive, Active, disk
<1>11. QED
  BY <1>k, <1>r, <1>1, <1>2, <1>6, <1>7, <1>8, <1>10, WaiterFindsNothing,
     HolderFinishes DEF disk

(* A file row whose state alone changes. *)
LEMMA FileStateTyped ==
  ASSUME StorageInv, NEW k \in Ops,
         NEW x \in {"none", "staged", "ready", "pending_delete", "deleted"},
         files' = [files EXCEPT ![k].state = x]
  PROVE  /\ files' \in [Ops -> FileType]
         /\ files'[k].state = x /\ files'[k].size = files[k].size
         /\ \A j \in Ops : j # k => files'[j] = files[j]
<1>1. files[k] \in FileType /\ files \in [Ops -> FileType]
  BY RowTyped
<1>2. [files[k] EXCEPT !.state = x] \in FileType
  BY <1>1 DEF FileType
<1>3. files' \in [Ops -> FileType] /\ files'[k] = [files[k] EXCEPT !.state = x]
      /\ \A j \in Ops : j # k => files'[j] = files[j]
  BY <1>1, <1>2
<1>4. QED BY <1>1, <1>3 DEF FileType

LEMMA DeleteMarkInv ==
  ASSUME StorageInv, NEW p \in Procs, DeleteMark(p)
  PROVE  StorageInv'
<1>1. proc[p].pc = "delete_mark" /\ sql # p /\ sql = NoProc
      /\ UNCHANGED <<reservations, accounts, limits, disk, sql, cursor, faults>>
  BY SqlElsewhere DEF DeleteMark, At, SqlFree
<1>k. PICK k \in Ops : Op(p) = k
  BY <1>1, OpInOps DEF Running, Labels
<1>2. CASE Finish(p, "refused") /\ UNCHANGED files
  BY <1>1, <1>2, ProcTyped, FinishInv DEF rows, Outcomes
<1>3. CASE /\ files[k].state \in {"ready", "pending_delete"}
           /\ files' = [files EXCEPT ![k].state = "pending_delete"]
           /\ Goto(p, "delete_final") /\ UNCHANGED locks
  <2>1. Advances(p, "delete_final")
    BY <1>3, GotoAdvances DEF Labels
  <2>2. /\ files' \in [Ops -> FileType]
        /\ files'[k].state = "pending_delete" /\ files'[k].size = files[k].size
        /\ \A j \in Ops : j # k => files'[j] = files[j]
    BY <1>3, FileStateTyped
  <2>3. RowsTyped /\ OthersSame(k)
    BY <1>1, <2>2, RowTyped DEF RowsTyped, OthersSame, disk
  <2>4. /\ proc[p].pc \in Exclusive
        /\ "delete_final" \in (Labels \cap Exclusive) \ (Shared \cup Fresh)
    BY <1>1 DEF Fresh, Exclusive, Shared, Labels
  <2>5. RowInv(k)'
    BY <1>1, <1>3, <2>2 DEF StorageInv, RowInv, Intact, Held, IsActive, Active, disk
  <2>6. StepInv(p)'
    BY <1>k, <2>1, <2>2 DEF StepInv, Advances, Op
  <2>7. QED
    BY <1>k, <1>1, <1>3, <2>1, <2>3, <2>4, <2>5, <2>6, WaiterFindsNothing,
       HolderAdvances DEF disk
<1>4. QED BY <1>k, <1>2, <1>3 DEF DeleteMark

LEMMA DeleteFinalInv ==
  ASSUME StorageInv, NEW p \in Procs, DeleteFinal(p)
  PROVE  StorageInv'
<1>1. proc[p].pc = "delete_final" /\ sql # p
  BY SqlElsewhere DEF DeleteFinal, At
<1>k. PICK k \in Ops : Op(p) = k
  BY <1>1, OpInOps DEF Running, Labels
<1>2. /\ Advances(p, "delete_staging")
      /\ final' = [final EXCEPT ![k] = FALSE]
      /\ bytes' = [bytes EXCEPT ![k] = IF staging[k] THEN @ ELSE 0]
      /\ UNCHANGED <<reservations, files, accounts, limits, staging, writer, readers,
                     sql, cursor, faults>>
  BY <1>k, GotoAdvances DEF DeleteFinal, Labels, rows, locks
<1>3. RowsTyped /\ OthersSame(k) /\ ~final'[k]
      /\ bytes'[k] = IF staging[k] THEN bytes[k] ELSE 0
  BY <1>2, RowTyped DEF RowsTyped, OthersSame
<1>4. proc[p].pc \in Exclusive \cap Changing
      /\ "delete_staging" \in (Labels \cap Exclusive) \ (Shared \cup Fresh)
  BY <1>1 DEF Fresh, Exclusive, Changing, Shared, Labels
<1>5. files[k].state = "pending_delete" /\ files[k].size \in Nat
  BY <1>k, <1>1, RowTyped DEF StorageInv, StepInv, FileType
<1>6. RowInv(k)'
  BY <1>2, <1>3, <1>5 DEF StorageInv, RowInv, Intact, Held, IsActive, Active
<1>7. StepInv(p)'
  BY <1>k, <1>2, <1>3, <1>5 DEF StepInv, Advances, Op
<1>8. QED
  BY <1>k, <1>1, <1>2, <1>3, <1>4, <1>5, <1>6, <1>7, WaiterFindsNothing,
     HolderAdvances DEF locks

LEMMA DeleteStagingInv ==
  ASSUME StorageInv, NEW p \in Procs, DeleteStaging(p)
  PROVE  StorageInv'
<1>1. proc[p].pc = "delete_staging" /\ sql # p
  BY SqlElsewhere DEF DeleteStaging, At
<1>k. PICK k \in Ops : Op(p) = k
  BY <1>1, OpInOps DEF Running, Labels
<1>2. /\ Advances(p, "delete_done")
      /\ staging' = [staging EXCEPT ![k] = FALSE]
      /\ bytes' = [bytes EXCEPT ![k] = IF final[k] THEN @ ELSE 0]
      /\ UNCHANGED <<reservations, files, accounts, limits, final, writer, readers,
                     sql, cursor, faults>>
  BY <1>k, GotoAdvances DEF DeleteStaging, Labels, rows, locks
<1>3. files[k].state = "pending_delete" /\ files[k].size \in Nat /\ ~final[k]
  BY <1>k, <1>1, RowTyped DEF StorageInv, StepInv, FileType
<1>4. RowsTyped /\ OthersSame(k) /\ bytes'[k] = 0
  BY <1>2, <1>3, RowTyped DEF RowsTyped, OthersSame
<1>5. proc[p].pc \in Exclusive \cap Changing
      /\ "delete_done" \in (Labels \cap Exclusive) \ (Shared \cup Fresh)
  BY <1>1 DEF Fresh, Exclusive, Changing, Shared, Labels
<1>6. RowInv(k)'
  BY <1>2, <1>3, <1>4 DEF StorageInv, RowInv, Intact, Held, IsActive, Active
<1>7. StepInv(p)'
  BY <1>k, <1>2, <1>3, <1>4 DEF StepInv, Advances, Op
<1>8. QED
  BY <1>k, <1>1, <1>2, <1>3, <1>4, <1>5, <1>6, <1>7, WaiterFindsNothing,
     HolderAdvances DEF locks

LEMMA DeleteDoneInv ==
  ASSUME StorageInv, NEW p \in Procs, DeleteDone(p)
  PROVE  StorageInv'
<1>1. proc[p].pc = "delete_done" /\ sql # p
  BY SqlElsewhere DEF DeleteDone, At
<1>k. PICK k \in Ops : Op(p) = k
  BY <1>1, OpInOps DEF Running, Labels
<1>r. Owner[k] \in Owners /\ files[k].size \in Nat /\ "ok" \in Outcomes
  BY RowTyped, StorageAssumptions DEF FileType, Outcomes
<1>2. /\ Finish(p, "ok")
      /\ files' = [files EXCEPT ![k].state = "deleted"]
      /\ accounts' = [accounts EXCEPT ![Owner[k]].used = @ - files[k].size]
      /\ UNCHANGED <<reservations, limits, disk, sql, cursor, faults>>
  BY <1>k DEF DeleteDone
<1>3. accounts' \in [Owners -> AcctType]
  BY <1>2, <1>r, RowTyped DEF AcctType
<1>4. /\ files' \in [Ops -> FileType] /\ files'[k].state = "deleted"
      /\ \A j \in Ops : j # k => files'[j] = files[j]
  BY <1>2, FileStateTyped
<1>5. RowsTyped /\ OthersSame(k)
  BY <1>2, <1>3, <1>4, RowTyped DEF RowsTyped, OthersSame, disk
<1>6. proc[p].pc \in Exclusive \cap Changing
  BY <1>1 DEF Exclusive, Changing
<1>7. files[k].state = "pending_delete" /\ bytes[k] = 0 /\ ~final[k]
  BY <1>k, <1>1 DEF StorageInv, StepInv
<1>8. RowInv(k)'
  BY <1>2, <1>4, <1>7 DEF StorageInv, RowInv, Intact, Held, IsActive, Active, disk
<1>9. QED
  BY <1>k, <1>r, <1>1, <1>2, <1>5, <1>6, <1>7, <1>8, WaiterFindsNothing,
     HolderFinishes DEF disk
-----------------------------------------------------------------------------
(* The publishing transaction *)

(* Nobody but its writer is changing an operation whose flock it holds. *)
LEMMA OthersWait ==
  ASSUME StorageInv, NEW p \in Procs, proc[p].pc \in Exclusive \cap Fresh
  PROVE  \A q \in Procs : q # p /\ Op(q) = Op(p) => proc[q].pc \notin Changing
<1>1. Op(p) \in Ops /\ writer[Op(p)] = p
  BY DEF StorageInv, FlockInv, Exclusive, Fresh, Running, Labels
<1>2. ASSUME NEW q \in Procs, q # p, Op(q) = Op(p) PROVE proc[q].pc \notin Changing
  <2>1. proc[q].pc \notin Exclusive
    BY <1>1, <1>2 DEF StorageInv, FlockInv
  <2>2. proc[q].pc \notin Fresh
    BY <1>2 DEF StorageInv, OneWriter
  <2>3. QED BY <2>1, <2>2 DEF Changing, Exclusive
<1>3. QED BY <1>2

LEMMA PublishInv ==
  ASSUME StorageInv, NEW p \in Procs, Publish(p)
  PROVE  StorageInv'
<1>1. proc[p].pc = "publish" /\ sql = NoProc
  BY DEF Publish, At, SqlFree
<1>k. PICK k \in Ops : Op(p) = k
  BY <1>1, OpInOps DEF Running, Labels
<1>2. /\ Advances(p, "commit") /\ IsActive(k) /\ staging[k]
      /\ final' = [final EXCEPT ![k] = TRUE] /\ sql' = p
      /\ UNCHANGED <<reservations, files, accounts, limits, staging, bytes, locks,
                     cursor, faults>>
  BY <1>k, GotoAdvances DEF Publish, Labels, rows
<1>3. /\ final' \in [Ops -> BOOLEAN] /\ final'[k]
      /\ \A j \in Ops : j # k => final'[j] = final[j]
  BY <1>2, RowTyped
<1>4. TypeOK'
  BY <1>2, <1>3, RowTyped, ProcTyped, TypeIs DEF Advances, locks
<1>5. Moved(p, k)
  BY <1>2, <1>3 DEF Moved, Advances
<1>6. /\ proc[p].pc \in Fresh \cap Exclusive \cap Running
      /\ "commit" \in (Fresh \cap Exclusive) \ Shared
  BY <1>1 DEF Fresh, Exclusive, Shared, Labels, Running
<1>7. FlockInv'
  BY <1>k, <1>2, <1>6, FlockKept DEF StorageInv, Advances
<1>8. OneWriter'
  BY <1>k, <1>2, <1>6, OneWriterKept DEF StorageInv, Advances
<1>9. /\ files[k] = [state |-> "staged", size |-> proc[p].size]
      /\ bytes[k] = proc[p].size /\ p \in Requests /\ writer[k] = p
  BY <1>k, <1>1, <1>6 DEF StorageInv, StepInv, FlockInv
<1>10. SqlInv'
  <2>1. \A q \in Procs : Op(q)' = k /\ q # p => proc'[q].pc \notin Changing
    BY <1>k, <1>2, <1>6, OthersWait DEF Advances, Op
  <2>2. Op(p)' = k /\ proc'[p].pc = "commit"
    BY <1>k, <1>2 DEF Advances, Op
  <2>3. QED BY <1>2, <1>3, <1>9, <2>1, <2>2 DEF SqlInv
<1>11. RowInv(k)'
  BY <1>2, <1>3, <1>9 DEF StorageInv, RowInv, Intact, Held, IsActive, Active
<1>12. StepInv(p)'
  BY <1>k, <1>2, <1>9 DEF StepInv, Advances, Op
<1>13. \A q \in Procs : q # p /\ sql = q => sql' = q
  BY <1>1, NoProcIsNone
<1>14. QED
  BY <1>k, <1>4, <1>5, <1>6, <1>7, <1>8, <1>9, <1>10, <1>11, <1>12, <1>13,
     NoOtherWriter, HolderKeeps

(* A step that closes the open transaction: whoever else works on its       *)
(* operation has waited for it.                                             *)
LEMMA SqlEnds ==
  ASSUME StorageInv, NEW p \in Procs, sql = p, sql' = NoProc, NEW k \in Ops,
         Op(p) = k, Moved(p, k), UNCHANGED <<disk, locks>>,
         files'[k].size = files[k].size,
         proc'[p].op = k, proc'[p].pc \in {"clean", "done"},
         proc'[p].pc = "clean" => proc[p].pc = "commit",
         reservations[k].state # "none" => reservations'[k].state # "none",
         TypeOK', RowInv(k)'
  PROVE  StorageInv'
<1>1. UNCHANGED <<bytes, final, staging>>
  BY DEF disk
<1>2. sql # NoProc /\ proc[p].pc \in {"commit", "done"}
  BY NoProcIsNone DEF StorageInv, SqlInv
<1>3. SqlInv'
  BY DEF SqlInv
<1>4. \A q \in Procs : q # p => proc'[q] = proc[q] /\ Op(q)' = Op(q)
  BY DEF Moved, Op
<1>5. OneWriter'
  <2>1. proc'[p].pc \notin Fresh
    BY DEF Fresh
  <2>2. \A j \in Ops : reservations[j].state # "none" => reservations'[j].state # "none"
    BY DEF Moved
  <2>3. QED BY <1>4, <2>1, <2>2, OneWriterKept DEF StorageInv
<1>6. FlockInv'
  <2>1. CASE proc'[p].pc = "clean"
    <3>1. proc[p].pc = "commit"
      BY <2>1
    <3>2. /\ proc[p].pc \in Exclusive \cap Running
          /\ proc'[p].pc \notin Shared \cup Fresh
      BY <2>1, <3>1 DEF Exclusive, Fresh, Shared, Running, Labels
    <3>3. QED BY <1>4, <3>2, FlockKept DEF StorageInv
  <2>2. CASE proc'[p].pc = "done"
    <3>1. proc'[p].pc \notin Exclusive \cup Shared \cup Fresh \cup Running
      BY <2>2 DEF Exclusive, Fresh, Shared, Running, Labels
    <3>2. QED BY <1>4, <3>1 DEF StorageInv, FlockInv, locks
  <2>3. QED BY <2>1, <2>2
<1>7. ASSUME NEW j \in Ops PROVE RowInv(j)'
  <2>1. CASE j # k
    BY <2>1 DEF StorageInv, RowInv, Moved, IsActive, Held, Intact
  <2>2. QED BY <2>1
<1>8. ASSUME NEW q \in Procs PROVE StepInv(q)'
  <2>1. CASE q = p
    BY <2>1 DEF StepInv
  <2>2. CASE q # p /\ Op(q) = k
    <3>1. proc[q].pc \notin Changing /\ StepInv(q) /\ proc'[q] = proc[q] /\ Op(q)' = k
      BY <1>2, <1>4, <2>2 DEF StorageInv, SqlInv
    <3>2. QED BY <1>1, <2>2, <3>1 DEF StepInv, Intact, Changing, Fresh
  <2>3. CASE q # p /\ Op(q) \in Ops \ {k}
    <3>1. /\ StepInv(q) /\ proc'[q] = proc[q] /\ Op(q)' = Op(q) /\ sql # q
          /\ reservations'[Op(q)] = reservations[Op(q)]
          /\ files'[Op(q)] = files[Op(q)]
      BY <1>4, <2>3 DEF StorageInv, Moved
    <3>2. QED BY <1>1, <3>1 DEF StepInv, IsActive, Intact
  <2>4. CASE q # p /\ Op(q) \notin Ops
    <3>1. proc[q].pc \notin Running /\ proc'[q] = proc[q]
      BY <1>4, <2>4 DEF StorageInv, FlockInv
    <3>2. QED BY <3>1, <1>4 DEF StepInv, Running, Labels
  <2>5. QED BY <2>1, <2>2, <2>3, <2>4
<1>9. QED BY <1>3, <1>5, <1>6, <1>7, <1>8 DEF StorageInv

LEMMA CommittedRows ==
  ASSUME StorageInv, sql # NoProc, NEW k \in Ops, Op(sql) = k, Committed(k),
         UNCHANGED disk
  PROVE  /\ reservations' \in [Ops -> ResType] /\ files' \in [Ops -> FileType]
         /\ accounts' \in [Owners -> AcctType]
         /\ reservations'[k].state = "committed" /\ files'[k].size = files[k].size
         /\ OthersSame(k) /\ RowInv(k)' /\ sql' = NoProc /\ limits' = limits
<1>1. /\ files[k].state = "staged" /\ bytes[k] = files[k].size /\ final[k]
      /\ staging[k]
  BY DEF StorageInv, SqlInv
<1>2. /\ files' = [files EXCEPT ![k].state = "ready"]
      /\ reservations' = [reservations EXCEPT ![k].state = "committed"]
      /\ accounts' = [accounts EXCEPT ![Owner[k]] =
            [used     |-> @.used + files[k].size,
             reserved |-> @.reserved - reservations[k].allocated]]
      /\ sql' = NoProc /\ limits' = limits
      /\ UNCHANGED <<bytes, final, staging>>
  BY DEF Committed, disk
<1>3. /\ files' \in [Ops -> FileType]
      /\ files'[k].state = "ready" /\ files'[k].size = files[k].size
      /\ \A j \in Ops : j # k => files'[j] = files[j]
  BY <1>2, FileStateTyped
<1>4. /\ reservations[k] \in ResType /\ files[k] \in FileType /\ Owner[k] \in Owners
      /\ reservations[k].allocated \in Nat /\ files[k].size \in Nat
  BY RowTyped, StorageAssumptions DEF ResType, FileType
<1>5. [reservations[k] EXCEPT !.state = "committed"] \in ResType
  <2>1. "committed" \in States
    BY DEF States
  <2>2. QED BY <2>1, <1>4 DEF ResType
<1>6. /\ reservations' \in [Ops -> ResType]
      /\ reservations'[k] = [reservations[k] EXCEPT !.state = "committed"]
      /\ \A j \in Ops : j # k => reservations'[j] = reservations[j]
  BY <1>2, <1>5, RowTyped
<1>7. reservations'[k].state = "committed"
  BY <1>4, <1>6 DEF ResType
<1>8. accounts' \in [Owners -> AcctType]
  <2>1. accounts[Owner[k]].used \in Int /\ accounts[Owner[k]].reserved \in Int
    BY <1>4, RowTyped DEF AcctType
  <2>2. [used     |-> accounts[Owner[k]].used + files[k].size,
         reserved |-> accounts[Owner[k]].reserved - reservations[k].allocated]
          \in AcctType
    BY <1>4, <2>1 DEF AcctType
  <2>3. QED BY <1>2, <1>4, <2>2, RowTyped
<1>9. RowInv(k)'
  BY <1>1, <1>2, <1>3, <1>4, <1>7 DEF RowInv, Intact, Held, IsActive, Active
<1>10. OthersSame(k)
  BY <1>2, <1>3, <1>6 DEF OthersSame
<1>11. QED BY <1>2, <1>3, <1>6, <1>7, <1>8, <1>9, <1>10

LEMMA CommitInv ==
  ASSUME StorageInv, NEW p \in Procs, Commit(p) \/ Rollback(p)
  PROVE  StorageInv'
<1>1. proc[p].pc = "commit" /\ sql = p /\ sql # NoProc
  BY NoProcIsNone DEF StorageInv, StepInv, Commit, Rollback, At
<1>k. PICK k \in Ops : Op(p) = k
  BY <1>1, OpInOps DEF Running, Labels
<1>2. Advances(p, "clean") /\ UNCHANGED <<disk, locks, cursor, faults>>
  <2>1. PICK r \in Outcomes : proc' = [proc EXCEPT ![p].pc = "clean", ![p].then = r]
    BY DEF Commit, Rollback, Outcomes
  <2>2. QED BY <2>1, CleanAdvances DEF Commit, Rollback
<1>3. /\ OthersSame(k) /\ RowInv(k)' /\ sql' = NoProc
      /\ files'[k].size = files[k].size /\ TypeOK'
      /\ reservations[k].state # "none" => reservations'[k].state # "none"
  <2>1. NoProc \in Procs \cup {NoProc}
    OBVIOUS
  <2>2. CASE Commit(p)
    <3>1. Committed(k)
      BY <1>k, <2>2 DEF Commit
    <3>2. /\ reservations' \in [Ops -> ResType] /\ files' \in [Ops -> FileType]
          /\ accounts' \in [Owners -> AcctType]
          /\ reservations'[k].state = "committed" /\ files'[k].size = files[k].size
          /\ OthersSame(k) /\ RowInv(k)' /\ sql' = NoProc /\ limits' = limits
      BY <1>1, <1>k, <1>2, <3>1, CommittedRows
    <3>3. TypeOK'
      BY <1>2, <2>1, <3>2, RowTyped, ProcTyped, TypeIs DEF Advances, disk, locks
    <3>4. QED BY <3>2, <3>3
  <2>3. CASE Rollback(p)
    <3>1. UNCHANGED <<rows, disk, locks>> /\ sql' = NoProc
      BY <2>3 DEF Rollback
    <3>2. TypeOK'
      BY <1>2, <2>1, <3>1, RowTyped, ProcTyped, TypeIs DEF Advances, rows, disk, locks
    <3>3. OthersSame(k) /\ files' = files /\ reservations' = reservations
      BY <3>1 DEF OthersSame, rows, disk
    <3>4. RowInv(k)'
      BY <3>1 DEF StorageInv, RowInv, Intact, Held, IsActive, rows, disk
    <3>5. QED BY <3>1, <3>2, <3>3, <3>4
  <2>4. QED BY <2>2, <2>3
<1>4. Moved(p, k)
  BY <1>2, <1>3 DEF Moved, Advances, OthersSame
<1>5. QED BY <1>1, <1>k, <1>2, <1>3, <1>4, SqlEnds DEF Advances

LEMMA ServerResolvesInv ==
  ASSUME StorageInv, NEW p \in Procs, ServerResolves(p)
  PROVE  StorageInv'
<1>1. /\ sql = p /\ sql # NoProc /\ proc[p].pc = "done" /\ Op(p) \in Ops
      /\ UNCHANGED <<disk, locks, proc, cursor, faults>>
  BY NoProcIsNone DEF StorageInv, SqlInv, ServerResolves, At
<1>k. PICK k \in Ops : Op(p) = k
  BY <1>1
<1>3. /\ OthersSame(k) /\ RowInv(k)' /\ sql' = NoProc
      /\ files'[k].size = files[k].size /\ TypeOK'
      /\ reservations[k].state # "none" => reservations'[k].state # "none"
  <2>1. NoProc \in Procs \cup {NoProc}
    OBVIOUS
  <2>2. CASE Committed(k)
    <3>1. /\ reservations' \in [Ops -> ResType] /\ files' \in [Ops -> FileType]
          /\ accounts' \in [Owners -> AcctType]
          /\ reservations'[k].state = "committed" /\ files'[k].size = files[k].size
          /\ OthersSame(k) /\ RowInv(k)' /\ sql' = NoProc /\ limits' = limits
      BY <1>1, <1>k, <2>2, CommittedRows
    <3>2. TypeOK'
      BY <1>1, <2>1, <3>1, RowTyped, ProcTyped, TypeIs DEF disk, locks
    <3>3. QED BY <3>1, <3>2
  <2>3. CASE sql' = NoProc /\ UNCHANGED rows
    <3>1. UNCHANGED <<rows, disk, locks>> /\ sql' = NoProc
      BY <1>1, <2>3
    <3>2. TypeOK'
      BY <1>1, <2>1, <3>1, RowTyped, ProcTyped, TypeIs DEF rows, disk, locks
    <3>3. OthersSame(k) /\ files' = files /\ reservations' = reservations
      BY <3>1 DEF OthersSame, rows, disk
    <3>4. RowInv(k)'
      BY <3>1 DEF StorageInv, RowInv, Intact, Held, IsActive, rows, disk
    <3>5. QED BY <3>1, <3>2, <3>3, <3>4
  <2>4. QED BY <1>k, <2>2, <2>3 DEF ServerResolves
<1>4. Moved(p, k)
  BY <1>1, <1>3 DEF Moved, OthersSame
<1>5. QED BY <1>1, <1>k, <1>3, <1>4, SqlEnds DEF Op
-----------------------------------------------------------------------------
(* A new operation, and the steps that no process takes. *)

(* An operation nobody has begun has no bytes and nobody writes it. *)
LEMMA Unborn ==
  ASSUME StorageInv, NEW k \in Ops, reservations[k].state = "none"
  PROVE  /\ files[k].state = "none" /\ ~final[k] /\ ~staging[k] /\ bytes[k] = 0
         /\ \A q \in Procs : Op(q) = k => proc[q].pc \notin Changing
<1>1. files[k].state = "none" /\ ~final[k] /\ ~staging[k] /\ bytes[k] = 0
  <2>1. bytes[k] \in Nat /\ RowInv(k)
    BY RowTyped DEF StorageInv
  <2>2. Held(k) = 0 /\ bytes[k] <= Held(k)
    BY <2>1 DEF RowInv, Held, IsActive, Active
  <2>3. QED BY <2>1, <2>2 DEF RowInv
<1>2. ASSUME NEW q \in Procs, Op(q) = k PROVE proc[q].pc \notin Changing
  <2>1. proc[q].pc \notin Fresh
    BY <1>2 DEF StorageInv, OneWriter
  <2>2. QED
    BY <1>1, <1>2, <2>1 DEF StorageInv, StepInv, Changing, IsActive, Active
<1>3. QED BY <1>1, <1>2

LEMMA BeginFreshInv ==
  ASSUME StorageInv, NEW p \in Requests, NEW k \in Ops,
         NEW e \in 0..FileBytes \cup {Undeclared}, BeginFresh(p, k, e)
  PROVE  StorageInv'
<1>0. p \in Procs /\ "lock" \in Labels /\ "lock" \in Fresh
      /\ "lock" \notin Exclusive \cup Shared
  BY DEF Procs, Labels, Fresh, Exclusive, Shared
<1>1. /\ proc[p].pc = "idle" /\ sql = NoProc /\ reservations[k].state = "none"
      /\ accounts' = [accounts EXCEPT ![Owner[k]].reserved = @ + Declared(e)]
      /\ Started(p, k, "lock")
      /\ UNCHANGED <<files, limits, disk, locks, sql, cursor, faults>>
  BY DEF BeginFresh, At, SqlFree
<1>2. /\ proc' \in [Procs -> ProcType]
      /\ proc'[p] = [pc |-> "lock", op |-> k, size |-> 0, then |-> "none"]
      /\ \A q \in Procs : q # p => proc'[q] = proc[q] /\ Op(q)' = Op(q)
  BY <1>0, <1>1, ProcTyped, StartedType DEF Op
<1>3. /\ files[k].state = "none" /\ ~final[k] /\ ~staging[k] /\ bytes[k] = 0
      /\ \A q \in Procs : Op(q) = k => proc[q].pc \notin Changing
  BY <1>1, Unborn
<1>4. Declared(e) \in Nat /\ Owner[k] \in Owners /\ e \in Nat \cup {Undeclared}
  BY StorageAssumptions DEF Declared
<1> DEFINE row == [state |-> "reserved", allocated |-> Declared(e), written |-> 0,
                   expected |-> e, live |-> TRUE]
<1>5. row \in ResType /\ row.state = "reserved" /\ row.allocated = Declared(e)
  <2>1. "reserved" \in States
    BY DEF States, Active
  <2>2. QED BY <1>4, <2>1 DEF ResType
<1>6. reservations' = [reservations EXCEPT ![k] = row]
  BY DEF BeginFresh
<1> HIDE DEF row
<1>7. /\ reservations' \in [Ops -> ResType]
      /\ reservations'[k].state = "reserved"
      /\ reservations'[k].allocated = Declared(e)
      /\ \A j \in Ops : j # k => reservations'[j] = reservations[j]
  BY <1>5, <1>6, RowTyped
<1>8. accounts' \in [Owners -> AcctType]
  BY <1>1, <1>4, RowTyped DEF AcctType
<1>9. TypeOK'
  BY <1>1, <1>2, <1>7, <1>8, RowTyped, ProcTyped, TypeIs DEF disk, locks
<1>10. FlockInv'
  BY <1>0, <1>1, <1>2 DEF StorageInv, FlockInv, locks, Op
<1>11. OneWriter'
  <2>1. \A q \in Procs : proc[q].pc \in Fresh => Op(q) \in Ops \ {k}
    BY <1>3, OpInOps DEF Changing, Fresh, Running, Labels
  <2>2. Op(p)' = k
    BY <1>2 DEF Op
  <2>3. ASSUME NEW q \in Procs, proc'[q].pc \in Fresh
        PROVE  reservations'[Op(q)'].state # "none"
    BY <1>2, <1>7, <2>1, <2>2, <2>3 DEF StorageInv, OneWriter
  <2>4. ASSUME NEW q \in Procs, NEW r \in Procs, proc'[q].pc \in Fresh,
               proc'[r].pc \in Fresh, Op(q)' = Op(r)'
        PROVE  q = r
    BY <1>2, <2>1, <2>2, <2>4 DEF StorageInv, OneWriter
  <2>5. QED BY <2>3, <2>4 DEF OneWriter
<1>12. SqlInv'
  BY <1>1 DEF SqlInv
<1>13. ASSUME NEW j \in Ops PROVE RowInv(j)'
  <2>1. CASE j # k
    BY <1>1, <1>7, <2>1 DEF StorageInv, RowInv, IsActive, Held, Intact, disk
  <2>2. CASE j = k
    BY <1>1, <1>3, <1>4, <1>7, <2>2 DEF RowInv, IsActive, Active, Held, Intact, disk
  <2>3. QED BY <2>1, <2>2
<1>14. ASSUME NEW q \in Procs PROVE StepInv(q)'
  <2>1. CASE q = p
    <3>1. proc'[q].pc = "lock" /\ proc'[q].size = 0 /\ Op(q)' = k
      BY <1>2, <2>1 DEF Op
    <3>2. QED BY <1>1, <1>3, <3>1 DEF StepInv, disk
  <2>2. CASE q # p /\ Op(q) = k
    <3>1. proc[q].pc \notin Changing /\ StepInv(q) /\ proc'[q] = proc[q] /\ Op(q)' = k
      BY <1>2, <1>3, <2>2 DEF StorageInv
    <3>2. QED BY <1>1, <2>2, <3>1 DEF StepInv, Intact, Changing, Fresh, disk
  <2>3. CASE q # p /\ Op(q) \in Ops \ {k}
    <3>1. /\ StepInv(q) /\ proc'[q] = proc[q] /\ Op(q)' = Op(q)
          /\ reservations'[Op(q)] = reservations[Op(q)]
      BY <1>2, <1>7, <2>3 DEF StorageInv
    <3>2. QED BY <1>1, <3>1 DEF StepInv, IsActive, Intact, disk
  <2>4. CASE q # p /\ Op(q) \notin Ops
    <3>1. proc[q].pc \notin Running /\ proc'[q] = proc[q]
      BY <1>2, <2>4 DEF StorageInv, FlockInv
    <3>2. QED BY <3>1, <1>2 DEF StepInv, Running, Labels
  <2>5. QED BY <2>1, <2>2, <2>3, <2>4
<1>15. QED BY <1>9, <1>10, <1>11, <1>12, <1>13, <1>14 DEF StorageInv

LEMMA RequestDeletionInv ==
  ASSUME StorageInv, NEW k \in Ops, RequestDeletion(k)
  PROVE  StorageInv'
<1>1. /\ sql = NoProc /\ files[k].state = "ready"
      /\ UNCHANGED <<reservations, accounts, limits, staging, final, bytes, writer,
                     readers, sql, proc, cursor, faults>>
  BY DEF RequestDeletion, SqlFree, disk, locks
<1>2. /\ files' \in [Ops -> FileType]
      /\ files'[k].state = "pending_delete" /\ files'[k].size = files[k].size
      /\ \A j \in Ops : j # k => files'[j] = files[j]
  BY FileStateTyped DEF RequestDeletion
<1>3. TypeOK'
  BY <1>1, <1>2, RowTyped, ProcTyped, TypeIs
<1>4. FlockInv' /\ OneWriter' /\ SqlInv'
  BY <1>1 DEF StorageInv, FlockInv, OneWriter, SqlInv, Op
<1>5. ASSUME NEW j \in Ops PROVE RowInv(j)'
  <2>1. CASE j # k
    BY <1>1, <1>2, <2>1 DEF StorageInv, RowInv, IsActive, Held, Intact
  <2>2. CASE j = k
    BY <1>1, <1>2, <2>2 DEF StorageInv, RowInv, IsActive, Active, Held, Intact
  <2>3. QED BY <2>1, <2>2
<1>6. ASSUME NEW q \in Procs PROVE StepInv(q)'
  <2>1. StepInv(q) /\ proc' = proc /\ Op(q)' = Op(q)
    BY <1>1 DEF StorageInv, Op
  <2>2. CASE Op(q) = k
    BY <1>1, <1>2, <2>1, <2>2 DEF StepInv, IsActive, Intact
  <2>3. CASE Op(q) \in Ops \ {k}
    <3>1. files'[Op(q)] = files[Op(q)]
      BY <1>2, <2>3
    <3>2. QED BY <1>1, <2>1, <3>1 DEF StepInv, IsActive, Intact
  <2>4. CASE Op(q) \notin Ops
    <3>1. proc[q].pc \notin Running
      BY <2>4 DEF StorageInv, FlockInv
    <3>2. QED BY <2>1, <3>1 DEF StepInv, Running, Labels
  <2>5. QED BY <2>2, <2>3, <2>4
<1>7. QED BY <1>3, <1>4, <1>5, <1>6 DEF StorageInv

LEMMA LeaseExpiresInv ==
  ASSUME StorageInv, NEW k \in Ops, LeaseExpires(k)
  PROVE  StorageInv'
<1>1. /\ reservations' = [reservations EXCEPT ![k].live = FALSE]
      /\ UNCHANGED <<files, accounts, limits, staging, final, bytes, writer,
                     readers, sql, proc, cursor, faults>>
  BY DEF LeaseExpires, disk, locks
<1>2. reservations[k] \in ResType
  BY RowTyped
<1>3. [reservations[k] EXCEPT !.live = FALSE] \in ResType
  BY <1>2 DEF ResType
<1>4. /\ reservations' \in [Ops -> ResType]
      /\ reservations'[k] = [reservations[k] EXCEPT !.live = FALSE]
      /\ \A j \in Ops : j # k => reservations'[j] = reservations[j]
  BY <1>1, <1>3, RowTyped
<1>5. \A j \in Ops : /\ reservations'[j].state = reservations[j].state
                     /\ reservations'[j].allocated = reservations[j].allocated
  BY <1>2, <1>4 DEF ResType
<1>6. TypeOK'
  BY <1>1, <1>4, RowTyped, ProcTyped, TypeIs
<1>7. FlockInv' /\ SqlInv'
  BY <1>1 DEF StorageInv, FlockInv, SqlInv, Op
<1>8. OneWriter'
  <2>1. \A q \in Procs : proc[q].pc \in Fresh => Op(q) \in Ops
    BY OpInOps DEF Fresh, Running, Labels
  <2>2. QED BY <1>1, <1>5, <2>1 DEF StorageInv, OneWriter, Op
<1>9. ASSUME NEW j \in Ops PROVE RowInv(j)'
  BY <1>1, <1>5 DEF StorageInv, RowInv, IsActive, Held, Intact
<1>10. ASSUME NEW q \in Procs PROVE StepInv(q)'
  <2>1. StepInv(q) /\ proc' = proc /\ Op(q)' = Op(q)
    BY <1>1 DEF StorageInv, Op
  <2>2. CASE Op(q) \in Ops
    BY <1>1, <1>5, <2>1, <2>2 DEF StepInv, IsActive, Intact
  <2>3. CASE Op(q) \notin Ops
    <3>1. proc[q].pc \notin Running
      BY <2>3 DEF StorageInv, FlockInv
    <3>2. QED BY <2>1, <3>1 DEF StepInv, Running, Labels
  <2>4. QED BY <2>2, <2>3
<1>11. QED BY <1>6, <1>7, <1>8, <1>9, <1>10 DEF StorageInv

(* A step that leaves everything but limits and counters alone, and a stutter. *)
LEMMA OwnersInv ==
  ASSUME StorageInv, limits' \in [Owners -> Limits], accounts' \in [Owners -> AcctType],
         UNCHANGED <<reservations, files, disk, locks, sql, proc, cursor, faults>>
  PROVE  StorageInv'
<1>1. UNCHANGED <<reservations, files, staging, final, bytes, writer,
                  readers, sql, proc, cursor, faults>>
  BY DEF disk, locks
<1>2. TypeOK'
  BY <1>1, RowTyped, ProcTyped, TypeIs
<1>3. FlockInv' /\ SqlInv' /\ OneWriter'
  BY <1>1 DEF StorageInv, FlockInv, SqlInv, OneWriter, Op
<1>4. \A j \in Ops : RowInv(j)'
  BY <1>1 DEF StorageInv, RowInv, IsActive, Held, Intact
<1>5. \A q \in Procs : StepInv(q)'
  BY <1>1 DEF StorageInv, StepInv, IsActive, Intact, Op
<1>6. QED BY <1>2, <1>3, <1>4, <1>5 DEF StorageInv

(* What reconcile_account writes are counters.                              *)
LEMMA RepairedType ==
  ASSUME StorageInv, NEW o \in Owners
  PROVE  Repaired(o) \in AcctType
<1>1. accounts[o].used \in Int /\ accounts[o].reserved \in Int
  BY RowTyped DEF AcctType
<1>2. /\ \A k \in Ops : FileSizes[k] \in Int /\ Allocations[k] \in Int
      /\ Retained(o) \subseteq Ops /\ Reserved(o) \subseteq Ops
  BY RowTyped DEF FileSizes, Allocations, Retained, Reserved, ResType, FileType
<1>3. IsFiniteSet(Retained(o)) /\ IsFiniteSet(Reserved(o))
  BY <1>2, FS_Subset, StorageAssumptions
<1>4. /\ SumFunctionOnSet(FileSizes, Retained(o)) \in Int
      /\ SumFunctionOnSet(Allocations, Reserved(o)) \in Int
  BY <1>2, <1>3, SumType
<1>5. \A m \in Int, n \in Int : Raised(m, n) \in Int
  BY DEF Raised
<1>6. QED BY <1>1, <1>4, <1>5 DEF Repaired, AcctType
-----------------------------------------------------------------------------
(* The invariant of the specification *)

LEMMA InitInv ==
  ASSUME Init
  PROVE  StorageInv
<1>1. /\ NoRow \in ResType /\ NoRow.state = "none" /\ NoRow.allocated = 0
      /\ NoFile \in FileType /\ NoFile.state = "none" /\ NoFile.size = 0
      /\ Idle \in ProcType /\ Idle.pc = "idle" /\ Idle.op = 0
      /\ [used |-> 0, reserved |-> 0] \in AcctType
  BY DEF NoRow, NoFile, Idle, ResType, FileType, AcctType, ProcType, States, Labels,
         Outcomes
<1>2. /\ reservations \in [Ops -> ResType] /\ files \in [Ops -> FileType]
      /\ accounts \in [Owners -> AcctType] /\ limits \in [Owners -> Limits]
      /\ staging \in [Ops -> BOOLEAN] /\ final \in [Ops -> BOOLEAN]
      /\ bytes \in [Ops -> Nat] /\ sql \in Procs \cup {NoProc}
      /\ proc \in [Procs -> ProcType]
      /\ writer \in [Ops -> Procs \cup {NoProc}] /\ readers \in [Ops -> SUBSET Procs]
      /\ cursor \in [Maintainers -> Ops \cup {0}] /\ faults \in 0..MaxFaults
  BY <1>1, StorageAssumptions DEF Init
<1>3. TypeOK
  BY <1>2 DEF TypeOK, ResType, FileType, AcctType, ProcType
<1>4. \A p \in Procs : proc[p].pc = "idle"
  BY <1>1 DEF Init
<1>5. "idle" \notin Running \cup Exclusive \cup Shared \cup Fresh
  BY DEF Running, Exclusive, Shared, Fresh
<1>6. FlockInv /\ OneWriter /\ SqlInv
  BY <1>4, <1>5 DEF Init, FlockInv, OneWriter, SqlInv
<1>7. ASSUME NEW k \in Ops PROVE RowInv(k)
  <2>1. /\ reservations[k].state = "none" /\ files[k].state = "none"
        /\ bytes[k] = 0 /\ ~final[k] /\ ~staging[k]
    BY <1>1 DEF Init
  <2>2. Held(k) = 0
    BY <2>1 DEF Held, IsActive, Active
  <2>3. QED BY <2>1, <2>2 DEF RowInv
<1>8. \A p \in Procs : StepInv(p)
  BY <1>4 DEF StepInv
<1>9. QED BY <1>3, <1>6, <1>7, <1>8 DEF StorageInv

LEMMA StepsInv ==
  ASSUME StorageInv, NEW p \in Procs, Step(p)
  PROVE  StorageInv'
<1>1. CASE StoreStep(p)
  <2>1. CASE StoreLock(p)
    BY <2>1, LockInv DEF StoreLock, At, Waits
  <2>2. CASE ReplayLock(p)
    BY <2>2, LockInv DEF ReplayLock, At, Waits
  <2>3. QED
    BY <1>1, <2>1, <2>2, EndInv, StageInv, ReserveInv, WriteInv, WrittenInv,
       EndOfStreamInv, InsertFileInv, PublishInv, CommitInv, StoreFailsInv
       DEF StoreStep
<1>2. CASE CleanStep(p)
  BY <1>2, MarkInv, CleanCommittedInv, CleanFinalInv, CleanStagingInv, AbortInv
     DEF CleanStep
<1>3. CASE OtherStep(p)
  <2>1. CASE RecoverLock(p)
    BY <2>1, LockInv DEF RecoverLock, At, Waits
  <2>2. CASE DeleteLock(p)
    BY <2>2, LockInv DEF DeleteLock, At, Waits
  <2>3. QED
    BY <1>3, <2>1, <2>2, RecoverCheckInv, ReadLockInv, ReadCheckInv, ReadOpenInv,
       ReadCloseInv, DeleteMarkInv, DeleteFinalInv, DeleteStagingInv, DeleteDoneInv
       DEF OtherStep
<1>4. QED BY <1>1, <1>2, <1>3 DEF Step

LEMMA NextInv ==
  ASSUME StorageInv, [Next]_vars
  PROVE  StorageInv'
<1>1. ASSUME NEW p \in Requests, NEW k \in Ops, Start(p, k) PROVE StorageInv'
  <2>1. p \in Procs
    BY DEF Procs
  <2>2. ASSUME NEW e \in 0..FileBytes \cup {Undeclared},
               BeginFresh(p, k, e) \/ BeginReplay(p, k, e)
        PROVE  StorageInv'
    BY <2>1, <2>2, BeginFreshInv, BeginInv
  <2>3. CASE RecoverStart(p, k) \/ ReadStart(p, k) \/ DeleteStart(p, k)
    BY <2>1, <2>3, BeginInv
  <2>4. QED BY <1>1, <2>2, <2>3 DEF Start
<1>2. ASSUME NEW m \in Maintainers, ReconcileNext(m) \/ ReconcileAgain(m)
      PROVE  StorageInv'
  BY <1>2, ReconcileInv
<1>3. ASSUME NEW p \in Procs, Step(p) \/ ServerResolves(p) \/ StepFails(p) \/ Crash(p)
      PROVE  StorageInv'
  BY <1>3, StepsInv, ServerResolvesInv, EndInv
<1>4. ASSUME NEW k \in Ops, RequestDeletion(k) \/ LeaseExpires(k) PROVE StorageInv'
  BY <1>4, RequestDeletionInv, LeaseExpiresInv
<1>5. ASSUME NEW o \in Owners, NEW amount \in Limits, SetLimit(o, amount)
      PROVE  StorageInv'
  <2>1. limits' \in [Owners -> Limits] /\ accounts' \in [Owners -> AcctType]
    BY <1>5, RowTyped DEF SetLimit
  <2>2. QED BY <1>5, <2>1, OwnersInv DEF SetLimit
<1>6. ASSUME NEW o \in Owners, ReconcileAccount(o) PROVE StorageInv'
  <2>1. limits' \in [Owners -> Limits] /\ accounts' \in [Owners -> AcctType]
    BY <1>6, RowTyped, RepairedType DEF ReconcileAccount
  <2>2. QED BY <1>6, <2>1, OwnersInv DEF ReconcileAccount
<1>7. CASE UNCHANGED vars
  <2>1. limits' \in [Owners -> Limits] /\ accounts' \in [Owners -> AcctType]
    BY <1>7, RowTyped DEF vars, rows
  <2>2. QED BY <1>7, <2>1, OwnersInv DEF vars, rows
<1>8. QED BY <1>1, <1>2, <1>3, <1>4, <1>5, <1>6, <1>7 DEF Next

(* The inductive invariant: rows, entries, flocks, the open transaction and *)
(* every process's knowledge of its operation agree in every reachable      *)
(* state, whatever crashes, fails or interleaves.                           *)
THEOREM StorageInvariant == Spec => []StorageInv
<1>1. Init => StorageInv
  BY InitInv
<1>2. StorageInv /\ [Next]_vars => StorageInv'
  BY NextInv
<1>3. QED BY <1>1, <1>2, PTL DEF Spec

(* Every variable of the service keeps its type.                            *)
THEOREM TypeCorrect == Spec => []TypeOK
<1>1. StorageInv => TypeOK
  BY DEF StorageInv
<1>2. QED BY <1>1, StorageInvariant, PTL

(* A file the database calls ready is complete under its final name: no     *)
(* crash, rollback, cleanup, recovery or deletion can leave a ready row     *)
(* without its bytes (_finish, _clean, delete_file).                        *)
THEOREM ReadyFilesAreIntact == Spec => []ReadyIsIntact
<1>1. StorageInv => ReadyIsIntact
  BY DEF StorageInv, RowInv, ReadyIsIntact
<1>2. QED BY <1>1, StorageInvariant, PTL

(* Every byte on the disk is covered by quota its owner still holds.        *)
THEOREM EveryByteIsCharged == Spec => []BytesAreCharged
<1>1. StorageInv => BytesAreCharged
  BY DEF StorageInv, RowInv, BytesAreCharged
<1>2. QED BY <1>1, StorageInvariant, PTL

(* A download that is streaming never loses its bytes: the shared flock     *)
(* keeps deletion and recovery out.                                         *)
THEOREM DownloadsAreIntact == Spec => []StreamsAreIntact
<1>1. StorageInv => StreamsAreIntact
  BY DEF StorageInv, StepInv, StreamsAreIntact, At
<1>2. QED BY <1>1, StorageInvariant, PTL
==============================================================================
