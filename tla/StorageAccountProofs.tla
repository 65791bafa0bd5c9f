------------------------- MODULE StorageAccountProofs -------------------------
(***************************************************************************)
(* What the counters, the disk and the answers of the storage service have *)
(* in common with its rows: the accounts are the sums of the rows, what is *)
(* admitted fits on the disk, a failure is definite, and every step is a   *)
(* step of the ledger.  Sums are over any finite set of operations.        *)
(***************************************************************************)
EXTENDS StorageProofs, SumTheorems

(* Part 1.  What a process may still do: WritingIsCounted and FailedIsOver. *)

Writing == {"lock", "stage", "stream", "write", "written"}

(* Every step but four goes on with what there is: it begins no operation,  *)
(* counts no byte and makes no call fail.                                   *)
GoesOn(p) ==
  /\ \A q \in Procs : q # p => proc'[q] = proc[q]
  /\ proc'[p].pc \in Writing
       => proc[p].pc \in Writing /\ proc'[p].op = Op(p) /\ proc'[p].size = proc[p].size
  /\ proc'[p].pc \in Fresh => proc[p].pc \in Fresh /\ proc'[p].op = Op(p)
  /\ p \in Requests /\ proc'[p].then = "failed"
       => proc[p].then = "failed" /\ proc'[p].op = Op(p)
  /\ p \in Requests /\ proc[p].pc # "idle" => proc'[p].op = Op(p)

RowsGoOn ==
  \A k \in Ops :
    /\ reservations'[k].written = reservations[k].written
    /\ reservations[k].allocated <= reservations'[k].allocated
    /\ IsActive(k)' => IsActive(k)
    /\ reservations[k].state # "none" => reservations'[k].state # "none"
    /\ reservations'[k].state = "committed"
         => reservations[k].state = "committed" \/ (sql # NoProc /\ Op(sql) = k)

SqlGoesOn(p) ==
  \/ sql' = sql \/ sql' = NoProc
  \/ sql' = p /\ p \in Procs /\ proc[p].pc \in Fresh /\ proc'[p].op = Op(p)

LEMMA GotoGoesOn ==
  ASSUME StorageInv, NEW p \in Procs, NEW l \in Labels, Goto(p, l),
         l \in Fresh => proc[p].pc \in Fresh, l \in Writing => proc[p].pc \in Writing
  PROVE  GoesOn(p)
<1>1. proc[p] \in ProcType
  BY ProcTyped
<1>2. /\ proc'[p] = [proc[p] EXCEPT !.pc = l]
      /\ \A q \in Procs : q # p => proc'[q] = proc[q]
  BY ProcTyped, GotoType
<1>3. /\ proc'[p].pc = l /\ proc'[p].op = Op(p) /\ proc'[p].size = proc[p].size
      /\ proc'[p].then = proc[p].then
  BY <1>1, <1>2 DEF ProcType, Op
<1>4. QED BY <1>2, <1>3 DEF GoesOn

LEMMA CleanGoesOn ==
  ASSUME StorageInv, NEW p \in Procs, NEW r \in Outcomes, r # "failed",
         proc' = [proc EXCEPT ![p].pc = "clean", ![p].then = r]
  PROVE  GoesOn(p)
<1>1. Advances(p, "clean")
  BY CleanAdvances
<1>2. proc'[p].then = r
  BY ProcTyped DEF ProcType
<1>3. "clean" \notin Fresh \cup Writing
  BY DEF Fresh, Writing
<1>4. QED BY <1>1, <1>2, <1>3 DEF GoesOn, Advances

LEMMA StartedGoesOn ==
  ASSUME StorageInv, NEW p \in Procs, NEW k \in Ops, NEW l \in Labels \ Fresh,
         At(p, "idle"), Started(p, k, l)
  PROVE  GoesOn(p)
<1>1. /\ proc'[p] = [pc |-> l, op |-> k, size |-> 0, then |-> "none"]
      /\ \A q \in Procs : q # p => proc'[q] = proc[q]
  BY ProcTyped, StartedType
<1>2. l \notin Writing
  BY DEF Writing, Fresh
<1>3. QED BY <1>1, <1>2 DEF GoesOn, At

LEMMA FinishGoesOn ==
  ASSUME StorageInv, NEW p \in Procs, NEW r \in Outcomes, Finish(p, r),
         r = "failed" => proc[p].then = "failed"
  PROVE  GoesOn(p)
<1>1. /\ proc'[p].pc \in {"idle", "done"}
      /\ p \in Requests => proc'[p].pc = "done" /\ proc'[p].op = Op(p)
      /\ \A q \in Procs : q # p => proc'[q] = proc[q]
  BY ProcTyped, FinishType
<1>2. p \in Requests => proc'[p].then = r
  BY ProcTyped, RequestsEnd DEF Finish, Ended, ProcType
<1>3. "idle" \notin Fresh \cup Writing /\ "done" \notin Fresh \cup Writing
  BY DEF Fresh, Writing
<1>4. QED BY <1>1, <1>2, <1>3 DEF GoesOn

LEMMA StaysGoesOn ==
  ASSUME NEW p, proc' = proc
  PROVE  GoesOn(p)
BY DEF GoesOn, Op

LEMMA RowsStay ==
  ASSUME StorageInv, reservations' = reservations
  PROVE  RowsGoOn
<1>1. \A k \in Ops : reservations[k].allocated \in Nat
  BY RowTyped DEF ResType
<1>2. QED BY <1>1 DEF RowsGoOn, IsActive

LEMMA RowGoesOn ==
  ASSUME StorageInv, NEW k \in Ops, NEW row \in ResType,
         reservations' = [reservations EXCEPT ![k] = row],
         row.written = reservations[k].written,
         reservations[k].allocated <= row.allocated,
         row.state \in Active => IsActive(k), row.state # "none",
         row.state = "committed" => sql # NoProc /\ Op(sql) = k
  PROVE  RowsGoOn
<1>1. \A j \in Ops : reservations[j].allocated \in Nat
  BY RowTyped DEF ResType
<1>2. /\ reservations'[k] = row
      /\ \A j \in Ops : j # k => reservations'[j] = reservations[j]
  BY RowTyped
<1>3. QED BY <1>1, <1>2 DEF RowsGoOn, IsActive
(* The state of one row changes, and nothing else of the rows. *)
StateBecomes(k, x) == reservations' = [reservations EXCEPT ![k].state = x]

LEMMA StateGoesOn ==
  ASSUME StorageInv, NEW k \in Ops,
         NEW x \in {"staged", "cleanup_pending", "aborted", "committed"},
         StateBecomes(k, x), x \in Active => IsActive(k),
         x = "committed" => sql # NoProc /\ Op(sql) = k
  PROVE  RowsGoOn
<1> DEFINE row == [reservations[k] EXCEPT !.state = x]
<1>1. reservations[k] \in ResType /\ reservations[k].allocated \in Nat
  BY RowTyped DEF ResType
<1>2. x \in States /\ x # "none"
  BY DEF States, Active
<1>3. /\ row \in ResType /\ row.written = reservations[k].written
      /\ row.state = x /\ row.allocated = reservations[k].allocated
  BY <1>1, <1>2 DEF ResType
<1>4. reservations' = [reservations EXCEPT ![k] = row]
  BY DEF StateBecomes
<1> HIDE DEF row
<1>5. reservations[k].allocated <= row.allocated
  BY <1>1, <1>3
<1>6. (row.state \in Active => IsActive(k)) /\ row.state # "none"
      /\ (row.state = "committed" => sql # NoProc /\ Op(sql) = k)
  BY <1>2, <1>3
<1>7. QED BY <1>3, <1>4, <1>5, <1>6, RowGoesOn
-----------------------------------------------------------------------------
(* The invariants after a step that goes on. *)

LEMMA RowTypedNext ==
  ASSUME StorageInv'
  PROVE  /\ reservations' \in [Ops -> ResType] /\ files' \in [Ops -> FileType]
         /\ accounts' \in [Owners -> AcctType] /\ limits' \in [Owners -> Limits]
         /\ bytes' \in [Ops -> Nat]
  BY DEF StorageInv, TypeOK, ResType, FileType, AcctType

LEMMA WritingGoesOn ==
  ASSUME StorageInv, StorageInv', WritingIsCounted, NEW p, RowsGoOn,
         \A q \in Procs : q # p => proc'[q] = proc[q],
         proc'[p].pc \in Writing
           => proc[p].pc \in Writing /\ proc'[p].op = Op(p) /\ proc'[p].size = proc[p].size
  PROVE  WritingIsCounted'
<1>1. ASSUME NEW k \in Ops, IsActive(k)'
      PROVE  reservations'[k].written <= reservations'[k].allocated
  <2>1. /\ reservations'[k].written = reservations[k].written
        /\ reservations[k].allocated <= reservations'[k].allocated
        /\ reservations[k].written <= reservations[k].allocated
    BY <1>1 DEF RowsGoOn, WritingIsCounted
  <2>2. /\ reservations[k].written \in Nat /\ reservations[k].allocated \in Nat
        /\ reservations'[k].allocated \in Nat
    BY RowTyped, RowTypedNext DEF ResType
  <2>3. QED BY <2>1, <2>2
<1>2. ASSUME NEW q \in Procs, proc'[q].pc \in Writing
      PROVE  reservations'[proc'[q].op].written = proc'[q].size
  <2>1. /\ proc[q].pc \in Writing /\ proc'[q].op = Op(q) /\ proc'[q].size = proc[q].size
    BY <1>2 DEF Op
  <2>2. Op(q) \in Ops
    BY <2>1, OpInOps DEF Writing, Running, Labels
  <2>3. QED BY <2>1, <2>2 DEF RowsGoOn, WritingIsCounted, Writing
<1>3. QED BY <1>1, <1>2 DEF WritingIsCounted, Writing, Op

(* A failed request stays failed, and nobody can commit its operation.      *)
LEMMA FailedGoesOn ==
  ASSUME StorageInv, FailedIsOver, NEW p, RowsGoOn, GoesOn(p), SqlGoesOn(p)
  PROVE  FailedIsOver'
<1>1. SUFFICES ASSUME NEW r \in Requests, proc'[r].then = "failed"
               PROVE  /\ Op(r)' \in Ops
                      /\ reservations'[Op(r)'].state \notin {"none", "committed"}
                      /\ \A q \in Procs : proc'[q].pc \in Fresh => Op(q)' # Op(r)'
                      /\ sql' # NoProc => Op(sql)' # Op(r)'
  BY DEF FailedIsOver
<1>2. r \in Procs /\ proc[r].then = "failed" /\ Op(r)' = Op(r)
  BY <1>1, RequestsEnd DEF GoesOn, Op
<1>3. /\ Op(r) \in Ops
      /\ reservations[Op(r)].state \notin {"none", "committed"}
      /\ \A q \in Procs : proc[q].pc \in Fresh => Op(q) # Op(r)
      /\ sql # NoProc => Op(sql) # Op(r)
  BY <1>2 DEF FailedIsOver
<1>4. reservations'[Op(r)].state \notin {"none", "committed"}
  BY <1>3 DEF RowsGoOn
<1>5. ASSUME NEW q \in Procs, proc'[q].pc \in Fresh PROVE Op(q)' # Op(r)
  <2>1. proc[q].pc \in Fresh /\ Op(q)' = Op(q)
    BY <1>5 DEF GoesOn, Op
  <2>2. QED BY <2>1, <1>3
<1>6. ASSUME sql' # NoProc PROVE Op(sql)' # Op(r)
  <2>1. CASE sql' = sql
    <3>1. sql \in Requests /\ sql \in Procs /\ proc[sql].pc \in {"commit", "done"}
      BY <1>6, <2>1, RequestsEnd DEF StorageInv, SqlInv
    <3>2. proc'[sql].op = Op(sql)
      BY <3>1 DEF GoesOn, Op
    <3>3. QED BY <1>3, <1>6, <2>1, <3>2 DEF Op
  <2>2. CASE sql' = p /\ p \in Procs /\ proc[p].pc \in Fresh /\ proc'[p].op = Op(p)
    BY <1>3, <2>2 DEF Op
  <2>3. QED BY <1>6, <2>1, <2>2 DEF SqlGoesOn
<1>7. QED BY <1>2, <1>3, <1>4, <1>5, <1>6

(* A store that fails had the only hand on its operation. *)
LEMMA FailsDefinitely ==
  ASSUME StorageInv, FailedIsOver, NEW p \in Procs, StoreFails(p) \/ Rollback(p)
  PROVE  FailedIsOver'
<1>1. /\ proc[p].pc \in {"stage", "stream", "write", "written", "insert", "publish",
                        "commit"}
      /\ proc' = [proc EXCEPT ![p].pc = "clean", ![p].then = "failed"]
      /\ reservations' = reservations
      /\ sql' = NoProc \/ (sql' = sql /\ sql # p)
  BY SqlElsewhere DEF StoreFails, Rollback, At, rows
<1>2. Advances(p, "clean")
  BY <1>1, CleanAdvances DEF Outcomes
<1>3. proc[p].pc \in Fresh \cap Changing /\ "clean" \notin Fresh /\ Op(p) \in Ops
  BY <1>1, OpInOps DEF Fresh, Changing, Running, Labels
<1>4. reservations[Op(p)].state \notin {"none", "committed"}
  <2>1. reservations[Op(p)].state # "none"
    BY <1>3 DEF StorageInv, OneWriter
  <2>2. files[Op(p)].state \in {"none", "staged"}
    <3>1. StepInv(p)
      BY DEF StorageInv
    <3>2. CASE proc[p].pc \in {"stage", "stream", "write", "written", "insert"}
      BY <3>1, <3>2 DEF StepInv
    <3>3. CASE proc[p].pc \in {"publish", "commit"}
      <4>1. files[Op(p)] = [state |-> "staged", size |-> proc[p].size]
        BY <3>1, <3>3 DEF StepInv
      <4>2. QED BY <4>1
    <3>4. QED BY <1>1, <3>2, <3>3
  <2>3. QED BY <1>3, <2>1, <2>2 DEF StorageInv, RowInv
<1>5. \A q \in Procs : proc'[q].pc \in Fresh => proc[q].pc \in Fresh /\ q # p
  BY <1>2, <1>3 DEF Advances
<1>6. SUFFICES ASSUME NEW r \in Requests, proc'[r].then = "failed"
               PROVE  /\ Op(r)' \in Ops
                      /\ reservations'[Op(r)'].state \notin {"none", "committed"}
                      /\ \A q \in Procs : proc'[q].pc \in Fresh => Op(q)' # Op(r)'
                      /\ sql' # NoProc => Op(sql)' # Op(r)'
  BY DEF FailedIsOver
<1>7. \A q \in Procs : Op(q)' = Op(q)
  BY <1>2 DEF Advances, Op
<1>8. sql' # NoProc => sql \in Procs /\ Op(sql)' = Op(sql)
  BY <1>1, <1>7, RowTyped
<1>9. CASE r = p
  <2>1. \A q \in Procs : proc'[q].pc \in Fresh => Op(q) # Op(p)
    BY <1>3, <1>5 DEF StorageInv, OneWriter
  <2>2. sql' # NoProc => Op(sql) # Op(p)
    BY <1>1, <1>3 DEF StorageInv, SqlInv
  <2>3. QED BY <1>1, <1>3, <1>4, <1>7, <1>8, <1>9, <2>1, <2>2, RequestsEnd
<1>10. CASE r # p
  <2>1. r \in Procs /\ proc[r].then = "failed"
    BY <1>2, <1>6, <1>10, RequestsEnd DEF Advances
  <2>2. /\ Op(r) \in Ops /\ reservations[Op(r)].state \notin {"none", "committed"}
        /\ \A q \in Procs : proc[q].pc \in Fresh => Op(q) # Op(r)
        /\ sql # NoProc => Op(sql) # Op(r)
    BY <2>1 DEF FailedIsOver
  <2>3. QED BY <1>1, <1>5, <1>7, <1>8, <2>1, <2>2
<1>11. QED BY <1>9, <1>10
-----------------------------------------------------------------------------
(* The steps that go on. *)

(* A step of p that goes on, with the rows and the transaction.             *)
Continues(p) == GoesOn(p) /\ RowsGoOn /\ SqlGoesOn(p)

LEMMA QuietContinues ==
  ASSUME StorageInv, NEW p, GoesOn(p), UNCHANGED <<reservations, sql>>
  PROVE  Continues(p)
BY RowsStay DEF Continues, SqlGoesOn

LEMMA LockContinues ==
  ASSUME StorageInv, NEW p \in Procs, NEW l, <<proc[p].pc, l>> \in Waits,
         LockOrRefuse(p, l), UNCHANGED <<rows, sql>>
  PROVE  Continues(p)
<1>1. /\ l \in Labels /\ (l \in Fresh => proc[p].pc \in Fresh)
      /\ (l \in Writing => proc[p].pc \in Writing)
  BY DEF Waits, Labels, Fresh, Writing
<1>2. CASE Goto(p, l)
  BY <1>1, <1>2, GotoGoesOn, QuietContinues DEF rows
<1>3. CASE Finish(p, "refused")
  BY <1>3, FinishGoesOn, QuietContinues DEF rows, Outcomes
<1>4. QED BY <1>2, <1>3 DEF LockOrRefuse

LEMMA StoreContinues ==
  ASSUME StorageInv, NEW p \in Procs, StoreStep(p), ~Written(p),
         ~StoreFails(p), ~Rollback(p)
  PROVE  Continues(p)
<1> USE DEF At
<1>1. CASE StoreLock(p) \/ ReplayLock(p)
  BY <1>1, LockContinues DEF StoreLock, ReplayLock, Waits
<1>2. CASE Replay(p)
  BY <1>2, FinishGoesOn, QuietContinues DEF Replay, rows, Outcomes
<1>3. CASE Stage(p)
  BY <1>3, GotoGoesOn, QuietContinues DEF Stage, rows, Labels, Fresh, Writing
<1>4. CASE Write(p)
  BY <1>4, GotoGoesOn, QuietContinues DEF Write, rows, Labels, Fresh, Writing
<1>5. CASE EndOfStream(p)
  BY <1>5, GotoGoesOn, QuietContinues DEF EndOfStream, rows, Labels, Fresh, Writing
<1>6. CASE Reserve(p)
  <2>1. PICK k \in Ops : Op(p) = k
    BY <1>6, OpInOps DEF Reserve, Running, Labels
  <2>2. reservations[k] \in ResType /\ proc[p].size \in Nat
    BY RowTyped, ProcTyped DEF ProcType
  <2> DEFINE growth == Growth(k, proc[p].size + 1)
             row == [reservations[k] EXCEPT !.allocated = @ + growth,
                                            !.state = "writing", !.live = TRUE]
  <2>3. growth \in Nat /\ reservations[k].allocated \in Nat
    BY <2>2 DEF ResType, Growth
  <2>4. reservations' = [reservations EXCEPT ![k] = row] /\ IsActive(k) /\ sql' = sql
    BY <1>6, <2>1, RowTyped DEF Reserve
  <2> HIDE DEF growth
  <2>5. "writing" \in States /\ reservations[k].allocated + growth \in Nat
        /\ reservations[k].allocated <= reservations[k].allocated + growth
    BY <2>3 DEF States, Active
  <2>6. /\ row \in ResType /\ row.written = reservations[k].written
        /\ row.state = "writing" /\ row.allocated = reservations[k].allocated + growth
    BY <2>2, <2>5 DEF ResType
  <2> HIDE DEF row
  <2>7. RowsGoOn
    BY <2>4, <2>5, <2>6, RowGoesOn
  <2>8. GoesOn(p)
    BY <1>6, GotoGoesOn DEF Reserve, Labels, Fresh, Writing
  <2>9. QED BY <2>4, <2>7, <2>8 DEF Continues, SqlGoesOn
<1>7. CASE InsertFile(p)
  <2>1. PICK k \in Ops : Op(p) = k
    BY <1>7, OpInOps DEF InsertFile, Running, Labels
  <2>2. StateBecomes(k, "staged") /\ IsActive(k) /\ sql' = sql
    BY <1>7, <2>1 DEF InsertFile, StateBecomes
  <2>3. RowsGoOn
    BY <2>2, StateGoesOn
  <2>4. GoesOn(p)
    BY <1>7, GotoGoesOn DEF InsertFile, Labels, Fresh, Writing
  <2>5. QED BY <2>2, <2>3, <2>4 DEF Continues, SqlGoesOn
<1>8. CASE Publish(p)
  <2>1. GoesOn(p)
    BY <1>8, GotoGoesOn DEF Publish, Labels, Fresh, Writing
  <2>2. Advances(p, "commit") /\ sql' = p /\ proc[p].pc \in Fresh
    BY <1>8, GotoAdvances DEF Publish, Labels, Fresh
  <2>3. RowsGoOn
    BY <1>8, RowsStay DEF Publish, rows
  <2>4. QED BY <2>1, <2>2, <2>3 DEF Continues, SqlGoesOn, Advances
<1>9. CASE Commit(p)
  <2>1. GoesOn(p)
    BY <1>9, CleanGoesOn DEF Commit, Outcomes
  <2>2. sql = p /\ sql # NoProc /\ Op(p) \in Ops
    BY <1>9, NoProcIsNone, OpInOps DEF Commit, StorageInv, StepInv, Running, Labels
  <2>3. StateBecomes(Op(p), "committed") /\ sql' = NoProc
    BY <1>9 DEF Commit, Committed, StateBecomes
  <2>4. RowsGoOn
    BY <2>2, <2>3, StateGoesOn DEF Active
  <2>5. QED BY <2>1, <2>3, <2>4 DEF Continues, SqlGoesOn
<1>10. QED
  BY <1>1, <1>2, <1>3, <1>4, <1>5, <1>6, <1>7, <1>8, <1>9 DEF StoreStep

LEMMA CleanContinues ==
  ASSUME StorageInv, NEW p \in Procs, CleanStep(p)
  PROVE  Continues(p)
<1> USE DEF At
<1>r. proc[p].then \in Outcomes
  BY ProcTyped DEF ProcType
<1>1. CASE Mark(p)
  <2>1. PICK k \in Ops : Op(p) = k
    BY <1>1, OpInOps DEF Mark, Running, Labels
  <2>2. CASE Finish(p, proc[p].then) /\ UNCHANGED reservations
    BY <1>1, <1>r, <2>2, FinishGoesOn, QuietContinues DEF Mark
  <2>3. CASE Goto(p, "clean_committed") /\ UNCHANGED reservations
    BY <1>1, <2>3, GotoGoesOn, QuietContinues DEF Mark, Labels, Fresh, Writing
  <2>4. CASE Goto(p, "clean_final") /\ IsActive(k) /\ StateBecomes(k, "cleanup_pending")
    <3>1. GoesOn(p)
      BY <2>4, GotoGoesOn DEF Labels, Fresh, Writing
    <3>2. sql' = sql
      BY <1>1 DEF Mark
    <3>3. QED BY <2>4, <3>1, <3>2, StateGoesOn DEF Continues, SqlGoesOn
  <2>5. QED BY <1>1, <2>1, <2>2, <2>3, <2>4 DEF Mark, StateBecomes
<1>2. CASE CleanCommitted(p)
  BY <1>2, <1>r, FinishGoesOn, QuietContinues DEF CleanCommitted, rows
<1>3. CASE CleanFinal(p)
  BY <1>3, GotoGoesOn, QuietContinues DEF CleanFinal, rows, Labels, Fresh, Writing
<1>4. CASE CleanStaging(p)
  BY <1>4, GotoGoesOn, QuietContinues DEF CleanStaging, rows, Labels, Fresh, Writing
<1>5. CASE Abort(p)
  <2>1. PICK k \in Ops : Op(p) = k
    BY <1>5, OpInOps DEF Abort, Running, Labels
  <2>2. IsActive(k) /\ StateBecomes(k, "aborted") /\ sql' = sql
    BY <1>5, <2>1 DEF Abort, StateBecomes
  <2>3. GoesOn(p)
    BY <1>5, <1>r, FinishGoesOn DEF Abort
  <2>4. QED BY <2>2, <2>3, StateGoesOn DEF Continues, SqlGoesOn
<1>6. QED BY <1>1, <1>2, <1>3, <1>4, <1>5 DEF CleanStep

LEMMA OtherContinues ==
  ASSUME StorageInv, NEW p \in Procs, OtherStep(p) \/ StepFails(p) \/ Crash(p)
  PROVE  Continues(p)
<1> USE DEF At
<1>1. CASE RecoverLock(p) \/ DeleteLock(p)
  BY <1>1, LockContinues DEF RecoverLock, DeleteLock, Waits
<1>2. CASE RecoverCheck(p)
  BY <1>2, FinishGoesOn, CleanGoesOn, QuietContinues DEF RecoverCheck, rows, Outcomes
<1>3. CASE ReadLock(p)
  BY <1>3, FinishGoesOn, GotoGoesOn, QuietContinues
     DEF ReadLock, rows, Outcomes, Labels, Fresh, Writing
<1>4. CASE ReadCheck(p)
  BY <1>4, FinishGoesOn, GotoGoesOn, QuietContinues
     DEF ReadCheck, rows, Outcomes, Labels, Fresh, Writing
<1>5. CASE ReadOpen(p)
  <2>1. Intact(Op(p))
    BY <1>5 DEF ReadOpen, StorageInv, StepInv
  <2>2. QED
    BY <1>5, <2>1, GotoGoesOn, QuietContinues DEF ReadOpen, rows, Labels, Fresh, Writing
<1>6. CASE ReadClose(p)
  BY <1>6, FinishGoesOn, GotoGoesOn, QuietContinues
     DEF ReadClose, rows, Outcomes, Labels, Fresh, Writing
<1>7. CASE DeleteMark(p)
  BY <1>7, FinishGoesOn, GotoGoesOn, QuietContinues
     DEF DeleteMark, Outcomes, Labels, Fresh, Writing
<1>8. CASE DeleteFinal(p) \/ DeleteStaging(p)
  BY <1>8, GotoGoesOn, QuietContinues
     DEF DeleteFinal, DeleteStaging, rows, Labels, Fresh, Writing
<1>9. CASE DeleteDone(p) \/ StepFails(p) \/ Crash(p)
  BY <1>9, FinishGoesOn, QuietContinues DEF DeleteDone, StepFails, Crash, rows, Outcomes
<1>10. QED
  BY <1>1, <1>2, <1>3, <1>4, <1>5, <1>6, <1>7, <1>8, <1>9 DEF OtherStep

LEMMA WorldContinues ==
  ASSUME StorageInv, NEW p, proc' = proc,
         \/ p \in Procs /\ ServerResolves(p)
         \/ \E k \in Ops : RequestDeletion(k) \/ LeaseExpires(k)
         \/ UNCHANGED <<reservations, sql>>
  PROVE  Continues(p)
<1>g. GoesOn(p)
  BY StaysGoesOn
<1>1. CASE p \in Procs /\ ServerResolves(p)
  <2>1. sql = p /\ sql # NoProc /\ Op(p) \in Ops /\ sql' = NoProc
    BY <1>1, NoProcIsNone DEF ServerResolves, StorageInv, SqlInv, Committed
  <2>2. CASE Committed(Op(p))
    <3>1. StateBecomes(Op(p), "committed")
      BY <2>2 DEF Committed, StateBecomes
    <3>2. RowsGoOn
      BY <2>1, <3>1, StateGoesOn DEF Active
    <3>3. QED BY <1>g, <2>1, <3>2 DEF Continues, SqlGoesOn
  <2>3. CASE UNCHANGED rows
    BY <1>g, <2>1, <2>3, RowsStay DEF Continues, SqlGoesOn, rows
  <2>4. QED BY <1>1, <2>2, <2>3 DEF ServerResolves
<1>2. ASSUME NEW k \in Ops, RequestDeletion(k) PROVE Continues(p)
  BY <1>g, <1>2, QuietContinues DEF RequestDeletion
<1>3. ASSUME NEW k \in Ops, LeaseExpires(k) PROVE Continues(p)
  <2> DEFINE row == [reservations[k] EXCEPT !.live = FALSE]
  <2>1. reservations[k] \in ResType /\ reservations[k].allocated \in Nat
    BY RowTyped DEF ResType
  <2>2. /\ row \in ResType /\ row.written = reservations[k].written
        /\ row.state = reservations[k].state
        /\ row.allocated = reservations[k].allocated
    BY <2>1 DEF ResType
  <2>3. reservations' = [reservations EXCEPT ![k] = row] /\ IsActive(k) /\ sql' = sql
    BY <1>3 DEF LeaseExpires
  <2> HIDE DEF row
  <2>4. row.state \notin {"none", "committed"} /\ reservations[k].allocated <= row.allocated
    BY <2>1, <2>2, <2>3 DEF IsActive, Active
  <2>5. RowsGoOn
    BY <2>2, <2>3, <2>4, RowGoesOn
  <2>6. QED BY <1>g, <2>3, <2>5 DEF Continues, SqlGoesOn
<1>4. CASE UNCHANGED <<reservations, sql>>
  BY <1>g, <1>4, QuietContinues
<1>5. QED BY <1>1, <1>2, <1>3, <1>4

LEMMA BeginContinues ==
  ASSUME StorageInv, NEW p \in Procs, NEW k \in Ops, NEW e,
         \/ BeginReplay(p, k, e) \/ RecoverStart(p, k) \/ ReadStart(p, k)
         \/ DeleteStart(p, k)
  PROVE  Continues(p)
<1>1. \E l \in {"replay_lock", "recover_lock", "read_lock", "delete_lock"} :
        At(p, "idle") /\ Started(p, k, l) /\ UNCHANGED <<reservations, sql>>
  BY DEF BeginReplay, RecoverStart, ReadStart, DeleteStart, rows
<1>2. QED BY <1>1, StartedGoesOn, QuietContinues DEF Labels, Fresh

LEMMA ReconcileContinues ==
  ASSUME StorageInv, NEW m \in Maintainers, ReconcileNext(m)
  PROVE  Continues(m)
<1>0. m \in Procs
  BY DEF Procs
<1>1. PICK k \in Ops, l \in {"recover_lock", "read_lock", "delete_lock"} :
        At(m, "idle") /\ Started(m, k, l) /\ UNCHANGED <<reservations, sql>>
  <2>1. PICK k \in Ops :
          Started(m, k, CASE files[k].state = "pending_delete" -> "delete_lock"
                          [] files[k].state = "ready" -> "read_lock"
                          [] OTHER -> "recover_lock")
    BY DEF ReconcileNext
  <2>2. At(m, "idle") /\ UNCHANGED <<reservations, sql>>
    BY DEF ReconcileNext, rows
  <2>3. QED BY <2>1, <2>2
<1>2. QED BY <1>0, <1>1, StartedGoesOn, QuietContinues DEF Labels, Fresh
-----------------------------------------------------------------------------
(* The steps that do not: an operation begins, a byte is counted.           *)

LEMMA BeginFreshCounts ==
  ASSUME StorageInv, StorageInv', WritingIsCounted, FailedIsOver,
         NEW p \in Requests, NEW k \in Ops,
         NEW e \in 0..FileBytes \cup {Undeclared}, BeginFresh(p, k, e)
  PROVE  WritingIsCounted' /\ FailedIsOver'
<1>0. p \in Procs /\ "lock" \in Labels
  BY RequestsEnd DEF Labels
<1>1. /\ Started(p, k, "lock") /\ sql' = sql /\ sql = NoProc
      /\ reservations[k].state = "none"
      /\ reservations' = [reservations EXCEPT ![k] =
            [state |-> "reserved", allocated |-> Declared(e), written |-> 0,
             expected |-> e, live |-> TRUE]]
  BY DEF BeginFresh, SqlFree
<1>2. /\ proc'[p] = [pc |-> "lock", op |-> k, size |-> 0, then |-> "none"]
      /\ \A q \in Procs : q # p => proc'[q] = proc[q]
  BY <1>0, <1>1, ProcTyped, StartedType
<1>3. /\ reservations'[k].state = "reserved" /\ reservations'[k].written = 0
      /\ reservations'[k].allocated \in Nat
      /\ \A j \in Ops : j # k => reservations'[j] = reservations[j]
  BY <1>1, RowTyped, RowTypedNext DEF ResType
<1>4. \A q \in Procs : q # p /\ proc[q].pc \in Fresh => Op(q) \in Ops \ {k}
  BY <1>1, OpInOps DEF StorageInv, OneWriter, Fresh, Running, Labels
<1>5. WritingIsCounted'
  <2>1. \A j \in Ops : IsActive(j)' =>
          reservations'[j].written <= reservations'[j].allocated
    BY <1>3 DEF WritingIsCounted, IsActive
  <2>2. ASSUME NEW q \in Procs, proc'[q].pc \in Writing
        PROVE  reservations'[proc'[q].op].written = proc'[q].size
    <3>1. CASE q = p
      BY <1>2, <1>3, <3>1
    <3>2. CASE q # p
      <4>1. proc'[q] = proc[q] /\ proc[q].pc \in Writing /\ Op(q) \in Ops \ {k}
        BY <1>2, <1>4, <2>2, <3>2 DEF Writing, Fresh
      <4>2. QED BY <1>3, <4>1 DEF WritingIsCounted, Writing, Op
    <3>3. QED BY <3>1, <3>2
  <2>3. QED BY <2>1, <2>2 DEF WritingIsCounted, Writing, Op
<1>6. FailedIsOver'
  <2>1. ASSUME NEW r \in Requests, proc'[r].then = "failed"
        PROVE  /\ Op(r)' \in Ops
               /\ reservations'[Op(r)'].state \notin {"none", "committed"}
               /\ \A q \in Procs : proc'[q].pc \in Fresh => Op(q)' # Op(r)'
               /\ sql' # NoProc => Op(sql)' # Op(r)'
    <3>1. r \in Procs /\ r # p /\ proc[r].then = "failed" /\ Op(r)' = Op(r)
      BY <1>2, <2>1, RequestsEnd DEF Op
    <3>2. /\ Op(r) \in Ops /\ reservations[Op(r)].state \notin {"none", "committed"}
          /\ \A q \in Procs : proc[q].pc \in Fresh => Op(q) # Op(r)
      BY <3>1 DEF FailedIsOver
    <3>3. Op(r) # k
      BY <1>1, <3>2
    <3>4. reservations'[Op(r)].state \notin {"none", "committed"}
      BY <1>3, <3>2, <3>3
    <3>5. \A q \in Procs : proc'[q].pc \in Fresh => Op(q)' # Op(r)
      BY <1>2, <3>2, <3>3 DEF Op
    <3>6. QED BY <1>1, <3>1, <3>2, <3>4, <3>5
  <2>2. QED BY <2>1 DEF FailedIsOver
<1>7. QED BY <1>5, <1>6

(* A byte is counted once, by the one process that wrote it.                *)
LEMMA WrittenCounts ==
  ASSUME StorageInv, StorageInv', WritingIsCounted, FailedIsOver,
         NEW p \in Procs, Written(p)
  PROVE  WritingIsCounted' /\ FailedIsOver'
<1>k. PICK k \in Ops : Op(p) = k
  BY OpInOps DEF Written, At, Running, Labels
<1>t. /\ reservations[k] \in ResType /\ proc[p] \in ProcType
      /\ proc[p].size \in Nat /\ reservations[k].allocated \in Nat
  BY RowTyped, ProcTyped DEF ProcType, ResType
<1>1. /\ proc[p].pc = "written" /\ sql' = sql /\ IsActive(k)
      /\ reservations[k].allocated > proc[p].size
  BY <1>k DEF Written, At, StorageInv, StepInv
<1>2. /\ reservations' = [reservations EXCEPT
           ![k].allocated = @ + 0, ![k].state = "writing", ![k].live = TRUE,
           ![k].written = proc[p].size + 1]
      /\ proc' = [proc EXCEPT ![p].pc = "stream", ![p].size = proc[p].size + 1]
  <2>1. Growth(k, proc[p].size + 1) = 0
    BY <1>1, <1>t DEF Growth
  <2>2. QED BY <1>k, <2>1 DEF Written
<1>3. /\ reservations'[k].state = "writing"
      /\ reservations'[k].allocated = reservations[k].allocated
      /\ reservations'[k].written = proc[p].size + 1
      /\ \A j \in Ops : j # k => reservations'[j] = reservations[j]
  BY <1>2, <1>t, RowTyped DEF ResType
<1>4. /\ proc'[p].pc = "stream" /\ proc'[p].op = k /\ proc'[p].size = proc[p].size + 1
      /\ proc'[p].then = proc[p].then
      /\ \A q \in Procs : q # p => proc'[q] = proc[q]
  BY <1>2, <1>k, <1>t, ProcTyped DEF ProcType, Op
<1>5. \A q \in Procs : q # p /\ proc[q].pc \in Fresh => Op(q) \in Ops \ {k}
  BY <1>k, <1>1, OpInOps DEF StorageInv, OneWriter, Fresh, Running, Labels
<1>6. WritingIsCounted'
  <2>1. \A j \in Ops : IsActive(j)' =>
          reservations'[j].written <= reservations'[j].allocated
    BY <1>1, <1>3, <1>t DEF WritingIsCounted, IsActive
  <2>2. ASSUME NEW q \in Procs, proc'[q].pc \in Writing
        PROVE  reservations'[proc'[q].op].written = proc'[q].size
    <3>1. CASE q = p
      BY <1>3, <1>4, <3>1
    <3>2. CASE q # p
      <4>1. proc'[q] = proc[q] /\ proc[q].pc \in Writing /\ Op(q) \in Ops \ {k}
        BY <1>4, <1>5, <2>2, <3>2 DEF Writing, Fresh
      <4>2. QED BY <1>3, <4>1 DEF WritingIsCounted, Writing, Op
    <3>3. QED BY <3>1, <3>2
  <2>3. QED BY <2>1, <2>2 DEF WritingIsCounted, Writing, Op
<1>7. FailedIsOver'
  <2>1. \A q \in Procs : /\ Op(q)' = Op(q) /\ proc'[q].then = proc[q].then
                         /\ proc'[q].pc \in Fresh => proc[q].pc \in Fresh
    BY <1>k, <1>1, <1>4 DEF Op, Fresh
  <2>2. \A j \in Ops : reservations[j].state \notin {"none", "committed"}
                        => reservations'[j].state \notin {"none", "committed"}
    BY <1>3
  <2>3. sql' # NoProc => sql \in Procs
    BY <1>1, RowTyped
  <2>4. QED BY <1>1, <2>1, <2>2, <2>3, RequestsEnd DEF FailedIsOver
<1>8. QED BY <1>6, <1>7

LEMMA FailsCounts ==
  ASSUME StorageInv, StorageInv', WritingIsCounted, FailedIsOver,
         NEW p \in Procs, StoreFails(p) \/ Rollback(p)
  PROVE  WritingIsCounted' /\ FailedIsOver'
<1>1. Advances(p, "clean")
  BY CleanAdvances DEF StoreFails, Rollback, Outcomes
<1>2. RowsGoOn
  BY RowsStay DEF StoreFails, Rollback, rows
<1>3. "clean" \notin Writing
  BY DEF Writing
<1>4. WritingIsCounted'
  BY <1>1, <1>2, <1>3, WritingGoesOn DEF Advances
<1>5. QED BY <1>4, FailsDefinitely

LEMMA ContinuesCounts ==
  ASSUME StorageInv, StorageInv', WritingIsCounted, FailedIsOver,
         NEW p, Continues(p)
  PROVE  WritingIsCounted' /\ FailedIsOver'
BY WritingGoesOn, FailedGoesOn DEF Continues, GoesOn

LEMMA NextCounts ==
  ASSUME StorageInv, StorageInv', WritingIsCounted, FailedIsOver, [Next]_vars
  PROVE  WritingIsCounted' /\ FailedIsOver'
<1>1. ASSUME NEW p \in Requests, NEW k \in Ops, Start(p, k)
      PROVE  WritingIsCounted' /\ FailedIsOver'
  <2>1. p \in Procs
    BY DEF Procs
  <2>2. ASSUME NEW e \in 0..FileBytes \cup {Undeclared},
               BeginFresh(p, k, e) \/ BeginReplay(p, k, e)
        PROVE  WritingIsCounted' /\ FailedIsOver'
    BY <2>1, <2>2, BeginFreshCounts, BeginContinues, ContinuesCounts
  <2>3. CASE RecoverStart(p, k) \/ ReadStart(p, k) \/ DeleteStart(p, k)
    BY <2>1, <2>3, BeginContinues, ContinuesCounts
  <2>4. QED BY <1>1, <2>2, <2>3 DEF Start
<1>2. ASSUME NEW m \in Maintainers, ReconcileNext(m)
      PROVE  WritingIsCounted' /\ FailedIsOver'
  BY <1>2, ReconcileContinues, ContinuesCounts DEF Procs
<1>3. ASSUME NEW p \in Procs, Step(p)
      PROVE  WritingIsCounted' /\ FailedIsOver'
  <2>1. CASE StoreStep(p)
    BY <2>1, WrittenCounts, FailsCounts, StoreContinues, ContinuesCounts
  <2>2. CASE CleanStep(p) \/ OtherStep(p)
    BY <2>2, CleanContinues, OtherContinues, ContinuesCounts
  <2>3. QED BY <1>3, <2>1, <2>2 DEF Step
<1>4. ASSUME NEW p \in Procs, StepFails(p) \/ Crash(p)
      PROVE  WritingIsCounted' /\ FailedIsOver'
  BY <1>4, OtherContinues, ContinuesCounts
<1>5. ASSUME NEW p \in Procs, ServerResolves(p)
      PROVE  WritingIsCounted' /\ FailedIsOver'
  BY <1>5, WorldContinues, ContinuesCounts DEF ServerResolves
<1>6. ASSUME proc' = proc,
             (\E k \in Ops : RequestDeletion(k) \/ LeaseExpires(k))
               \/ UNCHANGED <<reservations, sql>>
      PROVE  WritingIsCounted' /\ FailedIsOver'
  BY <1>6, WorldContinues, ContinuesCounts
<1>7. QED
  BY <1>1, <1>2, <1>3, <1>4, <1>5, <1>6
     DEF Next, RequestDeletion, LeaseExpires, SetLimit, ReconcileAgain, ReconcileAccount,
         vars, rows

(* What is admitted, what is written and what has failed, with the rest of  *)
(* the invariant.                                                           *)
LEMMA CountsInvariant == Spec => [](StorageInv /\ WritingIsCounted /\ FailedIsOver)
<1>1. ASSUME Init PROVE StorageInv /\ WritingIsCounted /\ FailedIsOver
  <2>1. \A p \in Procs : proc[p].pc = "idle" /\ proc[p].then = "none"
    BY <1>1 DEF Init, Idle
  <2>2. \A k \in Ops : reservations[k].state = "none"
    BY <1>1 DEF Init, NoRow
  <2>3. WritingIsCounted
    BY <2>1, <2>2 DEF WritingIsCounted, IsActive, Active
  <2>4. FailedIsOver
    BY <2>1, RequestsEnd DEF FailedIsOver
  <2>5. QED BY <1>1, <2>3, <2>4, InitInv
<1>2. ASSUME StorageInv, WritingIsCounted, FailedIsOver, [Next]_vars
      PROVE  StorageInv' /\ WritingIsCounted' /\ FailedIsOver'
  <2>1. StorageInv'
    BY <1>2, NextInv
  <2>2. QED BY <1>2, <2>1, NextCounts
<1>3. QED BY <1>1, <1>2, PTL DEF Spec

(* A process that writes has counted every byte but the one in its hands,   *)
(* and a row never counts more than it was allowed (_advance).              *)
THEOREM WritingStaysCounted == Spec => []WritingIsCounted
BY CountsInvariant, PTL

(* A store that told its caller it failed is never followed by the file: no *)
(* other process, and no transaction left open, could commit it any more    *)
(* (store, _finish, _clean, recover).                                       *)
THEOREM FailuresStayDefinite == Spec => []FailureIsDefinite
<1>1. FailedIsOver => FailureIsDefinite
  BY DEF FailedIsOver, FailureIsDefinite
<1>2. QED BY <1>1, CountsInvariant, PTL
-----------------------------------------------------------------------------
(* Part 2.  What a step does to one operation, seen by its owner's counters, *)
(* by the disk and by the ledger.                                           *)

UsedShare(k)     == IF files[k].state \in {"ready", "pending_delete"}
                    THEN files[k].size ELSE 0
ReservedShare(k) == IF IsActive(k) THEN reservations[k].allocated ELSE 0

(* What an operation takes of the disk now or later. *)
Weight(k) == bytes[k] + IF IsActive(k) THEN Outstanding[k] ELSE 0

(* Only k changes, and its owner's counters with its shares.                *)
Only(k) ==
  /\ limits' = limits
  /\ \A j \in Ops : j # k =>
       reservations'[j] = reservations[j] /\ files'[j] = files[j] /\ bytes'[j] = bytes[j]
  /\ \A o \in Owners : o # Owner[k] => accounts'[o] = accounts[o]
  /\ accounts'[Owner[k]].used = accounts[Owner[k]].used + UsedShare(k)' - UsedShare(k)
  /\ accounts'[Owner[k]].reserved
       = accounts[Owner[k]].reserved + ReservedShare(k)' - ReservedShare(k)

(* k takes n more, which _capacity found there.                             *)
Admits(k, n) ==
  /\ Only(k) /\ Capacity(Owner[k], n) /\ bytes'[k] = bytes[k]
  /\ IsActive(k)' /\ Object(k) \in {"absent", "open"}
  /\ Held(k)' = Held(k) + n /\ (n > 0 => Held(k)' <= FileBytes)
  /\ Promises[k]' = n + IF IsActive(k) THEN Promises[k] ELSE 0

(* k takes no more than it did, and moves as the ledger says.               *)
Settles(k) ==
  /\ Only(k)
  /\ IsActive(k)' => IsActive(k)
  /\ Weight(k)' <= Weight(k)
  /\ \/ Object(k)' = Object(k) /\ Held(k)' = Held(k) /\ bytes'[k] = bytes[k]
     \/ /\ Object(k) = "open" /\ Object(k)' = "open" /\ Held(k)' = Held(k)
        /\ bytes[k] < Held(k) /\ bytes'[k] = bytes[k] + 1
     \/ /\ Object(k) = "open" /\ Object(k)' = "stored"
        /\ Held(k)' = bytes[k] /\ bytes'[k] = bytes[k]
     \/ /\ Object(k) = "stored" /\ Object(k)' = "doomed"
        /\ Held(k)' = Held(k) /\ bytes'[k] = bytes[k]
     \/ /\ Object(k) \in {"open", "doomed"} /\ Object(k)' = Object(k)
        /\ Held(k)' = Held(k) /\ bytes'[k] = 0
     \/ /\ <<Object(k), Object(k)'>> \in {<<"open", "discarded">>, <<"doomed", "removed">>}
        /\ bytes[k] = 0 /\ bytes'[k] = 0 /\ Held(k)' = 0

(* Numbers of one operation, and what the ledger sees of it.                *)
ViewIs(k) ==
  /\ reservations[k].allocated \in Nat /\ reservations[k].written \in Nat
  /\ files[k].size \in Nat /\ bytes[k] \in Nat /\ bytes[k] <= Held(k)
  /\ Held(k) = UsedShare(k) + ReservedShare(k)
  /\ UsedShare(k) \in Nat /\ ReservedShare(k) \in Nat /\ Held(k) \in Nat
  /\ reservations[k].state = "none" => Object(k) = "absent" /\ Held(k) = 0
  /\ IsActive(k) => /\ Object(k) = "open" /\ Held(k) = reservations[k].allocated
                    /\ UsedShare(k) = 0
  /\ reservations[k].state = "aborted" => Object(k) = "discarded" /\ Held(k) = 0
  /\ files[k].state = "ready" => Object(k) = "stored" /\ ~IsActive(k)
  /\ files[k].state = "pending_delete" => Object(k) = "doomed" /\ ~IsActive(k)
  /\ files[k].state \in {"ready", "pending_delete"}
       => Held(k) = files[k].size /\ ReservedShare(k) = 0 /\ UsedShare(k) = files[k].size
  /\ reservations[k].state = "committed" /\ files[k].state = "deleted"
       => Object(k) = "removed" /\ Held(k) = 0
  /\ Outstanding[k] = reservations[k].allocated -
       IF bytes[k] > reservations[k].written THEN bytes[k] ELSE reservations[k].written
  /\ Promises[k] = reservations[k].allocated - reservations[k].written

LEMMA ViewNow == ASSUME StorageInv, NEW k \in Ops PROVE ViewIs(k)
<1>1. RowInv(k) /\ reservations[k] \in ResType /\ files[k] \in FileType
      /\ bytes[k] \in Nat
  BY RowTyped DEF StorageInv
<1>2. reservations[k].allocated \in Nat /\ reservations[k].written \in Nat
      /\ files[k].size \in Nat
  BY <1>1 DEF ResType, FileType
<1>3. QED
  BY <1>1, <1>2 DEF ViewIs, RowInv, Held, UsedShare, ReservedShare, Object, IsActive,
     Active, Outstanding, Promises

LEMMA ViewNext == ASSUME StorageInv', NEW k \in Ops PROVE ViewIs(k)'
<1>1. RowInv(k)' /\ reservations'[k] \in ResType /\ files'[k] \in FileType
      /\ bytes'[k] \in Nat
  BY RowTypedNext DEF StorageInv
<1>2. reservations'[k].allocated \in Nat /\ reservations'[k].written \in Nat
      /\ files'[k].size \in Nat
  BY <1>1 DEF ResType, FileType
<1>3. QED
  BY <1>1, <1>2 DEF ViewIs, RowInv, Held, UsedShare, ReservedShare, Object, IsActive,
     Active, Outstanding, Promises

LEMMA AccountsAre ==
  ASSUME StorageInv, NEW o \in Owners
  PROVE  accounts[o].used \in Int /\ accounts[o].reserved \in Int
         /\ limits[o] \in Nat /\ DOMAIN accounts = Owners
BY RowTyped, StorageAssumptions DEF AcctType
-----------------------------------------------------------------------------
(* The counters after such a step. *)

LEMMA AccountsKept ==
  ASSUME StorageInv, StorageInv', AccountingExact, NEW k \in Ops, Only(k)
  PROVE  AccountingExact'
<1>1. SUFFICES ASSUME NEW o \in Owners
               PROVE  /\ accounts'[o].used = SumFunctionOnSet(FileSizes', Retained(o)')
                      /\ accounts'[o].reserved = SumFunctionOnSet(Allocations', Reserved(o)')
  BY DEF AccountingExact
<1> DEFINE S == Retained(o)
           T == Retained(o)'
           U == Reserved(o)
           V == Reserved(o)'
<1>2. /\ \A j \in Ops : /\ FileSizes[j] = files[j].size /\ FileSizes'[j] = files'[j].size
                        /\ Allocations[j] = reservations[j].allocated
                        /\ Allocations'[j] = reservations'[j].allocated
      /\ \A j \in Ops : /\ FileSizes[j] \in Int /\ FileSizes'[j] \in Int
                        /\ Allocations[j] \in Int /\ Allocations'[j] \in Int
  BY RowTyped, RowTypedNext DEF FileSizes, Allocations, ResType, FileType
<1>3. /\ S \subseteq Ops /\ T \subseteq Ops /\ U \subseteq Ops /\ V \subseteq Ops
      /\ S \ {k} = T \ {k} /\ U \ {k} = V \ {k}
      /\ k \in S <=> Owner[k] = o /\ files[k].state \in {"ready", "pending_delete"}
      /\ k \in T <=> Owner[k] = o /\ files'[k].state \in {"ready", "pending_delete"}
      /\ k \in U <=> Owner[k] = o /\ IsActive(k)
      /\ k \in V <=> Owner[k] = o /\ IsActive(k)'
  BY DEF Only, Retained, Reserved, IsActive
<1>4. IsFiniteSet(S) /\ IsFiniteSet(T) /\ IsFiniteSet(U) /\ IsFiniteSet(V)
  BY <1>3, FS_Subset, StorageAssumptions
<1>5. \A j \in Ops : j # k => FileSizes'[j] = FileSizes[j] /\ Allocations'[j] = Allocations[j]
  BY <1>2 DEF Only
<1>6. /\ accounts[o].used = SumFunctionOnSet(FileSizes, S)
      /\ accounts[o].reserved = SumFunctionOnSet(Allocations, U)
  BY DEF AccountingExact
<1> HIDE DEF S, T, U, V
<1>s. /\ \A x \in S : FileSizes[x] \in Int
      /\ \A x \in T : FileSizes'[x] \in Int
      /\ \A x \in S \ {k} : FileSizes[x] = FileSizes'[x]
  BY <1>2, <1>3, <1>5
<1>u. /\ \A x \in U : Allocations[x] \in Int
      /\ \A x \in V : Allocations'[x] \in Int
      /\ \A x \in U \ {k} : Allocations[x] = Allocations'[x]
  BY <1>2, <1>3, <1>5
<1>7. /\ SumFunctionOnSet(FileSizes', T)
           = accounts[o].used + Share(FileSizes', T, k) - Share(FileSizes, S, k)
      /\ accounts[o].used \in Int
  <2>1. S \ {k} = T \ {k} /\ IsFiniteSet(S) /\ IsFiniteSet(T)
    BY <1>3, <1>4
  <2>2. /\ SumFunctionOnSet(FileSizes', T) = SumFunctionOnSet(FileSizes, S)
             + Share(FileSizes', T, k) - Share(FileSizes, S, k)
        /\ SumFunctionOnSet(FileSizes, S) \in Int
    BY <2>1, <1>s, SumChange
  <2>3. QED BY <2>2, <1>6
<1>8. /\ SumFunctionOnSet(Allocations', V)
           = accounts[o].reserved + Share(Allocations', V, k) - Share(Allocations, U, k)
      /\ accounts[o].reserved \in Int
  BY <1>3, <1>4, <1>u, <1>6, SumChange
<1>9. CASE o # Owner[k]
  <2>1. /\ Share(FileSizes', T, k) = 0 /\ Share(FileSizes, S, k) = 0
        /\ Share(Allocations', V, k) = 0 /\ Share(Allocations, U, k) = 0
    BY <1>3, <1>9 DEF Share
  <2>2. accounts'[o] = accounts[o]
    BY <1>9 DEF Only
  <2>3. QED BY <1>7, <1>8, <2>1, <2>2 DEF S, T, U, V
<1>10. CASE o = Owner[k]
  <2>1. /\ Share(FileSizes', T, k) = UsedShare(k)' /\ Share(FileSizes, S, k) = UsedShare(k)
        /\ Share(Allocations', V, k) = ReservedShare(k)'
        /\ Share(Allocations, U, k) = ReservedShare(k)
    BY <1>2, <1>3, <1>10 DEF Share, UsedShare, ReservedShare
  <2>2. QED BY <1>7, <1>8, <1>10, <2>1 DEF Only, S, T, U, V
<1>11. QED BY <1>9, <1>10

(* The disk after such a step. *)

LEMMA DiskNow ==
  ASSUME StorageInv
  PROVE  /\ IsFiniteSet(ActiveOps) /\ ActiveOps \subseteq Ops
         /\ \A j \in Ops : /\ Outstanding[j] \in Int /\ Promises[j] \in Int /\ bytes[j] \in Int
                          /\ Outstanding[j] <= Promises[j]
<1>1. ActiveOps \subseteq Ops
  BY DEF ActiveOps
<1>2. IsFiniteSet(ActiveOps)
  BY <1>1, FS_Subset, StorageAssumptions
<1>3. ASSUME NEW j \in Ops
      PROVE  /\ Outstanding[j] \in Int /\ Promises[j] \in Int /\ bytes[j] \in Int
             /\ Outstanding[j] <= Promises[j]
  BY ViewNow DEF ViewIs
<1>4. QED BY <1>1, <1>2, <1>3

LEMMA DiskNext ==
  ASSUME StorageInv'
  PROVE  /\ IsFiniteSet(ActiveOps') /\ ActiveOps' \subseteq Ops
         /\ \A j \in Ops : /\ Outstanding'[j] \in Int /\ Promises'[j] \in Int /\ bytes'[j] \in Int
                          /\ Outstanding'[j] <= Promises'[j]
<1>1. ActiveOps' \subseteq Ops
  BY DEF ActiveOps
<1>2. IsFiniteSet(ActiveOps')
  BY <1>1, FS_Subset, StorageAssumptions
<1>3. ASSUME NEW j \in Ops
      PROVE  /\ Outstanding'[j] \in Int /\ Promises'[j] \in Int /\ bytes'[j] \in Int
             /\ Outstanding'[j] <= Promises'[j]
  BY ViewNext DEF ViewIs
<1>4. QED BY <1>1, <1>2, <1>3

LEMMA DiskOthers ==
  ASSUME NEW k \in Ops, Only(k)
  PROVE  /\ ActiveOps \ {k} = ActiveOps' \ {k}
         /\ \A j \in Ops : j # k => /\ Outstanding'[j] = Outstanding[j]
                                   /\ Promises'[j] = Promises[j] /\ bytes'[j] = bytes[j]
         /\ k \in ActiveOps <=> IsActive(k)
         /\ k \in ActiveOps' <=> IsActive(k)'
BY DEF Only, ActiveOps, IsActive, Outstanding, Promises

LEMMA AdmittedFits ==
  ASSUME StorageInv, StorageInv', NEW k \in Ops, NEW n \in Nat, Admits(k, n)
  PROVE  HeadroomIsKept'
<1>1. Only(k) /\ IsActive(k)' /\ bytes'[k] = bytes[k]
      /\ Promised + n + Headroom <= DiskAvailable
      /\ Promises'[k] = n + IF IsActive(k) THEN Promises[k] ELSE 0
  BY DEF Admits, Capacity
<1>2. SumFunctionOnSet(Promises', ActiveOps')
        = Promised + Share(Promises', ActiveOps', k) - Share(Promises, ActiveOps, k)
      /\ Promised \in Int
  BY <1>1, DiskNow, DiskNext, DiskOthers, SumChange DEF Promised
<1>3. /\ Share(Promises', ActiveOps', k) = Promises'[k]
      /\ Share(Promises, ActiveOps, k) = IF IsActive(k) THEN Promises[k] ELSE 0
  BY <1>1, DiskOthers DEF Share
<1>4. Promises[k] \in Int
  BY DiskNow
<1>5. SumFunctionOnSet(Promises', ActiveOps') = Promised + n
  BY <1>1, <1>2, <1>3, <1>4
<1>6. /\ SumFunctionOnSet(Outstanding', ActiveOps') <= SumFunctionOnSet(Promises', ActiveOps')
      /\ SumFunctionOnSet(Outstanding', ActiveOps') \in Int
  <2>1. \A j \in ActiveOps' : Outstanding'[j] \in Int /\ Promises'[j] \in Int
                                 /\ Outstanding'[j] <= Promises'[j]
    BY DiskNext
  <2>2. QED BY <2>1, DiskNext, SumMonotone, SumType
<1>7. bytes' = bytes
  <2>1. \A j \in Ops : bytes'[j] = bytes[j]
    BY <1>1 DEF Only
  <2>2. QED BY <2>1, RowTyped, RowTypedNext
<1>8. DiskAvailable' = DiskAvailable /\ DiskAvailable \in Int /\ Headroom \in Nat
  <2>1. SumFunctionOnSet(bytes, Ops) \in Int
    BY DiskNow, SumType, StorageAssumptions
  <2>2. QED BY <1>7, <2>1, StorageAssumptions DEF DiskAvailable
<1>9. QED BY <1>1, <1>2, <1>5, <1>6, <1>8 DEF HeadroomIsKept

LEMMA SettledFits ==
  ASSUME StorageInv, StorageInv', HeadroomIsKept, NEW k \in Ops, Settles(k)
  PROVE  HeadroomIsKept'
<1>1. Only(k) /\ (IsActive(k)' => IsActive(k)) /\ Weight(k)' <= Weight(k)
  BY DEF Settles
<1>2. SUFFICES ASSUME ActiveOps' # {}
               PROVE  SumFunctionOnSet(Outstanding', ActiveOps') + Headroom <= DiskAvailable'
  BY DEF HeadroomIsKept
<1>3. ActiveOps # {}
  BY <1>1, <1>2, DiskOthers
<1>4. SumFunctionOnSet(Outstanding, ActiveOps) + Headroom
        <= DiskBytes - SumFunctionOnSet(bytes, Ops)
  BY <1>3 DEF HeadroomIsKept, DiskAvailable
<1>5. /\ SumFunctionOnSet(Outstanding', ActiveOps')
           = SumFunctionOnSet(Outstanding, ActiveOps)
               + Share(Outstanding', ActiveOps', k) - Share(Outstanding, ActiveOps, k)
      /\ SumFunctionOnSet(Outstanding, ActiveOps) \in Int
  <2>1. /\ \A x \in ActiveOps : Outstanding[x] \in Int
        /\ \A x \in ActiveOps' : Outstanding'[x] \in Int
        /\ \A x \in ActiveOps \ {k} : Outstanding[x] = Outstanding'[x]
    BY <1>1, DiskNow, DiskNext, DiskOthers
  <2>2. /\ IsFiniteSet(ActiveOps) /\ IsFiniteSet(ActiveOps')
        /\ ActiveOps \ {k} = ActiveOps' \ {k}
    BY <1>1, DiskNow, DiskNext, DiskOthers
  <2>3. QED BY <2>1, <2>2, SumChange
<1>6. /\ SumFunctionOnSet(bytes', Ops)
           = SumFunctionOnSet(bytes, Ops) + bytes'[k] - bytes[k]
      /\ SumFunctionOnSet(bytes, Ops) \in Int
  <2>1. /\ \A x \in Ops : bytes[x] \in Int
        /\ \A x \in Ops : bytes'[x] \in Int
        /\ \A x \in Ops \ {k} : bytes[x] = bytes'[x]
    BY <1>1, DiskNow, DiskNext, DiskOthers
  <2>2. IsFiniteSet(Ops) /\ Ops \ {k} = Ops \ {k}
    BY StorageAssumptions
  <2>3. Share(bytes, Ops, k) = bytes[k] /\ Share(bytes', Ops, k) = bytes'[k]
    BY DEF Share
  <2>4. /\ SumFunctionOnSet(bytes', Ops)
             = SumFunctionOnSet(bytes, Ops) + Share(bytes', Ops, k) - Share(bytes, Ops, k)
        /\ SumFunctionOnSet(bytes, Ops) \in Int
    BY <2>1, <2>2, SumChange
  <2>5. QED BY <2>3, <2>4
<1>7. /\ Weight(k) = bytes[k] + Share(Outstanding, ActiveOps, k)
      /\ Weight(k)' = bytes'[k] + Share(Outstanding', ActiveOps', k)
  BY <1>1, DiskOthers DEF Weight, Share
<1>8. /\ bytes[k] \in Int /\ bytes'[k] \in Int
      /\ Share(Outstanding, ActiveOps, k) \in Int
      /\ Share(Outstanding', ActiveOps', k) \in Int
      /\ Headroom \in Nat /\ DiskBytes \in Nat
  BY DiskNow, DiskNext, StorageAssumptions DEF Share
<1>9. QED BY <1>1, <1>4, <1>5, <1>6, <1>7, <1>8 DEF DiskAvailable
-----------------------------------------------------------------------------
(* The ledger's view of such a step. *)

Objects == [k \in Ops |-> Object(k)]
Helds   == [k \in Ops |-> Held(k)]
Charges == [o \in Owners |-> Charge(o)]

LEMMA LedgerView ==
  ASSUME StorageInv, StorageInv', NEW k \in Ops, Only(k)
  PROVE  /\ Objects' = [Objects EXCEPT ![k] = Object(k)']
         /\ Helds' = [Helds EXCEPT ![k] = Held(k)']
         /\ Charges' = [Charges EXCEPT ![Owner[k]] = @ + Held(k)' - Helds[k]]
         /\ bytes' = [bytes EXCEPT ![k] = bytes'[k]]
         /\ Objects[k] = Object(k) /\ Helds[k] = Held(k) /\ Owner[k] \in Owners
         /\ Charge(Owner[k]) \in Int /\ Charge(Owner[k])' = Charge(Owner[k]) + Held(k)' - Held(k)
         /\ limits' = limits
<1>1. \A j \in Ops : j # k => Object(j)' = Object(j) /\ Held(j)' = Held(j)
                              /\ bytes'[j] = bytes[j]
  BY DEF Only, Object, Held, IsActive
<1>2. Owner[k] \in Owners
  BY StorageAssumptions
<1>3. \A o \in Owners : o # Owner[k] => Charge(o)' = Charge(o)
  BY DEF Only, Charge
<1>4. Charge(Owner[k]) \in Int /\ Charge(Owner[k])' = Charge(Owner[k]) + Held(k)' - Held(k)
  <2>1. ViewIs(k) /\ ViewIs(k)' /\ Only(k)
    BY ViewNow, ViewNext
  <2>2. accounts[Owner[k]].used \in Int /\ accounts[Owner[k]].reserved \in Int
    BY <1>2, AccountsAre
  <2>3. /\ Held(k) = UsedShare(k) + ReservedShare(k)
        /\ UsedShare(k) \in Nat /\ ReservedShare(k) \in Nat
        /\ Held(k)' = UsedShare(k)' + ReservedShare(k)'
        /\ UsedShare(k)' \in Nat /\ ReservedShare(k)' \in Nat
    BY <2>1 DEF ViewIs
  <2>4. /\ accounts'[Owner[k]].used = accounts[Owner[k]].used + UsedShare(k)' - UsedShare(k)
        /\ accounts'[Owner[k]].reserved
             = accounts[Owner[k]].reserved + ReservedShare(k)' - ReservedShare(k)
    BY DEF Only
  <2>5. /\ Charge(Owner[k]) = accounts[Owner[k]].used + accounts[Owner[k]].reserved
        /\ Charge(Owner[k])' = accounts'[Owner[k]].used + accounts'[Owner[k]].reserved
    BY DEF Charge
  <2>6. QED BY <2>2, <2>3, <2>4, <2>5
<1>5. Objects' = [Objects EXCEPT ![k] = Object(k)'] /\ Objects[k] = Object(k)
  BY <1>1 DEF Objects
<1>6. Helds' = [Helds EXCEPT ![k] = Held(k)'] /\ Helds[k] = Held(k)
  BY <1>1 DEF Helds
<1>7. Charges' = [Charges EXCEPT ![Owner[k]] = @ + Held(k)' - Helds[k]]
  BY <1>2, <1>3, <1>4, <1>6 DEF Charges
<1>8. bytes' = [bytes EXCEPT ![k] = bytes'[k]]
  BY <1>1, RowTyped, RowTypedNext
<1>9. QED BY <1>2, <1>4, <1>5, <1>6, <1>7, <1>8 DEF Only

LEMMA Becomes ==
  ASSUME StorageInv, StorageInv', NEW k \in Ops, Only(k), NEW s, NEW n,
         s = Object(k)', n = Held(k)',
         n > Held(k) => Charge(Owner[k])' <= limits[Owner[k]]
  PROVE  Ledger!Becomes(k, s, n)
<1>1. /\ Objects' = [Objects EXCEPT ![k] = s] /\ Helds' = [Helds EXCEPT ![k] = n]
      /\ Charges' = [Charges EXCEPT ![Owner[k]] = @ + n - Helds[k]]
      /\ Helds[k] = Held(k) /\ Owner[k] \in Owners /\ limits' = limits
  BY LedgerView
<1>2. Charges'[Owner[k]] = Charge(Owner[k])'
  BY <1>1 DEF Charges
<1>3. QED BY <1>1, <1>2 DEF Ledger!Becomes, Objects, Helds, Charges

LEMMA UnmovedIsLedgered ==
  ASSUME StorageInv, StorageInv', NEW k \in Ops, Only(k),
         Object(k)' = Object(k), Held(k)' = Held(k)
  PROVE  /\ UNCHANGED <<Objects, Helds, Charges, limits>>
         /\ bytes' = bytes => UNCHANGED Ledger!vars
<1>1. /\ Objects' = [Objects EXCEPT ![k] = Object(k)]
      /\ Helds' = [Helds EXCEPT ![k] = Held(k)]
      /\ Charges' = [Charges EXCEPT ![Owner[k]] = @ + Held(k) - Helds[k]]
      /\ Objects[k] = Object(k) /\ Helds[k] = Held(k) /\ Owner[k] \in Owners
      /\ Charge(Owner[k]) \in Int /\ limits' = limits
  BY LedgerView
<1>2. Held(k) \in Nat
  BY ViewNow DEF ViewIs
<1>3. Charges[Owner[k]] + Held(k) - Helds[k] = Charges[Owner[k]]
  BY <1>1, <1>2 DEF Charges
<1>4. Objects' = Objects /\ Helds' = Helds
  BY <1>1 DEF Objects, Helds
<1>5. Charges' = Charges
  BY <1>1, <1>3 DEF Charges
<1>6. QED BY <1>1, <1>4, <1>5 DEF Ledger!vars, Objects, Helds, Charges

LEMMA AdmittedIsLedgered ==
  ASSUME StorageInv, StorageInv', NEW k \in Ops, NEW n \in Nat, Admits(k, n)
  PROVE  [Ledger!Next]_(Ledger!vars)
<1> DEFINE m == Held(k)'
<1>1. /\ Only(k) /\ Capacity(Owner[k], n) /\ bytes'[k] = bytes[k]
      /\ IsActive(k)' /\ Object(k) \in {"absent", "open"}
      /\ m = Held(k) + n /\ (n > 0 => m <= FileBytes)
  BY DEF Admits
<1>2. /\ Object(k)' = "open" /\ Held(k) \in Nat /\ m \in Nat
      /\ Object(k) = "absent" => Held(k) = 0
  <2>1. ViewIs(k) /\ ViewIs(k)'
    BY ViewNow, ViewNext
  <2>2. Object(k) = "absent" => reservations[k].state = "none"
    BY DEF Object
  <2>3. QED BY <1>1, <2>1, <2>2 DEF ViewIs
<1>3. n > 0 => Charge(Owner[k])' <= limits[Owner[k]]
  <2>1. ~(Charge(Owner[k]) > limits[Owner[k]]) /\ n <= limits[Owner[k]] - Charge(Owner[k])
    BY <1>1 DEF Capacity, OverLimit, AvailableTo
  <2>2. Charge(Owner[k])' = Charge(Owner[k]) + Held(k)' - Held(k) /\ Charge(Owner[k]) \in Int
    BY <1>1, LedgerView
  <2>3. limits[Owner[k]] \in Nat
    BY AccountsAre, StorageAssumptions
  <2>4. QED BY <1>1, <1>2, <2>1, <2>2, <2>3
<1>4. bytes' = bytes
  BY <1>1, LedgerView, RowTyped
<1>5. Objects[k] = Object(k) /\ Helds[k] = Held(k)
  BY DEF Objects, Helds
<1>6. Ledger!Becomes(k, "open", m)
  BY <1>1, <1>2, <1>3, Becomes
<1>7. CASE Object(k) = "absent"
  <2>1. m \in 0..FileBytes
    BY <1>1, <1>2, <1>7, StorageAssumptions
  <2>2. Ledger!Open(k, m)
    BY <1>4, <1>5, <1>6, <1>7 DEF Ledger!Open, Objects
  <2>3. QED BY <2>1, <2>2 DEF Ledger!Next
<1>8. CASE Object(k) = "open" /\ n > 0
  <2>1. m \in 0..FileBytes /\ m > Held(k)
    BY <1>1, <1>2, <1>8, StorageAssumptions
  <2>2. Ledger!Grow(k, m)
    BY <1>4, <1>5, <1>6, <1>8, <2>1 DEF Ledger!Grow, Objects, Helds
  <2>3. QED BY <2>1, <2>2 DEF Ledger!Next
<1>9. CASE Object(k) = "open" /\ n = 0
  <2>1. Object(k)' = Object(k) /\ Held(k)' = Held(k)
    BY <1>1, <1>2, <1>9
  <2>2. QED BY <1>1, <1>4, <2>1, UnmovedIsLedgered
<1>10. QED BY <1>1, <1>7, <1>8, <1>9

LEMMA SettledIsLedgered ==
  ASSUME StorageInv, StorageInv', NEW k \in Ops, Settles(k)
  PROVE  [Ledger!Next]_(Ledger!vars)
<1>1. Only(k) /\ Held(k) \in Nat /\ Held(k)' \in Nat /\ bytes[k] \in Nat
      /\ bytes[k] <= Held(k)
  BY ViewNow, ViewNext DEF Settles, ViewIs
<1>2. Objects[k] = Object(k) /\ Helds[k] = Held(k)
  BY DEF Objects, Helds
<1>3. bytes' = [bytes EXCEPT ![k] = bytes'[k]]
  BY <1>1, LedgerView
<1>4. bytes'[k] = bytes[k] => bytes' = bytes
  BY <1>3, RowTyped
<1>5. Held(k)' <= Held(k) => Ledger!Becomes(k, Object(k)', Held(k)')
  BY <1>1, Becomes
<1>6. Object(k)' = Object(k) /\ Held(k)' = Held(k)
        => UNCHANGED <<Objects, Helds, Charges, limits>>
  BY <1>1, UnmovedIsLedgered
<1>7. CASE Object(k)' = Object(k) /\ Held(k)' = Held(k) /\ bytes'[k] = bytes[k]
  BY <1>4, <1>6, <1>7 DEF Ledger!vars, Objects, Helds, Charges
<1>8. CASE /\ Object(k) = "open" /\ Object(k)' = "open" /\ Held(k)' = Held(k)
           /\ bytes[k] < Held(k) /\ bytes'[k] = bytes[k] + 1
  <2>1. Ledger!Write(k)
    BY <1>2, <1>3, <1>6, <1>8 DEF Ledger!Write, Objects, Helds, Charges
  <2>2. QED BY <2>1 DEF Ledger!Next
<1>9. CASE /\ Object(k) = "open" /\ Object(k)' = "stored"
           /\ Held(k)' = bytes[k] /\ bytes'[k] = bytes[k]
  <2>1. Ledger!Store(k)
    BY <1>1, <1>2, <1>4, <1>5, <1>9 DEF Ledger!Store, Objects, Helds
  <2>2. QED BY <2>1 DEF Ledger!Next
<1>10. CASE /\ Object(k) = "stored" /\ Object(k)' = "doomed"
            /\ Held(k)' = Held(k) /\ bytes'[k] = bytes[k]
  <2>1. Ledger!Doom(k)
    BY <1>1, <1>2, <1>4, <1>5, <1>10 DEF Ledger!Doom, Objects, Helds
  <2>2. QED BY <2>1 DEF Ledger!Next
<1>11. CASE /\ Object(k) \in {"open", "doomed"} /\ Object(k)' = Object(k)
            /\ Held(k)' = Held(k) /\ bytes'[k] = 0
  <2>1. Ledger!Erase(k)
    BY <1>2, <1>3, <1>6, <1>11 DEF Ledger!Erase, Objects, Helds, Charges
  <2>2. QED BY <2>1 DEF Ledger!Next
<1>12. CASE /\ Object(k) = "open" /\ Object(k)' = "discarded"
            /\ bytes[k] = 0 /\ bytes'[k] = 0 /\ Held(k)' = 0
  <2>1. Ledger!Discard(k)
    BY <1>1, <1>2, <1>4, <1>5, <1>12 DEF Ledger!Discard, Objects, Helds
  <2>2. QED BY <2>1 DEF Ledger!Next
<1>13. CASE /\ Object(k) = "doomed" /\ Object(k)' = "removed"
            /\ bytes[k] = 0 /\ bytes'[k] = 0 /\ Held(k)' = 0
  <2>1. Ledger!Remove(k)
    BY <1>1, <1>2, <1>4, <1>5, <1>13 DEF Ledger!Remove, Objects, Helds
  <2>2. QED BY <2>1 DEF Ledger!Next
<1>14. QED
  BY <1>7, <1>8, <1>9, <1>10, <1>11, <1>12, <1>13 DEF Settles
-----------------------------------------------------------------------------
(* Which step each action is. *)

LEMMA ReservedMoves ==
  ASSUME StorageInv, NEW o \in Owners, NEW d \in Int,
         accounts' = [accounts EXCEPT ![o].reserved = @ + d]
  PROVE  /\ accounts'[o].used = accounts[o].used
         /\ accounts'[o].reserved = accounts[o].reserved + d
         /\ \A x \in Owners : x # o => accounts'[x] = accounts[x]
<1>1. accounts[o] \in AcctType /\ accounts \in [Owners -> AcctType]
  BY RowTyped
<1>2. QED BY <1>1 DEF AcctType

LEMMA BeginFreshAdmits ==
  ASSUME StorageInv, StorageInv', NEW p \in Requests, NEW k \in Ops,
         NEW e \in 0..FileBytes \cup {Undeclared}, BeginFresh(p, k, e)
  PROVE  Declared(e) \in Nat /\ Admits(k, Declared(e))
<1> DEFINE n == Declared(e)
<1>1. /\ reservations[k].state = "none" /\ Capacity(Owner[k], n)
      /\ reservations' = [reservations EXCEPT ![k] =
            [state |-> "reserved", allocated |-> n, written |-> 0,
             expected |-> e, live |-> TRUE]]
      /\ accounts' = [accounts EXCEPT ![Owner[k]].reserved = @ + n]
      /\ files' = files /\ limits' = limits /\ bytes' = bytes
  BY DEF BeginFresh, disk
<1>2. n \in Nat /\ n <= FileBytes /\ Owner[k] \in Owners
  BY StorageAssumptions DEF Declared
<1> HIDE DEF n
<1>3. /\ reservations'[k].state = "reserved" /\ reservations'[k].allocated = n
      /\ reservations'[k].written = 0
      /\ \A j \in Ops : j # k => reservations'[j] = reservations[j]
  BY <1>1, RowTyped
<1>4. ~IsActive(k) /\ IsActive(k)'
  BY <1>1, <1>3 DEF IsActive, Active
<1>5. UsedShare(k)' = UsedShare(k) /\ ReservedShare(k) = 0 /\ ReservedShare(k)' = n
      /\ UsedShare(k) \in Nat
  BY <1>1, <1>3, <1>4, ViewNow DEF UsedShare, ReservedShare, ViewIs
<1>6. /\ accounts'[Owner[k]].used = accounts[Owner[k]].used
      /\ accounts'[Owner[k]].reserved = accounts[Owner[k]].reserved + n
      /\ \A x \in Owners : x # Owner[k] => accounts'[x] = accounts[x]
      /\ accounts[Owner[k]].used \in Int /\ accounts[Owner[k]].reserved \in Int
  BY <1>1, <1>2, ReservedMoves, AccountsAre
<1>7. Only(k)
  BY <1>1, <1>2, <1>3, <1>5, <1>6 DEF Only
<1>8. ViewIs(k) /\ ViewIs(k)'
  BY ViewNow, ViewNext
<1>9. Object(k) = "absent" /\ Held(k) = 0 /\ Held(k)' = n /\ Promises[k]' = n
  BY <1>1, <1>2, <1>3, <1>4, <1>8 DEF ViewIs
<1>10. QED BY <1>1, <1>2, <1>4, <1>7, <1>9 DEF Admits, n

LEMMA ReserveAdmits ==
  ASSUME StorageInv, StorageInv', NEW p \in Procs, Reserve(p)
  PROVE  \E k \in Ops, n \in Nat : Admits(k, n)
<1>k. PICK k \in Ops : Op(p) = k
  BY OpInOps DEF Reserve, At, Running, Labels
<1> DEFINE n == Growth(k, proc[p].size + 1)
<1>t. /\ reservations[k] \in ResType /\ proc[p].size \in Nat /\ Owner[k] \in Owners
      /\ reservations[k].allocated \in Nat /\ reservations[k].written \in Nat
  BY RowTyped, ProcTyped, StorageAssumptions DEF ProcType, ResType
<1>1. /\ IsActive(k) /\ Capacity(Owner[k], n)
      /\ reservations' = [reservations EXCEPT
           ![k].allocated = @ + n, ![k].state = "writing", ![k].live = TRUE]
      /\ accounts' = [accounts EXCEPT ![Owner[k]].reserved = @ + n]
      /\ files' = files /\ limits' = limits /\ bytes' = bytes
      /\ proc[p].size + 1 <= FileBytes
  BY <1>k DEF Reserve, disk
<1>2. n \in Nat /\ (n > 0 => reservations[k].allocated + n <= FileBytes)
  BY <1>1, <1>t DEF Growth
<1> HIDE DEF n
<1>3. /\ reservations'[k].state = "writing"
      /\ reservations'[k].allocated = reservations[k].allocated + n
      /\ reservations'[k].written = reservations[k].written
      /\ \A j \in Ops : j # k => reservations'[j] = reservations[j]
  BY <1>1, <1>t, RowTyped DEF ResType
<1>4. IsActive(k)'
  BY <1>3 DEF IsActive, Active
<1>5. /\ UsedShare(k)' = UsedShare(k) /\ ReservedShare(k) = reservations[k].allocated
      /\ ReservedShare(k)' = reservations[k].allocated + n /\ UsedShare(k) \in Nat
  BY <1>1, <1>3, <1>4, ViewNow DEF UsedShare, ReservedShare, ViewIs
<1>6. /\ accounts'[Owner[k]].used = accounts[Owner[k]].used
      /\ accounts'[Owner[k]].reserved = accounts[Owner[k]].reserved + n
      /\ \A x \in Owners : x # Owner[k] => accounts'[x] = accounts[x]
      /\ accounts[Owner[k]].used \in Int /\ accounts[Owner[k]].reserved \in Int
  BY <1>1, <1>2, <1>t, ReservedMoves, AccountsAre
<1>7. Only(k)
  <2>1. accounts'[Owner[k]].used = accounts[Owner[k]].used + UsedShare(k)' - UsedShare(k)
    BY <1>5, <1>6
  <2>2. accounts'[Owner[k]].reserved
          = accounts[Owner[k]].reserved + ReservedShare(k)' - ReservedShare(k)
    BY <1>2, <1>5, <1>6, <1>t
  <2>3. QED BY <1>1, <1>3, <1>6, <2>1, <2>2 DEF Only
<1>8. ViewIs(k) /\ ViewIs(k)'
  BY ViewNow, ViewNext
<1>9. /\ Object(k) = "open" /\ Held(k) = reservations[k].allocated
      /\ Held(k)' = reservations[k].allocated + n /\ Promises[k]' = n + Promises[k]
  BY <1>1, <1>2, <1>3, <1>4, <1>8, <1>t DEF ViewIs
<1>10. Admits(k, n)
  BY <1>1, <1>2, <1>4, <1>7, <1>9 DEF Admits
<1>11. QED BY <1>2, <1>10

(* A row that stays active with the same allocation and bytes.              *)
LEMMA KeptSettles ==
  ASSUME StorageInv, StorageInv', NEW k \in Ops, IsActive(k), IsActive(k)',
         UNCHANGED <<accounts, limits, bytes>>,
         \A j \in Ops : j # k => reservations'[j] = reservations[j] /\ files'[j] = files[j],
         reservations'[k].allocated = reservations[k].allocated,
         \/ reservations'[k].written = reservations[k].written
         \/ reservations[k].written <= bytes[k] /\ reservations'[k].written = bytes[k]
  PROVE  Settles(k)
<1>1. ViewIs(k) /\ ViewIs(k)'
  BY ViewNow, ViewNext
<1>2. Owner[k] \in Owners /\ accounts[Owner[k]].used \in Int
      /\ accounts[Owner[k]].reserved \in Int
  BY AccountsAre, StorageAssumptions
<1>3. /\ UsedShare(k)' = UsedShare(k) /\ UsedShare(k) \in Nat
      /\ ReservedShare(k)' = ReservedShare(k) /\ ReservedShare(k) \in Nat
      /\ Object(k) = "open" /\ Object(k)' = "open" /\ Held(k)' = Held(k)
  BY <1>1 DEF ViewIs, ReservedShare
<1>4. Only(k)
  BY <1>2, <1>3 DEF Only
<1>5. Weight(k)' <= Weight(k)
  BY <1>1 DEF Weight, ViewIs
<1>6. QED BY <1>3, <1>4, <1>5 DEF Settles

(* The state of an active row, or whether its lease lives.                  *)
LEMMA ActiveSettles ==
  ASSUME StorageInv, StorageInv', NEW k \in Ops, IsActive(k),
         \/ StateBecomes(k, "staged") \/ StateBecomes(k, "cleanup_pending")
         \/ reservations' = [reservations EXCEPT ![k].live = FALSE],
         UNCHANGED <<accounts, limits, bytes>>,
         \A j \in Ops : j # k => files'[j] = files[j]
  PROVE  Settles(k)
<1>1. reservations[k] \in ResType /\ reservations \in [Ops -> ResType]
  BY RowTyped
<1>2. /\ reservations'[k].allocated = reservations[k].allocated
      /\ reservations'[k].written = reservations[k].written
      /\ \A j \in Ops : j # k => reservations'[j] = reservations[j]
      /\ reservations'[k].state \in Active
  BY <1>1 DEF StateBecomes, ResType, IsActive, Active
<1>3. QED BY <1>2, KeptSettles DEF IsActive

LEMMA WrittenSettles ==
  ASSUME StorageInv, StorageInv', WritingIsCounted, NEW p \in Procs, Written(p)
  PROVE  \E k \in Ops : Settles(k)
<1>k. PICK k \in Ops : Op(p) = k
  BY OpInOps DEF Written, At, Running, Labels
<1>t. /\ reservations[k] \in ResType /\ proc[p].size \in Nat
      /\ reservations[k].allocated \in Nat /\ Owner[k] \in Owners
  BY RowTyped, ProcTyped, StorageAssumptions DEF ProcType, ResType
<1>1. /\ IsActive(k) /\ reservations[k].allocated > proc[p].size
      /\ bytes[k] = proc[p].size + 1 /\ reservations[k].written = proc[p].size
  BY <1>k DEF Written, At, StorageInv, StepInv, WritingIsCounted
<1>2. /\ reservations' = [reservations EXCEPT
           ![k].allocated = @ + 0, ![k].state = "writing", ![k].live = TRUE,
           ![k].written = proc[p].size + 1]
      /\ accounts' = [accounts EXCEPT ![Owner[k]].reserved = @ + 0]
      /\ files' = files /\ limits' = limits /\ bytes' = bytes
  <2>1. Growth(k, proc[p].size + 1) = 0
    BY <1>1, <1>t DEF Growth
  <2>2. QED BY <1>k, <2>1 DEF Written, disk
<1>3. /\ reservations'[k].state = "writing"
      /\ reservations'[k].allocated = reservations[k].allocated
      /\ reservations'[k].written = proc[p].size + 1
      /\ \A j \in Ops : j # k => reservations'[j] = reservations[j]
  BY <1>2, <1>t, RowTyped DEF ResType
<1>4. accounts' = accounts
  BY <1>2, <1>t, RowTyped DEF AcctType
<1>5. IsActive(k)'
  BY <1>3 DEF IsActive, Active
<1>6. Settles(k)
  <2>1. reservations[k].written <= bytes[k] /\ reservations'[k].written = bytes[k]
    BY <1>1, <1>3, <1>t
  <2>2. \A j \in Ops : j # k => reservations'[j] = reservations[j] /\ files'[j] = files[j]
    BY <1>2, <1>3
  <2>3. UNCHANGED <<accounts, limits, bytes>>
    BY <1>2, <1>4
  <2>4. QED BY <1>1, <1>3, <1>5, <2>1, <2>2, <2>3, KeptSettles
<1>7. QED BY <1>6

LEMMA WriteSettles ==
  ASSUME StorageInv, StorageInv', WritingIsCounted, NEW p \in Procs, Write(p)
  PROVE  \E k \in Ops : Settles(k)
<1>k. PICK k \in Ops : Op(p) = k
  BY OpInOps DEF Write, At, Running, Labels
<1>t. /\ proc[p].size \in Nat /\ Owner[k] \in Owners /\ ViewIs(k) /\ ViewIs(k)'
      /\ bytes \in [Ops -> Nat]
  BY RowTyped, ProcTyped, ViewNow, ViewNext, StorageAssumptions DEF ProcType
<1>1. /\ IsActive(k) /\ reservations[k].allocated > proc[p].size
      /\ bytes[k] = proc[p].size /\ reservations[k].written = proc[p].size
  BY <1>k DEF Write, At, StorageInv, StepInv, WritingIsCounted
<1>2. /\ UNCHANGED <<reservations, accounts, files, limits>>
      /\ bytes'[k] = bytes[k] + 1 /\ \A j \in Ops : j # k => bytes'[j] = bytes[j]
  BY <1>k, <1>t DEF Write, rows
<1>3. /\ UsedShare(k)' = UsedShare(k) /\ UsedShare(k) \in Nat
      /\ ReservedShare(k)' = ReservedShare(k) /\ ReservedShare(k) \in Nat
      /\ Object(k) = "open" /\ Object(k)' = "open" /\ Held(k)' = Held(k)
      /\ Held(k) = reservations[k].allocated /\ IsActive(k)'
  BY <1>1, <1>2, <1>t DEF ViewIs, ReservedShare, UsedShare, IsActive
<1>4. Only(k)
  BY <1>2, <1>3, <1>t, AccountsAre DEF Only
<1>5. Weight(k)' <= Weight(k)
  <2>1. Outstanding[k] = reservations[k].allocated - bytes[k]
    BY <1>1, <1>t DEF ViewIs
  <2>2. Outstanding'[k] = reservations[k].allocated - bytes'[k]
    BY <1>1, <1>2, <1>t DEF ViewIs
  <2>3. reservations[k].allocated \in Nat /\ bytes[k] \in Nat /\ bytes'[k] \in Nat
    BY <1>t DEF ViewIs
  <2>4. QED BY <1>1, <1>3, <2>1, <2>2, <2>3 DEF Weight
<1>6. bytes[k] < Held(k)
  BY <1>1, <1>3, <1>t
<1>7. Settles(k)
  BY <1>1, <1>2, <1>3, <1>4, <1>5, <1>6 DEF Settles
<1>8. QED BY <1>7

LEMMA CommittedSettles ==
  ASSUME StorageInv, StorageInv', WritingIsCounted, sql # NoProc, NEW k \in Ops,
         Op(sql) = k, Committed(k), UNCHANGED disk
  PROVE  Settles(k)
<1>1. /\ files[k].state = "staged" /\ bytes[k] = files[k].size /\ IsActive(k)
  BY DEF StorageInv, SqlInv, RowInv
<1>2. /\ files' = [files EXCEPT ![k].state = "ready"]
      /\ accounts' = [accounts EXCEPT ![Owner[k]] =
            [used     |-> @.used + files[k].size,
             reserved |-> @.reserved - reservations[k].allocated]]
      /\ limits' = limits /\ bytes' = bytes
  BY DEF Committed, disk
<1>3. /\ reservations'[k].state = "committed" /\ files'[k].size = files[k].size
      /\ files'[k].state = "ready"
      /\ \A j \in Ops : j # k => reservations'[j] = reservations[j] /\ files'[j] = files[j]
  BY <1>2, CommittedRows, FileStateTyped DEF OthersSame
<1>4. ViewIs(k) /\ ViewIs(k)' /\ Owner[k] \in Owners
  BY ViewNow, ViewNext, StorageAssumptions
<1>5. /\ UsedShare(k) = 0 /\ ReservedShare(k) = reservations[k].allocated
      /\ UsedShare(k)' = files[k].size /\ ReservedShare(k)' = 0 /\ ~IsActive(k)'
      /\ Object(k) = "open" /\ Object(k)' = "stored" /\ Held(k)' = bytes[k]
  BY <1>1, <1>3, <1>4 DEF ViewIs, ReservedShare
<1>6. /\ accounts'[Owner[k]].used = accounts[Owner[k]].used + files[k].size
      /\ accounts'[Owner[k]].reserved
           = accounts[Owner[k]].reserved - reservations[k].allocated
      /\ \A x \in Owners : x # Owner[k] => accounts'[x] = accounts[x]
      /\ accounts[Owner[k]].used \in Int /\ accounts[Owner[k]].reserved \in Int
  BY <1>2, <1>4, AccountsAre
<1>7. Only(k)
  <2>1. accounts'[Owner[k]].used = accounts[Owner[k]].used + UsedShare(k)' - UsedShare(k)
    BY <1>4, <1>5, <1>6 DEF ViewIs
  <2>2. accounts'[Owner[k]].reserved
          = accounts[Owner[k]].reserved + ReservedShare(k)' - ReservedShare(k)
    BY <1>4, <1>5, <1>6 DEF ViewIs
  <2>3. QED BY <1>2, <1>3, <1>6, <2>1, <2>2 DEF Only
<1>8. Weight(k)' <= Weight(k)
  <2>1. reservations[k].written <= reservations[k].allocated
        /\ bytes[k] <= reservations[k].allocated
    BY <1>1, <1>4 DEF WritingIsCounted, ViewIs
  <2>2. QED BY <1>1, <1>2, <1>4, <1>5, <2>1 DEF Weight, ViewIs
<1>9. bytes'[k] = bytes[k]
  BY <1>2
<1>10. QED BY <1>5, <1>7, <1>8, <1>9 DEF Settles

(* A ready file is asked to be deleted, by its owner or by a maintainer.    *)
LEMMA DoomedSettles ==
  ASSUME StorageInv, StorageInv', NEW k \in Ops,
         files[k].state \in {"ready", "pending_delete"},
         files' = [files EXCEPT ![k].state = "pending_delete"],
         UNCHANGED <<reservations, accounts, limits, bytes>>
  PROVE  Settles(k)
<1>1. /\ files'[k].state = "pending_delete" /\ files'[k].size = files[k].size
      /\ \A j \in Ops : j # k => files'[j] = files[j]
  BY FileStateTyped
<1>2. ViewIs(k) /\ ViewIs(k)' /\ Owner[k] \in Owners
  BY ViewNow, ViewNext, StorageAssumptions
<1>3. /\ UsedShare(k)' = UsedShare(k) /\ UsedShare(k) \in Nat
      /\ ReservedShare(k)' = ReservedShare(k) /\ ReservedShare(k) \in Nat
      /\ Held(k)' = Held(k) /\ Object(k)' = "doomed" /\ ~IsActive(k)' /\ ~IsActive(k)
      /\ Object(k) \in {"stored", "doomed"}
  BY <1>1, <1>2 DEF ViewIs
<1>4. Only(k)
  BY <1>1, <1>2, <1>3, AccountsAre DEF Only
<1>5. Weight(k)' <= Weight(k)
  BY <1>2, <1>3 DEF Weight, ViewIs
<1>6. QED BY <1>3, <1>4, <1>5 DEF Settles

(* Bytes of an operation are removed, or left because a link remains.       *)
LEMMA ErasedSettles ==
  ASSUME StorageInv, StorageInv', WritingIsCounted, NEW k \in Ops, NEW b \in {0, bytes[k]},
         IsActive(k) \/ files[k].state = "pending_delete",
         bytes' = [bytes EXCEPT ![k] = b], UNCHANGED rows
  PROVE  Settles(k)
<1>1. /\ bytes'[k] = b /\ \A j \in Ops : j # k => bytes'[j] = bytes[j]
      /\ UNCHANGED <<reservations, files, accounts, limits>>
  BY RowTyped DEF rows
<1>2. ViewIs(k) /\ ViewIs(k)' /\ Owner[k] \in Owners
  BY ViewNow, ViewNext, StorageAssumptions
<1>3. /\ UsedShare(k)' = UsedShare(k) /\ UsedShare(k) \in Nat
      /\ ReservedShare(k)' = ReservedShare(k) /\ ReservedShare(k) \in Nat
      /\ Held(k)' = Held(k) /\ Object(k)' = Object(k) /\ (IsActive(k)' <=> IsActive(k))
      /\ Object(k) \in {"open", "doomed"}
  BY <1>1, <1>2 DEF ViewIs, UsedShare, ReservedShare, Held, Object, IsActive
<1>4. Only(k)
  BY <1>1, <1>2, <1>3, AccountsAre DEF Only
<1>5. Weight(k)' <= Weight(k)
  BY <1>1, <1>2, <1>3 DEF Weight, ViewIs
<1>6. QED BY <1>1, <1>3, <1>4, <1>5 DEF Settles

(* Quota is given back: an aborted store, a removed file.                   *)
LEMMA AbortSettles ==
  ASSUME StorageInv, StorageInv', WritingIsCounted, NEW p \in Procs, Abort(p)
  PROVE  \E k \in Ops : Settles(k)
<1>k. PICK k \in Ops : Op(p) = k
  BY OpInOps DEF Abort, At, Running, Labels
<1>r. /\ reservations[k] \in ResType /\ files[k] \in FileType /\ Owner[k] \in Owners
      /\ ViewIs(k) /\ ViewIs(k)'
  BY RowTyped, ViewNow, ViewNext, StorageAssumptions
<1>1. /\ IsActive(k) /\ bytes[k] = 0
      /\ accounts' = [accounts EXCEPT ![Owner[k]].reserved = @ - reservations[k].allocated]
      /\ files' = [files EXCEPT ![k].state = IF @ = "none" THEN @ ELSE "deleted"]
      /\ reservations' = [reservations EXCEPT ![k].state = "aborted"]
      /\ limits' = limits /\ bytes' = bytes
  BY <1>k DEF Abort, At, disk, StorageInv, StepInv
<1>2. /\ reservations'[k].state = "aborted" /\ files'[k].state \in {"none", "deleted"}
      /\ \A j \in Ops : j # k => reservations'[j] = reservations[j] /\ files'[j] = files[j]
  BY <1>1, <1>r, RowTyped DEF ResType, FileType
<1>3. ~IsActive(k)' /\ reservations[k].allocated \in Nat /\ bytes'[k] = 0
  BY <1>1, <1>2, <1>r DEF IsActive, Active, ViewIs
<1>4. /\ UsedShare(k) = 0 /\ UsedShare(k)' = 0 /\ ReservedShare(k)' = 0
      /\ ReservedShare(k) = reservations[k].allocated
      /\ Object(k) = "open" /\ Object(k)' = "discarded" /\ Held(k)' = 0
  BY <1>1, <1>2, <1>3, <1>r DEF ViewIs, UsedShare, ReservedShare
<1>5. /\ accounts'[Owner[k]].used = accounts[Owner[k]].used
      /\ accounts'[Owner[k]].reserved
           = accounts[Owner[k]].reserved - reservations[k].allocated
      /\ \A x \in Owners : x # Owner[k] => accounts'[x] = accounts[x]
      /\ accounts[Owner[k]].used \in Int /\ accounts[Owner[k]].reserved \in Int
  BY <1>1, <1>r, RowTyped, AccountsAre DEF AcctType
<1>6. Only(k)
  <2>1. accounts'[Owner[k]].used = accounts[Owner[k]].used + UsedShare(k)' - UsedShare(k)
    BY <1>4, <1>5
  <2>2. accounts'[Owner[k]].reserved
          = accounts[Owner[k]].reserved + ReservedShare(k)' - ReservedShare(k)
    BY <1>3, <1>4, <1>5
  <2>3. QED BY <1>1, <1>2, <1>5, <2>1, <2>2 DEF Only
<1>7. Weight(k)' <= Weight(k)
  <2>1. Weight(k)' = 0
    BY <1>3 DEF Weight
  <2>2. reservations[k].written <= reservations[k].allocated
    BY <1>1 DEF WritingIsCounted
  <2>3. Weight(k) = Outstanding[k] /\ Outstanding[k] \in Nat
    BY <1>1, <1>r, <2>2 DEF Weight, ViewIs
  <2>4. QED BY <2>1, <2>3
<1>8. Settles(k)
  BY <1>1, <1>3, <1>4, <1>6, <1>7 DEF Settles
<1>9. QED BY <1>8

LEMMA DeleteDoneSettles ==
  ASSUME StorageInv, StorageInv', NEW p \in Procs, DeleteDone(p)
  PROVE  \E k \in Ops : Settles(k)
<1>k. PICK k \in Ops : Op(p) = k
  BY OpInOps DEF DeleteDone, At, Running, Labels
<1>r. Owner[k] \in Owners /\ ViewIs(k) /\ ViewIs(k)' /\ RowInv(k)
  BY ViewNow, ViewNext, StorageAssumptions DEF StorageInv
<1>1. /\ files[k].state = "pending_delete" /\ bytes[k] = 0
      /\ accounts' = [accounts EXCEPT ![Owner[k]].used = @ - files[k].size]
      /\ files' = [files EXCEPT ![k].state = "deleted"]
      /\ reservations' = reservations /\ limits' = limits /\ bytes' = bytes
  BY <1>k DEF DeleteDone, At, disk, StorageInv, StepInv
<1>2. /\ files'[k].state = "deleted" /\ \A j \in Ops : j # k => files'[j] = files[j]
      /\ reservations[k].state = "committed" /\ files[k].size \in Nat
  BY <1>1, <1>r, FileStateTyped DEF RowInv, ViewIs
<1>3. ~IsActive(k) /\ ~IsActive(k)' /\ bytes'[k] = 0
  BY <1>1, <1>2 DEF IsActive, Active
<1>4. /\ UsedShare(k) = files[k].size /\ UsedShare(k)' = 0 /\ ReservedShare(k)' = 0
      /\ ReservedShare(k) = 0
      /\ Object(k) = "doomed" /\ Object(k)' = "removed" /\ Held(k)' = 0
  BY <1>1, <1>2, <1>3, <1>r DEF ViewIs, UsedShare, ReservedShare
<1>5. /\ accounts'[Owner[k]].used = accounts[Owner[k]].used - files[k].size
      /\ accounts'[Owner[k]].reserved = accounts[Owner[k]].reserved
      /\ \A x \in Owners : x # Owner[k] => accounts'[x] = accounts[x]
      /\ accounts[Owner[k]].used \in Int /\ accounts[Owner[k]].reserved \in Int
  BY <1>1, <1>r, RowTyped, AccountsAre DEF AcctType
<1>6. Only(k)
  <2>1. accounts'[Owner[k]].used = accounts[Owner[k]].used + UsedShare(k)' - UsedShare(k)
    BY <1>2, <1>4, <1>5
  <2>2. accounts'[Owner[k]].reserved
          = accounts[Owner[k]].reserved + ReservedShare(k)' - ReservedShare(k)
    BY <1>4, <1>5
  <2>3. QED BY <1>1, <1>2, <1>5, <2>1, <2>2 DEF Only
<1>7. Weight(k)' <= Weight(k)
  BY <1>1, <1>3 DEF Weight
<1>8. Settles(k)
  BY <1>1, <1>3, <1>4, <1>6, <1>7 DEF Settles
<1>9. QED BY <1>8

(* Every step: nothing of the rows or the bytes, a limit, or one operation. *)
RowMoves ==
  \/ UNCHANGED <<rows, bytes>>
  \/ \E o \in Owners, amount \in Limits : SetLimit(o, amount)
  \/ \E k \in Ops : Settles(k) \/ \E n \in Nat : Admits(k, n)

LEMMA StepMoves ==
  ASSUME StorageInv, StorageInv', WritingIsCounted, NEW p \in Procs,
         Step(p) \/ ServerResolves(p)
  PROVE  RowMoves
<1>1. CASE Reserve(p)
  BY <1>1, ReserveAdmits DEF RowMoves
<1>2. CASE Written(p) \/ Write(p) \/ Abort(p) \/ DeleteDone(p)
  BY <1>2, WrittenSettles, WriteSettles, AbortSettles, DeleteDoneSettles DEF RowMoves
<1>3. CASE InsertFile(p)
  <2>1. PICK k \in Ops : Op(p) = k
    BY <1>3, OpInOps DEF InsertFile, At, Running, Labels
  <2>2. /\ IsActive(k) /\ StateBecomes(k, "staged") /\ UNCHANGED <<accounts, limits, bytes>>
        /\ \A j \in Ops : j # k => files'[j] = files[j]
    BY <1>3, <2>1, RowTyped DEF InsertFile, StateBecomes, disk
  <2>3. QED BY <2>2, ActiveSettles DEF RowMoves
<1>4. CASE Mark(p)
  <2>1. PICK k \in Ops : Op(p) = k
    BY <1>4, OpInOps DEF Mark, At, Running, Labels
  <2>2. UNCHANGED <<files, accounts, limits, bytes>>
    BY <1>4 DEF Mark, disk
  <2>3. reservations' = reservations \/ (IsActive(k) /\ StateBecomes(k, "cleanup_pending"))
    BY <1>4, <2>1 DEF Mark, StateBecomes
  <2>4. CASE reservations' = reservations
    BY <2>2, <2>4 DEF RowMoves, rows
  <2>5. CASE IsActive(k) /\ StateBecomes(k, "cleanup_pending")
    BY <2>2, <2>5, ActiveSettles DEF RowMoves
  <2>6. QED BY <2>3, <2>4, <2>5
<1>5. CASE Commit(p) \/ ServerResolves(p)
  <2>1. sql = p /\ sql # NoProc /\ Op(p) \in Ops /\ UNCHANGED disk
    BY <1>5, NoProcIsNone, OpInOps
       DEF Commit, ServerResolves, At, StorageInv, StepInv, SqlInv, Running, Labels
  <2>2. CASE Committed(Op(p))
    BY <2>1, <2>2, CommittedSettles DEF RowMoves
  <2>3. CASE UNCHANGED rows
    BY <2>1, <2>3 DEF RowMoves, disk
  <2>4. QED BY <1>5, <2>2, <2>3 DEF Commit, ServerResolves
<1>6. CASE DeleteMark(p)
  <2>1. PICK k \in Ops : Op(p) = k
    BY <1>6, OpInOps DEF DeleteMark, At, Running, Labels
  <2>2. UNCHANGED <<reservations, accounts, limits, bytes>>
    BY <1>6 DEF DeleteMark, disk
  <2>3. CASE files' = files
    BY <2>2, <2>3 DEF RowMoves, rows
  <2>4. CASE /\ files[k].state \in {"ready", "pending_delete"}
             /\ files' = [files EXCEPT ![k].state = "pending_delete"]
    BY <2>2, <2>4, DoomedSettles DEF RowMoves
  <2>5. QED BY <1>6, <2>1, <2>3, <2>4 DEF DeleteMark
<1>7. CASE CleanStaging(p) \/ DeleteFinal(p) \/ DeleteStaging(p)
  <2>1. PICK k \in Ops : Op(p) = k
    BY <1>7, OpInOps DEF CleanStaging, DeleteFinal, DeleteStaging, At, Running, Labels
  <2>2. IsActive(k) \/ files[k].state = "pending_delete"
    BY <1>7, <2>1 DEF CleanStaging, DeleteFinal, DeleteStaging, At, StorageInv, StepInv
  <2>3. PICK b \in {0, bytes[k]} : bytes' = [bytes EXCEPT ![k] = b] /\ UNCHANGED rows
    BY <1>7, <2>1 DEF CleanStaging, DeleteFinal, DeleteStaging
  <2>4. QED BY <2>2, <2>3, ErasedSettles DEF RowMoves
<1>8. ASSUME UNCHANGED <<rows, bytes>> PROVE RowMoves
  BY <1>8 DEF RowMoves
<1>9. QED
  BY <1>1, <1>2, <1>3, <1>4, <1>5, <1>6, <1>7, <1>8
     DEF Step, StoreStep, CleanStep, OtherStep, StoreLock, ReplayLock, Replay, Stage,
         EndOfStream, Publish, Rollback, StoreFails, CleanCommitted, CleanFinal,
         RecoverLock, RecoverCheck, ReadLock, ReadCheck, ReadOpen, ReadClose,
         DeleteLock, disk

(* Counters that are exact are not repaired.                                *)
LEMMA NothingToRepair ==
  ASSUME StorageInv, AccountingExact, NEW o \in Owners
  PROVE  Repaired(o) = accounts[o]
<1>1. accounts[o] \in AcctType
  BY RowTyped
<1>2. Repaired(o) = [used |-> accounts[o].used, reserved |-> accounts[o].reserved]
  BY DEF AccountingExact, Repaired, Raised
<1>3. QED BY <1>1, <1>2 DEF AcctType

LEMMA NextMoves ==
  ASSUME StorageInv, StorageInv', WritingIsCounted, AccountingExact, [Next]_vars
  PROVE  RowMoves
<1>1. ASSUME UNCHANGED <<rows, bytes>> PROVE RowMoves
  BY <1>1 DEF RowMoves
<1>2. ASSUME NEW p \in Requests, NEW k \in Ops, Start(p, k) PROVE RowMoves
  <2>1. ASSUME NEW e \in 0..FileBytes \cup {Undeclared}, BeginFresh(p, k, e)
        PROVE  RowMoves
    <3>1. Declared(e) \in Nat /\ Admits(k, Declared(e))
      BY <2>1, BeginFreshAdmits
    <3>2. QED BY <3>1 DEF RowMoves
  <2>2. QED
    BY <1>1, <1>2, <2>1
       DEF Start, BeginReplay, RecoverStart, ReadStart, DeleteStart, disk
<1>3. ASSUME NEW k \in Ops, RequestDeletion(k) PROVE RowMoves
  <2>1. Settles(k)
    BY <1>3, DoomedSettles DEF RequestDeletion, disk
  <2>2. QED BY <2>1 DEF RowMoves
<1>4. ASSUME NEW k \in Ops, LeaseExpires(k) PROVE RowMoves
  <2>1. Settles(k)
    BY <1>4, ActiveSettles DEF LeaseExpires, disk
  <2>2. QED BY <2>1 DEF RowMoves
<1>5. ASSUME NEW o \in Owners, NEW amount \in Limits, SetLimit(o, amount) PROVE RowMoves
  BY <1>5 DEF RowMoves
<1>6. ASSUME NEW m \in Maintainers, ReconcileNext(m) \/ ReconcileAgain(m) PROVE RowMoves
  BY <1>1, <1>6 DEF ReconcileNext, ReconcileAgain, disk
<1>7. ASSUME NEW p \in Procs, StepFails(p) \/ Crash(p) PROVE RowMoves
  BY <1>1, <1>7 DEF StepFails, Crash, disk
<1>8. ASSUME NEW p \in Procs, Step(p) \/ ServerResolves(p) PROVE RowMoves
  BY <1>8, StepMoves
<1>9. CASE UNCHANGED vars
  BY <1>1, <1>9 DEF vars, disk
<1>10. ASSUME NEW o \in Owners, ReconcileAccount(o) PROVE RowMoves
  <2>1. accounts' = accounts
    BY <1>10, NothingToRepair, RowTyped DEF ReconcileAccount
  <2>2. QED BY <1>1, <1>10, <2>1 DEF ReconcileAccount, rows, disk
<1>11. QED
  BY <1>2, <1>3, <1>4, <1>5, <1>6, <1>7, <1>8, <1>9, <1>10 DEF Next
-----------------------------------------------------------------------------
(* Part 3.  The theorems.                                                   *)

(* A step that moves no row and no byte, and one that only sets a limit.    *)
LEMMA RestingKeeps ==
  ASSUME UNCHANGED <<reservations, files, accounts, bytes>>
  PROVE  /\ AccountingExact => AccountingExact'
         /\ HeadroomIsKept => HeadroomIsKept'
         /\ UNCHANGED <<Objects, Helds, Charges, bytes>>
<1>1. /\ FileSizes' = FileSizes /\ Allocations' = Allocations
      /\ Outstanding' = Outstanding /\ ActiveOps' = ActiveOps
      /\ DiskAvailable' = DiskAvailable
  BY DEF FileSizes, Allocations, Outstanding, ActiveOps, IsActive, DiskAvailable
<1>2. \A o : Retained(o)' = Retained(o) /\ Reserved(o)' = Reserved(o)
  BY DEF Retained, Reserved, IsActive
<1>3. AccountingExact => AccountingExact'
  BY <1>1, <1>2 DEF AccountingExact
<1>4. HeadroomIsKept => HeadroomIsKept'
  BY <1>1 DEF HeadroomIsKept
<1>5. \A k \in Ops : Object(k)' = Object(k) /\ Held(k)' = Held(k)
  BY DEF Object, Held, IsActive
<1>6. \A o \in Owners : Charge(o)' = Charge(o)
  BY DEF Charge
<1>7. QED BY <1>3, <1>4, <1>5, <1>6 DEF Objects, Helds, Charges

LEMMA RestingIsLedgered ==
  ASSUME UNCHANGED <<rows, bytes>>
  PROVE  [Ledger!Next]_(Ledger!vars)
<1>1. UNCHANGED <<Objects, Helds, Charges, bytes, limits>>
  BY RestingKeeps DEF rows
<1>2. QED BY <1>1 DEF Ledger!vars, Objects, Helds, Charges

LEMMA LimitIsLedgered ==
  ASSUME NEW o \in Owners, NEW amount \in Limits, SetLimit(o, amount)
  PROVE  [Ledger!Next]_(Ledger!vars)
<1>1. UNCHANGED <<Objects, Helds, Charges, bytes>>
  BY RestingKeeps DEF SetLimit, disk
<1>2. Ledger!SetLimit(o, amount)
  BY <1>1 DEF SetLimit, Ledger!SetLimit, Objects, Helds, Charges
<1>3. QED BY <1>2 DEF Ledger!Next

LEMMA MovesKeep ==
  ASSUME StorageInv, StorageInv', AccountingExact, HeadroomIsKept, RowMoves
  PROVE  AccountingExact' /\ HeadroomIsKept' /\ [Ledger!Next]_(Ledger!vars)
<1>1. CASE UNCHANGED <<rows, bytes>>
  BY <1>1, RestingKeeps, RestingIsLedgered DEF rows
<1>2. ASSUME NEW o \in Owners, NEW amount \in Limits, SetLimit(o, amount)
      PROVE  AccountingExact' /\ HeadroomIsKept' /\ [Ledger!Next]_(Ledger!vars)
  <2>1. UNCHANGED <<reservations, files, accounts, bytes>>
    BY <1>2 DEF SetLimit, disk
  <2>2. QED BY <1>2, <2>1, RestingKeeps, LimitIsLedgered
<1>3. ASSUME NEW k \in Ops, Settles(k)
      PROVE  AccountingExact' /\ HeadroomIsKept' /\ [Ledger!Next]_(Ledger!vars)
  <2>1. AccountingExact'
    BY <1>3, AccountsKept DEF Settles
  <2>2. QED BY <1>3, <2>1, SettledFits, SettledIsLedgered
<1>4. ASSUME NEW k \in Ops, NEW n \in Nat, Admits(k, n)
      PROVE  AccountingExact' /\ HeadroomIsKept' /\ [Ledger!Next]_(Ledger!vars)
  <2>1. AccountingExact'
    BY <1>4, AccountsKept DEF Admits
  <2>2. QED BY <1>4, <2>1, AdmittedFits, AdmittedIsLedgered
<1>5. QED BY <1>1, <1>2, <1>3, <1>4 DEF RowMoves

LEMMA StartsExact ==
  ASSUME Init
  PROVE  AccountingExact /\ HeadroomIsKept /\ Ledger!Init
<1>1. \A k \in Ops : ~IsActive(k) /\ files[k].state = "none" /\ Object(k) = "absent"
                     /\ Held(k) = 0 /\ bytes[k] = 0
  BY DEF Init, NoRow, NoFile, IsActive, Active, Object, Held
<1>2. \A o \in Owners : Retained(o) = {} /\ Reserved(o) = {}
  BY <1>1 DEF Retained, Reserved
<1>3. \A o \in Owners : accounts[o].used = 0 /\ accounts[o].reserved = 0 /\ Charge(o) = 0
  BY DEF Init, Charge
<1>4. AccountingExact
  BY <1>2, <1>3, SumEmpty DEF AccountingExact
<1>5. HeadroomIsKept
  BY <1>1 DEF HeadroomIsKept, ActiveOps
<1>6. Ledger!Init
  BY <1>1, <1>3 DEF Init, Ledger!Init
<1>7. QED BY <1>4, <1>5, <1>6

(* The counters and the room on the disk, with the rest of the invariant.   *)
LEMMA AccountsInvariant ==
  Spec => [](StorageInv /\ WritingIsCounted /\ AccountingExact /\ HeadroomIsKept)
<1>1. Init => AccountingExact /\ HeadroomIsKept
  BY StartsExact
<1>2. ASSUME StorageInv, StorageInv', WritingIsCounted, AccountingExact, HeadroomIsKept,
             [Next]_vars
      PROVE  AccountingExact' /\ HeadroomIsKept'
  BY <1>2, NextMoves, MovesKeep
<1>3. QED BY <1>1, <1>2, CountsInvariant, PTL DEF Spec

(* The counters of every owner are, in every state, the sums of what its    *)
(* retained files and its open operations hold: what lock_account reads is  *)
(* what reconcile_account would recompute.                                  *)
THEOREM AccountingStaysExact == Spec => []AccountingExact
BY AccountsInvariant, PTL

(* The account sweep never has anything to repair: whatever was crashed,    *)
(* retried or interleaved before it, reconcile_account leaves every counter *)
(* of every owner as it finds it.                                           *)
THEOREM SweepsRepairNothing ==
  Spec => [](\A o \in Owners : Repaired(o) = accounts[o])
<1>1. StorageInv /\ AccountingExact => \A o \in Owners : Repaired(o) = accounts[o]
  BY NothingToRepair
<1>2. QED BY <1>1, AccountsInvariant, PTL

(* What is admitted may be written to its end and leaves the headroom free, *)
(* for any sizes of the disk, of staging and of the files (_capacity).      *)
THEOREM HeadroomStays == Spec => []HeadroomIsKept
BY AccountsInvariant, PTL

(* Rows, flocks, links and transactions together do what the ledger says:   *)
(* a file appears in one step with the bytes it is charged for, nobody is   *)
(* charged past the limit, and quota is released after the bytes are gone.  *)
THEOREM StorageImplementsLedger == Spec => ImplementsLedger
<1>1. Init => Ledger!Init
  BY StartsExact
<1>2. ASSUME StorageInv, StorageInv', WritingIsCounted, AccountingExact, HeadroomIsKept,
             [Next]_vars
      PROVE  [Ledger!Next]_(Ledger!vars)
  BY <1>2, NextMoves, MovesKeep
<1>3. QED
  BY <1>1, <1>2, AccountsInvariant, PTL DEF Spec, ImplementsLedger, Ledger!Spec
=============================================================================
