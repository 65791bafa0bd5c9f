------------------------------- MODULE Storage -------------------------------
(***************************************************************************)
(* The storage service of the backend: reservations, retained files and    *)
(* per-owner accounting in PostgreSQL, the staging and final directory     *)
(* entries on the filesystem, and the per-operation flock that tells a     *)
(* live writer from an abandoned one.                                      *)
(*                                                                         *)
(* A SQL transaction of the service first locks the settings row           *)
(* (lock_account), so transactions that change these tables exclude each   *)
(* other: each is one step, guarded by SqlFree.  The exception is the      *)
(* second transaction of _finish, which publishes the final link before it *)
(* commits: it is open (sql = its process) between Publish and Commit.     *)
(* Every filesystem call is a step of its own, and a process may crash     *)
(* between any two steps: its flocks are released by the kernel, its rows  *)
(* and directory entries stay.                                             *)
(*                                                                         *)
(* Requests perform one call each; Maintainers (the scheduler, or an       *)
(* operator's command) walk the reservations in id order for ever.         *)
(***************************************************************************)
EXTENDS Integers, FiniteSets, Functions

CONSTANTS Owners, Ops, Owner, Requests, Maintainers, NoProc, Undeclared,
          FileBytes, StagingBytes, DiskBytes, Headroom, Limits, MaxFaults

Procs == Requests \cup Maintainers

(* Ops are reservation ids; their order is the order reconcile visits them. *)
(* Owner gives the account of each; (owner, idempotency key) is unique, so  *)
(* an op also stands for its key.                                           *)
ASSUME StorageAssumptions ==
  /\ Ops \subseteq Nat \ {0} /\ IsFiniteSet(Ops)
  /\ Owner \in [Ops -> Owners]
  /\ Requests \cap Maintainers = {}
  /\ NoProc \notin Procs
  /\ Undeclared \notin Nat
  /\ FileBytes \in Nat /\ StagingBytes \in Nat /\ DiskBytes \in Nat
  /\ Headroom \in Nat /\ MaxFaults \in Nat
  /\ Limits \subseteq Nat

VARIABLES
  reservations, (* storage_reservations, by operation                       *)
  files,        (* stored_files, by the operation that created them         *)
  accounts,     (* storage_accounts counters, by owner                      *)
  limits,       (* the effective limit of each owner (override or default)  *)
  staging,      (* staging/<operation> exists                               *)
  final,        (* files/<owner>/<file> exists; links the same inode        *)
  bytes,        (* size of that inode, 0 once both links are gone           *)
  writer,       (* the holder of the exclusive flock of an operation        *)
  readers,      (* the holders of the shared flock of an operation          *)
  sql,          (* the process whose publishing transaction is open         *)
  proc,         (* program counter and locals of every process              *)
  cursor,       (* the last id a maintainer visited                         *)
  faults        (* SQL errors and crashes so far                            *)

rows  == <<reservations, files, accounts, limits>>
disk  == <<staging, final, bytes>>
locks == <<writer, readers>>
vars  == <<rows, disk, locks, sql, proc, cursor, faults>>

Active == {"reserved", "writing", "staged", "cleanup_pending"}
States == Active \cup {"none", "committed", "aborted"}
Labels == {"idle", "lock", "replay_lock", "replay", "stage", "stream", "write",
           "written", "insert", "publish", "commit", "clean", "clean_committed",
           "clean_final", "clean_staging", "clean_abort", "recover_lock",
           "recover_check", "read_lock", "read_check", "read_open", "reading",
           "delete_lock", "delete_mark", "delete_final", "delete_staging",
           "delete_done", "done"}
Outcomes == {"none", "ok", "failed", "refused", "unknown", "crashed"}

NoRow  == [state |-> "none", allocated |-> 0, written |-> 0,
           expected |-> Undeclared, live |-> FALSE]
NoFile == [state |-> "none", size |-> 0]
Idle   == [pc |-> "idle", op |-> 0, size |-> 0, then |-> "none"]

Init ==
  /\ reservations = [k \in Ops |-> NoRow]
  /\ files        = [k \in Ops |-> NoFile]
  /\ accounts     = [o \in Owners |-> [used |-> 0, reserved |-> 0]]
  /\ limits       \in [Owners -> Limits]
  /\ staging      = [k \in Ops |-> FALSE]
  /\ final        = [k \in Ops |-> FALSE]
  /\ bytes        = [k \in Ops |-> 0]
  /\ writer       = [k \in Ops |-> NoProc]
  /\ readers      = [k \in Ops |-> {}]
  /\ sql          = NoProc
  /\ proc         = [p \in Procs |-> Idle]
  /\ cursor       = [m \in Maintainers |-> 0]
  /\ faults       = 0

-----------------------------------------------------------------------------
(* Accounting and capacity *)

IsActive(k)   == reservations[k].state \in Active
ActiveOps     == {k \in Ops : IsActive(k)}
Charge(o)     == accounts[o].used + accounts[o].reserved
OverLimit(o)  == Charge(o) > limits[o]
AvailableTo(o) == IF OverLimit(o) THEN 0 ELSE limits[o] - Charge(o)

Allocations == [k \in Ops |-> reservations[k].allocated]
Promises    == [k \in Ops |-> reservations[k].allocated - reservations[k].written]
Allocated   == SumFunctionOnSet(Allocations, ActiveOps)
Promised    == SumFunctionOnSet(Promises, ActiveOps)
DiskAvailable == DiskBytes - SumFunctionOnSet(bytes, Ops)

(* Beside some definitions stands a form a bug could give them; nothing uses *)
(* it: the runs must fail when it replaces the definition that follows.     *)
CapacityIgnoresHeadroom(o, growth) ==
  /\ ~OverLimit(o) /\ growth <= AvailableTo(o)
  /\ Allocated + growth <= StagingBytes
  /\ Promised + growth <= DiskAvailable

(* Storage._capacity *)
Capacity(o, growth) ==
  /\ ~OverLimit(o)
  /\ growth <= AvailableTo(o)
  /\ Allocated + growth <= StagingBytes
  /\ Promised + growth + Headroom <= DiskAvailable

-----------------------------------------------------------------------------
(* Processes, flocks and transactions *)

SqlFree  == sql = NoProc
At(p, l) == proc[p].pc = l
Op(p)    == proc[p].op
Goto(p, l) == proc' = [proc EXCEPT ![p].pc = l]

(* A maintainer is ready for its next row; a request keeps what it answered. *)
Ended(p, r) == IF p \in Maintainers THEN Idle
               ELSE [proc[p] EXCEPT !.pc = "done", !.then = r]
Unlocked(p) ==
  /\ writer'  = [k \in Ops |-> IF writer[k] = p THEN NoProc ELSE writer[k]]
  /\ readers' = [k \in Ops |-> readers[k] \ {p}]
Finish(p, r) == proc' = [proc EXCEPT ![p] = Ended(p, r)] /\ Unlocked(p)

FreeExclusiveOfWriters(k) == writer[k] = NoProc
(* FileSystem.lock: flock with LOCK_NB, exclusive or shared. *)
FreeExclusive(k) == writer[k] = NoProc /\ readers[k] = {}
FreeShared(k)    == writer[k] = NoProc

(* Take the exclusive flock, or answer operation_in_progress. *)
LockOrRefuse(p, l) ==
  \/ /\ FreeExclusive(Op(p))
     /\ writer' = [writer EXCEPT ![Op(p)] = p]
     /\ Goto(p, l)
     /\ UNCHANGED readers
  \/ /\ ~FreeExclusive(Op(p))
     /\ Finish(p, "refused")

Started(p, k, l) ==
  proc' = [proc EXCEPT ![p] = [Idle EXCEPT !.pc = l, !.op = k]]
-----------------------------------------------------------------------------
(* Storage.store *)

(* _begin for a new key: reserve the declared size, or nothing yet. *)
Declared(e) == IF e = Undeclared THEN 0 ELSE e
BeginFresh(p, k, e) ==
  /\ At(p, "idle") /\ SqlFree
  /\ reservations[k].state = "none"
  /\ Capacity(Owner[k], Declared(e))
  /\ reservations' = [reservations EXCEPT ![k] =
       [state |-> "reserved", allocated |-> Declared(e), written |-> 0,
        expected |-> e, live |-> TRUE]]
  /\ accounts' = [accounts EXCEPT ![Owner[k]].reserved = @ + Declared(e)]
  /\ Started(p, k, "lock")
  /\ UNCHANGED <<files, limits, disk, locks, sql, cursor, faults>>

(* _begin for a known key: a committed one is replayed under its flock, any *)
(* other answers operation_in_progress, _aborted or idempotency_conflict.   *)
BeginReplay(p, k, e) ==
  /\ At(p, "idle") /\ SqlFree
  /\ reservations[k].state = "committed"
  /\ reservations[k].expected = e
  /\ Started(p, k, "replay_lock")
  /\ UNCHANGED <<rows, disk, locks, sql, cursor, faults>>

StoreLock(p) ==
  /\ At(p, "lock")
  /\ LockOrRefuse(p, "stage")
  /\ UNCHANGED <<rows, disk, sql, cursor, faults>>

ReplayLock(p) ==
  /\ At(p, "replay_lock")
  /\ LockOrRefuse(p, "replay")
  /\ UNCHANGED <<rows, disk, sql, cursor, faults>>

(* _result: the retained file, if it is still ready. *)
Replay(p) ==
  /\ At(p, "replay")
  /\ Finish(p, IF files[Op(p)].state = "ready" THEN "ok" ELSE "refused")
  /\ UNCHANGED <<rows, disk, sql, cursor, faults>>

(* FileSystem.stage creates the entry with O_EXCL. *)
Stage(p) ==
  /\ At(p, "stage")
  /\ ~staging[Op(p)]
  /\ staging' = [staging EXCEPT ![Op(p)] = TRUE]
  /\ Goto(p, "stream")
  /\ UNCHANGED <<rows, final, bytes, locks, sql, cursor, faults>>

GrowthNever(k, size) == 0
(* What _advance adds to the allocation to cover size. *)
Growth(k, size) ==
  IF size > reservations[k].allocated THEN size - reservations[k].allocated ELSE 0

(* _advance before a part is written: the part is one unit of bytes. *)
Reserve(p) ==
  LET k == Op(p)
      growth == Growth(k, proc[p].size + 1)
  IN
  /\ At(p, "stream") /\ SqlFree
  /\ proc[p].size + 1 <= FileBytes
  /\ IsActive(k)
  /\ Capacity(Owner[k], growth)
  /\ accounts' = [accounts EXCEPT ![Owner[k]].reserved = @ + growth]
  /\ reservations' = [reservations EXCEPT
       ![k].allocated = @ + growth, ![k].state = "writing", ![k].live = TRUE]
  /\ Goto(p, "write")
  /\ UNCHANGED <<files, limits, disk, locks, sql, cursor, faults>>

Write(p) ==
  /\ At(p, "write")
  /\ bytes' = [bytes EXCEPT ![Op(p)] = @ + 1]
  /\ Goto(p, "written")
  /\ UNCHANGED <<rows, staging, final, locks, sql, cursor, faults>>

(* _advance(written=True): no capacity check, and no growth is left. *)
Written(p) ==
  LET k == Op(p)
      size == proc[p].size + 1
      growth == Growth(k, size)
  IN
  /\ At(p, "written") /\ SqlFree
  /\ IsActive(k)
  /\ accounts' = [accounts EXCEPT ![Owner[k]].reserved = @ + growth]
  /\ reservations' = [reservations EXCEPT
       ![k].allocated = @ + growth, ![k].state = "writing", ![k].live = TRUE,
       ![k].written = size]
  /\ proc' = [proc EXCEPT ![p].pc = "stream", ![p].size = size]
  /\ UNCHANGED <<files, limits, disk, locks, sql, cursor, faults>>

(* The stream ends with the declared length. *)
EndOfStream(p) ==
  /\ At(p, "stream")
  /\ reservations[Op(p)].expected \in {Undeclared, proc[p].size}
  /\ Goto(p, "insert")
  /\ UNCHANGED <<rows, disk, locks, sql, cursor, faults>>

(* _finish, first transaction: the file row, staged. *)
InsertFile(p) ==
  LET k == Op(p) IN
  /\ At(p, "insert") /\ SqlFree
  /\ IsActive(k)
  /\ files' = [files EXCEPT ![k] = [state |-> "staged", size |-> proc[p].size]]
  /\ reservations' = [reservations EXCEPT ![k].state = "staged"]
  /\ Goto(p, "publish")
  /\ UNCHANGED <<accounts, limits, disk, locks, sql, cursor, faults>>

(* _finish, second transaction, up to the hard link: quota is checked again. *)
Publish(p) ==
  LET k == Op(p) IN
  /\ At(p, "publish") /\ SqlFree
  /\ IsActive(k)
  /\ Capacity(Owner[k], 0)
  /\ staging[k] /\ ~final[k]
  /\ final' = [final EXCEPT ![k] = TRUE]
  /\ sql' = p
  /\ Goto(p, "commit")
  /\ UNCHANGED <<rows, staging, bytes, locks, cursor, faults>>

CommittedKeepsReservation(k) ==
  /\ files' = [files EXCEPT ![k].state = "ready"]
  /\ accounts' = [accounts EXCEPT ![Owner[k]].used = @ + files[k].size]
  /\ reservations' = [reservations EXCEPT ![k].state = "committed"]
  /\ sql' = NoProc
  /\ UNCHANGED limits

Committed(k) ==
  /\ files' = [files EXCEPT ![k].state = "ready"]
  /\ accounts' = [accounts EXCEPT ![Owner[k]] =
       [used     |-> @.used + files[k].size,
        reserved |-> @.reserved - reservations[k].allocated]]
  /\ reservations' = [reservations EXCEPT ![k].state = "committed"]
  /\ sql' = NoProc
  /\ UNCHANGED limits

(* The commit is answered, or its answer is lost and store sees an error. *)
Commit(p) ==
  /\ At(p, "commit")
  /\ Committed(Op(p))
  /\ \E r \in {"ok", "unknown"} :
       proc' = [proc EXCEPT ![p].pc = "clean", ![p].then = r]
  /\ UNCHANGED <<disk, locks, cursor, faults>>

RollbackAssumed(p) ==
  /\ At(p, "commit")
  /\ proc' = [proc EXCEPT ![p].pc = "clean", ![p].then = "failed"]
  /\ UNCHANGED <<rows, disk, locks, sql, cursor, faults>>

(* finalize raises, or the database refuses: everything but the link rolls  *)
(* back.                                                                    *)
Rollback(p) ==
  /\ At(p, "commit")
  /\ sql' = NoProc
  /\ proc' = [proc EXCEPT ![p].pc = "clean", ![p].then = "failed"]
  /\ UNCHANGED <<rows, disk, locks, cursor, faults>>

(* The process died inside the publishing transaction: the server finishes  *)
(* the COMMIT it had received, or rolls back the connection.                *)
ServerResolves(p) ==
  /\ sql = p /\ ~At(p, "commit")
  /\ \/ Committed(Op(p))
     \/ sql' = NoProc /\ UNCHANGED rows
  /\ UNCHANGED <<disk, locks, proc, cursor, faults>>

(* Any exception once the flock is held: a part too many, the client's      *)
(* stream, a full disk, a refused capacity check, an expired operation, a   *)
(* size mismatch, a SQL error.                                              *)
StoreFails(p) ==
  /\ proc[p].pc \in {"stage", "stream", "write", "written", "insert", "publish"}
  /\ proc' = [proc EXCEPT ![p].pc = "clean", ![p].then = "failed"]
  /\ UNCHANGED <<rows, disk, locks, sql, cursor, faults>>
-----------------------------------------------------------------------------
(* Storage._clean and FileSystem.clean *)

MarkTrustsAnswer(p) ==  (* what store heard, not what the row says *)
  LET k == Op(p) IN
  /\ At(p, "clean") /\ SqlFree
  /\ IF proc[p].then = "ok" /\ reservations[k].state = "committed"
     THEN Goto(p, "clean_committed") /\ UNCHANGED reservations
     ELSE /\ reservations' = [reservations EXCEPT ![k].state = "cleanup_pending"]
          /\ Goto(p, "clean_final")
  /\ UNCHANGED <<files, accounts, limits, disk, locks, sql, cursor, faults>>

Mark(p) ==
  LET k == Op(p) IN
  /\ At(p, "clean") /\ SqlFree
  /\ \/ /\ reservations[k].state = "aborted"
        /\ Finish(p, proc[p].then)
        /\ UNCHANGED reservations
     \/ /\ reservations[k].state = "committed"
        /\ Goto(p, "clean_committed")
        /\ UNCHANGED <<reservations, locks>>
     \/ /\ IsActive(k)
        /\ reservations' = [reservations EXCEPT ![k].state = "cleanup_pending"]
        /\ Goto(p, "clean_final")
        /\ UNCHANGED locks
  /\ UNCHANGED <<files, accounts, limits, disk, sql, cursor, faults>>


(* Committed: drop the redundant staging link.  Without the final link the  *)
(* entry is left alone (an OSError, which store ignores).                   *)
CleanCommitted(p) ==
  LET k == Op(p) IN
  /\ At(p, "clean_committed")
  /\ staging' = [staging EXCEPT ![k] = @ /\ ~final[k]]
  /\ Finish(p, proc[p].then)
  /\ UNCHANGED <<rows, final, bytes, sql, cursor, faults>>

(* Not committed: the final link goes first, and only while the staging     *)
(* link proves which inode it is.                                           *)
CleanFinal(p) ==
  LET k == Op(p) IN
  /\ At(p, "clean_final")
  /\ final[k] => staging[k]
  /\ final' = [final EXCEPT ![k] = FALSE]
  /\ Goto(p, "clean_staging")
  /\ UNCHANGED <<rows, staging, bytes, locks, sql, cursor, faults>>

CleanStaging(p) ==
  LET k == Op(p) IN
  /\ At(p, "clean_staging")
  /\ staging' = [staging EXCEPT ![k] = FALSE]
  /\ bytes' = [bytes EXCEPT ![k] = IF final[k] THEN @ ELSE 0]
  /\ Goto(p, "clean_abort")
  /\ UNCHANGED <<rows, final, locks, sql, cursor, faults>>


Abort(p) ==
  LET k == Op(p) IN
  /\ At(p, "clean_abort") /\ SqlFree
  /\ IsActive(k)
  /\ accounts' = [accounts EXCEPT ![Owner[k]].reserved =
                                    @ - reservations[k].allocated]
  /\ files' = [files EXCEPT ![k].state = IF @ = "none" THEN @ ELSE "deleted"]
  /\ reservations' = [reservations EXCEPT ![k].state = "aborted"]
  /\ Finish(p, proc[p].then)
  /\ UNCHANGED <<limits, disk, sql, cursor, faults>>
-----------------------------------------------------------------------------
(* Storage.recover *)

RecoverStart(p, k) ==
  /\ At(p, "idle")
  /\ reservations[k].state # "none"
  /\ Started(p, k, "recover_lock")
  /\ UNCHANGED <<rows, disk, locks, sql, cursor, faults>>

RecoverLock(p) ==
  /\ At(p, "recover_lock")
  /\ LockOrRefuse(p, "recover_check")
  /\ UNCHANGED <<rows, disk, sql, cursor, faults>>

RecoverCheckRefusesActive(p) ==
  /\ At(p, "recover_check")
  /\ IF IsActive(Op(p))
     THEN Finish(p, "refused")
     ELSE /\ proc' = [proc EXCEPT ![p].pc = "clean", ![p].then = "ok"]
          /\ UNCHANGED locks
  /\ UNCHANGED <<rows, disk, sql, cursor, faults>>

(* The row is read again under the flock, without waiting for SQL locks. *)
RecoverCheck(p) ==
  LET k == Op(p) IN
  /\ At(p, "recover_check")
  /\ \/ /\ IsActive(k) /\ reservations[k].live
        /\ Finish(p, "refused")
     \/ /\ ~(IsActive(k) /\ reservations[k].live)
        /\ proc' = [proc EXCEPT ![p].pc = "clean", ![p].then = "ok"]
        /\ UNCHANGED locks
  /\ UNCHANGED <<rows, disk, sql, cursor, faults>>

(* Storage.read *)

ReadStart(p, k) ==
  /\ At(p, "idle")
  /\ files[k].state = "ready"
  /\ Started(p, k, "read_lock")
  /\ UNCHANGED <<rows, disk, locks, sql, cursor, faults>>

ReadLock(p) ==
  LET k == Op(p) IN
  /\ At(p, "read_lock")
  /\ \/ /\ FreeShared(k)
        /\ readers' = [readers EXCEPT ![k] = @ \cup {p}]
        /\ Goto(p, "read_check")
        /\ UNCHANGED writer
     \/ /\ ~FreeShared(k)
        /\ Finish(p, "refused")
  /\ UNCHANGED <<rows, disk, sql, cursor, faults>>

ReadCheck(p) ==
  /\ At(p, "read_check")
  /\ \/ /\ files[Op(p)].state = "ready"
        /\ Goto(p, "read_open")
        /\ UNCHANGED locks
     \/ /\ files[Op(p)].state # "ready"
        /\ Finish(p, "refused")
  /\ UNCHANGED <<rows, disk, sql, cursor, faults>>

(* Open and verify the size and digest; anything else is storage_failure. *)
Intact(k) == final[k] /\ bytes[k] = files[k].size
ReadOpen(p) ==
  /\ At(p, "read_open")
  /\ IF Intact(Op(p)) THEN Goto(p, "reading") /\ UNCHANGED locks
                      ELSE Finish(p, "failed")
  /\ UNCHANGED <<rows, disk, sql, cursor, faults>>

(* The stream is closed.  reconcile then recovers the operation as well. *)
ReadClose(p) ==
  /\ At(p, "reading")
  /\ IF p \in Maintainers THEN Goto(p, "recover_lock") /\ Unlocked(p)
                          ELSE Finish(p, "ok")
  /\ UNCHANGED <<rows, disk, sql, cursor, faults>>
-----------------------------------------------------------------------------
(* Deletion: maintenance.delete_file, and the transactions of the documents *)
(* package that mark files pending_delete without their flock.              *)

RequestDeletion(k) ==
  /\ SqlFree
  /\ files[k].state = "ready"
  /\ files' = [files EXCEPT ![k].state = "pending_delete"]
  /\ UNCHANGED <<reservations, accounts, limits, disk, locks, sql, proc,
                 cursor, faults>>

DeleteStart(p, k) ==
  /\ At(p, "idle")
  /\ files[k].state # "none"
  /\ Started(p, k, "delete_lock")
  /\ UNCHANGED <<rows, disk, locks, sql, cursor, faults>>

DeleteLock(p) ==
  /\ At(p, "delete_lock")
  /\ LockOrRefuse(p, "delete_mark")
  /\ UNCHANGED <<rows, disk, sql, cursor, faults>>

DeleteMarkAny(p) ==
  LET k == Op(p) IN
  /\ At(p, "delete_mark") /\ SqlFree
  /\ files' = [files EXCEPT ![k].state = "pending_delete"]
  /\ Goto(p, "delete_final")
  /\ UNCHANGED <<reservations, accounts, limits, disk, locks, sql, cursor, faults>>

DeleteMark(p) ==
  LET k == Op(p) IN
  /\ At(p, "delete_mark") /\ SqlFree
  /\ \/ /\ files[k].state \in {"deleted", "staged"}
        /\ Finish(p, "refused")
        /\ UNCHANGED files
     \/ /\ files[k].state \in {"ready", "pending_delete"}
        /\ files' = [files EXCEPT ![k].state = "pending_delete"]
        /\ Goto(p, "delete_final")
        /\ UNCHANGED locks
  /\ UNCHANGED <<reservations, accounts, limits, disk, sql, cursor, faults>>

(* FileSystem.remove: the final entry, then the staging entry. *)
DeleteFinal(p) ==
  LET k == Op(p) IN
  /\ At(p, "delete_final")
  /\ final' = [final EXCEPT ![k] = FALSE]
  /\ bytes' = [bytes EXCEPT ![k] = IF staging[k] THEN @ ELSE 0]
  /\ Goto(p, "delete_staging")
  /\ UNCHANGED <<rows, staging, locks, sql, cursor, faults>>

DeleteStaging(p) ==
  LET k == Op(p) IN
  /\ At(p, "delete_staging")
  /\ staging' = [staging EXCEPT ![k] = FALSE]
  /\ bytes' = [bytes EXCEPT ![k] = IF final[k] THEN @ ELSE 0]
  /\ Goto(p, "delete_done")
  /\ UNCHANGED <<rows, final, locks, sql, cursor, faults>>

DeleteDone(p) ==
  LET k == Op(p) IN
  /\ At(p, "delete_done") /\ SqlFree
  /\ files' = [files EXCEPT ![k].state = "deleted"]
  /\ accounts' = [accounts EXCEPT ![Owner[k]].used = @ - files[k].size]
  /\ Finish(p, "ok")
  /\ UNCHANGED <<reservations, limits, disk, sql, cursor, faults>>
-----------------------------------------------------------------------------
(* maintenance.reconcile: one row after another in id order, then again. *)

ReconcileNextRecovers(m) ==
  LET later == {k \in Ops : k > cursor[m] /\ reservations[k].state # "none"} IN
  /\ At(m, "idle")
  /\ \E k \in later : /\ \A j \in later : k <= j
                      /\ cursor' = [cursor EXCEPT ![m] = k]
                      /\ Started(m, k, "recover_lock")
  /\ UNCHANGED <<rows, disk, locks, sql, faults>>

ReconcileNext(m) ==
  LET later == {k \in Ops : k > cursor[m] /\ reservations[k].state # "none"} IN
  /\ At(m, "idle")
  /\ later # {}
  /\ \E k \in later :
       /\ \A j \in later : k <= j
       /\ cursor' = [cursor EXCEPT ![m] = k]
       /\ Started(m, k, CASE files[k].state = "pending_delete" -> "delete_lock"
                          [] files[k].state = "ready" -> "read_lock"
                          [] OTHER -> "recover_lock")
  /\ UNCHANGED <<rows, disk, locks, sql, faults>>

ReconcileAgain(m) ==
  /\ At(m, "idle")
  /\ \A k \in Ops : k > cursor[m] => reservations[k].state = "none"
  /\ cursor' = [cursor EXCEPT ![m] = 0]
  /\ UNCHANGED <<rows, disk, locks, sql, proc, faults>>

(* What reconcile_account counts for an owner. *)
FileSizes   == [k \in Ops |-> files[k].size]
Retained(o) == {k \in Ops : Owner[k] = o /\ files[k].state \in {"ready", "pending_delete"}}
Reserved(o) == {k \in Ops : Owner[k] = o /\ IsActive(k)}

(* Counters that are too low are raised; what is too high stays charged.    *)
Raised(counter, counted) == IF counter < counted THEN counted ELSE counter
Repaired(o) ==
  [used     |-> Raised(accounts[o].used, SumFunctionOnSet(FileSizes, Retained(o))),
   reserved |-> Raised(accounts[o].reserved, SumFunctionOnSet(Allocations, Reserved(o)))]

(* maintenance.reconcile_account, by itself and after a page of reconcile.  *)
ReconcileAccount(o) ==
  /\ SqlFree
  /\ accounts' = [accounts EXCEPT ![o] = Repaired(o)]
  /\ UNCHANGED <<reservations, files, limits, disk, locks, sql, proc, cursor, faults>>

(* The rest of the world *)

(* quotas.set_default and set_override, under the same row lock. *)
SetLimit(o, amount) ==
  /\ SqlFree
  /\ limits' = [limits EXCEPT ![o] = amount]
  /\ UNCHANGED <<reservations, files, accounts, disk, locks, sql, proc, cursor,
                 faults>>

LeaseExpires(k) ==
  /\ IsActive(k) /\ reservations[k].live
  /\ reservations' = [reservations EXCEPT ![k].live = FALSE]
  /\ UNCHANGED <<files, accounts, limits, disk, locks, sql, proc, cursor,
                 faults>>

(* A SQL or filesystem error outside store's own try block: in _clean, in   *)
(* recover, read and delete_file.  The caller reports a failure and leaves  *)
(* the rest to the next reconciliation.                                     *)
StepFails(p) ==
  /\ faults < MaxFaults
  /\ proc[p].pc \in {"clean", "clean_committed", "clean_final", "clean_staging",
       "clean_abort", "delete_mark", "delete_final", "delete_staging",
       "delete_done", "recover_check", "read_check", "read_open", "replay"}
  /\ Finish(p, "unknown")
  /\ faults' = faults + 1
  /\ UNCHANGED <<rows, disk, sql, cursor>>

(* A process dies; the kernel releases its flocks.  A transaction it had    *)
(* open is left to the server.                                              *)
Crash(p) ==
  /\ faults < MaxFaults
  /\ proc[p].pc \notin {"idle", "done"}
  /\ Finish(p, "crashed")
  /\ faults' = faults + 1
  /\ UNCHANGED <<rows, disk, sql, cursor>>

-----------------------------------------------------------------------------
StoreStep(p) ==
  \/ StoreLock(p) \/ ReplayLock(p) \/ Replay(p) \/ Stage(p) \/ Reserve(p)
  \/ Write(p) \/ Written(p) \/ EndOfStream(p) \/ InsertFile(p) \/ Publish(p)
  \/ Commit(p) \/ Rollback(p) \/ StoreFails(p)

CleanStep(p) ==
  \/ Mark(p) \/ CleanCommitted(p) \/ CleanFinal(p) \/ CleanStaging(p) \/ Abort(p)

OtherStep(p) ==
  \/ RecoverLock(p) \/ RecoverCheck(p)
  \/ ReadLock(p) \/ ReadCheck(p) \/ ReadOpen(p) \/ ReadClose(p)
  \/ DeleteLock(p) \/ DeleteMark(p) \/ DeleteFinal(p) \/ DeleteStaging(p)
  \/ DeleteDone(p)

Step(p) == StoreStep(p) \/ CleanStep(p) \/ OtherStep(p)

Start(p, k) ==
  \/ \E e \in 0..FileBytes \cup {Undeclared} :
       BeginFresh(p, k, e) \/ BeginReplay(p, k, e)
  \/ RecoverStart(p, k) \/ ReadStart(p, k) \/ DeleteStart(p, k)

Next ==
  \/ \E p \in Requests, k \in Ops : Start(p, k)
  \/ \E m \in Maintainers : ReconcileNext(m) \/ ReconcileAgain(m)
  \/ \E p \in Procs : Step(p) \/ ServerResolves(p) \/ StepFails(p) \/ Crash(p)
  \/ \E k \in Ops : RequestDeletion(k) \/ LeaseExpires(k)
  \/ \E o \in Owners, amount \in Limits : SetLimit(o, amount)
  \/ \E o \in Owners : ReconcileAccount(o)

(* Every process that has begun a call keeps running, time passes, the      *)
(* database ends the transactions of dead clients, and the scheduler keeps  *)
(* calling reconcile.                                                       *)
Fairness ==
  /\ \A p \in Procs : WF_vars(Step(p)) /\ WF_vars(ServerResolves(p))
  /\ \A m \in Maintainers : WF_vars(ReconcileNext(m) \/ ReconcileAgain(m))
  /\ \A k \in Ops : WF_vars(LeaseExpires(k))

Spec == Init /\ [][Next]_vars
FairSpec == Spec /\ Fairness
==============================================================================
