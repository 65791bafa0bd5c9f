------------------------------ MODULE Scheduler ------------------------------
(***************************************************************************)
(* Scheduled maintenance: bounded ticks over a list of tasks, by whichever *)
(* process holds an advisory lock.  The lock belongs to the session of one *)
(* dedicated connection, the guard, on which the progress row is written   *)
(* too; the tasks use other connections.  When the guard's session is lost *)
(* the lock is free at once, while its process still works; every further  *)
(* statement on the guard fails, since SQLAlchemy does not reconnect a     *)
(* connection whose transaction has begun.                                 *)
(*                                                                         *)
(* A task with a cursor sweeps rows in the order of their identifiers, a   *)
(* page at a time; rows come and go between the pages, and new ones are    *)
(* as likely behind the cursor as ahead of it.  What a task does to a row  *)
(* is the business of the modules Storage and Revisions.                   *)
(***************************************************************************)
EXTENDS Integers, Sequences, FiniteSetsExt

CONSTANTS Schedulers,   (* processes that tick: the service, and --once        *)
          Tasks,        (* the tasks of a tick, in their order                 *)
          Cursors,      (* the tasks whose sweep has a cursor                  *)
          Items,        (* identifiers of rows to sweep                        *)
          Batch,        (* rows in a page                                      *)
          Row,          (* any one of the identifiers, whose row is followed   *)
          Nobody,
          MaxTroubles   (* failed attempts, lost guards and deaths of a run    *)

Attempts == 3

ASSUME SchedulerAssumptions ==
  /\ Items \subseteq Nat \ {0} /\ Row \in Items /\ Batch \in Nat \ {0}
  /\ \A i \in DOMAIN Tasks : \A j \in DOMAIN Tasks : Tasks[i] = Tasks[j] => i = j
  /\ Nobody \notin Schedulers

VARIABLES
  guardedBy,   (* the process whose session holds the advisory lock           *)
  state,       (* maintenance_state: whose run, status, interruptions, cursor *)
  tick,        (* every process: where it is in its tick                      *)
  rows,        (* the rows each sweep goes over                               *)
  waiting,     (* history: the sweeps that owe the row followed a visit       *)
  open,        (* history: runs begun whose end nobody recorded               *)
  troubles

schedule == <<guardedBy, state, tick, rows, waiting, open, troubles>>

Off     == [at |-> "off", task |-> 0, attempt |-> 0, following |-> 0, failed |-> FALSE,
            guarded |-> FALSE, stop |-> FALSE]
Resting == [Off EXCEPT !.at = "idle"]

SchedulerInit ==
  /\ guardedBy = Nobody
  /\ state = [run |-> Nobody, status |-> "idle", interrupted |-> 0,
              cursor |-> [t \in Cursors |-> 0]]
  /\ tick = [p \in Schedulers |-> Off]
  /\ rows = [t \in Cursors |-> {}]
  /\ waiting = {}
  /\ open = 0
  /\ troubles = 0

Ticks(p, at)  == tick[p].at = at
Guarded(p)    == tick[p].guarded
TaskOf(p)     == Tasks[tick[p].task]
Trouble       == troubles < MaxTroubles /\ troubles' = troubles + 1
Calm          == UNCHANGED troubles
FreeGuard(p)  == guardedBy' = IF guardedBy = p THEN Nobody ELSE guardedBy
Settle(p)     == IF tick[p].stop THEN Off ELSE Resting

(* One query of a sweep: the next Batch rows after the cursor, and the      *)
(* cursor that follows, none when the page reaches the end.                 *)
Ahead(t, after)     == {i \in rows[t] : i > after}
Page(t, after)      == {i \in Ahead(t, after) :
                          Cardinality({j \in Ahead(t, after) : j < i}) < Batch}
Following(t, after) == IF Cardinality(Ahead(t, after)) > Batch
                         THEN Max(Page(t, after)) ELSE 0

(* A tick takes the lock or leaves; it notes a run that never ended, and    *)
(* makes the row its own.  No other session can write between its reading   *)
(* of the row and its update: that session would hold the lock.             *)
StartReadsLate(p) ==
  /\ Ticks(p, "idle") /\ ~tick[p].stop /\ guardedBy = Nobody
  /\ guardedBy' = p
  /\ state' = [state EXCEPT !.run = p, !.status = "running", !.interrupted = @ + 1]
  /\ tick' = [tick EXCEPT ![p] = [@ EXCEPT !.at = "task", !.task = 1, !.attempt = 1,
                                    !.failed = FALSE, !.guarded = TRUE]]
  /\ open' = open + 1
  /\ Calm /\ UNCHANGED <<rows, waiting>>

Start(p) ==
  /\ Ticks(p, "idle") /\ ~tick[p].stop /\ guardedBy = Nobody
  /\ guardedBy' = p
  /\ state' = [state EXCEPT !.run = p, !.status = "running",
                 !.interrupted = @ + IF state.status = "running" THEN 1 ELSE 0]
  /\ tick' = [tick EXCEPT ![p] = [@ EXCEPT !.at = "task", !.task = 1, !.attempt = 1,
                                    !.failed = FALSE, !.guarded = TRUE]]
  /\ open' = open + 1
  /\ Calm /\ UNCHANGED <<rows, waiting>>

(* A task runs to its end: its page is examined, row by row, the rows that  *)
(* fail along with the others.  It may report failures or none.             *)
Perform(p) ==
  /\ Ticks(p, "task") /\ Guarded(p)
  /\ \E failed \in BOOLEAN :
       LET t == TaskOf(p) IN
       tick' = [tick EXCEPT ![p].at = "record", ![p].failed = @ \/ failed,
                  ![p].following = IF t \in Cursors
                                     THEN Following(t, state.cursor[t]) ELSE 0]
  /\ waiting' = waiting \ {t \in Cursors \cap {TaskOf(p)} : Row \in Page(t, state.cursor[t])}
  /\ Calm /\ UNCHANGED <<guardedBy, state, rows, open>>

(* A whole task raises: it is tried again, three times in all and not when  *)
(* asked to stop, and then it has failed and its cursor stays.              *)
Raise(p) ==
  /\ Ticks(p, "task") /\ Guarded(p)
  /\ Trouble
  /\ tick' = [tick EXCEPT ![p] =
       IF @.attempt < Attempts /\ ~@.stop THEN [@ EXCEPT !.attempt = tick[p].attempt + 1]
       ELSE [@ EXCEPT !.at = "record", !.failed = TRUE,
               !.following = IF TaskOf(p) \in Cursors
                               THEN state.cursor[TaskOf(p)] ELSE 0]]
  /\ UNCHANGED <<guardedBy, state, rows, waiting, open>>

(* The task's cursor is recorded, if the row is still this run's.           *)
Record(p) ==
  /\ Ticks(p, "record") /\ Guarded(p) /\ state.run = p
  /\ state' = IF TaskOf(p) \in Cursors
                THEN [state EXCEPT !.cursor[TaskOf(p)] = tick[p].following] ELSE state
  /\ tick' = [tick EXCEPT ![p] =
       IF @.task = Len(Tasks) THEN [@ EXCEPT !.at = "finish"]
       ELSE [@ EXCEPT !.at = "task", !.task = tick[p].task + 1, !.attempt = 1]]
  /\ Calm /\ UNCHANGED <<guardedBy, rows, waiting, open>>

(* Asked to stop, it leaves the tasks that remain, and has not succeeded.   *)
Break(p) ==
  /\ Ticks(p, "task") /\ tick[p].attempt = 1 /\ tick[p].stop
  /\ tick' = [tick EXCEPT ![p].at = "finish", ![p].failed = TRUE]
  /\ Calm /\ UNCHANGED <<guardedBy, state, rows, waiting, open>>

(* The run is over: succeeded when every task was done without failures.    *)
FinishUnfenced(p) ==
  /\ Ticks(p, "finish")
  /\ state' = [state EXCEPT !.status =
       IF ~tick[p].failed THEN "succeeded" ELSE "failed"]
  /\ tick' = [tick EXCEPT ![p] = Settle(p)]
  /\ FreeGuard(p)
  /\ open' = open - 1
  /\ Calm /\ UNCHANGED <<rows, waiting>>

Finish(p) ==
  /\ Ticks(p, "finish") /\ Guarded(p) /\ state.run = p
  /\ state' = [state EXCEPT !.status =
       IF ~tick[p].failed THEN "succeeded" ELSE "failed"]
  /\ tick' = [tick EXCEPT ![p] = Settle(p)]
  /\ FreeGuard(p)
  /\ open' = open - 1
  /\ Calm /\ UNCHANGED <<rows, waiting>>

(* Anything else that is raised ends the tick, recorded as failed.          *)
Abandon(p) ==
  /\ Ticks(p, "task") /\ Guarded(p) /\ state.run = p
  /\ Trouble
  /\ state' = [state EXCEPT !.status = "failed"]
  /\ tick' = [tick EXCEPT ![p] = Settle(p)]
  /\ FreeGuard(p)
  /\ open' = open - 1
  /\ UNCHANGED <<rows, waiting>>

(* The guard's session ends, in the middle of anything.                     *)
LoseGuard(p) ==
  /\ Guarded(p) /\ Trouble
  /\ tick' = [tick EXCEPT ![p].guarded = FALSE]
  /\ FreeGuard(p)
  /\ UNCHANGED <<state, rows, waiting, open>>

(* Before a task and after it the process finds its guard gone; nothing it  *)
(* tries to record is written.                                              *)
Unguarded(p) ==
  /\ ~Ticks(p, "off") /\ ~Ticks(p, "idle") /\ ~Guarded(p)
  /\ tick' = [tick EXCEPT ![p] = Settle(p)]
  /\ Calm /\ UNCHANGED <<guardedBy, state, rows, waiting, open>>

(* The process dies, its session with it, and the container starts another. *)
Die(p) ==
  /\ ~Ticks(p, "off") /\ ~Ticks(p, "idle") /\ Trouble
  /\ tick' = [tick EXCEPT ![p] = Settle(p)]
  /\ FreeGuard(p)
  /\ UNCHANGED <<state, rows, waiting, open>>

(* The container starts.                                                    *)
Launch ==
  /\ tick' = [p \in Schedulers |-> IF Ticks(p, "off") THEN Resting ELSE tick[p]]
  /\ Calm /\ UNCHANGED <<guardedBy, state, rows, waiting, open>>

(* The host restarts; a container that was running runs again.              *)
Restart ==
  /\ tick' = [p \in Schedulers |-> IF Ticks(p, "off") THEN Off ELSE Settle(p)]
  /\ guardedBy' = Nobody
  /\ Calm /\ UNCHANGED <<state, rows, waiting, open>>

(* SIGTERM: it stops between tasks, or while it waits for the next tick.    *)
Terminate(p) ==
  /\ ~Ticks(p, "off") /\ ~tick[p].stop
  /\ tick' = [tick EXCEPT ![p] = IF @.at = "idle" THEN Off ELSE [@ EXCEPT !.stop = TRUE]]
  /\ Calm /\ UNCHANGED <<guardedBy, state, rows, waiting, open>>

Arrive(t, i) ==
  /\ i \notin rows[t]
  /\ rows' = [rows EXCEPT ![t] = @ \cup {i}]
  /\ waiting' = IF i = Row THEN waiting \cup {t} ELSE waiting
  /\ Calm /\ UNCHANGED <<guardedBy, state, tick, open>>

Vanish(t, i) ==
  /\ i \in rows[t]
  /\ rows' = [rows EXCEPT ![t] = @ \ {i}]
  /\ waiting' = IF i = Row THEN waiting \ {t} ELSE waiting
  /\ Calm /\ UNCHANGED <<guardedBy, state, tick, open>>

Work(p) == Start(p) \/ Perform(p) \/ Record(p) \/ Break(p) \/ Finish(p) \/ Unguarded(p)

Mishap(p) == Raise(p) \/ Abandon(p) \/ LoseGuard(p) \/ Die(p)
==============================================================================
