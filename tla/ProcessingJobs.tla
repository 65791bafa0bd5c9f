--------------------------- MODULE ProcessingJobs ---------------------------
(***************************************************************************)
(* Inspection of saved documents: a job row per document and revision in   *)
(* PostgreSQL is the outbox, the dispatcher turns queued rows into RQ      *)
(* deliveries, and workers claim a row, inspect the saved bytes and record *)
(* the outcome.  Redis may lose, repeat or delay deliveries and its        *)
(* records of them; workers may die anywhere.                              *)
(*                                                                         *)
(* Every transaction that changes a row locks the document (or is the      *)
(* dispatcher's, which locks the row), so each is one step.  The documents *)
(* here keep what the rows depend on: their state and current revision.    *)
(* All documents belong to one owner, to whom the admission limit applies. *)
(***************************************************************************)
EXTENDS Integers, FiniteSets

CONSTANTS Docs, Workers, None,
          MaxVersion,   (* revisions of a document                           *)
          MaxActive,    (* queued and running jobs of an owner: 5 in intent  *)
          Budget,       (* attempts of a submission: 3 in intent             *)
          MaxAttempt,   (* attempts explored, over all explicit retries      *)
          MaxFaults     (* lost calls, lost records and crashes explored     *)

Versions == 1..MaxVersion
Attempts == 1..MaxAttempt
Jobs     == Docs \X Versions

ASSUME JobsAssumptions ==
  /\ MaxVersion \in Nat \ {0} /\ MaxActive \in Nat \ {0}
  /\ Budget \in Nat \ {0} /\ MaxFaults \in Nat
  /\ MaxAttempt \in Nat /\ MaxAttempt >= Budget
  /\ None \notin Jobs \X Attempts
  /\ IsFiniteSet(Docs)

VARIABLES
  docs,        (* state and current revision of every document               *)
  jobs,        (* processing_jobs, by document and revision                  *)
  transport,   (* what RQ records of each delivery <<job, attempt>>          *)
  dispatcher,  (* its batch, and the delivery it is working on               *)
  workers,     (* the delivery each worker is executing                      *)
  faults

vars == <<docs, jobs, transport, dispatcher, workers, faults>>

Active  == {"queued", "running"}
Fresh(status, attempt, proposals) ==
  [status |-> status, attempt |-> attempt, budget |-> attempt + Budget - 1,
   lease |-> "none", proposals |-> proposals]
NoRow   == Fresh("none", 1, FALSE)
NoDoc   == [state |-> "absent", current |-> 1]
Resting == [pc |-> "idle", at |-> None, found |-> FALSE]

Init ==
  /\ docs = [d \in Docs |-> NoDoc]
  /\ jobs = [j \in Jobs |-> NoRow]
  /\ transport = [t \in Jobs \X Attempts |-> "none"]
  /\ dispatcher = [pc |-> "idle", batch |-> {}, at |-> None]
  /\ workers = [w \in Workers |-> Resting]
  /\ faults = 0

Current(d) == <<d, docs[d].current>>
IsLive(j) == docs[j[1]].state = "active" /\ docs[j[1]].current = j[2]
-----------------------------------------------------------------------------
(* jobs.service.intent, on the rows its transaction sees *)

ActiveJobs(rows) == {j \in Jobs : rows[j].status \in Active}

(* Live and completed work is returned as it is. *)
Settled(row) ==
  /\ row.status \notin {"none", "failed"}
  /\ ~(row.status = "succeeded" /\ ~row.proposals)

(* A retry is a new attempt with a fresh budget. *)
Admitted(row) == Fresh("queued", IF row.status = "none" THEN 1 ELSE row.attempt + 1, FALSE)

Intent(rows, j) ==
  \/ Settled(rows[j]) /\ jobs' = rows
  \/ /\ ~Settled(rows[j])
     /\ Cardinality(ActiveJobs(rows)) < MaxActive
     /\ Admitted(rows[j]).budget <= MaxAttempt
     /\ jobs' = [rows EXCEPT ![j] = Admitted(@)]

(* POST /processing, by the owner of an active document. *)
Submit(d) ==
  /\ docs[d].state = "active"
  /\ Intent(jobs, Current(d))
  /\ UNCHANGED <<docs, transport, dispatcher, workers, faults>>
-----------------------------------------------------------------------------
(* The transactions of the documents package that touch job rows *)

Upload(d) ==
  /\ docs[d].state = "absent"
  /\ docs' = [docs EXCEPT ![d].state = "active"]
  /\ Intent(jobs, Current(d))
  /\ UNCHANGED <<transport, dispatcher, workers, faults>>

(* Use template: proposals of a succeeded source are rebased and copied. *)
Copy(d, s) ==
  /\ docs[d].state = "absent" /\ docs[s].state = "active"
  /\ docs' = [docs EXCEPT ![d].state = "active"]
  /\ LET source == jobs[Current(s)] IN
     \/ /\ source.status = "succeeded" /\ source.proposals
        /\ jobs' = [jobs EXCEPT ![Current(d)] = Fresh("succeeded", 1, TRUE)]
     \/ /\ ~(source.status = "succeeded" /\ source.proposals)
        /\ Intent(jobs, Current(d))
  /\ UNCHANGED <<transport, dispatcher, workers, faults>>

(* revision_commit.commit: the new revision supersedes the document's       *)
(* active job and has one of its own.                                       *)
Supersede(d) ==
  [j \in Jobs |->
     IF j[1] = d /\ jobs[j].status \in Active
     THEN [jobs[j] EXCEPT !.status = "stale", !.lease = "none"] ELSE jobs[j]]
SaveInspectsPrevious(d) ==
  LET v == docs[d].current + 1 IN
  /\ docs[d].state = "active" /\ v \in Versions
  /\ docs' = [docs EXCEPT ![d].current = v]
  /\ Intent(Supersede(d), Current(d))
  /\ UNCHANGED <<transport, dispatcher, workers, faults>>
Save(d) ==
  LET v == docs[d].current + 1 IN
  /\ docs[d].state = "active" /\ v \in Versions
  /\ docs' = [docs EXCEPT ![d].current = v]
  /\ Intent(Supersede(d), <<d, v>>)
  /\ UNCHANGED <<transport, dispatcher, workers, faults>>

Trash(d) ==
  /\ docs[d].state = "active"
  /\ docs' = [docs EXCEPT ![d].state = "trashed"]
  /\ UNCHANGED <<jobs, transport, dispatcher, workers, faults>>
Untrash(d) ==
  /\ docs[d].state = "trashed"
  /\ docs' = [docs EXCEPT ![d].state = "active"]
  /\ UNCHANGED <<jobs, transport, dispatcher, workers, faults>>

(* deletion.purge clears the proposals of every revision. *)
Purge(d) ==
  /\ docs[d].state \in {"active", "trashed"}
  /\ docs' = [docs EXCEPT ![d].state = "deleted"]
  /\ jobs' = [j \in Jobs |-> IF j[1] = d THEN [jobs[j] EXCEPT !.proposals = FALSE]
                                         ELSE jobs[j]]
  /\ UNCHANGED <<transport, dispatcher, workers, faults>>

(* retention.authorize retires the job of a pruned historical revision. *)
Prune(d, v) ==
  /\ docs[d].state = "active" /\ v > 1 /\ v < docs[d].current
  /\ jobs[<<d, v>>].status # "none"
  /\ jobs' = [jobs EXCEPT ![<<d, v>>] =
       [@ EXCEPT !.status = "stale", !.lease = "none", !.proposals = FALSE]]
  /\ UNCHANGED <<docs, transport, dispatcher, workers, faults>>
-----------------------------------------------------------------------------
(* dispatcher.dispatch *)

Expired(row) == row.status = "running" /\ row.lease = "expired"

DispatchList ==
  /\ dispatcher.pc = "idle"
  /\ dispatcher' = [dispatcher EXCEPT !.pc = "row",
       !.batch = {j \in Jobs : jobs[j].status = "queued" \/ Expired(jobs[j])}]
  /\ UNCHANGED <<docs, jobs, transport, workers, faults>>

DispatchEnd ==
  /\ dispatcher.pc = "row" /\ dispatcher.batch = {}
  /\ dispatcher' = [dispatcher EXCEPT !.pc = "idle"]
  /\ UNCHANGED <<docs, jobs, transport, workers, faults>>

(* Look at one row of the batch again, under its lock: an expired lease     *)
(* uses up the attempt, and whatever is queued then is delivered.           *)
ReclaimedFreely(row) ==
  IF Expired(row) THEN [row EXCEPT !.status = "queued", !.lease = "none"] ELSE row
Reclaimed(row) ==
  IF ~Expired(row) THEN row
  ELSE IF row.attempt >= row.budget THEN [row EXCEPT !.status = "failed", !.lease = "none"]
  ELSE [row EXCEPT !.status = "queued", !.attempt = @ + 1, !.lease = "none"]
DispatchRow(j) ==
  LET row == Reclaimed(jobs[j]) IN
  /\ dispatcher.pc = "row" /\ j \in dispatcher.batch
  /\ jobs' = [jobs EXCEPT ![j] = row]
  /\ dispatcher' = [pc |-> IF row.status = "queued" THEN "fetch" ELSE "row",
                    batch |-> dispatcher.batch \ {j},
                    at |-> IF row.status = "queued" THEN <<j, row.attempt>> ELSE None]
  /\ UNCHANGED <<docs, transport, workers, faults>>

(* What RQ knows of the delivery: nothing, and it is enqueued; still under  *)
(* way, and it is left alone; over, or started longer ago than a lease.     *)
NextRow == [dispatcher EXCEPT !.pc = "row", !.at = None]
DispatchFetch ==
  LET t == dispatcher.at IN
  /\ dispatcher.pc = "fetch"
  /\ \/ /\ transport[t] = "none"
        /\ transport' = [transport EXCEPT ![t] = "queued"]
        /\ dispatcher' = NextRow
     \/ /\ transport[t] \in {"queued", "started"}
        /\ dispatcher' = NextRow
        /\ UNCHANGED transport
     \/ /\ transport[t] \in {"overdue", "ended"}
        /\ dispatcher' = [dispatcher EXCEPT !.pc = "advance"]
        /\ UNCHANGED transport
  /\ UNCHANGED <<docs, jobs, workers, faults>>

(* A delivery that ended before its claim uses up the attempt. *)
AdvancedFreely(row) == row
Advanced(row) ==
  IF row.attempt < row.budget THEN [row EXCEPT !.attempt = @ + 1]
                              ELSE [row EXCEPT !.status = "failed"]
DispatchAdvance ==
  LET j == dispatcher.at[1]
      row == jobs[j]
  IN
  /\ dispatcher.pc = "advance"
  /\ jobs' = [jobs EXCEPT ![j] =
       IF row.status = "queued" /\ row.attempt = dispatcher.at[2]
       THEN Advanced(row) ELSE row]
  /\ dispatcher' = NextRow
  /\ UNCHANGED <<docs, transport, workers, faults>>

(* Redis answers nothing, perhaps after storing the delivery: the batch     *)
(* ends.  A SQL error, or a restart of the dispatcher, ends it as well.     *)
DispatchBreaks ==
  /\ faults < MaxFaults
  /\ dispatcher.pc # "idle"
  /\ dispatcher' = [pc |-> "idle", batch |-> {}, at |-> None]
  /\ \/ UNCHANGED transport
     \/ /\ dispatcher.pc = "fetch" /\ transport[dispatcher.at] = "none"
        /\ transport' = [transport EXCEPT ![dispatcher.at] = "queued"]
  /\ faults' = faults + 1
  /\ UNCHANGED <<docs, jobs, workers>>
-----------------------------------------------------------------------------
(* RQ: a worker takes a queued delivery; records outlive deliveries for a   *)
(* while, and time passes for those that started.                           *)

Take(w, t) ==
  /\ workers[w].pc = "idle"
  /\ transport[t] = "queued"
  /\ transport' = [transport EXCEPT ![t] = "started"]
  /\ workers' = [workers EXCEPT ![w] = [pc |-> "claim", at |-> t, found |-> FALSE]]
  /\ UNCHANGED <<docs, jobs, dispatcher, faults>>

(* An identifier pushed twice is executed twice. *)
TakeAgain(w, t) ==
  /\ faults < MaxFaults
  /\ workers[w].pc = "idle"
  /\ transport[t] \in {"started", "overdue", "ended"}
  /\ workers' = [workers EXCEPT ![w] = [pc |-> "claim", at |-> t, found |-> FALSE]]
  /\ faults' = faults + 1
  /\ UNCHANGED <<docs, jobs, transport, dispatcher>>

Overdue(t) ==
  /\ transport[t] = "started"
  /\ transport' = [transport EXCEPT ![t] = "overdue"]
  /\ UNCHANGED <<docs, jobs, dispatcher, workers, faults>>

(* The record's time to live ends; or Redis loses it. *)
Forget(t) ==
  /\ transport[t] = "ended"
  /\ transport' = [transport EXCEPT ![t] = "none"]
  /\ UNCHANGED <<docs, jobs, dispatcher, workers, faults>>
Lose(t) ==
  /\ faults < MaxFaults
  /\ transport[t] \in {"queued", "started", "overdue"}
  /\ transport' = [transport EXCEPT ![t] = "none"]
  /\ faults' = faults + 1
  /\ UNCHANGED <<docs, jobs, dispatcher, workers>>

LeaseExpires(j) ==
  /\ jobs[j].lease = "live"
  /\ jobs' = [jobs EXCEPT ![j].lease = "expired"]
  /\ UNCHANGED <<docs, transport, dispatcher, workers, faults>>
-----------------------------------------------------------------------------
(* worker.process *)

(* The delivery is over; RQ keeps a record unless it lost it meanwhile. *)
Over(w) ==
  LET t == workers[w].at IN
  /\ workers' = [workers EXCEPT ![w] = Resting]
  /\ transport' = [transport EXCEPT ![t] = IF @ = "none" THEN @ ELSE "ended"]

ClaimAnyStatus(w) ==
  LET j == workers[w].at[1] IN
  /\ workers[w].pc = "claim"
  /\ IF jobs[j].attempt = workers[w].at[2] /\ IsLive(j)
     THEN /\ jobs' = [jobs EXCEPT ![j].status = "running", ![j].lease = "live"]
          /\ workers' = [workers EXCEPT ![w].pc = "inspect"]
          /\ UNCHANGED transport
     ELSE Over(w) /\ UNCHANGED jobs
  /\ UNCHANGED <<docs, dispatcher, faults>>

Claim(w) ==
  LET j == workers[w].at[1]
      mine == jobs[j].status = "queued" /\ jobs[j].attempt = workers[w].at[2]
  IN
  /\ workers[w].pc = "claim"
  /\ \/ /\ ~mine
        /\ Over(w)
        /\ UNCHANGED jobs
     \/ /\ mine /\ ~IsLive(j)
        /\ jobs' = [jobs EXCEPT ![j].status = "stale", ![j].lease = "none"]
        /\ Over(w)
     \/ /\ mine /\ IsLive(j)
        /\ jobs' = [jobs EXCEPT ![j].status = "running", ![j].lease = "live"]
        /\ workers' = [workers EXCEPT ![w].pc = "inspect"]
        /\ UNCHANGED transport
  /\ UNCHANGED <<docs, dispatcher, faults>>

(* inspect_file reads the saved bytes without any lock; it may fail. *)
Inspect(w) ==
  /\ workers[w].pc = "inspect"
  /\ \E found \in BOOLEAN :
       workers' = [workers EXCEPT ![w].pc = "finish", ![w].found = found]
  /\ UNCHANGED <<docs, jobs, transport, dispatcher, faults>>

Finished(row, live, found) ==
  [row EXCEPT !.lease = "none",
     !.status = IF ~live THEN "stale"
                ELSE IF found THEN "succeeded"
                ELSE IF row.attempt < row.budget THEN "queued" ELSE "failed",
     !.proposals = @ \/ (live /\ found),
     !.attempt = IF live /\ ~found /\ row.attempt < row.budget THEN @ + 1 ELSE @]
FinishAnyRow(w) ==
  LET j == workers[w].at[1] IN
  /\ workers[w].pc = "finish"
  /\ jobs' = [jobs EXCEPT ![j] = Finished(@, IsLive(j), workers[w].found)]
  /\ Over(w)
  /\ UNCHANGED <<docs, dispatcher, faults>>
Finish(w) ==
  LET j == workers[w].at[1]
      mine == /\ jobs[j].status = "running" /\ jobs[j].lease = "live"
              /\ jobs[j].attempt = workers[w].at[2]
  IN
  /\ workers[w].pc = "finish"
  /\ jobs' = [jobs EXCEPT ![j] =
       IF mine THEN Finished(@, IsLive(j), workers[w].found) ELSE @]
  /\ Over(w)
  /\ UNCHANGED <<docs, dispatcher, faults>>

(* A SQL error ends the call; a killed worker leaves its delivery started.  *)
WorkerStops(w) ==
  /\ faults < MaxFaults
  /\ workers[w].pc # "idle"
  /\ \/ Over(w)
     \/ workers' = [workers EXCEPT ![w] = Resting] /\ UNCHANGED transport
  /\ faults' = faults + 1
  /\ UNCHANGED <<docs, jobs, dispatcher>>
-----------------------------------------------------------------------------
Dispatch ==
  \/ DispatchList \/ DispatchEnd \/ DispatchFetch \/ DispatchAdvance
  \/ \E j \in Jobs : DispatchRow(j)
Work(w) == (\E t \in Jobs \X Attempts : Take(w, t)) \/ Claim(w) \/ Inspect(w) \/ Finish(w)
Owner ==
  \E d \in Docs :
    \/ Submit(d) \/ Upload(d) \/ Save(d) \/ Trash(d) \/ Untrash(d) \/ Purge(d)
    \/ \E s \in Docs : Copy(d, s)
    \/ \E v \in Versions : Prune(d, v)
Time ==
  \/ \E t \in Jobs \X Attempts : Overdue(t) \/ Forget(t)
  \/ \E j \in Jobs : LeaseExpires(j)
Faults ==
  \/ DispatchBreaks
  \/ \E t \in Jobs \X Attempts : Lose(t) \/ \E w \in Workers : TakeAgain(w, t)
  \/ \E w \in Workers : WorkerStops(w)

Next == Dispatch \/ (\E w \in Workers : Work(w)) \/ Owner \/ Time \/ Faults

(* The dispatcher's loop and the RQ workers keep running, leases run out    *)
(* and started deliveries become overdue.  Owners need do nothing.          *)
Fairness ==
  /\ WF_vars(Dispatch)
  /\ \A w \in Workers : WF_vars(Work(w))
  /\ \A j \in Jobs : WF_vars(LeaseExpires(j))
  /\ \A t \in Jobs \X Attempts : WF_vars(Overdue(t))

Spec == Init /\ [][Next]_vars
FairSpec == Spec /\ Fairness
==============================================================================
