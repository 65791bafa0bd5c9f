---------------------- MODULE ProcessingJobsProperties ----------------------
(* What must be true of document inspection. *)
EXTENDS ProcessingJobs

(* Every variable has its type; a row respects the table's CHECKs           *)
(* (processing_attempts, processing_lease), so no transaction is refused.   *)
RowType == [status : {"none", "queued", "running", "succeeded", "failed", "stale"},
            attempt : Attempts, budget : Attempts,
            lease : {"none", "live", "expired"}, proposals : BOOLEAN]
TypeOK ==
  /\ docs \in [Docs -> [state : {"absent", "active", "trashed", "deleted"},
                        current : Versions]]
  /\ jobs \in [Jobs -> RowType]
  /\ transport \in [Jobs \X Attempts ->
                      {"none", "queued", "started", "overdue", "ended"}]
  /\ dispatcher \in [pc : {"idle", "row", "fetch", "advance"}, batch : SUBSET Jobs,
                     at : (Jobs \X Attempts) \cup {None}]
  /\ workers \in [Workers -> [pc : {"idle", "claim", "inspect", "finish"},
                              at : (Jobs \X Attempts) \cup {None}, found : BOOLEAN]]
  /\ faults \in 0..MaxFaults

Valid(row) ==
  /\ row.attempt <= row.budget /\ row.budget - row.attempt < Budget
  /\ row.status = "running" <=> row.lease # "none"
RowsAreValid == \A j \in Jobs : Valid(jobs[j])

(* Only the current revision of a document is ever queued or running, and a *)
(* document that does not exist has no rows: a save retires the old work.   *)
ActiveIsCurrent ==
  \A j \in Jobs : jobs[j].status \in Active =>
    docs[j[1]].state # "absent" /\ docs[j[1]].current = j[2]

(* An attempt that a worker has claimed is spent: no requeue, redelivery or *)
(* retry offers it again, so two workers never inspect for one attempt and  *)
(* a late result finds no row that waits for it.                            *)
ClaimIsSpent ==
  \A w \in Workers : workers[w].pc \in {"inspect", "finish"} =>
    LET row == jobs[workers[w].at[1]] IN
    \/ row.attempt > workers[w].at[2]
    \/ row.attempt = workers[w].at[2] /\ row.status \notin {"none", "queued"}
OneExecutor ==
  \A w, x \in Workers :
    workers[w].pc \in {"inspect", "finish"} /\ workers[x].pc \in {"inspect", "finish"}
      /\ workers[w].at = workers[x].at => w = x

(* Deletion clears the proposals, and no late result brings them back. *)
DeletedHasNoProposals ==
  \A j \in Jobs : docs[j[1]].state = "deleted" => ~jobs[j].proposals

(* A document that does not exist has no rows; a success keeps its          *)
(* proposals for as long as its document exists, so what succeeded is never *)
(* offered for another attempt.                                             *)
RowsAreWhole ==
  \A j \in Jobs :
    /\ jobs[j].status = "none" => jobs[j].attempt = 1 /\ ~jobs[j].proposals
    /\ docs[j[1]].state = "absent" => jobs[j].status = "none"
    /\ jobs[j].status = "succeeded" /\ docs[j[1]].state # "deleted" => jobs[j].proposals

(* Whoever is at work on a delivery knows which.                            *)
DeliveriesAreKnown ==
  /\ dispatcher.pc \in {"fetch", "advance"} => dispatcher.at # None
  /\ \A w \in Workers : workers[w].pc # "idle" => workers[w].at # None

(* An owner never has more admitted work than the limit, though rows are    *)
(* requeued by the dispatcher and by workers outside intent.                *)
AdmissionIsBounded == Cardinality(ActiveJobs(jobs)) <= MaxActive

(* What holds of the rows, their documents and their workers together.      *)
JobsInv ==
  /\ TypeOK
  /\ RowsAreValid
  /\ RowsAreWhole
  /\ DeliveriesAreKnown
  /\ ActiveIsCurrent
  /\ ClaimIsSpent
  /\ OneExecutor
  /\ DeletedHasNoProposals
  /\ AdmissionIsBounded

(* A job is called stale for a document in use only because an earlier      *)
(* revision was inspected.                                                  *)
StaleMeansEarlier ==
  \A j \in Jobs : jobs[j].status = "stale" /\ docs[j[1]].state = "active"
                    => j[2] < docs[j[1]].current
-----------------------------------------------------------------------------
(* Success and staleness are final but for retirement; and a row that is    *)
(* queued again is queued under a new attempt number.                       *)
OutcomeIsFinal ==
  [][\A j \in Jobs :
       /\ jobs[j].status = "stale" => jobs'[j].status = "stale"
       /\ jobs[j].status = "succeeded" => jobs'[j].status \in {"succeeded", "stale"}
       /\ jobs[j].status \notin {"none", "queued"} /\ jobs'[j].status = "queued"
            => jobs'[j].attempt > jobs[j].attempt]_vars

(* Admitted work ends, whatever was lost or killed on the way. *)
EveryJobEnds == \A j \in Jobs : jobs[j].status \in Active ~> jobs[j].status \notin Active
==============================================================================
