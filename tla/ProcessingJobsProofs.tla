------------------------ MODULE ProcessingJobsProofs ------------------------
(***************************************************************************)
(* JobsInv is inductive for every set of documents and workers and every   *)
(* bound.  Every action changes rows by a few operators; what each of them *)
(* does to a row is proved once (Evolves, Quiet), and the invariants and   *)
(* the action property follow from what all rows do in a step.             *)
(***************************************************************************)
EXTENDS ProcessingJobsProperties, TLAPS, FiniteSetTheorems

Deliveries == Jobs \X Attempts
WorkerType == [pc : {"idle", "claim", "inspect", "finish"},
               at : Deliveries \cup {None}, found : BOOLEAN]
DispatcherType == [pc : {"idle", "row", "fetch", "advance"}, batch : SUBSET Jobs,
                   at : Deliveries \cup {None}]

(* A row that the table accepts. *)
Fine(row) == row \in RowType /\ Valid(row) /\ (row.status = "none" => row.attempt = 1 /\ ~row.proposals)

(* What no step may do to a row: go back to an attempt, revive an outcome.  *)
Evolves(r, s) ==
  /\ Fine(s)
  /\ s.attempt >= r.attempt
  /\ r.status \notin {"none", "queued"} /\ s.status \in {"none", "queued"}
       => s.attempt > r.attempt
  /\ r.status = "stale" => s.status = "stale"
  /\ r.status = "succeeded" => s.status \in {"succeeded", "stale"}

(* Only intent admits work; only finish and copy_intent store proposals.    *)
Quiet(r, s) ==
  /\ Evolves(r, s)
  /\ s.status \in Active => r.status \in Active
  /\ s.proposals = r.proposals \/ (s.proposals = FALSE /\ s.status = "stale")
  /\ s.status = "none" <=> r.status = "none"
  /\ s.status = "succeeded" => r.status = "succeeded"

(* A row that suits its document. *)
Suits(doc, j, row) ==
  /\ Fine(row)
  /\ row.status \in Active => doc.state # "absent" /\ doc.current = j[2]
  /\ doc.state = "absent" => row.status = "none"
  /\ doc.state = "deleted" => row.proposals = FALSE
  /\ row.status = "succeeded" /\ doc.state # "deleted" => row.proposals = TRUE

LEMMA Bounds ==
  /\ 1 \in Versions /\ 1 \in Attempts /\ Budget \in Attempts
  /\ \A a \in Attempts : a \in Int /\ a >= 1 /\ a <= MaxAttempt
  /\ MaxAttempt \in Nat /\ Budget \in Nat /\ Budget >= 1
  /\ \A t \in Deliveries : t # None
  BY JobsAssumptions DEF Versions, Attempts, Deliveries

LEMMA FineFields ==
  ASSUME NEW r, Fine(r)
  PROVE  /\ r \in RowType /\ Valid(r) /\ r.attempt \in Attempts /\ r.budget \in Attempts
         /\ r.attempt \in Int /\ r.budget \in Int
         /\ r.attempt < r.budget => r.attempt + 1 \in Attempts
<1>1. r.attempt \in Attempts /\ r.budget \in Attempts
  BY DEF Fine, RowType
<1>2. QED BY <1>1, Bounds DEF Fine, Attempts

(* A row as intent and copy_intent insert it. *)
LEMMA FreshRow ==
  ASSUME NEW x \in {"none", "queued", "succeeded"}, NEW a \in Attempts, NEW p \in BOOLEAN,
         a + Budget - 1 \in Attempts, NEW s, s = Fresh(x, a, p)
  PROVE  /\ s \in RowType /\ Valid(s)
         /\ s.status = x /\ s.attempt = a /\ s.lease = "none" /\ s.proposals = p
<1>1. s \in RowType
  BY DEF Fresh, RowType
<1>2. s.status = x /\ s.attempt = a /\ s.lease = "none" /\ s.budget = a + Budget - 1
  BY DEF Fresh
<1>3. s.proposals = p
  BY DEF Fresh
<1>4. Valid(s)
  BY <1>2, Bounds DEF Valid
<1>5. QED BY <1>1, <1>2, <1>3, <1>4

LEMMA NoRowFine ==
  /\ Fine(NoRow) /\ NoRow.attempt = 1 /\ NoRow.status = "none" /\ NoRow.lease = "none"
  /\ NoRow.proposals = FALSE
<1>1. PICK s : s = Fresh("none", 1, FALSE)
  OBVIOUS
<1>2. 1 + Budget - 1 \in Attempts
  BY Bounds
<1>3. s \in RowType
  BY <1>1, <1>2, Bounds DEF Fresh, RowType
<1>4. s.status = "none" /\ s.attempt = 1 /\ s.lease = "none" /\ s.proposals = FALSE
      /\ s.budget = 1 + Budget - 1
  BY <1>1 DEF Fresh
<1>5. Valid(s)
  BY <1>4, Bounds DEF Valid
<1>6. QED BY <1>1, <1>3, <1>4, <1>5 DEF NoRow, Fine

(* What an update makes of a row, field by field. *)
Becomes(r, s, status, attempt, lease, proposals) ==
  /\ s \in RowType
  /\ s.status = status /\ s.attempt = attempt /\ s.lease = lease
  /\ s.proposals = proposals /\ s.budget = r.budget

(* The updates of a single row that the actions make. *)
LEMMA Retired ==
  ASSUME NEW r, Fine(r), NEW s, s = [r EXCEPT !.status = "stale", !.lease = "none"]
  PROVE  Becomes(r, s, "stale", r.attempt, "none", r.proposals)
<1>1. r \in RowType
  BY DEF Fine
<1>2. s \in RowType
  BY <1>1 DEF RowType
<1>3. s.status = "stale" /\ s.attempt = r.attempt /\ s.lease = "none" /\ s.budget = r.budget
  BY <1>1 DEF RowType
<1>4. s.proposals = r.proposals
  BY <1>1 DEF RowType
<1>5. QED BY <1>2, <1>3, <1>4 DEF Becomes

LEMMA Pruned ==
  ASSUME NEW r, Fine(r), NEW s, s = [r EXCEPT !.status = "stale", !.lease = "none", !.proposals = FALSE]
  PROVE  Becomes(r, s, "stale", r.attempt, "none", FALSE)
<1>1. r \in RowType
  BY DEF Fine
<1>2. s \in RowType
  BY <1>1 DEF RowType
<1>3. s.status = "stale" /\ s.attempt = r.attempt /\ s.lease = "none" /\ s.budget = r.budget
  BY <1>1 DEF RowType
<1>4. s.proposals = FALSE
  BY <1>1 DEF RowType
<1>5. QED BY <1>2, <1>3, <1>4 DEF Becomes

LEMMA Cleared ==
  ASSUME NEW r, Fine(r), NEW s, s = [r EXCEPT !.proposals = FALSE]
  PROVE  Becomes(r, s, r.status, r.attempt, r.lease, FALSE)
<1>1. r \in RowType
  BY DEF Fine
<1>2. s \in RowType
  BY <1>1 DEF RowType
<1>3. s.status = r.status /\ s.attempt = r.attempt /\ s.lease = r.lease /\ s.budget = r.budget
  BY <1>1 DEF RowType
<1>4. s.proposals = FALSE
  BY <1>1 DEF RowType
<1>5. QED BY <1>2, <1>3, <1>4 DEF Becomes

LEMMA LeaseEnded ==
  ASSUME NEW r, Fine(r), NEW s, s = [r EXCEPT !.lease = "expired"]
  PROVE  Becomes(r, s, r.status, r.attempt, "expired", r.proposals)
<1>1. r \in RowType
  BY DEF Fine
<1>2. s \in RowType
  BY <1>1 DEF RowType
<1>3. s.status = r.status /\ s.attempt = r.attempt /\ s.lease = "expired" /\ s.budget = r.budget
  BY <1>1 DEF RowType
<1>4. s.proposals = r.proposals
  BY <1>1 DEF RowType
<1>5. QED BY <1>2, <1>3, <1>4 DEF Becomes

LEMMA Claimed ==
  ASSUME NEW r, Fine(r), NEW s, s = [r EXCEPT !.status = "running", !.lease = "live"]
  PROVE  Becomes(r, s, "running", r.attempt, "live", r.proposals)
<1>1. r \in RowType
  BY DEF Fine
<1>2. s \in RowType
  BY <1>1 DEF RowType
<1>3. s.status = "running" /\ s.attempt = r.attempt /\ s.lease = "live" /\ s.budget = r.budget
  BY <1>1 DEF RowType
<1>4. s.proposals = r.proposals
  BY <1>1 DEF RowType
<1>5. QED BY <1>2, <1>3, <1>4 DEF Becomes

LEMMA GivenUp ==
  ASSUME NEW r, Fine(r), NEW s, s = [r EXCEPT !.status = "failed", !.lease = "none"]
  PROVE  Becomes(r, s, "failed", r.attempt, "none", r.proposals)
<1>1. r \in RowType
  BY DEF Fine
<1>2. s \in RowType
  BY <1>1 DEF RowType
<1>3. s.status = "failed" /\ s.attempt = r.attempt /\ s.lease = "none" /\ s.budget = r.budget
  BY <1>1 DEF RowType
<1>4. s.proposals = r.proposals
  BY <1>1 DEF RowType
<1>5. QED BY <1>2, <1>3, <1>4 DEF Becomes

LEMMA Requeued ==
  ASSUME NEW r, Fine(r),
         r.attempt < r.budget, NEW s, s = [r EXCEPT !.status = "queued", !.attempt = @ + 1, !.lease = "none"]
  PROVE  Becomes(r, s, "queued", r.attempt + 1, "none", r.proposals)
<1>1. r \in RowType /\ r.attempt + 1 \in Attempts
  BY FineFields DEF Fine
<1>2. s \in RowType
  BY <1>1 DEF RowType
<1>3. s.status = "queued" /\ s.attempt = r.attempt + 1 /\ s.lease = "none" /\ s.budget = r.budget
  BY <1>1 DEF RowType
<1>4. s.proposals = r.proposals
  BY <1>1 DEF RowType
<1>5. QED BY <1>2, <1>3, <1>4 DEF Becomes

LEMMA Renumbered ==
  ASSUME NEW r, Fine(r),
         r.attempt < r.budget, NEW s, s = [r EXCEPT !.attempt = @ + 1]
  PROVE  Becomes(r, s, r.status, r.attempt + 1, r.lease, r.proposals)
<1>1. r \in RowType /\ r.attempt + 1 \in Attempts
  BY FineFields DEF Fine
<1>2. s \in RowType
  BY <1>1 DEF RowType
<1>3. s.status = r.status /\ s.attempt = r.attempt + 1 /\ s.lease = r.lease /\ s.budget = r.budget
  BY <1>1 DEF RowType
<1>4. s.proposals = r.proposals
  BY <1>1 DEF RowType
<1>5. QED BY <1>2, <1>3, <1>4 DEF Becomes

LEMMA Abandoned ==
  ASSUME NEW r, Fine(r), NEW s, s = [r EXCEPT !.status = "failed"]
  PROVE  Becomes(r, s, "failed", r.attempt, r.lease, r.proposals)
<1>1. r \in RowType
  BY DEF Fine
<1>2. s \in RowType
  BY <1>1 DEF RowType
<1>3. s.status = "failed" /\ s.attempt = r.attempt /\ s.lease = r.lease /\ s.budget = r.budget
  BY <1>1 DEF RowType
<1>4. s.proposals = r.proposals
  BY <1>1 DEF RowType
<1>5. QED BY <1>2, <1>3, <1>4 DEF Becomes

-----------------------------------------------------------------------------
LEMMA SameQuiet == ASSUME NEW r, Fine(r) PROVE Quiet(r, r)
  BY FineFields DEF Quiet, Evolves

LEMMA RetiredQuiet ==
  ASSUME NEW r, Fine(r), r.status # "none"
  PROVE  Quiet(r, [r EXCEPT !.status = "stale", !.lease = "none"])
<1>1. PICK s : s = [r EXCEPT !.status = "stale", !.lease = "none"]
  OBVIOUS
<1>2. Becomes(r, s, "stale", r.attempt, "none", r.proposals)
  BY <1>1, Retired
<1>3. r.proposals \in BOOLEAN /\ r.attempt <= r.budget
      /\ (r.status = "running" <=> r.lease # "none")
  BY DEF Fine, RowType, Valid
<1>4. Evolves(r, s)
  BY <1>2, <1>3, FineFields, Bounds DEF Becomes, Evolves, Fine, Valid
<1>5. Quiet(r, s)
  BY <1>2, <1>4 DEF Quiet, Becomes, Active
<1>6. QED BY <1>1, <1>5

LEMMA PrunedQuiet ==
  ASSUME NEW r, Fine(r), r.status # "none"
  PROVE  Quiet(r, [r EXCEPT !.status = "stale", !.lease = "none", !.proposals = FALSE])
<1>1. PICK s : s = [r EXCEPT !.status = "stale", !.lease = "none", !.proposals = FALSE]
  OBVIOUS
<1>2. Becomes(r, s, "stale", r.attempt, "none", FALSE)
  BY <1>1, Pruned
<1>3. r.proposals \in BOOLEAN /\ r.attempt <= r.budget
      /\ (r.status = "running" <=> r.lease # "none")
  BY DEF Fine, RowType, Valid
<1>4. Evolves(r, s)
  BY <1>2, <1>3, FineFields, Bounds DEF Becomes, Evolves, Fine, Valid
<1>5. Quiet(r, s)
  BY <1>2, <1>4 DEF Quiet, Becomes, Active
<1>6. QED BY <1>1, <1>5

LEMMA LeaseEndedQuiet ==
  ASSUME NEW r, Fine(r), r.lease = "live", r.status = "running"
  PROVE  Quiet(r, [r EXCEPT !.lease = "expired"])
<1>1. PICK s : s = [r EXCEPT !.lease = "expired"]
  OBVIOUS
<1>2. Becomes(r, s, r.status, r.attempt, "expired", r.proposals)
  BY <1>1, LeaseEnded
<1>3. r.proposals \in BOOLEAN /\ r.attempt <= r.budget
      /\ (r.status = "running" <=> r.lease # "none")
  BY DEF Fine, RowType, Valid
<1>4. Evolves(r, s)
  BY <1>2, <1>3, FineFields, Bounds DEF Becomes, Evolves, Fine, Valid
<1>5. Quiet(r, s)
  BY <1>2, <1>4 DEF Quiet, Becomes, Active
<1>6. QED BY <1>1, <1>5

LEMMA ClaimedQuiet ==
  ASSUME NEW r, Fine(r), r.status = "queued"
  PROVE  Quiet(r, [r EXCEPT !.status = "running", !.lease = "live"])
<1>1. PICK s : s = [r EXCEPT !.status = "running", !.lease = "live"]
  OBVIOUS
<1>2. Becomes(r, s, "running", r.attempt, "live", r.proposals)
  BY <1>1, Claimed
<1>3. r.proposals \in BOOLEAN /\ r.attempt <= r.budget
      /\ (r.status = "running" <=> r.lease # "none")
  BY DEF Fine, RowType, Valid
<1>4. Evolves(r, s)
  BY <1>2, <1>3, FineFields, Bounds DEF Becomes, Evolves, Fine, Valid
<1>5. Quiet(r, s)
  BY <1>2, <1>4 DEF Quiet, Becomes, Active
<1>6. QED BY <1>1, <1>5

LEMMA GivenUpQuiet ==
  ASSUME NEW r, Fine(r), r.status = "running"
  PROVE  Quiet(r, [r EXCEPT !.status = "failed", !.lease = "none"])
<1>1. PICK s : s = [r EXCEPT !.status = "failed", !.lease = "none"]
  OBVIOUS
<1>2. Becomes(r, s, "failed", r.attempt, "none", r.proposals)
  BY <1>1, GivenUp
<1>3. r.proposals \in BOOLEAN /\ r.attempt <= r.budget
      /\ (r.status = "running" <=> r.lease # "none")
  BY DEF Fine, RowType, Valid
<1>4. Evolves(r, s)
  BY <1>2, <1>3, FineFields, Bounds DEF Becomes, Evolves, Fine, Valid
<1>5. Quiet(r, s)
  BY <1>2, <1>4 DEF Quiet, Becomes, Active
<1>6. QED BY <1>1, <1>5

LEMMA RequeuedQuiet ==
  ASSUME NEW r, Fine(r), r.status = "running", r.attempt < r.budget
  PROVE  Quiet(r, [r EXCEPT !.status = "queued", !.attempt = @ + 1, !.lease = "none"])
<1>1. PICK s : s = [r EXCEPT !.status = "queued", !.attempt = @ + 1, !.lease = "none"]
  OBVIOUS
<1>2. Becomes(r, s, "queued", r.attempt + 1, "none", r.proposals)
  BY <1>1, Requeued
<1>3. r.proposals \in BOOLEAN /\ r.attempt <= r.budget
      /\ (r.status = "running" <=> r.lease # "none")
  BY DEF Fine, RowType, Valid
<1>4. Evolves(r, s)
  BY <1>2, <1>3, FineFields, Bounds DEF Becomes, Evolves, Fine, Valid
<1>5. Quiet(r, s)
  BY <1>2, <1>4 DEF Quiet, Becomes, Active
<1>6. QED BY <1>1, <1>5

LEMMA RenumberedQuiet ==
  ASSUME NEW r, Fine(r), r.status = "queued", r.attempt < r.budget
  PROVE  Quiet(r, [r EXCEPT !.attempt = @ + 1])
<1>1. PICK s : s = [r EXCEPT !.attempt = @ + 1]
  OBVIOUS
<1>2. Becomes(r, s, r.status, r.attempt + 1, r.lease, r.proposals)
  BY <1>1, Renumbered
<1>3. r.proposals \in BOOLEAN /\ r.attempt <= r.budget
      /\ (r.status = "running" <=> r.lease # "none")
  BY DEF Fine, RowType, Valid
<1>4. Evolves(r, s)
  BY <1>2, <1>3, FineFields, Bounds DEF Becomes, Evolves, Fine, Valid
<1>5. Quiet(r, s)
  BY <1>2, <1>4 DEF Quiet, Becomes, Active
<1>6. QED BY <1>1, <1>5

LEMMA AbandonedQuiet ==
  ASSUME NEW r, Fine(r), r.status = "queued"
  PROVE  Quiet(r, [r EXCEPT !.status = "failed"])
<1>1. PICK s : s = [r EXCEPT !.status = "failed"]
  OBVIOUS
<1>2. Becomes(r, s, "failed", r.attempt, r.lease, r.proposals)
  BY <1>1, Abandoned
<1>3. r.proposals \in BOOLEAN /\ r.attempt <= r.budget
      /\ (r.status = "running" <=> r.lease # "none")
  BY DEF Fine, RowType, Valid
<1>4. Evolves(r, s)
  BY <1>2, <1>3, FineFields, Bounds DEF Becomes, Evolves, Fine, Valid
<1>5. Quiet(r, s)
  BY <1>2, <1>4 DEF Quiet, Becomes, Active
<1>6. QED BY <1>1, <1>5

LEMMA ClearedEvolves ==
  ASSUME NEW r, Fine(r)
  PROVE  LET s == [r EXCEPT !.proposals = FALSE] IN
         Evolves(r, s) /\ s.status = r.status /\ s.proposals = FALSE
<1>1. PICK s : s = [r EXCEPT !.proposals = FALSE]
  OBVIOUS
<1>2. Becomes(r, s, r.status, r.attempt, r.lease, FALSE)
  BY <1>1, Cleared
<1>3. r.attempt \in Int /\ s.proposals = FALSE
  BY <1>2, FineFields DEF Becomes
<1>4. Fine(s)
  BY <1>2, <1>3 DEF Fine, Becomes, Valid
<1>5. Evolves(r, s)
  BY <1>2, <1>3, <1>4 DEF Evolves, Becomes
<1>6. QED BY <1>1, <1>2, <1>5 DEF Becomes

LEMMA ReclaimedQuiet == ASSUME NEW r, Fine(r) PROVE Quiet(r, Reclaimed(r))
<1>1. r.attempt \in Int /\ r.budget \in Int
  BY FineFields
<1>2. CASE ~Expired(r)
  BY <1>2, SameQuiet DEF Reclaimed
<1>3. CASE Expired(r) /\ r.attempt >= r.budget
  BY <1>3, GivenUpQuiet DEF Reclaimed, Expired
<1>4. CASE Expired(r) /\ r.attempt < r.budget
  <2>1. Reclaimed(r) = [r EXCEPT !.status = "queued", !.attempt = @ + 1, !.lease = "none"]
    BY <1>1, <1>4 DEF Reclaimed
  <2>2. QED BY <1>4, <2>1, RequeuedQuiet DEF Expired
<1>5. QED BY <1>1, <1>2, <1>3, <1>4

LEMMA AdvancedQuiet ==
  ASSUME NEW r, Fine(r), r.status = "queued" PROVE Quiet(r, Advanced(r))
  BY RenumberedQuiet, AbandonedQuiet DEF Advanced

(* What finish makes of a row, in the four outcomes it distinguishes. *)
LEMMA FinishedFields ==
  ASSUME NEW r, Fine(r), r.status = "running", NEW live \in BOOLEAN, NEW found \in BOOLEAN,
         NEW s, s = Finished(r, live, found)
  PROVE  \/ ~live /\ Becomes(r, s, "stale", r.attempt, "none", r.proposals)
         \/ live /\ Becomes(r, s, "succeeded", r.attempt, "none", TRUE)
         \/ live /\ r.attempt < r.budget
            /\ Becomes(r, s, "queued", r.attempt + 1, "none", r.proposals)
         \/ live /\ Becomes(r, s, "failed", r.attempt, "none", r.proposals)
<1>1. r \in RowType
  BY DEF Fine
<1>2. r.attempt < r.budget => r.attempt + 1 \in Attempts
  BY FineFields
<1>3. r.proposals \in BOOLEAN /\ r.attempt \in Attempts
  BY <1>1 DEF RowType
<1>4. s \in RowType
  BY <1>1, <1>2, <1>3 DEF RowType, Finished
<1>5. s.lease = "none" /\ s.budget = r.budget
  BY <1>1 DEF RowType, Finished
<1>6. s.status = IF ~live THEN "stale"
                 ELSE IF found THEN "succeeded"
                 ELSE IF r.attempt < r.budget THEN "queued" ELSE "failed"
  BY <1>1 DEF RowType, Finished
<1>7. s.attempt = IF live /\ ~found /\ r.attempt < r.budget THEN r.attempt + 1 ELSE r.attempt
  BY <1>1 DEF RowType, Finished
<1>8. s.proposals = (r.proposals \/ (live /\ found))
  BY <1>1 DEF RowType, Finished
<1>9. CASE ~live
  BY <1>3, <1>4, <1>5, <1>6, <1>7, <1>8, <1>9 DEF Becomes
<1>10. CASE live /\ found
  BY <1>3, <1>4, <1>5, <1>6, <1>7, <1>8, <1>10 DEF Becomes
<1>11. CASE live /\ ~found
  <2>1. s.proposals = r.proposals
    BY <1>3, <1>8, <1>11
  <2>2. CASE r.attempt < r.budget
    BY <1>4, <1>5, <1>6, <1>7, <1>11, <2>1, <2>2 DEF Becomes
  <2>3. CASE ~(r.attempt < r.budget)
    BY <1>4, <1>5, <1>6, <1>7, <1>11, <2>1, <2>3 DEF Becomes
  <2>4. QED BY <2>2, <2>3
<1>12. QED BY <1>9, <1>10, <1>11

LEMMA FinishedEvolves ==
  ASSUME NEW r, Fine(r), r.status = "running", NEW live \in BOOLEAN, NEW found \in BOOLEAN,
         NEW s, s = Finished(r, live, found)
  PROVE  /\ Evolves(r, s)
         /\ s.status # "none"
         /\ s.proposals = r.proposals \/ live
         /\ s.status = "succeeded" => live /\ s.proposals = TRUE
<1>1. r.proposals \in BOOLEAN /\ r.attempt <= r.budget /\ r.attempt \in Attempts
      /\ r.attempt \in Int /\ (r.attempt < r.budget => r.attempt + 1 \in Attempts)
      /\ r.budget \in Int
  BY FineFields DEF Fine, RowType, Valid
<1>2. ASSUME Becomes(r, s, "stale", r.attempt, "none", r.proposals) PROVE Evolves(r, s)
  BY <1>1, <1>2, Bounds DEF Becomes, Evolves, Fine, Valid
<1>3. ASSUME Becomes(r, s, "succeeded", r.attempt, "none", TRUE) PROVE Evolves(r, s)
  BY <1>1, <1>3, Bounds DEF Becomes, Evolves, Fine, Valid
<1>4. ASSUME r.attempt < r.budget,
             Becomes(r, s, "queued", r.attempt + 1, "none", r.proposals)
      PROVE  Evolves(r, s)
  BY <1>1, <1>4, Bounds DEF Becomes, Evolves, Fine, Valid
<1>5. ASSUME Becomes(r, s, "failed", r.attempt, "none", r.proposals) PROVE Evolves(r, s)
  BY <1>1, <1>5, Bounds DEF Becomes, Evolves, Fine, Valid
<1>6. Evolves(r, s)
  BY <1>2, <1>3, <1>4, <1>5, FinishedFields
<1>7. s.status # "none"
  BY FinishedFields DEF Becomes
<1>8. ASSUME s.status = "succeeded" PROVE live /\ s.proposals = TRUE
  <2>1. /\ ~Becomes(r, s, "stale", r.attempt, "none", r.proposals)
        /\ ~Becomes(r, s, "queued", r.attempt + 1, "none", r.proposals)
        /\ ~Becomes(r, s, "failed", r.attempt, "none", r.proposals)
    BY <1>8 DEF Becomes
  <2>2. live /\ Becomes(r, s, "succeeded", r.attempt, "none", TRUE)
    BY <2>1, FinishedFields
  <2>3. QED BY <2>2 DEF Becomes
<1>9. s.proposals = r.proposals \/ live
  <2>1. CASE live
    BY <2>1
  <2>2. CASE ~live
    <3>1. Becomes(r, s, "stale", r.attempt, "none", r.proposals)
      BY <2>2, FinishedFields
    <3>2. QED BY <3>1 DEF Becomes
  <2>3. QED BY <2>1, <2>2
<1>10. QED BY <1>6, <1>7, <1>8, <1>9

LEMMA AdmittedEvolves ==
  ASSUME NEW r, Fine(r), r.status \in {"none", "failed"}, NEW s, s = Admitted(r),
         s.budget <= MaxAttempt
  PROVE  Evolves(r, s) /\ s.status = "queued" /\ s.proposals = FALSE
<1>1. PICK a : a = IF r.status = "none" THEN 1 ELSE r.attempt + 1
  OBVIOUS
<1>2. s = Fresh("queued", a, FALSE)
  BY <1>1 DEF Admitted
<1>3. a \in Int /\ a >= 1 /\ a >= r.attempt /\ (r.status = "failed" => a > r.attempt)
  BY <1>1, FineFields, Bounds DEF Fine
<1>4. a + Budget - 1 <= MaxAttempt
  BY <1>2 DEF Fresh
<1>5. a \in Attempts /\ a + Budget - 1 \in Attempts
  BY <1>3, <1>4, Bounds DEF Attempts
<1>6. /\ s \in RowType /\ Valid(s)
      /\ s.status = "queued" /\ s.attempt = a /\ s.lease = "none" /\ s.proposals = FALSE
  <2>1. \A x \in {"none", "queued", "succeeded"}, p \in BOOLEAN :
          s = Fresh(x, a, p) =>
            /\ s \in RowType /\ Valid(s)
            /\ s.status = x /\ s.attempt = a /\ s.lease = "none" /\ s.proposals = p
    BY <1>5, FreshRow
  <2>2. QED BY <1>2, <2>1
<1>7. QED BY <1>3, <1>6 DEF Evolves, Fine
-----------------------------------------------------------------------------
LEMMA QuietSuits ==
  ASSUME NEW doc, NEW j, NEW r, NEW s, Suits(doc, j, r), Quiet(r, s)
  PROVE  Suits(doc, j, s)
<1>1. Fine(s)
  BY DEF Quiet, Evolves
<1>2. s.status \in Active => doc.state # "absent" /\ doc.current = j[2]
  BY DEF Quiet, Suits
<1>3. doc.state = "absent" => s.status = "none"
  BY DEF Quiet, Suits
<1>4. doc.state = "deleted" => s.proposals = FALSE
  BY DEF Quiet, Suits
<1>5. s.status = "succeeded" /\ doc.state # "deleted" => s.proposals = TRUE
  BY DEF Quiet, Suits
<1>6. QED BY <1>1, <1>2, <1>3, <1>4, <1>5 DEF Suits

RowsKeep ==
  /\ jobs' \in [Jobs -> RowType]
  /\ \A j \in Jobs : Evolves(jobs[j], jobs'[j]) /\ Suits(docs'[j[1]], j, jobs'[j])

(* Either no row becomes active, or one does, under the limit.              *)
Admits ==
  \/ \A i \in Jobs : jobs'[i].status \in Active => jobs[i].status \in Active
  \/ \E j \in Jobs, S \in SUBSET ActiveJobs(jobs) :
       /\ Cardinality(S) < MaxActive
       /\ \A i \in Jobs : jobs'[i].status \in Active => i \in S \cup {j}

LEMMA JobsTyped ==
  ASSUME JobsInv
  PROVE  /\ jobs \in [Jobs -> RowType]
         /\ \A j \in Jobs : Fine(jobs[j]) /\ Suits(docs[j[1]], j, jobs[j])
         /\ \A j \in Jobs : j[1] \in Docs /\ j[2] \in Versions /\ j = <<j[1], j[2]>>
<1>1. jobs \in [Jobs -> RowType]
  BY DEF JobsInv, TypeOK
<1>2. ASSUME NEW j \in Jobs PROVE Fine(jobs[j])
  BY <1>1 DEF JobsInv, RowsAreValid, RowsAreWhole, Fine
<1>3. ASSUME NEW j \in Jobs
      PROVE  /\ docs[j[1]].state = "deleted" => jobs[j].proposals = FALSE
             /\ jobs[j].status = "succeeded" /\ docs[j[1]].state # "deleted"
                  => jobs[j].proposals = TRUE
  <2>1. jobs[j].proposals \in BOOLEAN
    BY <1>1 DEF RowType
  <2>2. QED BY <2>1 DEF JobsInv, RowsAreWhole, DeletedHasNoProposals
<1>4. ASSUME NEW j \in Jobs PROVE Suits(docs[j[1]], j, jobs[j])
  BY <1>2, <1>3 DEF Suits, JobsInv, RowsAreWhole, ActiveIsCurrent
<1>5. QED BY <1>1, <1>2, <1>4 DEF Jobs

(* A step that changes one row quietly. *)
LEMMA OneRow ==
  ASSUME JobsInv, UNCHANGED docs, NEW j \in Jobs, NEW s, Quiet(jobs[j], s),
         jobs' = [jobs EXCEPT ![j] = s]
  PROVE  RowsKeep /\ Admits
<1>1. s \in RowType
  BY DEF Quiet, Evolves, Fine
<1>2. jobs' \in [Jobs -> RowType]
  BY <1>1, JobsTyped
<1>3. jobs'[j] = s /\ \A i \in Jobs : i # j => jobs'[i] = jobs[i]
  BY JobsTyped
<1>4. ASSUME NEW i \in Jobs PROVE Quiet(jobs[i], jobs'[i])
  BY <1>3, JobsTyped, SameQuiet
<1>5. ASSUME NEW i \in Jobs PROVE Suits(docs'[i[1]], i, jobs'[i])
  BY <1>4, JobsTyped, QuietSuits
<1>6. Admits
  BY <1>4 DEF Quiet, Admits
<1>7. QED BY <1>2, <1>4, <1>5, <1>6 DEF RowsKeep, Quiet

(* A step that changes no row, and of no document more than its trash.      *)
LEMMA NoRows ==
  ASSUME JobsInv, UNCHANGED jobs,
         \A d \in Docs : \/ docs'[d] = docs[d]
                         \/ /\ docs'[d].current = docs[d].current
                            /\ docs[d].state \notin {"absent", "deleted"}
                            /\ docs'[d].state \notin {"absent", "deleted"}
  PROVE  RowsKeep /\ Admits
<1>1. jobs' \in [Jobs -> RowType]
  BY JobsTyped
<1>2. ASSUME NEW i \in Jobs PROVE Evolves(jobs[i], jobs'[i])
  BY JobsTyped, SameQuiet DEF Quiet
<1>3. ASSUME NEW i \in Jobs PROVE Suits(docs'[i[1]], i, jobs'[i])
  <2>1. Suits(docs[i[1]], i, jobs[i]) /\ i[1] \in Docs
    BY JobsTyped
  <2>2. QED BY <2>1 DEF Suits
<1>4. Admits
  BY DEF Admits
<1>5. QED BY <1>1, <1>2, <1>3, <1>4 DEF RowsKeep
-----------------------------------------------------------------------------
(* intent, over the rows its transaction sees, for the current revision of  *)
(* a document in use.                                                       *)
LEMMA IntentKeeps ==
  ASSUME NEW rows \in [Jobs -> RowType], NEW j \in Jobs, Intent(rows, j),
         \A i \in Jobs : Evolves(jobs[i], rows[i]) /\ Suits(docs'[i[1]], i, rows[i]),
         docs'[j[1]].state = "active", docs'[j[1]].current = j[2], rows[j] = jobs[j],
         \A i \in Jobs : rows[i].status \in Active => jobs[i].status \in Active
  PROVE  RowsKeep /\ Admits
<1>1. CASE jobs' = rows
  BY <1>1 DEF RowsKeep, Admits
<1>2. CASE ~Settled(rows[j]) /\ Admitted(rows[j]).budget <= MaxAttempt
           /\ Cardinality(ActiveJobs(rows)) < MaxActive
           /\ jobs' = [rows EXCEPT ![j] = Admitted(rows[j])]
  <2>1. PICK s : s = Admitted(rows[j])
    OBVIOUS
  <2>2. Fine(rows[j]) /\ Suits(docs'[j[1]], j, rows[j])
    BY DEF Evolves
  <2>3. rows[j].status \in {"none", "failed"}
    BY <1>2, <2>2 DEF Settled, Suits, RowType
  <2>4. Evolves(rows[j], s) /\ s.status = "queued" /\ s.proposals = FALSE
    BY <1>2, <2>1, <2>2, <2>3, AdmittedEvolves
  <2>5. s \in RowType /\ Suits(docs'[j[1]], j, s)
    BY <2>4 DEF Evolves, Fine, Suits
  <2>6. jobs' \in [Jobs -> RowType] /\ jobs'[j] = s
        /\ \A i \in Jobs : i # j => jobs'[i] = rows[i]
    BY <1>2, <2>1, <2>5
  <2>7. Admits
    <3>1. PICK S : S = ActiveJobs(rows)
      OBVIOUS
    <3>2. S \in SUBSET ActiveJobs(jobs) /\ Cardinality(S) < MaxActive
      BY <1>2, <3>1 DEF ActiveJobs
    <3>3. \A i \in Jobs : jobs'[i].status \in Active => i \in S \cup {j}
      BY <2>6, <3>1 DEF ActiveJobs
    <3>4. QED BY <3>2, <3>3 DEF Admits
  <2>8. QED BY <2>4, <2>5, <2>6, <2>7 DEF RowsKeep
<1>3. QED BY <1>1, <1>2 DEF Intent

LEMMA CurrentTyped ==
  ASSUME JobsInv, NEW d \in Docs
  PROVE  /\ docs[d].current \in Versions /\ Current(d) \in Jobs
         /\ Current(d)[1] = d /\ Current(d)[2] = docs[d].current
  BY DEF JobsInv, TypeOK, Current, Jobs

LEMMA DocChanged ==
  ASSUME JobsInv, NEW d \in Docs, NEW x \in {"absent", "active", "trashed", "deleted"},
         docs' = [docs EXCEPT ![d].state = x]
  PROVE  /\ docs'[d].state = x /\ docs'[d].current = docs[d].current
         /\ \A e \in Docs : e # d => docs'[e] = docs[e]
  BY DEF JobsInv, TypeOK

LEMMA SubmitKeeps == ASSUME JobsInv, NEW d \in Docs, Submit(d) PROVE RowsKeep /\ Admits
<1>1. \A i \in Jobs : Evolves(jobs[i], jobs[i]) /\ Suits(docs'[i[1]], i, jobs[i])
  BY JobsTyped, SameQuiet DEF Submit, Quiet
<1>2. docs'[d].state = "active" /\ docs' = docs
  BY DEF Submit
<1>3. QED BY <1>1, <1>2, JobsTyped, CurrentTyped, IntentKeeps DEF Submit

LEMMA UploadKeeps == ASSUME JobsInv, NEW d \in Docs, Upload(d) PROVE RowsKeep /\ Admits
<1>1. /\ docs'[d].state = "active" /\ docs'[d].current = docs[d].current
      /\ \A e \in Docs : e # d => docs'[e] = docs[e]
  BY DocChanged DEF Upload
<1>2. ASSUME NEW i \in Jobs
      PROVE  Evolves(jobs[i], jobs[i]) /\ Suits(docs'[i[1]], i, jobs[i])
  <2>1. Fine(jobs[i]) /\ Suits(docs[i[1]], i, jobs[i]) /\ i[1] \in Docs
    BY JobsTyped
  <2>2. Evolves(jobs[i], jobs[i])
    BY <2>1, SameQuiet DEF Quiet
  <2>3. i[1] = d => jobs[i].status = "none"
    BY <2>1 DEF Suits, Upload
  <2>4. Suits(docs'[i[1]], i, jobs[i])
    BY <1>1, <2>1, <2>3 DEF Suits, Active
  <2>5. QED BY <2>2, <2>4
<1>3. Intent(jobs, Current(d))
  BY DEF Upload
<1>4. QED BY <1>1, <1>2, <1>3, JobsTyped, CurrentTyped, IntentKeeps

LEMMA CopyKeeps == ASSUME JobsInv, NEW d \in Docs, NEW e \in Docs, Copy(d, e) PROVE RowsKeep /\ Admits
<1>1. /\ docs'[d].state = "active" /\ docs'[d].current = docs[d].current
      /\ \A x \in Docs : x # d => docs'[x] = docs[x]
  BY DocChanged DEF Copy
<1>2. ASSUME NEW i \in Jobs
      PROVE  /\ Evolves(jobs[i], jobs[i]) /\ Suits(docs'[i[1]], i, jobs[i])
             /\ i[1] = d => jobs[i].status = "none" /\ jobs[i].attempt = 1
  <2>1. Fine(jobs[i]) /\ Suits(docs[i[1]], i, jobs[i]) /\ i[1] \in Docs
    BY JobsTyped
  <2>2. Evolves(jobs[i], jobs[i])
    BY <2>1, SameQuiet DEF Quiet
  <2>3. i[1] = d => jobs[i].status = "none" /\ jobs[i].attempt = 1
    BY <2>1 DEF Suits, Copy, Fine
  <2>4. Suits(docs'[i[1]], i, jobs[i])
    BY <1>1, <2>1, <2>3 DEF Suits, Active
  <2>5. QED BY <2>2, <2>3, <2>4
<1>3. CASE Intent(jobs, Current(d))
  BY <1>1, <1>2, <1>3, JobsTyped, CurrentTyped, IntentKeeps
<1>4. CASE jobs' = [jobs EXCEPT ![Current(d)] = Fresh("succeeded", 1, TRUE)]
  <2>1. PICK s : s = Fresh("succeeded", 1, TRUE)
    OBVIOUS
  <2>2. PICK j \in Jobs : j = Current(d)
    BY CurrentTyped
  <2>3. /\ s \in RowType /\ Valid(s) /\ s.status = "succeeded" /\ s.attempt = 1
        /\ s.proposals = TRUE
    <3>1. 1 + Budget - 1 \in Attempts /\ 1 \in Attempts
      BY Bounds
    <3>2. s \in RowType
      BY <2>1, <3>1 DEF Fresh, RowType
    <3>3. /\ s.status = "succeeded" /\ s.attempt = 1 /\ s.lease = "none"
          /\ s.proposals = TRUE /\ s.budget = 1 + Budget - 1
      BY <2>1 DEF Fresh
    <3>4. Valid(s)
      BY <3>3, Bounds DEF Valid
    <3>5. QED BY <3>2, <3>3, <3>4
  <2>4. j[1] = d /\ jobs[j].status = "none" /\ jobs[j].attempt = 1
    BY <1>2, <2>2, CurrentTyped
  <2>5. Evolves(jobs[j], s) /\ Suits(docs'[j[1]], j, s)
    BY <1>1, <2>3, <2>4 DEF Evolves, Fine, Suits, Active
  <2>6. /\ jobs' \in [Jobs -> RowType] /\ jobs'[j] = s
        /\ \A i \in Jobs : i # j => jobs'[i] = jobs[i]
    BY <1>4, <2>1, <2>2, <2>3, JobsTyped
  <2>7. Admits
    BY <2>3, <2>6 DEF Admits, Active
  <2>8. QED BY <1>2, <2>5, <2>6, <2>7 DEF RowsKeep
<1>5. QED BY <1>3, <1>4 DEF Copy

LEMMA SaveKeeps == ASSUME JobsInv, NEW d \in Docs, Save(d) PROVE RowsKeep /\ Admits
<1>1. PICK v : v = docs[d].current + 1
  OBVIOUS
<1>2. /\ v \in Versions /\ docs[d].state = "active" /\ v # docs[d].current
      /\ docs' = [docs EXCEPT ![d].current = v]
  BY <1>1, CurrentTyped DEF Save, Versions
<1>3. /\ docs'[d].state = "active" /\ docs'[d].current = v
      /\ \A e \in Docs : e # d => docs'[e] = docs[e]
  BY <1>2 DEF JobsInv, TypeOK
<1>4. PICK j \in Jobs : j = <<d, v>>
  BY <1>2 DEF Jobs
<1>5. PICK rows : rows = Supersede(d)
  OBVIOUS
<1>6. ASSUME NEW i \in Jobs
      PROVE  /\ Quiet(jobs[i], rows[i]) /\ rows[i] \in RowType
             /\ i[1] = d => rows[i].status \notin Active
             /\ i[1] # d => rows[i] = jobs[i]
             /\ jobs[i].status \notin Active => rows[i] = jobs[i]
  <2>1. Fine(jobs[i])
    BY JobsTyped
  <2>2. CASE i[1] = d /\ jobs[i].status \in Active
    <3>1. rows[i] = [jobs[i] EXCEPT !.status = "stale", !.lease = "none"]
      BY <1>5, <2>2 DEF Supersede
    <3>2. Quiet(jobs[i], rows[i])
      BY <2>1, <2>2, <3>1, RetiredQuiet DEF Active
    <3>3. rows[i].status = "stale"
      BY <2>1, <3>1, Retired DEF Becomes
    <3>4. QED BY <2>2, <3>2, <3>3 DEF Active, Quiet, Evolves, Fine
  <2>3. CASE ~(i[1] = d /\ jobs[i].status \in Active)
    <3>1. rows[i] = jobs[i]
      BY <1>5, <2>3 DEF Supersede
    <3>2. QED BY <2>1, <2>3, <3>1, SameQuiet DEF Fine
  <2>4. QED BY <2>2, <2>3
<1>7. rows \in [Jobs -> RowType]
  <2>1. rows = [i \in Jobs |-> rows[i]]
    BY <1>5 DEF Supersede
  <2>2. QED BY <1>6, <2>1
<1>8. ASSUME NEW i \in Jobs
      PROVE  Evolves(jobs[i], rows[i]) /\ Suits(docs'[i[1]], i, rows[i])
  <2>1. Suits(docs[i[1]], i, rows[i]) /\ i[1] \in Docs
    BY <1>6, JobsTyped, QuietSuits
  <2>2. Suits(docs'[i[1]], i, rows[i])
    BY <1>2, <1>3, <1>6, <2>1 DEF Suits
  <2>3. QED BY <1>6, <2>2 DEF Quiet
<1>9. jobs[j].status \notin Active
  BY <1>2, <1>4, JobsTyped DEF Suits
<1>10. Intent(rows, j) /\ j[1] = d /\ j[2] = v
  BY <1>1, <1>4, <1>5 DEF Save
<1>11. \A i \in Jobs : rows[i].status \in Active => jobs[i].status \in Active
  BY <1>6 DEF Quiet
<1>12. QED BY <1>3, <1>6, <1>7, <1>8, <1>9, <1>10, <1>11, IntentKeeps

LEMMA TrashKeeps == ASSUME JobsInv, NEW d \in Docs, Trash(d) \/ Untrash(d) PROVE RowsKeep /\ Admits
<1>1. PICK x \in {"active", "trashed"} : docs' = [docs EXCEPT ![d].state = x]
  BY DEF Trash, Untrash
<1>2. /\ docs'[d].state = x /\ docs'[d].current = docs[d].current
      /\ \A e \in Docs : e # d => docs'[e] = docs[e]
  BY <1>1, DocChanged
<1>3. docs[d].state \notin {"absent", "deleted"} /\ UNCHANGED jobs
  BY DEF Trash, Untrash
<1>4. QED BY <1>2, <1>3, NoRows

LEMMA PurgeKeeps == ASSUME JobsInv, NEW d \in Docs, Purge(d) PROVE RowsKeep /\ Admits
<1>1. /\ docs'[d].state = "deleted" /\ docs'[d].current = docs[d].current
      /\ \A e \in Docs : e # d => docs'[e] = docs[e]
  BY DocChanged DEF Purge
<1>2. docs[d].state # "absent"
  BY DEF Purge
<1>3. ASSUME NEW i \in Jobs
      PROVE  /\ jobs'[i] \in RowType /\ jobs'[i].status = jobs[i].status
             /\ Evolves(jobs[i], jobs'[i]) /\ Suits(docs'[i[1]], i, jobs'[i])
  <2>1. Fine(jobs[i]) /\ Suits(docs[i[1]], i, jobs[i]) /\ i[1] \in Docs
    BY JobsTyped
  <2>2. CASE i[1] = d
    <3>1. PICK s : s = [jobs[i] EXCEPT !.proposals = FALSE]
      OBVIOUS
    <3>2. Evolves(jobs[i], s) /\ s.status = jobs[i].status /\ s.proposals = FALSE
      BY <2>1, <3>1, ClearedEvolves
    <3>3. jobs'[i] = s
      BY <2>2, <3>1 DEF Purge
    <3>4. Suits(docs'[i[1]], i, s)
      BY <1>1, <1>2, <2>1, <2>2, <3>2 DEF Suits, Evolves
    <3>5. QED BY <3>2, <3>3, <3>4 DEF Evolves, Fine
  <2>3. CASE i[1] # d
    <3>1. jobs'[i] = jobs[i]
      BY <2>3 DEF Purge
    <3>2. QED BY <1>1, <2>1, <2>3, <3>1, SameQuiet DEF Quiet, Fine
  <2>4. QED BY <2>2, <2>3
<1>4. jobs' = [i \in Jobs |-> jobs'[i]]
  BY DEF Purge
<1>5. Admits
  BY <1>3 DEF Admits
<1>6. QED BY <1>3, <1>4, <1>5 DEF RowsKeep

LEMMA PruneKeeps ==
  ASSUME JobsInv, NEW d \in Docs, NEW v \in Versions, Prune(d, v) PROVE RowsKeep /\ Admits
<1>1. PICK j \in Jobs : j = <<d, v>>
  BY DEF Jobs
<1>2. PICK s : s = [jobs[j] EXCEPT !.status = "stale", !.lease = "none", !.proposals = FALSE]
  OBVIOUS
<1>3. Quiet(jobs[j], s)
  BY <1>1, <1>2, JobsTyped, PrunedQuiet DEF Prune
<1>4. jobs' = [jobs EXCEPT ![j] = s] /\ UNCHANGED docs
  BY <1>1, <1>2 DEF Prune
<1>5. QED BY <1>3, <1>4, OneRow

LEMMA DispatchRowKeeps == ASSUME JobsInv, NEW j \in Jobs, DispatchRow(j) PROVE RowsKeep /\ Admits
<1>1. PICK s : s = Reclaimed(jobs[j])
  OBVIOUS
<1>2. Quiet(jobs[j], s)
  BY <1>1, JobsTyped, ReclaimedQuiet
<1>3. jobs' = [jobs EXCEPT ![j] = s] /\ UNCHANGED docs
  BY <1>1 DEF DispatchRow
<1>4. QED BY <1>2, <1>3, OneRow

LEMMA LeaseExpiresKeeps == ASSUME JobsInv, NEW j \in Jobs, LeaseExpires(j) PROVE RowsKeep /\ Admits
<1>1. PICK s : s = [jobs[j] EXCEPT !.lease = "expired"]
  OBVIOUS
<1>2. jobs[j].status = "running"
  BY JobsTyped DEF LeaseExpires, Fine, Valid
<1>3. Quiet(jobs[j], s)
  BY <1>1, <1>2, JobsTyped, LeaseEndedQuiet DEF LeaseExpires
<1>4. jobs' = [jobs EXCEPT ![j] = s] /\ UNCHANGED docs
  BY <1>1 DEF LeaseExpires
<1>5. QED BY <1>3, <1>4, OneRow

(* Whoever is at work on a delivery works on a row of the table. *)
LEMMA Carried ==
  ASSUME JobsInv
  PROVE  /\ workers \in [Workers -> WorkerType] /\ dispatcher \in DispatcherType
         /\ \A w \in Workers : workers[w].pc # "idle" =>
              workers[w].at \in Deliveries /\ workers[w].at[1] \in Jobs
              /\ workers[w].at[2] \in Attempts
         /\ dispatcher.pc \in {"fetch", "advance"} =>
              dispatcher.at \in Deliveries /\ dispatcher.at[1] \in Jobs
              /\ dispatcher.at[2] \in Attempts
<1>1. workers \in [Workers -> WorkerType] /\ dispatcher \in DispatcherType
  BY DEF JobsInv, TypeOK, WorkerType, DispatcherType, Deliveries
<1>2. \A t \in Deliveries : t[1] \in Jobs /\ t[2] \in Attempts
  BY DEF Deliveries
<1>3. ASSUME NEW w \in Workers, workers[w].pc # "idle" PROVE workers[w].at \in Deliveries
  BY <1>1, <1>3 DEF JobsInv, DeliveriesAreKnown, WorkerType
<1>4. dispatcher.pc \in {"fetch", "advance"} => dispatcher.at \in Deliveries
  BY <1>1 DEF JobsInv, DeliveriesAreKnown, DispatcherType
<1>5. QED BY <1>1, <1>2, <1>3, <1>4

LEMMA DispatchAdvanceKeeps == ASSUME JobsInv, DispatchAdvance PROVE RowsKeep /\ Admits
<1>1. PICK j \in Jobs : j = dispatcher.at[1]
  BY Carried DEF DispatchAdvance
<1>2. PICK s : s = IF jobs[j].status = "queued" /\ jobs[j].attempt = dispatcher.at[2]
                   THEN Advanced(jobs[j]) ELSE jobs[j]
  OBVIOUS
<1>3. Quiet(jobs[j], s)
  BY <1>2, JobsTyped, SameQuiet, AdvancedQuiet
<1>4. jobs' = [jobs EXCEPT ![j] = s] /\ UNCHANGED docs
  BY <1>1, <1>2 DEF DispatchAdvance
<1>5. QED BY <1>3, <1>4, OneRow

LEMMA ClaimKeeps == ASSUME JobsInv, NEW w \in Workers, Claim(w) PROVE RowsKeep /\ Admits
<1>1. PICK j \in Jobs : j = workers[w].at[1]
  BY Carried DEF Claim
<1>2. CASE UNCHANGED jobs
  BY <1>2, NoRows DEF Claim
<1>3. CASE jobs[j].status = "queued"
           /\ jobs' = [jobs EXCEPT ![j].status = "stale", ![j].lease = "none"]
  <2>1. PICK s : s = [jobs[j] EXCEPT !.status = "stale", !.lease = "none"]
    OBVIOUS
  <2>2. Quiet(jobs[j], s)
    BY <1>3, <2>1, JobsTyped, RetiredQuiet
  <2>3. jobs' = [jobs EXCEPT ![j] = s] /\ UNCHANGED docs
    BY <1>3, <2>1 DEF Claim
  <2>4. QED BY <2>2, <2>3, OneRow
<1>4. CASE jobs[j].status = "queued"
           /\ jobs' = [jobs EXCEPT ![j].status = "running", ![j].lease = "live"]
  <2>1. PICK s : s = [jobs[j] EXCEPT !.status = "running", !.lease = "live"]
    OBVIOUS
  <2>2. Quiet(jobs[j], s)
    BY <1>4, <2>1, JobsTyped, ClaimedQuiet
  <2>3. jobs' = [jobs EXCEPT ![j] = s] /\ UNCHANGED docs
    BY <1>4, <2>1 DEF Claim
  <2>4. QED BY <2>2, <2>3, OneRow
<1>5. QED BY <1>1, <1>2, <1>3, <1>4 DEF Claim

LEMMA FinishKeeps == ASSUME JobsInv, NEW w \in Workers, Finish(w) PROVE RowsKeep /\ Admits
<1>1. PICK j \in Jobs : j = workers[w].at[1]
  BY Carried DEF Finish
<1>2. PICK live \in BOOLEAN : live = IsLive(j)
  BY DEF IsLive
<1>3. PICK found \in BOOLEAN : found = workers[w].found
  BY Carried DEF WorkerType
<1>4. CASE jobs' = [jobs EXCEPT ![j] = jobs[j]]
  BY <1>4, JobsTyped, SameQuiet, OneRow DEF Finish
<1>5. CASE /\ jobs[j].status = "running"
           /\ jobs' = [jobs EXCEPT ![j] = Finished(jobs[j], IsLive(j), workers[w].found)]
  <2>1. PICK s : s = Finished(jobs[j], live, found)
    OBVIOUS
  <2>2. Fine(jobs[j]) /\ Suits(docs[j[1]], j, jobs[j])
    BY JobsTyped
  <2>3. /\ Evolves(jobs[j], s) /\ s.status # "none"
        /\ s.proposals = jobs[j].proposals \/ live
        /\ s.status = "succeeded" => live /\ s.proposals = TRUE
    BY <1>5, <2>1, <2>2, FinishedEvolves
  <2>4. live => docs[j[1]].state = "active"
    BY <1>2 DEF IsLive
  <2>5. Suits(docs[j[1]], j, s)
    BY <1>5, <2>2, <2>3, <2>4 DEF Suits, Evolves, Active
  <2>6. jobs' = [jobs EXCEPT ![j] = s] /\ UNCHANGED docs
    BY <1>2, <1>3, <1>5, <2>1 DEF Finish
  <2>7. s \in RowType
    BY <2>3 DEF Evolves, Fine
  <2>8. /\ jobs' \in [Jobs -> RowType] /\ jobs'[j] = s
        /\ \A i \in Jobs : i # j => jobs'[i] = jobs[i]
    BY <2>6, <2>7, JobsTyped
  <2>9. \A i \in Jobs : Evolves(jobs[i], jobs[i]) /\ Suits(docs'[i[1]], i, jobs[i])
    BY <2>6, JobsTyped, SameQuiet DEF Quiet
  <2>10. Admits
    BY <1>5, <2>8 DEF Admits, Active
  <2>11. QED BY <2>3, <2>5, <2>6, <2>8, <2>9, <2>10 DEF RowsKeep
<1>6. QED BY <1>1, <1>4, <1>5 DEF Finish

(* Steps that touch neither rows nor documents. *)
Elsewhere ==
  \/ DispatchList \/ DispatchEnd \/ DispatchFetch \/ DispatchBreaks
  \/ \E t \in Deliveries :
       \/ Overdue(t) \/ Forget(t) \/ Lose(t)
       \/ \E w \in Workers : Take(w, t) \/ TakeAgain(w, t)
  \/ \E w \in Workers : Inspect(w) \/ WorkerStops(w)
  \/ UNCHANGED vars

LEMMA StepsKeepRows == ASSUME JobsInv, [Next]_vars PROVE RowsKeep /\ Admits
<1>1. CASE Elsewhere
  <2>1. UNCHANGED <<docs, jobs>>
    BY <1>1 DEF Elsewhere, DispatchList, DispatchEnd, DispatchFetch, DispatchBreaks, Overdue,
                Forget, Lose, Take, TakeAgain, Inspect, WorkerStops, vars
  <2>2. QED BY <2>1, NoRows
<1>2. CASE Owner
  BY <1>2, SubmitKeeps, UploadKeeps, CopyKeeps, SaveKeeps, TrashKeeps, PurgeKeeps, PruneKeeps
     DEF Owner
<1>3. CASE DispatchAdvance \/ \E j \in Jobs : DispatchRow(j) \/ LeaseExpires(j)
  BY <1>3, DispatchAdvanceKeeps, DispatchRowKeeps, LeaseExpiresKeeps
<1>4. CASE \E w \in Workers : Claim(w) \/ Finish(w)
  BY <1>4, ClaimKeeps, FinishKeeps
<1>5. QED BY <1>1, <1>2, <1>3, <1>4
          DEF Next, Dispatch, Work, Time, Faults, Elsewhere, Deliveries
-----------------------------------------------------------------------------
(* The other variables keep their types.                                    *)

LEMMA OwnersTyped ==
  ASSUME JobsInv, Owner
  PROVE  /\ docs' \in [Docs -> [state : {"absent", "active", "trashed", "deleted"},
                               current : Versions]]
         /\ UNCHANGED <<transport, dispatcher, workers, faults>>
<1>1. docs \in [Docs -> [state : {"absent", "active", "trashed", "deleted"},
                        current : Versions]]
  BY DEF JobsInv, TypeOK
<1>2. ASSUME NEW d \in Docs, Save(d)
      PROVE  \E v \in Versions : docs' = [docs EXCEPT ![d].current = v]
  BY <1>2 DEF Save
<1>3. ASSUME NEW d \in Docs,
             Upload(d) \/ Trash(d) \/ Untrash(d) \/ Purge(d) \/ \E e \in Docs : Copy(d, e)
      PROVE  \E x \in {"active", "trashed", "deleted"} : docs' = [docs EXCEPT ![d].state = x]
  BY <1>3 DEF Upload, Trash, Untrash, Purge, Copy
<1>4. ASSUME NEW d \in Docs, Submit(d) \/ \E v \in Versions : Prune(d, v)
      PROVE  docs' = docs
  BY <1>4 DEF Submit, Prune
<1>5. docs' \in [Docs -> [state : {"absent", "active", "trashed", "deleted"},
                         current : Versions]]
  BY <1>1, <1>2, <1>3, <1>4 DEF Owner
<1>6. UNCHANGED <<transport, dispatcher, workers, faults>>
  BY DEF Owner, Submit, Upload, Copy, Save, Trash, Untrash, Purge, Prune
<1>7. QED BY <1>5, <1>6

LEMMA TransportTyped ==
  ASSUME JobsInv, [Next]_vars
  PROVE  transport' \in [Deliveries -> {"none", "queued", "started", "overdue", "ended"}]
<1>1. transport \in [Deliveries -> {"none", "queued", "started", "overdue", "ended"}]
  BY DEF JobsInv, TypeOK, Deliveries
<1>2. ASSUME NEW t \in Deliveries, NEW x \in {"none", "queued", "started", "overdue", "ended"},
             transport' = [transport EXCEPT ![t] = x]
      PROVE  transport' \in [Deliveries -> {"none", "queued", "started", "overdue", "ended"}]
  BY <1>1, <1>2
<1>3. ASSUME NEW w \in Workers, Claim(w) \/ Finish(w) \/ WorkerStops(w)
      PROVE  transport' \in [Deliveries -> {"none", "queued", "started", "overdue", "ended"}]
  <2>1. workers[w].at \in Deliveries
    BY <1>3, Carried DEF Claim, Finish, WorkerStops
  <2>2. CASE UNCHANGED transport
    BY <1>1, <2>2
  <2>3. CASE Over(w)
    BY <1>1, <2>1, <2>3 DEF Over
  <2>4. QED BY <1>3, <2>2, <2>3 DEF Claim, Finish, WorkerStops
<1>4. CASE DispatchFetch \/ DispatchBreaks
  <2>1. CASE UNCHANGED transport
    BY <1>1, <2>1
  <2>2. CASE dispatcher.pc = "fetch"
             /\ transport' = [transport EXCEPT ![dispatcher.at] = "queued"]
    BY <1>2, <2>2, Carried
  <2>3. QED BY <1>4, <2>1, <2>2 DEF DispatchFetch, DispatchBreaks
<1>5. ASSUME NEW t \in Deliveries, Overdue(t) \/ Forget(t) \/ Lose(t)
                                  \/ \E w \in Workers : Take(w, t)
      PROVE  transport' \in [Deliveries -> {"none", "queued", "started", "overdue", "ended"}]
  <2>1. \E x \in {"none", "started", "overdue"} : transport' = [transport EXCEPT ![t] = x]
    BY <1>5 DEF Overdue, Forget, Lose, Take
  <2>2. QED BY <1>2, <2>1
<1>6. CASE Owner
  BY <1>1, <1>6, OwnersTyped
<1>7. CASE \/ DispatchList \/ DispatchEnd \/ DispatchAdvance \/ UNCHANGED vars
           \/ \E j \in Jobs : DispatchRow(j) \/ LeaseExpires(j)
           \/ \E w \in Workers : Inspect(w) \/ \E t \in Deliveries : TakeAgain(w, t)
  <2>1. UNCHANGED transport
    BY <1>7 DEF DispatchList, DispatchEnd, DispatchAdvance, DispatchRow, LeaseExpires,
                Inspect, TakeAgain, vars
  <2>2. QED BY <1>1, <2>1
<1>8. QED BY <1>3, <1>4, <1>5, <1>6, <1>7
          DEF Next, Dispatch, Work, Time, Faults, Deliveries

LEMMA FaultsTyped == ASSUME JobsInv, [Next]_vars PROVE faults' \in 0..MaxFaults
<1>1. faults \in 0..MaxFaults /\ MaxFaults \in Nat
  BY JobsAssumptions DEF JobsInv, TypeOK
<1>2. faults' = faults \/ (faults < MaxFaults /\ faults' = faults + 1)
  <2>1. CASE Owner
    BY <2>1, OwnersTyped
  <2>2. CASE ~Owner
    BY <2>2 DEF Next, Dispatch, Work, Time, Faults, DispatchList, DispatchEnd, DispatchFetch,
       DispatchAdvance, DispatchRow, DispatchBreaks, Overdue, Forget, Lose, LeaseExpires,
       Take, TakeAgain, Claim, Inspect, Finish, WorkerStops, vars
  <2>3. QED BY <2>1, <2>2
<1>3. QED BY <1>1, <1>2

LEMMA DispatcherTyped ==
  ASSUME JobsInv, [Next]_vars
  PROVE  /\ dispatcher' \in DispatcherType
         /\ dispatcher'.pc \in {"fetch", "advance"} => dispatcher'.at # None
<1>1. /\ dispatcher \in DispatcherType
      /\ dispatcher.pc \in {"fetch", "advance"} => dispatcher.at # None
  BY Carried DEF JobsInv, DeliveriesAreKnown
<1>2. CASE UNCHANGED dispatcher
  BY <1>1, <1>2
<1>3. CASE DispatchList
  <2>1. PICK b : b = {j \in Jobs : jobs[j].status = "queued" \/ Expired(jobs[j])}
    OBVIOUS
  <2>2. b \in SUBSET Jobs /\ dispatcher' = [dispatcher EXCEPT !.pc = "row", !.batch = b]
    BY <1>3, <2>1 DEF DispatchList
  <2>3. QED BY <1>1, <2>2 DEF DispatcherType
<1>4. CASE DispatchEnd
  BY <1>1, <1>4 DEF DispatchEnd, DispatcherType
<1>5. CASE DispatchFetch \/ DispatchAdvance
  <2>1. dispatcher.pc \in {"fetch", "advance"}
    BY <1>5 DEF DispatchFetch, DispatchAdvance
  <2>2. NextRow \in DispatcherType /\ NextRow.pc = "row"
    BY <1>1 DEF NextRow, DispatcherType
  <2>3. [dispatcher EXCEPT !.pc = "advance"] \in DispatcherType
        /\ [dispatcher EXCEPT !.pc = "advance"].at # None
    BY <1>1, <2>1 DEF DispatcherType
  <2>4. dispatcher' \in {NextRow, [dispatcher EXCEPT !.pc = "advance"]}
    BY <1>5 DEF DispatchFetch, DispatchAdvance
  <2>5. QED BY <2>2, <2>3, <2>4
<1>6. ASSUME NEW j \in Jobs, DispatchRow(j)
      PROVE  /\ dispatcher' \in DispatcherType
             /\ dispatcher'.pc \in {"fetch", "advance"} => dispatcher'.at # None
  <2>1. PICK row : row = Reclaimed(jobs[j])
    OBVIOUS
  <2>2. row.attempt \in Attempts
    BY <2>1, JobsTyped, ReclaimedQuiet, FineFields DEF Quiet, Evolves
  <2>3. <<j, row.attempt>> \in Deliveries /\ <<j, row.attempt>> # None
    BY <2>2, Bounds DEF Deliveries
  <2>4. dispatcher' = [pc |-> IF row.status = "queued" THEN "fetch" ELSE "row",
                       batch |-> dispatcher.batch \ {j},
                       at |-> IF row.status = "queued" THEN <<j, row.attempt>> ELSE None]
    BY <1>6, <2>1 DEF DispatchRow
  <2>5. dispatcher.batch \ {j} \in SUBSET Jobs
    BY <1>1 DEF DispatcherType
  <2>6. CASE row.status = "queued"
    BY <2>3, <2>4, <2>5, <2>6 DEF DispatcherType
  <2>7. CASE row.status # "queued"
    BY <2>4, <2>5, <2>7 DEF DispatcherType
  <2>8. QED BY <2>6, <2>7
<1>7. CASE DispatchBreaks
  BY <1>7 DEF DispatchBreaks, DispatcherType
<1>8. CASE ~Dispatch /\ ~DispatchBreaks
  <2>1. UNCHANGED dispatcher
    BY <1>8, OwnersTyped DEF Next, Work, Time, Faults, Overdue, Forget, Lose, LeaseExpires,
       Take, TakeAgain, Claim, Inspect, Finish, WorkerStops, vars
  <2>2. QED BY <1>2, <2>1
<1>9. QED BY <1>3, <1>4, <1>5, <1>6, <1>7, <1>8 DEF Dispatch

AtWork == {"inspect", "finish"}

(* Workers go on with the delivery they are at work on.                     *)
Proceeds(w) ==
  workers'[w].pc \in AtWork => workers[w].pc \in AtWork /\ workers'[w].at = workers[w].at

LEMMA WorkerMoves ==
  ASSUME JobsInv, [Next]_vars
  PROVE  /\ workers' \in [Workers -> WorkerType]
         /\ \A w \in Workers : workers'[w].pc # "idle" => workers'[w].at # None
         /\ \A w \in Workers : Proceeds(w) \/ Claim(w)
<1>1. /\ workers \in [Workers -> WorkerType]
      /\ \A w \in Workers : workers[w].pc # "idle" => workers[w].at # None
  BY Carried DEF JobsInv, DeliveriesAreKnown
<1>2. ASSUME NEW w \in Workers, NEW x \in WorkerType, workers' = [workers EXCEPT ![w] = x],
             x.pc # "idle" => x.at # None,
             Claim(w) \/ (x.pc \in AtWork => workers[w].pc \in AtWork /\ x.at = workers[w].at)
      PROVE  /\ workers' \in [Workers -> WorkerType]
             /\ \A v \in Workers : workers'[v].pc # "idle" => workers'[v].at # None
             /\ \A v \in Workers : Proceeds(v) \/ Claim(v)
  <2>1. workers'[w] = x /\ \A v \in Workers : v # w => workers'[v] = workers[v]
    BY <1>1, <1>2
  <2>2. workers' \in [Workers -> WorkerType]
    BY <1>1, <1>2
  <2>3. QED BY <1>1, <1>2, <2>1, <2>2 DEF Proceeds
<1>3. Resting \in WorkerType /\ Resting.pc = "idle"
  BY DEF Resting, WorkerType
<1>4. ASSUME NEW w \in Workers, NEW t \in Deliveries, Take(w, t) \/ TakeAgain(w, t)
      PROVE  /\ workers' \in [Workers -> WorkerType]
             /\ \A v \in Workers : workers'[v].pc # "idle" => workers'[v].at # None
             /\ \A v \in Workers : Proceeds(v) \/ Claim(v)
  <2>1. PICK x : x = [pc |-> "claim", at |-> t, found |-> FALSE]
    OBVIOUS
  <2>2. x \in WorkerType /\ x.pc = "claim" /\ x.at # None
    BY <2>1, Bounds DEF WorkerType
  <2>3. workers' = [workers EXCEPT ![w] = x]
    BY <1>4, <2>1 DEF Take, TakeAgain
  <2>4. QED BY <1>2, <2>2, <2>3 DEF AtWork
<1>5. ASSUME NEW w \in Workers, Claim(w) \/ Inspect(w) \/ Finish(w) \/ WorkerStops(w)
      PROVE  /\ workers' \in [Workers -> WorkerType]
             /\ \A v \in Workers : workers'[v].pc # "idle" => workers'[v].at # None
             /\ \A v \in Workers : Proceeds(v) \/ Claim(v)
  <2>1. CASE workers' = [workers EXCEPT ![w] = Resting]
    BY <1>2, <1>3, <2>1 DEF AtWork
  <2>2. CASE Claim(w) /\ workers' = [workers EXCEPT ![w].pc = "inspect"]
    <3>1. PICK x : x = [workers[w] EXCEPT !.pc = "inspect"]
      OBVIOUS
    <3>2. x \in WorkerType /\ x.at = workers[w].at
      BY <1>1, <3>1 DEF WorkerType
    <3>3. workers[w].at # None
      BY <1>1, <2>2 DEF Claim
    <3>4. workers' = [workers EXCEPT ![w] = x]
      BY <2>2, <3>1
    <3>5. QED BY <1>2, <2>2, <3>2, <3>3, <3>4
  <2>3. CASE Inspect(w)
    <3>1. PICK f \in BOOLEAN : workers' = [workers EXCEPT ![w].pc = "finish", ![w].found = f]
      BY <2>3 DEF Inspect
    <3>2. PICK x : x = [workers[w] EXCEPT !.pc = "finish", !.found = f]
      OBVIOUS
    <3>3. x \in WorkerType /\ x.at = workers[w].at /\ x.pc = "finish"
      BY <1>1, <3>2 DEF WorkerType
    <3>4. workers[w].pc = "inspect" /\ workers[w].at # None
      BY <1>1, <2>3 DEF Inspect
    <3>5. workers' = [workers EXCEPT ![w] = x]
      BY <3>1, <3>2
    <3>6. QED BY <1>2, <3>3, <3>4, <3>5 DEF AtWork
  <2>4. QED BY <1>5, <2>1, <2>2, <2>3 DEF Claim, Finish, WorkerStops, Over
<1>6. CASE ~(\E w \in Workers : \/ Claim(w) \/ Inspect(w) \/ Finish(w) \/ WorkerStops(w)
                                \/ \E t \in Deliveries : Take(w, t) \/ TakeAgain(w, t))
  <2>1. UNCHANGED workers
    BY <1>6, OwnersTyped DEF Next, Dispatch, Work, Time, Faults, DispatchList, DispatchEnd,
       DispatchFetch, DispatchAdvance, DispatchRow, DispatchBreaks, Overdue, Forget, Lose,
       LeaseExpires, vars, Deliveries
  <2>2. QED BY <1>1, <2>1 DEF Proceeds
<1>7. QED BY <1>4, <1>5, <1>6

(* A claimed attempt stays spent as its row evolves. *)
LEMMA StaysSpent ==
  ASSUME JobsInv, RowsKeep, NEW w \in Workers, workers[w].pc \in AtWork,
         workers'[w].at = workers[w].at
  PROVE  LET row == jobs'[workers'[w].at[1]] IN
         \/ row.attempt > workers'[w].at[2]
         \/ row.attempt = workers'[w].at[2] /\ row.status \notin {"none", "queued"}
<1>1. PICK j \in Jobs, a \in Attempts : j = workers[w].at[1] /\ a = workers[w].at[2]
  BY Carried DEF AtWork
<1>2. \/ jobs[j].attempt > a
      \/ jobs[j].attempt = a /\ jobs[j].status \notin {"none", "queued"}
  BY <1>1 DEF JobsInv, ClaimIsSpent, AtWork
<1>3. Evolves(jobs[j], jobs'[j]) /\ Fine(jobs[j])
  BY JobsTyped DEF RowsKeep
<1>4. jobs[j].attempt \in Int /\ jobs'[j].attempt \in Int /\ a \in Int
  BY <1>3, FineFields, Bounds DEF Evolves
<1>5. \/ jobs'[j].attempt > a
      \/ jobs'[j].attempt = a /\ jobs'[j].status \notin {"none", "queued"}
  BY <1>2, <1>3, <1>4 DEF Evolves
<1>6. QED BY <1>1, <1>5

(* A claim finds its attempt unclaimed and spends it. *)
LEMMA ClaimSpends ==
  ASSUME JobsInv, RowsKeep, NEW w \in Workers, Claim(w), workers'[w].pc \in AtWork
  PROVE  /\ workers'[w].at = workers[w].at
         /\ LET row == jobs'[workers'[w].at[1]] IN
            row.attempt = workers'[w].at[2] /\ row.status = "running"
         /\ \A x \in Workers : x # w => workers'[x] = workers[x]
         /\ \A x \in Workers : x # w /\ workers[x].pc \in AtWork
                                  => workers[x].at # workers[w].at
<1>1. PICK j \in Jobs, a \in Attempts : j = workers[w].at[1] /\ a = workers[w].at[2]
  BY Carried DEF Claim
<1>2. workers \in [Workers -> WorkerType]
  BY Carried
<1>3. workers' # [workers EXCEPT ![w] = Resting]
  BY <1>2 DEF Resting, AtWork
<1>4. /\ jobs[j].status = "queued" /\ jobs[j].attempt = a
      /\ jobs' = [jobs EXCEPT ![j].status = "running", ![j].lease = "live"]
      /\ workers' = [workers EXCEPT ![w].pc = "inspect"]
  BY <1>1, <1>3 DEF Claim, Over
<1>5. workers'[w].at = workers[w].at /\ \A x \in Workers : x # w => workers'[x] = workers[x]
  BY <1>2, <1>4 DEF WorkerType
<1>6. jobs'[j].attempt = a /\ jobs'[j].status = "running"
  <2>1. PICK s : s = [jobs[j] EXCEPT !.status = "running", !.lease = "live"]
    OBVIOUS
  <2>2. s.attempt = a /\ s.status = "running"
    BY <1>4, <2>1, JobsTyped, Claimed DEF Becomes
  <2>3. jobs'[j] = s
    BY <1>4, <2>1, JobsTyped
  <2>4. QED BY <2>2, <2>3
<1>7. ASSUME NEW x \in Workers, x # w, workers[x].pc \in AtWork, workers[x].at = workers[w].at
      PROVE  FALSE
  <2>1. \/ jobs[j].attempt > a
        \/ jobs[j].attempt = a /\ jobs[j].status \notin {"none", "queued"}
    BY <1>1, <1>7 DEF JobsInv, ClaimIsSpent, AtWork
  <2>2. a \in Int
    BY Bounds
  <2>3. QED BY <1>4, <2>1, <2>2
<1>8. QED BY <1>1, <1>5, <1>6, <1>7

LEMMA StepsKeepWorkers ==
  ASSUME JobsInv, [Next]_vars, RowsKeep
  PROVE  ClaimIsSpent' /\ OneExecutor'
<1>1. ASSUME NEW w \in Workers, workers'[w].pc \in AtWork
      PROVE  LET row == jobs'[workers'[w].at[1]] IN
             \/ row.attempt > workers'[w].at[2]
             \/ row.attempt = workers'[w].at[2] /\ row.status \notin {"none", "queued"}
  <2>1. CASE Proceeds(w)
    BY <1>1, <2>1, StaysSpent DEF Proceeds
  <2>2. CASE Claim(w)
    BY <1>1, <2>2, ClaimSpends
  <2>3. QED BY <2>1, <2>2, WorkerMoves
<1>2. ASSUME NEW w \in Workers, NEW x \in Workers, workers'[w].pc \in AtWork,
             workers'[x].pc \in AtWork, workers'[w].at = workers'[x].at, w # x
      PROVE  FALSE
  <2>1. ASSUME NEW u \in Workers, NEW v \in Workers, u # v, Claim(u),
               workers'[u].pc \in AtWork, workers'[v].pc \in AtWork
        PROVE  workers'[u].at # workers'[v].at
    BY <2>1, ClaimSpends
  <2>2. CASE Proceeds(w) /\ Proceeds(x)
    BY <1>2, <2>2 DEF Proceeds, AtWork, JobsInv, OneExecutor
  <2>3. QED BY <1>2, <2>1, <2>2, WorkerMoves
<1>3. ClaimIsSpent'
  BY <1>1 DEF ClaimIsSpent, AtWork
<1>4. OneExecutor'
  BY <1>2 DEF OneExecutor, AtWork
<1>5. QED BY <1>3, <1>4
-----------------------------------------------------------------------------
LEMMA JobsFinite == IsFiniteSet(Jobs)
<1>1. IsFiniteSet(Versions) /\ IsFiniteSet(Docs)
  BY JobsAssumptions, FS_Interval DEF Versions
<1>2. QED BY <1>1, FS_Product DEF Jobs

LEMMA AdmissionKept ==
  ASSUME JobsInv, [Next]_vars
  PROVE  AdmissionIsBounded'
<1>1. /\ IsFiniteSet(ActiveJobs(jobs)) /\ IsFiniteSet(ActiveJobs(jobs)')
      /\ Cardinality(ActiveJobs(jobs)') \in Nat
  BY JobsFinite, FS_Subset, FS_CardinalityType DEF ActiveJobs
<1>2. CASE ActiveJobs(jobs)' \subseteq ActiveJobs(jobs)
  BY <1>1, <1>2, FS_Subset, FS_CardinalityType, JobsAssumptions
     DEF JobsInv, AdmissionIsBounded
<1>3. ASSUME NEW j \in Jobs, NEW S \in SUBSET ActiveJobs(jobs), Cardinality(S) < MaxActive,
             ActiveJobs(jobs)' \subseteq S \cup {j}
      PROVE  AdmissionIsBounded'
  <2>1. IsFiniteSet(S) /\ Cardinality(S) \in Nat
    BY <1>1, FS_Subset, FS_CardinalityType
  <2>2. /\ IsFiniteSet(S \cup {j})
        /\ Cardinality(S \cup {j}) = IF j \in S THEN Cardinality(S) ELSE Cardinality(S) + 1
    BY <2>1, FS_AddElement
  <2>3. Cardinality(ActiveJobs(jobs)') <= Cardinality(S \cup {j})
    BY <1>3, <2>2, FS_Subset
  <2>4. QED BY <1>1, <1>3, <2>1, <2>2, <2>3, JobsAssumptions DEF AdmissionIsBounded
<1>4. Admits
  BY StepsKeepRows
<1>5. QED BY <1>2, <1>3, <1>4 DEF Admits, ActiveJobs

LEMMA InitInv == Init => JobsInv
<1> SUFFICES ASSUME Init PROVE JobsInv
  OBVIOUS
<1>1. \A j \in Jobs : j[1] \in Docs /\ jobs[j] = NoRow /\ docs[j[1]] = NoDoc
  BY DEF Init, Jobs
<1>2. NoRow \in RowType /\ Valid(NoRow)
  BY NoRowFine DEF Fine
<1>3. NoDoc \in [state : {"absent", "active", "trashed", "deleted"}, current : Versions]
      /\ NoDoc.state = "absent"
  BY Bounds DEF NoDoc
<1>4. TypeOK
  <2>1. docs \in [Docs -> [state : {"absent", "active", "trashed", "deleted"},
                          current : Versions]]
    BY <1>3 DEF Init
  <2>2. jobs \in [Jobs -> RowType]
    BY <1>2 DEF Init
  <2>3. transport \in [Jobs \X Attempts ->
                         {"none", "queued", "started", "overdue", "ended"}]
    BY DEF Init
  <2>4. dispatcher \in [pc : {"idle", "row", "fetch", "advance"}, batch : SUBSET Jobs,
                        at : (Jobs \X Attempts) \cup {None}]
    BY DEF Init
  <2>5. workers \in [Workers -> [pc : {"idle", "claim", "inspect", "finish"},
                                 at : (Jobs \X Attempts) \cup {None}, found : BOOLEAN]]
    BY DEF Init, Resting
  <2>6. faults \in 0..MaxFaults
    BY JobsAssumptions DEF Init
  <2>7. QED BY <2>1, <2>2, <2>3, <2>4, <2>5, <2>6 DEF TypeOK
<1>5. RowsAreValid /\ RowsAreWhole /\ ActiveIsCurrent /\ DeletedHasNoProposals
  BY <1>1, <1>2, <1>3, NoRowFine
     DEF RowsAreValid, RowsAreWhole, ActiveIsCurrent, DeletedHasNoProposals, Active
<1>6. \A w \in Workers : workers[w].pc = "idle"
  BY DEF Init, Resting
<1>7. DeliveriesAreKnown /\ ClaimIsSpent /\ OneExecutor
  BY <1>6 DEF Init, DeliveriesAreKnown, ClaimIsSpent, OneExecutor
<1>8. AdmissionIsBounded
  <2>1. ActiveJobs(jobs) = {}
    BY <1>1, NoRowFine DEF ActiveJobs, Active
  <2>2. QED BY <2>1, FS_EmptySet, JobsAssumptions DEF AdmissionIsBounded
<1>9. QED BY <1>4, <1>5, <1>7, <1>8 DEF JobsInv

LEMMA NextInv == JobsInv /\ [Next]_vars => JobsInv'
<1> SUFFICES ASSUME JobsInv, [Next]_vars PROVE JobsInv'
  OBVIOUS
<1>1. RowsKeep
  BY StepsKeepRows
<1>2. docs' \in [Docs -> [state : {"absent", "active", "trashed", "deleted"},
                         current : Versions]]
  <2>1. CASE Owner
    BY <2>1, OwnersTyped
  <2>2. CASE ~Owner
    <3>1. UNCHANGED docs
      BY <2>2 DEF Next, Dispatch, Work, Time, Faults, DispatchList, DispatchEnd,
         DispatchFetch, DispatchAdvance, DispatchRow, DispatchBreaks, Overdue, Forget, Lose,
         LeaseExpires, Take, TakeAgain, Claim, Inspect, Finish, WorkerStops, vars
    <3>2. QED BY <3>1 DEF JobsInv, TypeOK
  <2>3. QED BY <2>1, <2>2
<1>3. TypeOK'
  BY <1>1, <1>2, TransportTyped, DispatcherTyped, WorkerMoves, FaultsTyped
     DEF TypeOK, RowsKeep, Deliveries, DispatcherType, WorkerType
<1>4. DeliveriesAreKnown'
  BY DispatcherTyped, WorkerMoves DEF DeliveriesAreKnown
<1>5. ASSUME NEW j \in Jobs
      PROVE  /\ Valid(jobs'[j])
             /\ jobs'[j].status = "none" => jobs'[j].attempt = 1 /\ ~jobs'[j].proposals
             /\ docs'[j[1]].state = "absent" => jobs'[j].status = "none"
             /\ jobs'[j].status = "succeeded" /\ docs'[j[1]].state # "deleted"
                  => jobs'[j].proposals
             /\ docs'[j[1]].state = "deleted" => ~jobs'[j].proposals
             /\ jobs'[j].status \in Active =>
                  docs'[j[1]].state # "absent" /\ docs'[j[1]].current = j[2]
  BY <1>1 DEF RowsKeep, Suits, Fine
<1>6. RowsAreValid' /\ RowsAreWhole' /\ ActiveIsCurrent' /\ DeletedHasNoProposals'
  BY <1>5 DEF RowsAreValid, RowsAreWhole, ActiveIsCurrent, DeletedHasNoProposals, Valid
<1>7. QED BY <1>1, <1>3, <1>4, <1>6, StepsKeepWorkers, AdmissionKept DEF JobsInv

(* The rows, their documents and their workers agree in every reachable     *)
(* state, whatever Redis loses, whoever dies, however owners act.           *)
THEOREM JobsInvariant == Spec => []JobsInv
<1>1. JobsInv /\ [Next]_vars => JobsInv'
  BY NextInv
<1>2. QED BY InitInv, <1>1, PTL DEF Spec

(* Every variable keeps its type.                                           *)
THEOREM JobsTypeCorrect == Spec => []TypeOK
<1>1. JobsInv => TypeOK
  BY DEF JobsInv
<1>2. QED BY <1>1, JobsInvariant, PTL

(* No row is ever written that the CHECKs of processing_jobs refuse.        *)
THEOREM ChecksNeverRefuse == Spec => []RowsAreValid
<1>1. JobsInv => RowsAreValid
  BY DEF JobsInv
<1>2. QED BY <1>1, JobsInvariant, PTL

(* A revision that a save has replaced has no queued or running inspection. *)
THEOREM ActiveWorkIsCurrent == Spec => []ActiveIsCurrent
<1>1. JobsInv => ActiveIsCurrent
  BY DEF JobsInv
<1>2. QED BY <1>1, JobsInvariant, PTL

(* Two workers never inspect for the same attempt, though a delivery may be *)
(* repeated and a lease may run out under a worker.                         *)
THEOREM AttemptsAreExclusive == Spec => [](OneExecutor /\ ClaimIsSpent)
<1>1. JobsInv => OneExecutor /\ ClaimIsSpent
  BY DEF JobsInv
<1>2. QED BY <1>1, JobsInvariant, PTL

(* No result that arrives late brings proposals back to a deleted document. *)
THEOREM DeletionLeavesNoProposals == Spec => []DeletedHasNoProposals
<1>1. JobsInv => DeletedHasNoProposals
  BY DEF JobsInv
<1>2. QED BY <1>1, JobsInvariant, PTL

(* Stale stays stale, success is only ever retired, and a row that is       *)
(* queued again has a new attempt number.                                   *)
THEOREM OutcomesAreFinal == Spec => OutcomeIsFinal
<1>1. JobsInv /\ [Next]_vars =>
        [\A j \in Jobs :
           /\ jobs[j].status = "stale" => jobs'[j].status = "stale"
           /\ jobs[j].status = "succeeded" => jobs'[j].status \in {"succeeded", "stale"}
           /\ jobs[j].status \notin {"none", "queued"} /\ jobs'[j].status = "queued"
                => jobs'[j].attempt > jobs[j].attempt]_vars
  BY StepsKeepRows DEF RowsKeep, Evolves
<1>2. QED BY <1>1, JobsInvariant, PTL DEF Spec, OutcomeIsFinal

(* An owner never has more than the limit of queued and running jobs.       *)
THEOREM AdmissionLimit == Spec => []AdmissionIsBounded
<1>1. JobsInv => AdmissionIsBounded
  BY DEF JobsInv
<1>2. QED BY <1>1, JobsInvariant, PTL
==============================================================================
