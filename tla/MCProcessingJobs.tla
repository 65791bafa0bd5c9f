-------------------------- MODULE MCProcessingJobs --------------------------
(* Small instances of document inspection for TLC. *)
EXTENDS ProcessingJobsProperties, TLC

CONSTANTS d1, d2

(* Of two documents only one is saved again, trashed or deleted.            *)
OtherStays == docs[d2].current = 1 /\ docs[d2].state \in {"absent", "active"}
==============================================================================
