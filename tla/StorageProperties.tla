-------------------------- MODULE StorageProperties --------------------------
(***************************************************************************)
(* What must be true of the storage service: the type invariant, the       *)
(* invariants that tie its rows to the bytes on the disk, what no step may *)
(* do, what must eventually happen, and the ledger it implements.          *)
(***************************************************************************)
EXTENDS Storage

(* Every variable has its type.  The counters are integers here; that they  *)
(* never go below zero is part of AccountingExact.                          *)
TypeOK ==
  /\ reservations \in [Ops -> [state : States, allocated : Nat, written : Nat,
                               expected : Nat \cup {Undeclared}, live : BOOLEAN]]
  /\ files \in [Ops -> [state : {"none", "staged", "ready", "pending_delete",
                                 "deleted"}, size : Nat]]
  /\ accounts \in [Owners -> [used : Int, reserved : Int]]
  /\ limits \in [Owners -> Limits]
  /\ staging \in [Ops -> BOOLEAN]
  /\ final \in [Ops -> BOOLEAN]
  /\ bytes \in [Ops -> Nat]
  /\ writer \in [Ops -> Procs \cup {NoProc}]
  /\ readers \in [Ops -> SUBSET Procs]
  /\ sql \in Procs \cup {NoProc}
  /\ proc \in [Procs -> [pc : Labels, op : Ops \cup {0}, size : Nat,
                         then : Outcomes]]
  /\ cursor \in [Maintainers -> Ops \cup {0}]
  /\ faults \in 0..MaxFaults

-----------------------------------------------------------------------------
(* A ready file always has its complete bytes under its final name, whoever *)
(* crashed, cleaned or recovered in between (_finish, _clean, clean).       *)
ReadyIsIntact ==
  \A k \in Ops : files[k].state = "ready" => Intact(k)

(* The quota an operation holds covers the bytes it has on the disk: the    *)
(* allocation while it is active, the size of its file until the file is    *)
(* deleted, and nothing afterwards.                                         *)
Held(k) ==
  IF IsActive(k) THEN reservations[k].allocated
  ELSE IF files[k].state \in {"ready", "pending_delete"} THEN files[k].size ELSE 0
BytesAreCharged == \A k \in Ops : bytes[k] <= Held(k)

(* The counters lock_account reads are exactly the sums reconcile_account   *)
(* recomputes, in every state: no interleaving, crash or lost commit makes  *)
(* one drift, charges twice or releases twice, and there is nothing for it  *)
(* to repair.                                                               *)
AccountingExact ==
  \A o \in Owners :
    /\ accounts[o].used = SumFunctionOnSet(FileSizes, Retained(o))
    /\ accounts[o].reserved = SumFunctionOnSet(Allocations, Reserved(o))

(* What an active operation may still write: a byte of its allocation that  *)
(* was written once is not written again, also when cleaning removed it.    *)
Outstanding ==
  [k \in Ops |-> reservations[k].allocated -
     IF bytes[k] > reservations[k].written THEN bytes[k] ELSE reservations[k].written]

(* As long as anything is admitted, everything that is may be written to    *)
(* its end without eating the headroom, whoever was admitted or cleaned in  *)
(* between: the disk never runs out under an admitted write (_capacity).    *)
HeadroomIsKept ==
  ActiveOps # {} =>
    SumFunctionOnSet(Outstanding, ActiveOps) + Headroom <= DiskAvailable

(* While a download streams, its bytes stay linked and complete: deletion   *)
(* and recovery wait for its shared flock (Storage.read).                   *)
StreamsAreIntact ==
  \A p \in Procs : At(p, "reading") => Intact(Op(p))

(* A request that was told its store failed definitively is never followed  *)
(* by the committed file: only a lost answer or a crash leaves that open.   *)
FailureIsDefinite ==
  \A p \in Requests :
    At(p, "done") /\ proc[p].then = "failed" => reservations[Op(p)].state # "committed"

(* The staging entry of an aborted operation is gone once no process works  *)
(* on the operation: output is removed before its capacity is released.     *)
Busy(k) == \E p \in Procs : proc[p].pc \notin {"idle", "done"} /\ Op(p) = k
NoOrphanStaging ==
  \A k \in Ops : reservations[k].state = "aborted" /\ ~Busy(k) => ~staging[k]
-----------------------------------------------------------------------------
(* Why the invariants above hold: the inductive invariant.                  *)

Fresh == {"lock", "stage", "stream", "write", "written", "insert", "publish",
          "commit"}
Exclusive == (Fresh \ {"lock"})
  \cup {"replay", "clean", "clean_committed", "clean_final", "clean_staging",
        "clean_abort", "recover_check", "delete_mark", "delete_final",
        "delete_staging", "delete_done"}
Shared  == {"read_check", "read_open", "reading"}
Changing == Fresh
  \cup {"clean_committed", "clean_final", "clean_staging", "clean_abort",
        "delete_final", "delete_staging", "delete_done"}
Running == Labels \ {"idle", "done"}

(* Every process that is past a lock step holds that flock. *)
FlockInv ==
  /\ \A p \in Procs :
       /\ proc[p].pc \in Running => Op(p) \in Ops
       /\ proc[p].pc \in Exclusive => writer[Op(p)] = p
       /\ proc[p].pc \in Shared => p \in readers[Op(p)]
       /\ proc[p].pc \in Fresh => p \in Requests
  /\ \A k \in Ops : writer[k] # NoProc => readers[k] = {}

(* One process ever writes an operation's bytes. *)
OneWriter ==
  /\ \A p, q \in Procs : proc[p].pc \in Fresh /\ proc[q].pc \in Fresh
                          /\ Op(p) = Op(q) => p = q
  /\ \A p \in Procs : proc[p].pc \in Fresh => reservations[Op(p)].state # "none"

(* How the rows and the disk of one operation agree. *)
RowInv(k) ==
  /\ files[k].state = "staged" => IsActive(k)
  /\ files[k].state \in {"ready", "pending_delete"}
       => reservations[k].state = "committed"
  /\ reservations[k].state = "committed"
       => files[k].state \in {"ready", "pending_delete", "deleted"}
  /\ files[k].state = "ready" => Intact(k)
  /\ bytes[k] <= Held(k)
  /\ final[k] => staging[k] \/ reservations[k].state = "committed"
  /\ reservations[k].state = "none" => files[k].state = "none" /\ ~staging[k]

(* What a process knows of its operation at each of its steps. *)
StepInv(p) ==
  LET k == Op(p) IN
  /\ proc[p].pc \in {"lock", "stage"} => bytes[k] = 0 /\ proc[p].size = 0
  /\ proc[p].pc \in {"lock", "stage", "stream", "write", "written", "insert"}
       => files[k].state = "none" /\ ~final[k]
  /\ proc[p].pc \in {"stream", "write", "insert", "publish", "commit"}
       => bytes[k] = proc[p].size
  /\ proc[p].pc = "written" => bytes[k] = proc[p].size + 1
  /\ proc[p].pc \in {"write", "written"}
       => IsActive(k) /\ reservations[k].allocated > proc[p].size
  /\ proc[p].pc \in {"publish", "commit"}
       => files[k] = [state |-> "staged", size |-> proc[p].size]
  /\ proc[p].pc = "commit" => sql = p
  /\ proc[p].pc = "clean_committed" => reservations[k].state = "committed"
  /\ proc[p].pc \in {"clean_final", "clean_staging", "clean_abort"} => IsActive(k)
  /\ proc[p].pc \in {"clean_staging", "clean_abort"} => ~final[k]
  /\ proc[p].pc = "clean_abort" => bytes[k] = 0
  /\ proc[p].pc \in {"read_open", "reading"} => Intact(k)
  /\ proc[p].pc \in {"delete_final", "delete_staging", "delete_done"}
       => files[k].state = "pending_delete"
  /\ proc[p].pc \in {"delete_staging", "delete_done"} => ~final[k]
  /\ proc[p].pc = "delete_done" => bytes[k] = 0

(* The open transaction, also after its process died: whoever takes over    *)
(* the flock waits for it before changing anything.                         *)
SqlInv ==
  sql # NoProc =>
    LET k == Op(sql) IN
    /\ sql \in Requests /\ k \in Ops
    /\ proc[sql].pc \in {"commit", "done"}
    /\ files[k].state = "staged" /\ bytes[k] = files[k].size
    /\ staging[k] /\ final[k]
    /\ \A q \in Procs : Op(q) = k /\ q # sql => proc[q].pc \notin Changing

StorageInv ==
  /\ TypeOK /\ FlockInv /\ OneWriter /\ SqlInv
  /\ \A k \in Ops : RowInv(k)
  /\ \A p \in Procs : StepInv(p)

(* Why the counters and the disk agree: a row's account of what was written *)
(* stays within its allocation, and while its writer writes it is exact.    *)
WritingIsCounted ==
  /\ \A k \in Ops : IsActive(k) => reservations[k].written <= reservations[k].allocated
  /\ \A p \in Procs : proc[p].pc \in {"lock", "stage", "stream", "write", "written"}
       => reservations[Op(p)].written = proc[p].size

(* Why a failure is definite: nobody is left who could commit.              *)
FailedIsOver ==
  \A p \in Requests : proc[p].then = "failed" =>
    /\ Op(p) \in Ops
    /\ reservations[Op(p)].state \notin {"none", "committed"}
    /\ \A q \in Procs : proc[q].pc \in Fresh => Op(q) # Op(p)
    /\ sql # NoProc => Op(sql) # Op(p)
-----------------------------------------------------------------------------
(* An operation whose writer died is eventually committed or aborted.       *)
EveryOperationEnds ==
  \A k \in Ops : IsActive(k) ~> reservations[k].state \in {"committed", "aborted"}

(* A requested deletion is eventually carried out and its quota released.   *)
DeletionCompletes ==
  \A k \in Ops : files[k].state = "pending_delete" ~> files[k].state = "deleted"

-----------------------------------------------------------------------------
(* The service implements the ledger. *)
Object(k) ==
  CASE reservations[k].state = "none"    -> "absent"
    [] IsActive(k)                       -> "open"
    [] reservations[k].state = "aborted" -> "discarded"
    [] files[k].state = "ready"          -> "stored"
    [] files[k].state = "pending_delete" -> "doomed"
    [] OTHER                             -> "removed"

Ledger == INSTANCE StorageLedger WITH
  object  <- [k \in Ops |-> Object(k)],
  held    <- [k \in Ops |-> Held(k)],
  content <- bytes,
  charge  <- [o \in Owners |-> Charge(o)],
  Sizes   <- 0..FileBytes

ImplementsLedger == Ledger!Spec
==============================================================================
