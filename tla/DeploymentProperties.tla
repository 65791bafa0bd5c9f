------------------------ MODULE DeploymentProperties -------------------------
(* What a deployment and scheduled maintenance promise together.            *)
EXTENDS Deployment

(* The application that runs is of the release whose head the database is   *)
(* at, whatever failed, restarted or was applied in between, so no older    *)
(* code runs on a newer schema; a migration that outlived its receiver is   *)
(* the exception (fillable_runtime.py:545-567).                             *)
ServesItsSchema ==
  app # Nothing /\ ~unattended => schema = HeadOf(Graphs[app.built])

(* While a migration runs, nothing of the application does, the scheduler   *)
(* included; so does the order of the steps and the lock ensure             *)
(* (fillable_runtime.py:546-551, release_receiver.py:81).                   *)
MigratesAlone ==
  migrations # {} /\ ~unattended =>
    /\ Cardinality(migrations) = 1
    /\ app = Nothing /\ ~ingress /\ AllOff

(* What runs under the name of a commit was built from that commit, though  *)
(* an archive's name, manifest, tags and labels are all set separately      *)
(* (release_artifact.py:35-140, fillable_runtime.py:115-130).               *)
RunsTheNamedSource == app # Nothing => app.named = app.built

(* A run whose end nobody recorded, since its process died or its guard was *)
(* lost, is counted by the run that follows it, and once                    *)
(* (maintenance.py:108-120).                                                *)
InterruptedAreCounted ==
  open = state.interrupted + IF state.status = "running" THEN 1 ELSE 0

(* Half-way through the upgrade of the receiver, with nobody at it.         *)
HalfUpgraded == runtime # manifest /\ releaseLock = Nothing

(* Whatever fails or restarts, as long as the newest release is applied     *)
(* until it succeeds it serves again, and the scheduler that came with it   *)
(* gets to any one row that stays, however many others come and go and      *)
(* wherever the cursor stood (fillable_runtime.py:479-600, maintenance.py   *)
(* :74-152).  Two things are past repair: damage to what was stored of the  *)
(* release, since an archive received again does not replace it, and an     *)
(* upgrade of the receiver that a restart cut between its two files, since  *)
(* neither the preflight nor another upgrade accepts what it left.          *)
ServesAndSweeps ==
  []<>( \/ Serving /\ waiting = {}
        \/ HalfUpgraded
        \/ \E s \in damaged : s[1] = Newest )

-----------------------------------------------------------------------------
(* Why they hold: the inductive invariant.  Whoever is at a step of a       *)
(* command holds the lock, and past Load its images are of the commit named.*)
Phases == {"idle", "receive", "apply", "schema", "quiesce", "migrate", "migrating", "migrated",
           "start", "started", "relay", "verify", "upgrade", "manifest"}
CommandsAreLocked ==
  /\ receiver \in [Receivers -> [at : Phases, release : {Nothing} \cup Releases,
                                archive : {Nothing} \cup Archives]]
  /\ \A p \in Receivers :
       /\ ~Is(p, "idle") => releaseLock = p
       /\ receiver[p].at \in {"receive", "apply"} => Named(p) \in Releases
       /\ receiver[p].at \in {"schema", "quiesce", "migrate", "migrating", "migrated", "start",
                              "started", "relay", "verify"} =>
            Named(p) \in Releases /\ Built(Archive(p)) = Named(p)

(* From the stop to the start of the application nothing of it runs; there  *)
(* is a migration only while its receiver waits for it, and a schema that   *)
(* was checked is still there when the application starts.                  *)
StepsAreOrdered ==
  /\ \A p \in Receivers :
       receiver[p].at \in {"migrate", "migrating", "migrated", "start"} => app = Nothing /\ ~ingress
  /\ ~unattended =>
       /\ \/ migrations = {}
          \/ \E p \in Receivers :
               /\ Is(p, "migrating")
               /\ migrations = {[graph |-> Graph(p), from |-> schema, by |-> p]}
       /\ \A p \in Receivers : Is(p, "start") => schema = Target(p)

(* A migration that is attended is the only one its receiver waits for.     *)
MigrationsAnswer ==
  \A m \in migrations :
    /\ m \in [graph : {m.graph}, from : {m.from}, by : {Nothing} \cup Receivers]
    /\ m.by # Nothing => Is(m.by, "migrating") /\ \A n \in migrations : n.by = m.by => n = m

SchedulerIsOff == app = Nothing => AllOff

(* The lock of a run, and the row it writes.                                *)
Status == {"idle", "running", "succeeded", "failed"}
IsTick(x) ==
  x \in [at : {"off", "idle", "task", "record", "finish"}, task : {x.task},
         attempt : {x.attempt}, following : {x.following},
         failed : BOOLEAN, guarded : BOOLEAN, stop : BOOLEAN]
RunsAreGuarded ==
  /\ open \in Int
  /\ state \in [run : Schedulers \cup {Nobody}, status : Status, interrupted : Int,
                cursor : {state.cursor}]
  /\ tick = [p \in Schedulers |-> tick[p]]
  /\ \A p \in Schedulers :
       /\ IsTick(tick[p])
       /\ Guarded(p) <=> guardedBy = p
       /\ Guarded(p) => /\ ~Ticks(p, "off") /\ ~Ticks(p, "idle")
                        /\ state.run = p /\ state.status = "running"

DeploymentInv ==
  /\ CommandsAreLocked /\ StepsAreOrdered /\ MigrationsAnswer /\ SchedulerIsOff /\ RunsAreGuarded
  /\ ServesItsSchema /\ RunsTheNamedSource /\ InterruptedAreCounted
==============================================================================
