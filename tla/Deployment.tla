----------------------------- MODULE Deployment ------------------------------
(***************************************************************************)
(* The server: commands of the receiver, and the scheduler they stop and   *)
(* start with the rest of the application.  Stopping waits until every     *)
(* process of the maintenance container is gone; starting comes after the  *)
(* migration.                                                              *)
(***************************************************************************)
EXTENDS Release, Scheduler

CONSTANT MaxFaults   (* bound on everything that goes wrong *)

vars == <<deployment, schedule>>

Init == ReleaseInit /\ SchedulerInit

AllOff == \A s \in Schedulers : Ticks(s, "off")

Stopping == \E p \in Receivers : Is(p, "quiesce")

(* Commands that leave the scheduler alone.                                 *)
Command(p) ==
  /\ UNCHANGED schedule
  /\ \/ Receive(p) \/ Load(p) \/ CheckTransition(p) \/ Migrate(p) \/ CheckMigrated(p)
     \/ CheckStarted(p) \/ StartRelay(p) \/ Succeed(p)
     \/ ReplaceRuntime(p) \/ ReplaceManifest(p)

StopAllButMaintenance(p) == Quiesce(p) /\ UNCHANGED schedule

StopAll(p)  == Quiesce(p) /\ AllOff /\ UNCHANGED schedule
StartAll(p) == StartApplication(p) /\ IF app' = app THEN UNCHANGED schedule ELSE Launch

Upgrade(p) == BeginUpgrade(p) /\ UNCHANGED schedule

Ask(p, r, a) ==
  /\ \E at \in {"receive", "apply"} : Begin(p, at, r, a)
  /\ UNCHANGED schedule

Migrated == (\E m \in migrations : MigrationEnds(m)) /\ UNCHANGED schedule

Troubled == failures + troubles < MaxFaults

(* A command fails half-way: it may have stopped or started the scheduler.  *)
Broken(p) ==
  /\ Fail(p)
  /\ app' = Nothing => AllOff
  /\ IF app' # app /\ app' # Nothing THEN Launch ELSE UNCHANGED schedule

Disturbed ==
  \/ \E p \in Receivers : Timeout(p) /\ UNCHANGED schedule
  \/ Reboot /\ Restart
  \/ \E s \in stored : Decay(s) /\ UNCHANGED schedule

Sweeping ==
  /\ \/ \E s \in Schedulers : Work(s) \/ (Troubled /\ Mishap(s)) \/ (Stopping /\ Terminate(s))
     \/ \E t \in Cursors, i \in Items : Arrive(t, i) \/ Vanish(t, i)
  /\ UNCHANGED deployment

Next ==
  \/ \E p \in Receivers : Command(p) \/ StopAll(p) \/ StartAll(p) \/ Upgrade(p)
                           \/ (Troubled /\ Broken(p))
  \/ \E p \in Receivers, r \in Releases, a \in Archives : Ask(p, r, a)
  \/ Migrated \/ (Troubled /\ Disturbed) \/ Sweeping

Spec == Init /\ [][Next]_vars

(* A receiver's program runs; a container that is stopped stops; the        *)
(* scheduler's loop runs while its container does; a migration ends; and    *)
(* somebody keeps sending and applying the newest release until it serves.  *)
Persist ==
  /\ UNCHANGED schedule /\ releaseLock = Nothing
  /\ \E p \in Receivers :
       \/ BeginUpgrade(p)
       \/ \E at \in {"receive", "apply"}, a \in Archives :
            Begin(p, at, Newest, a) /\ Needed(at, Newest, a)

FairSpec ==
  /\ Spec
  /\ WF_vars(\E p \in Receivers : Command(p) \/ StopAll(p) \/ StartAll(p))
  /\ WF_vars(Migrated)
  /\ WF_vars((\E s \in Schedulers : Work(s)) /\ UNCHANGED deployment)
  /\ WF_vars((Stopping /\ \E s \in Schedulers : Terminate(s)) /\ UNCHANGED deployment)
  /\ WF_vars(Persist)
==============================================================================
