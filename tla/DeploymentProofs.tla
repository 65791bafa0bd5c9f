--------------------------- MODULE DeploymentProofs ---------------------------
(***************************************************************************)
(* DeploymentInv is inductive for any receivers, releases, histories and   *)
(* archives, any number of schedulers and any bounds.  Whoever is at a step*)
(* of a command is alone (Alone), so the steps of one command can be taken *)
(* one after the other; the scheduler's part concerns its own variables.   *)
(***************************************************************************)
EXTENDS DeploymentProperties, FiniteSetTheorems, TLAPS

(* The part of the invariant about commands.                                *)
ReleaseInv ==
  /\ CommandsAreLocked /\ StepsAreOrdered /\ MigrationsAnswer
  /\ ServesItsSchema /\ RunsTheNamedSource

Loaded == {"schema", "quiesce", "migrate", "migrating", "migrated", "start", "started", "relay",
           "verify"}

LEMMA Alone ==
  ASSUME CommandsAreLocked, NEW p \in Receivers, ~Is(p, "idle")
  PROVE  releaseLock = p /\ \A q \in Receivers : q # p => Is(q, "idle")
  BY DEF CommandsAreLocked

LEMMA GoesOn ==
  ASSUME CommandsAreLocked, NEW p \in Receivers, ~Is(p, "idle"), NEW s \in Phases,
         Goto(p, s), releaseLock' = releaseLock,
         s \notin {"receive", "apply"},
         s \in Loaded => Named(p) \in Releases /\ Built(Archive(p)) = Named(p)
  PROVE  /\ CommandsAreLocked'
         /\ receiver'[p].at = s
         /\ \A q \in Receivers : q # p => receiver'[q].at = "idle"
         /\ Graph(p)' = Graph(p) /\ Target(p)' = Target(p)
<1> DEFINE x == [receiver[p] EXCEPT !.at = s]
<1>1. receiver \in [Receivers -> [at : Phases, release : {Nothing} \cup Releases,
                                archive : {Nothing} \cup Archives]]
  BY DEF CommandsAreLocked
<1>2. /\ x \in [at : Phases, release : {Nothing} \cup Releases, archive : {Nothing} \cup Archives]
      /\ x.at = s /\ x.release = receiver[p].release /\ x.archive = receiver[p].archive
  BY <1>1
<1>3. receiver' = [receiver EXCEPT ![p] = x]
  BY DEF Goto
<1> HIDE DEF x
<1>4. receiver'[p] = x /\ \A q \in Receivers : q # p => receiver'[q] = receiver[q]
  BY <1>1, <1>3
<1>5. \A q \in Receivers : q # p => receiver[q].at = "idle"
  BY Alone DEF Is
<1>6. CommandsAreLocked'
  <2>1. receiver' \in [Receivers -> [at : Phases, release : {Nothing} \cup Releases,
                                   archive : {Nothing} \cup Archives]]
    BY <1>1, <1>2, <1>3
  <2>2. releaseLock' = p
    BY Alone
  <2>3. QED BY <1>2, <1>4, <1>5, <2>1, <2>2 DEF CommandsAreLocked, Is, Named, Archive, Built, Loaded
<1>7. Graph(p)' = Graph(p) /\ Target(p)' = Target(p)
  BY <1>2, <1>4 DEF Graph, Target, Archive, Built
<1>8. QED BY <1>2, <1>4, <1>5, <1>6, <1>7

LEMMA Ends ==
  ASSUME CommandsAreLocked, NEW p \in Receivers, ~Is(p, "idle"), Over(p)
  PROVE  CommandsAreLocked' /\ \A q \in Receivers : receiver'[q].at = "idle"
<1>1. Waiting \in [at : Phases, release : {Nothing} \cup Releases, archive : {Nothing} \cup Archives]
      /\ Waiting.at = "idle"
  BY DEF Waiting, Phases
<1>2. /\ receiver'[p] = Waiting /\ \A q \in Receivers : q # p => receiver'[q] = receiver[q]
      /\ receiver' \in [Receivers -> [at : Phases, release : {Nothing} \cup Releases,
                                    archive : {Nothing} \cup Archives]]
  BY <1>1 DEF CommandsAreLocked, Over
<1>3. \A q \in Receivers : receiver'[q].at = "idle"
  BY <1>1, <1>2, Alone DEF Is
<1>4. QED BY <1>2, <1>3 DEF CommandsAreLocked, Is

(* Migrations nobody waits for; if none is unattended there are none.       *)
Orphans(ms) ==
  \A m \in ms : /\ m \in [graph : {m.graph}, from : {m.from}, by : {Nothing} \cup Receivers]
                /\ m.by = Nothing

(* With every receiver idle little is left to say.                          *)
LEMMA AllIdle ==
  ASSUME CommandsAreLocked', \A q \in Receivers : receiver'[q].at = "idle",
         migrations' = {} \/ unattended', Orphans(migrations'),
         app' # Nothing /\ ~unattended' => schema' = HeadOf(Graphs[app'.built]),
         app' # Nothing => app'.named = app'.built
  PROVE  ReleaseInv'
  BY DEF ReleaseInv, StepsAreOrdered, MigrationsAnswer, Orphans, ServesItsSchema,
     RunsTheNamedSource, Is

(* The migrations there are while nobody waits for one.                     *)
LEMMA NoneRuns ==
  ASSUME ReleaseInv, NEW p \in Receivers, ~Is(p, "idle"), ~Is(p, "migrating")
  PROVE  (migrations = {} \/ unattended) /\ Orphans(migrations)
<1> USE DEF ReleaseInv
<1>1. \A q \in Receivers : ~Is(q, "migrating")
  BY Alone DEF Is
<1>2. QED BY <1>1 DEF StepsAreOrdered, MigrationsAnswer, Orphans

(* A command that ends without having touched containers or schema.         *)
LEMMA GivesUp ==
  ASSUME ReleaseInv, NEW p \in Receivers, ~Is(p, "idle"), ~Is(p, "migrating"), Over(p),
         UNCHANGED <<migrations, app, schema, unattended>>
  PROVE  ReleaseInv'
<1> USE DEF ReleaseInv
<1>1. (migrations' = {} \/ unattended') /\ Orphans(migrations')
  BY NoneRuns
<1>2. CommandsAreLocked' /\ \A q \in Receivers : receiver'[q].at = "idle"
  BY Ends
<1>3. QED BY <1>1, <1>2, AllIdle DEF ServesItsSchema, RunsTheNamedSource

(* A command that goes on without touching them.                            *)
LEMMA Proceeds ==
  ASSUME ReleaseInv, NEW p \in Receivers, ~Is(p, "idle"), ~Is(p, "migrating"),
         NEW s \in Phases, Goto(p, s), releaseLock' = releaseLock,
         s \notin {"receive", "apply", "migrate", "migrating", "migrated"},
         s \in Loaded => Named(p) \in Releases /\ Built(Archive(p)) = Named(p),
         s = "start" => schema = Target(p) /\ app = Nothing /\ ~ingress,
         UNCHANGED <<migrations, app, schema, unattended>>,
         s = "start" => UNCHANGED ingress
  PROVE  ReleaseInv'
<1> USE DEF ReleaseInv
<1>1. (migrations' = {} \/ unattended') /\ Orphans(migrations')
  BY NoneRuns
<1>2. /\ CommandsAreLocked' /\ receiver'[p].at = s
      /\ \A q \in Receivers : q # p => receiver'[q].at = "idle"
      /\ Target(p)' = Target(p)
  BY GoesOn
<1>3. StepsAreOrdered'
  BY <1>1, <1>2 DEF StepsAreOrdered, Is
<1>4. MigrationsAnswer'
  BY <1>1 DEF MigrationsAnswer, Orphans
<1>5. QED BY <1>2, <1>3, <1>4 DEF ServesItsSchema, RunsTheNamedSource

LEMMA ReleaseSame ==
  ASSUME ReleaseInv, UNCHANGED deployment
  PROVE  ReleaseInv'
<1>1. ReleaseInv <=> ReleaseInv'
  BY DEF deployment, ReleaseInv, CommandsAreLocked, StepsAreOrdered, MigrationsAnswer, ServesItsSchema,
     RunsTheNamedSource, Is, Named, Archive, Built, Graph, Target
<1>2. QED BY <1>1
-----------------------------------------------------------------------------
(* The commands *)

LEMMA BeginKeeps ==
  ASSUME ReleaseInv, NEW p \in Receivers, NEW at \in {"receive", "apply"},
         NEW r \in Releases, NEW a \in Archives, Begin(p, at, r, a)
  PROVE  ReleaseInv'
<1> USE DEF ReleaseInv
<1> DEFINE x == [at |-> at, release |-> r, archive |-> a]
<1>1. /\ x \in [at : Phases, release : {Nothing} \cup Releases, archive : {Nothing} \cup Archives]
      /\ x.at = at /\ x.release = r
  BY DEF Phases
<1>2. \A q \in Receivers : receiver[q].at = "idle"
  BY ReleaseAssumptions DEF Begin, CommandsAreLocked, Is
<1>3. receiver' = [receiver EXCEPT ![p] = x]
  BY DEF Begin
<1> HIDE DEF x
<1>4. /\ receiver'[p] = x /\ \A q \in Receivers : q # p => receiver'[q] = receiver[q]
      /\ receiver' \in [Receivers -> [at : Phases, release : {Nothing} \cup Releases,
                                    archive : {Nothing} \cup Archives]]
  BY <1>1, <1>3 DEF CommandsAreLocked
<1>5. CommandsAreLocked'
  BY <1>1, <1>2, <1>4 DEF CommandsAreLocked, Begin, Is, Named
<1>6. UNCHANGED <<migrations, app, schema, unattended, ingress>>
  BY DEF Begin, containers
<1>7. StepsAreOrdered'
  BY <1>1, <1>2, <1>4, <1>6 DEF StepsAreOrdered, Is
<1>8. MigrationsAnswer'
  BY <1>2, <1>6 DEF MigrationsAnswer, Is
<1>9. QED BY <1>5, <1>6, <1>7, <1>8 DEF ServesItsSchema, RunsTheNamedSource

LEMMA UpgradeKeeps ==
  ASSUME ReleaseInv, NEW p \in Receivers, BeginUpgrade(p)
  PROVE  ReleaseInv'
<1> USE DEF ReleaseInv
<1> DEFINE x == [receiver[p] EXCEPT !.at = "upgrade"]
<1>1. /\ x \in [at : Phases, release : {Nothing} \cup Releases, archive : {Nothing} \cup Archives]
      /\ x.at = "upgrade"
  BY DEF Phases, CommandsAreLocked
<1>2. \A q \in Receivers : receiver[q].at = "idle"
  BY ReleaseAssumptions DEF BeginUpgrade, CommandsAreLocked, Is
<1>3. receiver' = [receiver EXCEPT ![p] = x]
  BY DEF BeginUpgrade, Goto
<1> HIDE DEF x
<1>4. /\ receiver'[p] = x /\ \A q \in Receivers : q # p => receiver'[q] = receiver[q]
      /\ receiver' \in [Receivers -> [at : Phases, release : {Nothing} \cup Releases,
                                    archive : {Nothing} \cup Archives]]
  BY <1>1, <1>3 DEF CommandsAreLocked
<1>5. CommandsAreLocked'
  BY <1>1, <1>2, <1>4 DEF CommandsAreLocked, BeginUpgrade, Is, Named
<1>6. UNCHANGED <<migrations, app, schema, unattended, ingress>>
  BY DEF BeginUpgrade, containers, history
<1>7. StepsAreOrdered'
  BY <1>1, <1>2, <1>4, <1>6 DEF StepsAreOrdered, Is
<1>8. MigrationsAnswer'
  BY <1>2, <1>6 DEF MigrationsAnswer, Is
<1>9. QED BY <1>5, <1>6, <1>7, <1>8 DEF ServesItsSchema, RunsTheNamedSource

LEMMA ReceiveKeeps ==
  ASSUME ReleaseInv, NEW p \in Receivers, Receive(p)
  PROVE  ReleaseInv'
  BY GivesUp DEF Receive, Is, containers, history

(* What is loaded was built from the commit it is stored under.             *)
LEMMA LoadKeeps ==
  ASSUME ReleaseInv, NEW p \in Receivers, Load(p)
  PROVE  ReleaseInv'
<1>1. ~Is(p, "idle") /\ ~Is(p, "migrating") /\ UNCHANGED <<migrations, app, schema, unattended>>
  BY DEF Load, Is, containers, history
<1>2. CASE Over(p)
  BY <1>1, <1>2, GivesUp
<1>3. CASE /\ Unpacks(Archive(p), Named(p)) /\ \A role \in Roles : Resolves(Archive(p), role)
           /\ Goto(p, "schema") /\ UNCHANGED releaseLock
  <2>1. Named(p) \in Releases
    BY DEF Load, Is, ReleaseInv, CommandsAreLocked
  <2>2. Built(Archive(p)) = Named(p)
    BY <1>3 DEF Unpacks, ValidManifest, Resolves, Roles, Built
  <2>3. QED BY <1>1, <1>3, <2>1, <2>2, Proceeds DEF Phases
<1>4. QED BY <1>2, <1>3 DEF Load

LEMMA TransitionKeeps ==
  ASSUME ReleaseInv, NEW p \in Receivers, CheckTransition(p)
  PROVE  ReleaseInv'
<1>1. ~Is(p, "idle") /\ ~Is(p, "migrating") /\ UNCHANGED <<migrations, app, schema, unattended>>
  BY DEF CheckTransition, Is, containers, history
<1>2. Named(p) \in Releases /\ Built(Archive(p)) = Named(p)
  BY DEF CheckTransition, Is, ReleaseInv, CommandsAreLocked
<1>3. CASE Over(p)
  BY <1>1, <1>3, GivesUp
<1>4. CASE Goto(p, "quiesce") /\ UNCHANGED releaseLock
  BY <1>1, <1>2, <1>4, Proceeds DEF Phases
<1>5. QED BY <1>3, <1>4 DEF CheckTransition

LEMMA QuiesceKeeps ==
  ASSUME ReleaseInv, NEW p \in Receivers, Quiesce(p)
  PROVE  ReleaseInv'
<1> USE DEF ReleaseInv
<1>1. /\ Is(p, "quiesce") /\ Goto(p, "migrate") /\ UNCHANGED releaseLock
      /\ app' = Nothing /\ ~ingress' /\ UNCHANGED <<schema, migrations, unattended>>
  BY DEF Quiesce, history
<1>2. Named(p) \in Releases /\ Built(Archive(p)) = Named(p)
  BY <1>1 DEF Is, CommandsAreLocked
<1>3. /\ CommandsAreLocked' /\ receiver'[p].at = "migrate"
      /\ \A q \in Receivers : q # p => receiver'[q].at = "idle"
  BY <1>1, <1>2, GoesOn DEF Is, Phases
<1>4. (migrations' = {} \/ unattended') /\ Orphans(migrations')
  BY <1>1, NoneRuns DEF Is
<1>5. StepsAreOrdered' /\ MigrationsAnswer'
  BY <1>1, <1>3, <1>4 DEF StepsAreOrdered, MigrationsAnswer, Orphans, Is
<1>6. QED BY <1>1, <1>3, <1>5 DEF ServesItsSchema, RunsTheNamedSource

LEMMA MigrateKeeps ==
  ASSUME ReleaseInv, NEW p \in Receivers, Migrate(p)
  PROVE  ReleaseInv'
<1> USE DEF ReleaseInv
<1>1. /\ Is(p, "migrate") /\ Goto(p, "migrating") /\ UNCHANGED releaseLock
      /\ migrations' = migrations \cup {[graph |-> Graph(p), from |-> schema, by |-> p]}
      /\ UNCHANGED <<schema, app, ingress, unattended>>
  BY DEF Migrate, history
<1>2. /\ Named(p) \in Releases /\ Built(Archive(p)) = Named(p)
      /\ app = Nothing /\ ~ingress
  BY <1>1 DEF Is, CommandsAreLocked, StepsAreOrdered
<1>3. /\ CommandsAreLocked' /\ receiver'[p].at = "migrating"
      /\ \A q \in Receivers : q # p => receiver'[q].at = "idle"
      /\ Graph(p)' = Graph(p)
  BY <1>1, <1>2, GoesOn DEF Is, Phases
<1>4. (migrations = {} \/ unattended) /\ Orphans(migrations)
  BY <1>1, NoneRuns DEF Is
<1>5. StepsAreOrdered'
  BY <1>1, <1>2, <1>3, <1>4 DEF StepsAreOrdered, Is
<1>6. MigrationsAnswer'
  BY <1>1, <1>3, <1>4, ReleaseAssumptions DEF MigrationsAnswer, Orphans, Is
<1>7. QED BY <1>1, <1>2, <1>3, <1>5, <1>6 DEF ServesItsSchema, RunsTheNamedSource

(* Attended, the migration that ends is the only one, and nothing runs.     *)
LEMMA MigrationKeeps ==
  ASSUME ReleaseInv, NEW m \in migrations, MigrationEnds(m)
  PROVE  ReleaseInv'
<1> USE DEF ReleaseInv
<1> DEFINE commits == m.from = schema /\ (schema = Root \/ schema \in DOMAIN m.graph)
<1>1. /\ migrations' = migrations \ {m} /\ UNCHANGED <<app, ingress, unattended>>
      /\ schema' = IF commits THEN HeadOf(m.graph) ELSE schema
  BY DEF MigrationEnds, history
<1>2. CASE m.by = Nothing
  <2>1. unattended
    BY <1>2, ReleaseAssumptions DEF StepsAreOrdered
  <2>2. UNCHANGED <<receiver, releaseLock>>
    BY <1>2 DEF MigrationEnds, process
  <2>3. CommandsAreLocked'
    <3>1. CommandsAreLocked <=> CommandsAreLocked'
      BY <2>2 DEF CommandsAreLocked, Is, Named, Archive, Built
    <3>2. QED BY <3>1
  <2>4. StepsAreOrdered' /\ MigrationsAnswer'
    BY <1>1, <2>1, <2>2 DEF StepsAreOrdered, MigrationsAnswer, Is
  <2>5. QED BY <1>1, <2>1, <2>3, <2>4 DEF ServesItsSchema, RunsTheNamedSource
<1>3. CASE m.by # Nothing
  <2>1. PICK p \in Receivers : p = m.by
    BY <1>3 DEF MigrationsAnswer
  <2>2. Is(p, "migrating") /\ app = Nothing /\ ~ingress
        /\ Named(p) \in Releases /\ Built(Archive(p)) = Named(p)
    BY <1>3, <2>1 DEF MigrationsAnswer, StepsAreOrdered, CommandsAreLocked, Is
  <2>3. unattended \/ migrations' = {}
    BY <1>1 DEF StepsAreOrdered
  <2>4. Orphans(migrations')
    <3>1. SUFFICES ASSUME NEW n \in migrations, n # m, n.by # Nothing
                   PROVE  FALSE
      BY <1>1 DEF Orphans, MigrationsAnswer
    <3>2. n.by # p /\ Is(n.by, "migrating") /\ n.by \in Receivers
      BY <1>3, <2>1, <3>1 DEF MigrationsAnswer
    <3>3. Is(n.by, "idle")
      BY <2>2, <3>2, Alone DEF Is
    <3>4. QED BY <3>2, <3>3 DEF Is
  <2>5. CASE Goto(p, "migrated") /\ UNCHANGED releaseLock
    <3>1. /\ CommandsAreLocked' /\ receiver'[p].at = "migrated"
          /\ \A q \in Receivers : q # p => receiver'[q].at = "idle"
      BY <2>2, <2>5, GoesOn DEF Is, Phases
    <3>2. StepsAreOrdered' /\ MigrationsAnswer'
      BY <1>1, <2>2, <2>3, <2>4, <3>1 DEF StepsAreOrdered, MigrationsAnswer, Orphans, Is
    <3>3. QED BY <1>1, <2>2, <3>1, <3>2 DEF ServesItsSchema, RunsTheNamedSource
  <2>6. CASE Over(p)
    BY <1>1, <2>2, <2>3, <2>4, <2>6, Ends, AllIdle DEF Is
  <2>7. QED BY <1>3, <2>1, <2>5, <2>6 DEF MigrationEnds
<1>4. QED BY <1>2, <1>3

LEMMA MigratedKeeps ==
  ASSUME ReleaseInv, NEW p \in Receivers, CheckMigrated(p)
  PROVE  ReleaseInv'
<1>1. ~Is(p, "idle") /\ ~Is(p, "migrating")
      /\ UNCHANGED <<migrations, app, schema, unattended, ingress>>
  BY DEF CheckMigrated, Is, containers, history
<1>2. /\ Named(p) \in Releases /\ Built(Archive(p)) = Named(p)
      /\ app = Nothing /\ ~ingress
  BY DEF CheckMigrated, Is, ReleaseInv, CommandsAreLocked, StepsAreOrdered
<1>3. CASE Over(p)
  BY <1>1, <1>3, GivesUp
<1>4. CASE schema = Target(p) /\ Goto(p, "start") /\ UNCHANGED releaseLock
  BY <1>1, <1>2, <1>4, Proceeds DEF Phases
<1>5. QED BY <1>3, <1>4 DEF CheckMigrated

(* The application starts on the schema of its release.                     *)
LEMMA StartKeeps ==
  ASSUME ReleaseInv, NEW p \in Receivers, StartApplication(p)
  PROVE  ReleaseInv'
<1> USE DEF ReleaseInv
<1>1. Is(p, "start") /\ ~Is(p, "idle") /\ ~Is(p, "migrating")
      /\ UNCHANGED <<migrations, ingress, unattended>>
  BY DEF StartApplication, Is, history
<1>2. CASE Over(p) /\ UNCHANGED <<installed, schema, app>>
  BY <1>1, <1>2, GivesUp
<1>3. CASE /\ schema' = Target(p) /\ app' = [named |-> Named(p), built |-> Built(Archive(p))]
           /\ Goto(p, "started") /\ UNCHANGED releaseLock
  <2>1. Named(p) \in Releases /\ Built(Archive(p)) = Named(p)
    BY <1>1 DEF Is, CommandsAreLocked
  <2>2. /\ CommandsAreLocked' /\ receiver'[p].at = "started"
        /\ \A q \in Receivers : q # p => receiver'[q].at = "idle"
    BY <1>1, <1>3, <2>1, GoesOn DEF Phases
  <2>3. (migrations' = {} \/ unattended') /\ Orphans(migrations')
    BY <1>1, NoneRuns
  <2>4. StepsAreOrdered' /\ MigrationsAnswer'
    BY <2>2, <2>3 DEF StepsAreOrdered, MigrationsAnswer, Orphans, Is
  <2>5. schema' = HeadOf(Graphs[app'.built]) /\ app'.named = app'.built
    BY <1>3, <2>1 DEF Target, Graph
  <2>6. QED BY <2>2, <2>4, <2>5 DEF ServesItsSchema, RunsTheNamedSource
<1>4. QED BY <1>2, <1>3 DEF StartApplication

LEMMA StartedKeeps ==
  ASSUME ReleaseInv, NEW p \in Receivers, CheckStarted(p)
  PROVE  ReleaseInv'
<1>1. ~Is(p, "idle") /\ ~Is(p, "migrating") /\ UNCHANGED <<migrations, app, schema, unattended>>
  BY DEF CheckStarted, Is, containers, history
<1>2. Named(p) \in Releases /\ Built(Archive(p)) = Named(p)
  BY DEF CheckStarted, Is, ReleaseInv, CommandsAreLocked
<1>3. CASE Over(p)
  BY <1>1, <1>3, GivesUp
<1>4. CASE Goto(p, "relay") /\ UNCHANGED releaseLock
  BY <1>1, <1>2, <1>4, Proceeds DEF Phases
<1>5. QED BY <1>3, <1>4 DEF CheckStarted

LEMMA RelayKeeps ==
  ASSUME ReleaseInv, NEW p \in Receivers, StartRelay(p)
  PROVE  ReleaseInv'
<1>1. ~Is(p, "idle") /\ ~Is(p, "migrating") /\ UNCHANGED <<migrations, app, schema, unattended>>
      /\ Goto(p, "verify") /\ UNCHANGED releaseLock
  BY DEF StartRelay, Is, history
<1>2. Named(p) \in Releases /\ Built(Archive(p)) = Named(p)
  BY DEF StartRelay, Is, ReleaseInv, CommandsAreLocked
<1>3. QED BY <1>1, <1>2, Proceeds DEF Phases

LEMMA SucceedKeeps ==
  ASSUME ReleaseInv, NEW p \in Receivers, Succeed(p)
  PROVE  ReleaseInv'
  BY GivesUp DEF Succeed, Is, containers

LEMMA RuntimeKeeps ==
  ASSUME ReleaseInv, NEW p \in Receivers, ReplaceRuntime(p) \/ ReplaceManifest(p)
  PROVE  ReleaseInv'
<1>1. ~Is(p, "idle") /\ ~Is(p, "migrating") /\ UNCHANGED <<migrations, app, schema, unattended>>
  BY DEF ReplaceRuntime, ReplaceManifest, Is, containers, history
<1>2. CASE ReplaceRuntime(p)
  BY <1>1, <1>2, Proceeds DEF ReplaceRuntime, Phases, Loaded
<1>3. CASE ReplaceManifest(p)
  BY <1>1, <1>3, GivesUp DEF ReplaceManifest
<1>4. QED BY <1>2, <1>3
-----------------------------------------------------------------------------
(* What goes wrong *)

(* A failed start may have started the application all the same: by then    *)
(* the schema was checked.                                                  *)
LEMMA FailKeeps ==
  ASSUME ReleaseInv, NEW p \in Receivers, Fail(p)
  PROVE  ReleaseInv'
<1> USE DEF ReleaseInv
<1>1. /\ ~Is(p, "idle") /\ ~Is(p, "migrating") /\ Over(p)
      /\ UNCHANGED <<schema, migrations, unattended>>
  BY DEF Fail, history
<1>2. \/ app' = app \/ app' = Nothing
      \/ Is(p, "start") /\ app' = [named |-> Named(p), built |-> Built(Archive(p))]
  BY DEF Fail
<1>3. (migrations' = {} \/ unattended') /\ Orphans(migrations')
  BY <1>1, NoneRuns
<1>4. CommandsAreLocked' /\ \A q \in Receivers : receiver'[q].at = "idle"
  BY <1>1, Ends
<1>5. Is(p, "start") => /\ Built(Archive(p)) = Named(p)
                        /\ ~unattended => schema = HeadOf(Graphs[Built(Archive(p))])
  BY DEF CommandsAreLocked, StepsAreOrdered, Is, Target, Graph
<1>6. /\ app' # Nothing /\ ~unattended' => schema' = HeadOf(Graphs[app'.built])
      /\ app' # Nothing => app'.named = app'.built
  BY <1>1, <1>2, <1>5 DEF ServesItsSchema, RunsTheNamedSource
<1>7. QED BY <1>3, <1>4, <1>6, AllIdle

LEMMA TimeoutKeeps ==
  ASSUME ReleaseInv, NEW p \in Receivers, Timeout(p)
  PROVE  ReleaseInv'
<1> USE DEF ReleaseInv
<1>1. /\ Is(p, "migrating") /\ ~Is(p, "idle") /\ Over(p) /\ unattended' = TRUE
      /\ migrations' = {IF m.by = p THEN [m EXCEPT !.by = Nothing] ELSE m : m \in migrations}
      /\ app' = app
  BY DEF Timeout, Is
<1>2. CommandsAreLocked' /\ \A q \in Receivers : receiver'[q].at = "idle"
  BY <1>1, Ends
<1>3. \A m \in migrations : m.by = Nothing \/ m.by = p
  BY <1>1, Alone DEF MigrationsAnswer, Is
<1>4. Orphans(migrations')
  <2>1. SUFFICES ASSUME NEW m \in migrations
                 PROVE  LET n == IF m.by = p THEN [m EXCEPT !.by = Nothing] ELSE m
                        IN /\ n \in [graph : {n.graph}, from : {n.from}, by : {Nothing} \cup Receivers]
                           /\ n.by = Nothing
    BY <1>1 DEF Orphans
  <2>2. m \in [graph : {m.graph}, from : {m.from}, by : {Nothing} \cup Receivers]
    BY DEF MigrationsAnswer
  <2>3. QED BY <1>3, <2>2
<1>5. QED BY <1>1, <1>2, <1>4, AllIdle DEF RunsTheNamedSource

LEMMA RebootKeeps ==
  ASSUME ReleaseInv, Reboot
  PROVE  ReleaseInv'
<1> USE DEF ReleaseInv
<1>1. /\ receiver' = [p \in Receivers |-> Waiting] /\ migrations' = {}
      /\ UNCHANGED <<schema, unattended, app>>
  BY DEF Reboot, history
<1>2. Waiting \in [at : Phases, release : {Nothing} \cup Releases, archive : {Nothing} \cup Archives]
      /\ Waiting.at = "idle"
  BY DEF Waiting, Phases
<1>3. CommandsAreLocked' /\ \A q \in Receivers : receiver'[q].at = "idle"
  BY <1>1, <1>2 DEF CommandsAreLocked, Is
<1>4. Orphans(migrations')
  BY <1>1 DEF Orphans
<1>5. QED BY <1>1, <1>3, <1>4, AllIdle DEF ServesItsSchema, RunsTheNamedSource

LEMMA DecayKeeps ==
  ASSUME ReleaseInv, NEW s, Decay(s)
  PROVE  ReleaseInv'
<1>1. UNCHANGED <<receiver, releaseLock, migrations, app, ingress, schema, unattended>>
  BY DEF Decay, containers, process, history
<1>2. ReleaseInv <=> ReleaseInv'
  BY <1>1 DEF ReleaseInv, CommandsAreLocked, StepsAreOrdered, MigrationsAnswer, ServesItsSchema,
     RunsTheNamedSource, Is, Named, Archive, Built, Graph, Target
<1>3. QED BY <1>2
-----------------------------------------------------------------------------
(* The scheduler *)

ScheduleInv == RunsAreGuarded /\ InterruptedAreCounted
IsState(s) ==
  s \in [run : Schedulers \cup {Nobody}, status : Status, interrupted : Int, cursor : {s.cursor}]

LEMMA Ends0 ==
  /\ IsTick(Off) /\ IsTick(Resting) /\ Off.at = "off" /\ Resting.at = "idle"
  /\ ~Off.guarded /\ ~Resting.guarded
  BY DEF IsTick, Off, Resting

LEMMA ScheduleSame ==
  ASSUME ScheduleInv, UNCHANGED <<guardedBy, state, tick, open>>
  PROVE  ScheduleInv'
<1>1. ScheduleInv <=> ScheduleInv'
  BY DEF ScheduleInv, RunsAreGuarded, InterruptedAreCounted, IsTick, Guarded, Ticks
<1>2. QED BY <1>1

(* A process moves; the row changes only by whoever may write it.           *)
LEMMA Moves ==
  ASSUME ScheduleInv, NEW p \in Schedulers, NEW x, IsTick(x), tick' = [tick EXCEPT ![p] = x],
         x.guarded <=> guardedBy' = p,
         \A q \in Schedulers : q # p => (guardedBy' = q <=> guardedBy = q),
         IsState(state'), state' = state \/ guardedBy = p \/ guardedBy = Nobody,
         x.guarded => x.at \notin {"off", "idle"} /\ state'.run = p /\ state'.status = "running",
         open' \in Int, InterruptedAreCounted'
  PROVE  ScheduleInv'
<1> USE DEF ScheduleInv
<1>1. /\ tick'[p] = x /\ \A q \in Schedulers : q # p => tick'[q] = tick[q]
      /\ tick' = [q \in Schedulers |-> tick'[q]]
  BY DEF RunsAreGuarded
<1>2. ASSUME NEW q \in Schedulers
      PROVE  /\ IsTick(tick'[q])
             /\ tick'[q].guarded <=> guardedBy' = q
             /\ tick'[q].guarded => /\ tick'[q].at # "off" /\ tick'[q].at # "idle"
                                    /\ state'.run = q /\ state'.status = "running"
  <2>1. CASE q = p
    BY <1>1, <2>1
  <2>2. CASE q # p
    BY <1>1, <2>2, SchedulerAssumptions DEF RunsAreGuarded, Guarded, Ticks
  <2>3. QED BY <2>1, <2>2
<1>3. RunsAreGuarded'
  BY <1>1, <1>2 DEF RunsAreGuarded, IsState, IsTick, Guarded, Ticks
<1>4. QED BY <1>3

LEMMA StateType ==
  ASSUME ScheduleInv
  PROVE  IsState(state)
  BY DEF ScheduleInv, RunsAreGuarded, IsState

LEMMA StartCounts ==
  ASSUME ScheduleInv, NEW p \in Schedulers, Start(p)
  PROVE  ScheduleInv'
<1> USE DEF ScheduleInv
<1> DEFINE x == [tick[p] EXCEPT !.at = "task", !.task = 1, !.attempt = 1,
                                !.failed = FALSE, !.guarded = TRUE]
           more == IF state.status = "running" THEN 1 ELSE 0
           s == [state EXCEPT !.run = p, !.status = "running", !.interrupted = @ + more]
<1>1. IsTick(tick[p]) /\ IsState(state) /\ state.interrupted \in Int /\ open \in Int
  BY DEF RunsAreGuarded, IsState
<1>2. IsTick(x) /\ x.guarded /\ x.at = "task"
  BY <1>1 DEF IsTick
<1>0. more \in Int
  OBVIOUS
<1> HIDE DEF more
<1>3. IsState(s) /\ s.run = p /\ s.status = "running" /\ s.interrupted = state.interrupted + more
  <2>1. state \in [run : Schedulers \cup {Nobody}, status : Status, interrupted : Int,
                  cursor : {state.cursor}]
    BY <1>1 DEF IsState
  <2>2. state.interrupted + more \in Int
    BY <1>0, <1>1
  <2> DEFINE i == state.interrupted + more
  <2> HIDE DEF i
  <2>3. /\ [state EXCEPT !.run = p, !.status = "running", !.interrupted = i]
             \in [run : Schedulers \cup {Nobody}, status : Status, interrupted : {i},
                  cursor : {state.cursor}]
        /\ i \in Int
    BY <2>1, <2>2 DEF Status, i
  <2>4. s = [state EXCEPT !.run = p, !.status = "running", !.interrupted = i]
    BY DEF i
  <2> HIDE DEF s
  <2>5. s.run = p /\ s.status = "running" /\ s.interrupted = i /\ s.cursor = state.cursor
    BY <2>1, <2>4
  <2>6. s \in [run : Schedulers \cup {Nobody}, status : Status, interrupted : Int,
              cursor : {state.cursor}]
    BY <2>3, <2>4
  <2>7. QED BY <2>5, <2>6 DEF IsState, i
<1>4. /\ tick' = [tick EXCEPT ![p] = x] /\ state' = s /\ guardedBy' = p /\ guardedBy = Nobody
      /\ open' = open + 1
  BY DEF Start, more
<1> HIDE DEF x, s
<1>5. open = state.interrupted + more
  BY DEF InterruptedAreCounted, more
<1>6. InterruptedAreCounted' /\ open' \in Int
  BY <1>0, <1>1, <1>3, <1>4, <1>5 DEF InterruptedAreCounted
<1>7. QED BY <1>2, <1>3, <1>4, <1>6, Moves, SchedulerAssumptions

(* A step that changes neither the lock nor the row nor what is open.       *)
LEMMA Busy ==
  ASSUME ScheduleInv, NEW p \in Schedulers, NEW x, IsTick(x), tick' = [tick EXCEPT ![p] = x],
         x.guarded = tick[p].guarded, x.guarded => x.at \notin {"off", "idle"},
         UNCHANGED <<guardedBy, state, open>>
  PROVE  ScheduleInv'
<1> USE DEF ScheduleInv
<1>1. InterruptedAreCounted' /\ open' \in Int
  BY DEF InterruptedAreCounted, RunsAreGuarded
<1>2. /\ x.guarded <=> guardedBy' = p
      /\ x.guarded => state'.run = p /\ state'.status = "running"
  BY DEF RunsAreGuarded, Guarded
<1>3. IsState(state')
  BY StateType DEF IsState
<1>4. QED BY <1>1, <1>2, <1>3, Moves

(* A tick that ends, with its lock if it has it; the row is left alone.     *)
LEMMA Leaves ==
  ASSUME ScheduleInv, NEW p \in Schedulers, NEW x, IsTick(x), tick' = [tick EXCEPT ![p] = x],
         ~x.guarded, FreeGuard(p), UNCHANGED <<state, open>>
  PROVE  ScheduleInv'
<1> USE DEF ScheduleInv
<1>1. InterruptedAreCounted' /\ open' \in Int
  BY DEF InterruptedAreCounted, RunsAreGuarded
<1>2. guardedBy' # p /\ \A q \in Schedulers : q # p => (guardedBy' = q <=> guardedBy = q)
  BY SchedulerAssumptions DEF FreeGuard
<1>3. IsState(state')
  BY StateType DEF IsState
<1>4. QED BY <1>1, <1>2, <1>3, Moves

(* A run that records its end.                                              *)
LEMMA Closes ==
  ASSUME ScheduleInv, NEW p \in Schedulers, Guarded(p), NEW status \in Status \ {"running"},
         tick' = [tick EXCEPT ![p] = Settle(p)], state' = [state EXCEPT !.status = status],
         FreeGuard(p), open' = open - 1
  PROVE  ScheduleInv'
<1> USE DEF ScheduleInv
<1>1. IsState(state) /\ state.interrupted \in Int /\ open \in Int /\ state.status = "running"
      /\ guardedBy = p
  BY DEF RunsAreGuarded, IsState
<1> DEFINE s == [state EXCEPT !.status = status]
<1>2. IsState(s) /\ s.status = status /\ s.interrupted = state.interrupted
  BY <1>1 DEF IsState
<1> HIDE DEF s
<1>3. open = state.interrupted + 1
  BY <1>1 DEF InterruptedAreCounted
<1>4. state' = s
  BY DEF s
<1>5. InterruptedAreCounted' /\ open' \in Int
  BY <1>1, <1>2, <1>3, <1>4 DEF InterruptedAreCounted
<1>6. guardedBy' # p /\ \A q \in Schedulers : q # p => (guardedBy' = q <=> guardedBy = q)
  BY SchedulerAssumptions DEF FreeGuard
<1>7. IsTick(Settle(p)) /\ ~Settle(p).guarded
  BY Ends0 DEF Settle
<1>8. IsState(state')
  BY <1>2, <1>4
<1>9. QED BY <1>1, <1>5, <1>6, <1>7, <1>8, Moves

LEMMA WorkCounts ==
  ASSUME ScheduleInv, NEW p \in Schedulers, Work(p)
  PROVE  ScheduleInv'
<1>1. IsTick(tick[p]) /\ IsState(state) /\ (Guarded(p) <=> guardedBy = p)
  BY DEF ScheduleInv, RunsAreGuarded, IsState
<1>2. CASE Start(p)
  BY <1>2, StartCounts
<1>3. CASE Perform(p)
  <2>1. PICK failed \in BOOLEAN :
          tick' = [tick EXCEPT ![p].at = "record", ![p].failed = @ \/ failed,
                  ![p].following = IF TaskOf(p) \in Cursors
                                     THEN Following(TaskOf(p), state.cursor[TaskOf(p)]) ELSE 0]
    BY <1>3 DEF Perform
  <2> DEFINE following == IF TaskOf(p) \in Cursors
                            THEN Following(TaskOf(p), state.cursor[TaskOf(p)]) ELSE 0
             x == [tick[p] EXCEPT !.at = "record", !.failed = @ \/ failed, !.following = following]
  <2>2. tick' = [tick EXCEPT ![p] = x]
    BY <2>1 DEF ScheduleInv, RunsAreGuarded
  <2> HIDE DEF following
  <2>3. IsTick(x) /\ x.guarded = tick[p].guarded /\ x.at = "record"
    BY <1>1 DEF IsTick
  <2> HIDE DEF x
  <2>4. QED BY <1>3, <2>2, <2>3, Busy DEF Perform
<1>4. CASE Record(p)
  <2> DEFINE x == IF tick[p].task = Len(Tasks) THEN [tick[p] EXCEPT !.at = "finish"]
                  ELSE [tick[p] EXCEPT !.at = "task", !.task = @ + 1, !.attempt = 1]
             t == TaskOf(p)
             s == [state EXCEPT !.cursor[t] = tick[p].following]
  <2>1. tick' = [tick EXCEPT ![p] = x] /\ (state' = state \/ state' = s)
        /\ UNCHANGED <<guardedBy, open>> /\ Guarded(p)
    <3>1. tick' = [tick EXCEPT ![p] = x]
      BY <1>4 DEF Record
    <3>2. state' = state \/ state' = s
      BY <1>4 DEF Record
    <3>3. QED BY <1>4, <3>1, <3>2 DEF Record
  <2>2. IsTick(x) /\ x.guarded = tick[p].guarded /\ x.at \in {"finish", "task"}
    BY <1>1 DEF IsTick
  <2>3. /\ IsState(s) /\ s.run = state.run /\ s.status = state.status
        /\ s.interrupted = state.interrupted
    <3> DEFINE cursor == [state.cursor EXCEPT ![t] = tick[p].following]
    <3>1. s = [state EXCEPT !.cursor = cursor]
      BY <1>1 DEF IsState
    <3> HIDE DEF cursor
    <3>2. QED BY <1>1, <3>1 DEF IsState
  <2> HIDE DEF x, s, t
  <2>4. IsState(state') /\ state'.run = state.run /\ state'.status = state.status
        /\ state'.interrupted = state.interrupted
    BY <1>1, <2>1, <2>3
  <2>5. InterruptedAreCounted' /\ open' \in Int
    BY <2>1, <2>4 DEF ScheduleInv, InterruptedAreCounted, RunsAreGuarded
  <2>6. x.guarded /\ state'.run = p /\ state'.status = "running" /\ guardedBy = p
    BY <2>1, <2>2, <2>4 DEF ScheduleInv, RunsAreGuarded, Guarded
  <2>7. QED BY <2>1, <2>2, <2>4, <2>5, <2>6, Moves
<1>5. CASE Break(p)
  <2> DEFINE x == [tick[p] EXCEPT !.at = "finish", !.failed = TRUE]
  <2>1. tick' = [tick EXCEPT ![p] = x]
    BY <1>5 DEF Break, ScheduleInv, RunsAreGuarded
  <2>2. IsTick(x) /\ x.guarded = tick[p].guarded /\ x.at = "finish"
    BY <1>1 DEF IsTick
  <2> HIDE DEF x
  <2>3. QED BY <1>5, <2>1, <2>2, Busy DEF Break
<1>6. CASE Finish(p)
  <2>1. PICK status \in Status \ {"running"} : state' = [state EXCEPT !.status = status]
    BY <1>6 DEF Finish, Status
  <2>2. QED BY <1>6, <2>1, Closes DEF Finish
<1>7. CASE Unguarded(p)
  <2>1. IsTick(Settle(p)) /\ ~Settle(p).guarded /\ tick' = [tick EXCEPT ![p] = Settle(p)]
    BY <1>7, Ends0 DEF Settle, Unguarded
  <2>2. FreeGuard(p)
    BY <1>1, <1>7 DEF Unguarded, FreeGuard
  <2>3. QED BY <1>7, <2>1, <2>2, Leaves DEF Unguarded
<1>8. QED BY <1>2, <1>3, <1>4, <1>5, <1>6, <1>7 DEF Work

LEMMA MishapCounts ==
  ASSUME ScheduleInv, NEW p \in Schedulers, Mishap(p)
  PROVE  ScheduleInv'
<1>1. IsTick(tick[p]) /\ IsState(state) /\ (Guarded(p) <=> guardedBy = p)
  BY DEF ScheduleInv, RunsAreGuarded, IsState
<1>2. CASE Raise(p)
  <2> DEFINE kept == IF TaskOf(p) \in Cursors THEN state.cursor[TaskOf(p)] ELSE 0
             x == IF tick[p].attempt < Attempts /\ ~tick[p].stop
                  THEN [tick[p] EXCEPT !.attempt = @ + 1]
                  ELSE [tick[p] EXCEPT !.at = "record", !.failed = TRUE, !.following = kept]
  <2>1. tick' = [tick EXCEPT ![p] = x]
    BY <1>2 DEF Raise
  <2> HIDE DEF kept
  <2>2. IsTick(x) /\ x.guarded = tick[p].guarded /\ x.at \in {"record", "task"}
    BY <1>1, <1>2 DEF IsTick, Raise, Ticks
  <2> HIDE DEF x
  <2>3. QED BY <1>2, <2>1, <2>2, Busy DEF Raise
<1>3. CASE Abandon(p)
  BY <1>3, Closes DEF Abandon, Status
<1>4. CASE LoseGuard(p)
  <2> DEFINE x == [tick[p] EXCEPT !.guarded = FALSE]
  <2>1. tick' = [tick EXCEPT ![p] = x]
    BY <1>4 DEF LoseGuard
  <2>2. IsTick(x) /\ ~x.guarded
    BY <1>1 DEF IsTick
  <2> HIDE DEF x
  <2>3. QED BY <1>4, <2>1, <2>2, Leaves DEF LoseGuard
<1>5. CASE Die(p)
  <2>1. IsTick(Settle(p)) /\ ~Settle(p).guarded
    BY Ends0 DEF Settle
  <2>2. QED BY <1>5, <2>1, Leaves DEF Die
<1>6. QED BY <1>2, <1>3, <1>4, <1>5 DEF Mishap

LEMMA TerminateCounts ==
  ASSUME ScheduleInv, NEW p \in Schedulers, Terminate(p)
  PROVE  ScheduleInv'
<1> DEFINE x == IF tick[p].at = "idle" THEN Off ELSE [tick[p] EXCEPT !.stop = TRUE]
<1>1. tick' = [tick EXCEPT ![p] = x]
  BY DEF Terminate
<1>2. /\ IsTick(tick[p]) /\ (tick[p].at = "idle" => ~tick[p].guarded)
      /\ (tick[p].guarded => tick[p].at # "off")
  BY DEF ScheduleInv, RunsAreGuarded, Guarded, Ticks
<1>3. IsTick(x) /\ x.guarded = tick[p].guarded /\ (x.guarded => x.at \notin {"off", "idle"})
  BY <1>2, Ends0 DEF IsTick
<1> HIDE DEF x
<1>4. QED BY <1>1, <1>3, Busy DEF Terminate

LEMMA ContainerCounts ==
  ASSUME ScheduleInv, Launch \/ Restart
  PROVE  ScheduleInv'
<1> USE DEF ScheduleInv
<1>1. /\ open' = open /\ state' = state
      /\ tick' = [p \in Schedulers |-> tick'[p]]
  BY DEF Launch, Restart
<1>2. ASSUME NEW p \in Schedulers
      PROVE  /\ IsTick(tick'[p])
             /\ tick'[p].guarded <=> guardedBy' = p
             /\ tick'[p].guarded => /\ tick'[p].at # "off" /\ tick'[p].at # "idle"
                                    /\ state'.run = p /\ state'.status = "running"
  <2>1. /\ IsTick(tick[p]) /\ (tick[p].guarded <=> guardedBy = p)
        /\ tick[p].guarded => /\ tick[p].at # "off" /\ tick[p].at # "idle"
                              /\ state.run = p /\ state.status = "running"
    BY DEF RunsAreGuarded, Guarded, Ticks
  <2>2. CASE Launch
    <3>1. tick'[p] = (IF tick[p].at = "off" THEN Resting ELSE tick[p]) /\ guardedBy' = guardedBy
      BY <2>2 DEF Launch, Ticks
    <3>2. CASE tick[p].at = "off"
      BY <2>1, <3>1, <3>2, Ends0
    <3>3. CASE tick[p].at # "off"
      BY <1>1, <2>1, <3>1, <3>3
    <3>4. QED BY <3>2, <3>3
  <2>3. CASE Restart
    <3>1. tick'[p] \in {Off, Resting} /\ guardedBy' = Nobody
      BY <2>3 DEF Restart, Settle
    <3>2. QED BY <3>1, Ends0, SchedulerAssumptions
  <2>4. QED BY <2>2, <2>3
<1>3. RunsAreGuarded'
  BY <1>1, <1>2 DEF RunsAreGuarded, IsTick, Guarded, Ticks
<1>4. QED BY <1>1, <1>3 DEF InterruptedAreCounted
-----------------------------------------------------------------------------
(* The server *)

LEMMA Whole ==
  DeploymentInv <=> ReleaseInv /\ SchedulerIsOff /\ ScheduleInv
  BY DEF DeploymentInv, ReleaseInv, ScheduleInv
LEMMA WholeNext ==
  DeploymentInv' <=> ReleaseInv' /\ SchedulerIsOff' /\ ScheduleInv'
  BY DEF DeploymentInv, ReleaseInv, ScheduleInv

LEMMA StartsWhole ==
  ASSUME Init
  PROVE  DeploymentInv
<1> USE DEF Init, ReleaseInit, SchedulerInit
<1>1. ReleaseInv
  <2>1. Waiting \in [at : Phases, release : {Nothing} \cup Releases,
                     archive : {Nothing} \cup Archives] /\ Waiting.at = "idle"
    BY DEF Waiting, Phases
  <2>2. QED BY <2>1 DEF ReleaseInv, CommandsAreLocked, StepsAreOrdered, MigrationsAnswer,
               ServesItsSchema, RunsTheNamedSource, Is
<1>2. SchedulerIsOff
  BY Ends0 DEF SchedulerIsOff, AllOff, Ticks
<1>3. ScheduleInv
  <2> DEFINE cursor == [t \in Cursors |-> 0]
  <2>1. state = [run |-> Nobody, status |-> "idle", interrupted |-> 0, cursor |-> cursor]
    OBVIOUS
  <2> HIDE DEF cursor
  <2>2. /\ state \in [run : Schedulers \cup {Nobody}, status : Status, interrupted : Int,
                      cursor : {state.cursor}]
        /\ state.status = "idle" /\ state.interrupted = 0
    BY <2>1 DEF Status
  <2>3. QED BY <2>2, Ends0, SchedulerAssumptions
            DEF ScheduleInv, RunsAreGuarded, InterruptedAreCounted, Guarded
<1>4. QED BY <1>1, <1>2, <1>3, Whole

(* A scheduler that is off stays off until its container starts.            *)
LEMMA StaysOff ==
  ASSUME ScheduleInv, SchedulerIsOff, app' = app,
         \/ Restart
         \/ \E s \in Schedulers : Work(s) \/ Mishap(s) \/ Terminate(s)
  PROVE  SchedulerIsOff'
<1>1. SUFFICES ASSUME app = Nothing PROVE AllOff'
  BY DEF SchedulerIsOff
<1>2. AllOff
  BY <1>1 DEF SchedulerIsOff
<1>3. CASE Restart
  BY <1>2, <1>3, Ends0 DEF Restart, AllOff, Ticks
<1>4. ASSUME NEW s \in Schedulers, Work(s) \/ Mishap(s) \/ Terminate(s)
      PROVE  FALSE
  <2>1. Ticks(s, "off") /\ ~Guarded(s)
    BY <1>2 DEF AllOff, ScheduleInv, RunsAreGuarded
  <2>2. QED BY <1>4, <2>1 DEF Work, Mishap, Terminate, Start, Perform, Record, Break, Finish,
            Unguarded, Raise, Abandon, LoseGuard, Die, Ticks
<1>5. QED BY <1>3, <1>4

LEMMA OffSame ==
  ASSUME SchedulerIsOff, app' = app, UNCHANGED tick
  PROVE  SchedulerIsOff'
<1>1. SchedulerIsOff <=> SchedulerIsOff'
  BY DEF SchedulerIsOff, AllOff, Ticks
<1>2. QED BY <1>1

(* What a step does to each of the three parts.                             *)
LEMMA StepsKeep ==
  ASSUME DeploymentInv, [Next]_vars
  PROVE  DeploymentInv'
<1>0. ReleaseInv /\ SchedulerIsOff /\ ScheduleInv
  BY Whole
<1>1. ASSUME UNCHANGED schedule
      PROVE  ScheduleInv' /\ UNCHANGED tick
  BY <1>0, <1>1, ScheduleSame DEF schedule
<1>2. ASSUME NEW p \in Receivers, Command(p)
      PROVE  DeploymentInv'
  <2>1. ReleaseInv'
    BY <1>0, <1>2, ReceiveKeeps, LoadKeeps, TransitionKeeps, MigrateKeeps, MigratedKeeps,
       StartedKeeps, RelayKeeps, SucceedKeeps, RuntimeKeeps DEF Command
  <2>2. app' = app
    BY <1>2 DEF Command, Receive, Load, CheckTransition, Migrate, CheckMigrated, CheckStarted,
       StartRelay, Succeed, ReplaceRuntime, ReplaceManifest, containers
  <2>3. SchedulerIsOff' /\ ScheduleInv'
    BY <1>0, <1>1, <1>2, <2>2, OffSame DEF Command
  <2>4. QED BY <2>1, <2>3, WholeNext
<1>3. ASSUME NEW p \in Receivers, StopAll(p)
      PROVE  DeploymentInv'
  <2>1. AllOff' /\ ScheduleInv'
    BY <1>1, <1>3 DEF StopAll, AllOff, Ticks
  <2>2. QED BY <1>0, <1>3, <2>1, QuiesceKeeps, WholeNext DEF StopAll, SchedulerIsOff
<1>4. ASSUME NEW p \in Receivers, StartAll(p)
      PROVE  DeploymentInv'
  <2>1. ReleaseInv'
    BY <1>0, <1>4, StartKeeps DEF StartAll
  <2>2. CASE app' = app
    BY <1>0, <1>1, <1>4, <2>1, <2>2, OffSame, WholeNext DEF StartAll
  <2>3. CASE app' # app
    <3>1. app' = [named |-> Named(p), built |-> Built(Archive(p))]
      BY <1>4, <2>3 DEF StartAll, StartApplication
    <3>2. Named(p) \in Releases /\ Built(Archive(p)) = Named(p)
      BY <1>0, <1>4 DEF StartAll, StartApplication, Is, ReleaseInv, CommandsAreLocked
    <3>3. app' # Nothing
      BY <3>1, <3>2, ReleaseAssumptions
    <3>4. ScheduleInv'
      BY <1>0, <1>4, <2>3, ContainerCounts DEF StartAll
    <3>5. QED BY <2>1, <3>3, <3>4, WholeNext DEF SchedulerIsOff
  <2>4. QED BY <2>2, <2>3
<1>5. ASSUME NEW p \in Receivers, Upgrade(p)
      PROVE  DeploymentInv'
  <2>1. app' = app
    BY <1>5 DEF Upgrade, BeginUpgrade, containers
  <2>2. QED BY <1>0, <1>1, <1>5, <2>1, OffSame, UpgradeKeeps, WholeNext DEF Upgrade
<1>6. ASSUME NEW p \in Receivers, NEW r \in Releases, NEW a \in Archives, Ask(p, r, a)
      PROVE  DeploymentInv'
  <2>1. PICK at \in {"receive", "apply"} : Begin(p, at, r, a)
    BY <1>6 DEF Ask
  <2>2. app' = app
    BY <2>1 DEF Begin, containers
  <2>3. QED BY <1>0, <1>1, <1>6, <2>1, <2>2, OffSame, BeginKeeps, WholeNext DEF Ask
<1>7. ASSUME NEW p \in Receivers, Broken(p)
      PROVE  DeploymentInv'
  <2>1. ReleaseInv'
    BY <1>0, <1>7, FailKeeps DEF Broken
  <2>2. ScheduleInv'
    BY <1>0, <1>1, <1>7, ContainerCounts DEF Broken
  <2>3. SchedulerIsOff'
    <3>1. SUFFICES ASSUME app' = Nothing PROVE AllOff'
      BY DEF SchedulerIsOff
    <3>2. AllOff /\ UNCHANGED tick
      BY <1>1, <1>7, <3>1 DEF Broken
    <3>3. QED BY <3>2 DEF AllOff, Ticks
  <2>4. QED BY <2>1, <2>2, <2>3, WholeNext
<1>8. CASE Migrated
  <2>1. PICK m \in migrations : MigrationEnds(m)
    BY <1>8 DEF Migrated
  <2>2. app' = app
    BY <2>1 DEF MigrationEnds
  <2>3. QED BY <1>0, <1>1, <1>8, <2>1, <2>2, OffSame, MigrationKeeps, WholeNext DEF Migrated
<1>9. CASE Disturbed
  <2>1. app' = app
    BY <1>9 DEF Disturbed, Timeout, Reboot, Decay, containers
  <2>2. ReleaseInv'
    BY <1>0, <1>9, TimeoutKeeps, RebootKeeps, DecayKeeps DEF Disturbed
  <2>3. SchedulerIsOff' /\ ScheduleInv'
    BY <1>0, <1>1, <1>9, <2>1, OffSame, StaysOff, ContainerCounts DEF Disturbed
  <2>4. QED BY <2>2, <2>3, WholeNext
<1>10. CASE Sweeping
  <2>1. ReleaseInv' /\ app' = app
    BY <1>0, <1>10, ReleaseSame DEF Sweeping, deployment
  <2>2. ASSUME NEW s \in Schedulers, Work(s) \/ Mishap(s) \/ Terminate(s)
        PROVE  SchedulerIsOff' /\ ScheduleInv'
    BY <1>0, <2>1, <2>2, StaysOff, WorkCounts, MishapCounts, TerminateCounts
  <2>3. ASSUME NEW t \in Cursors, NEW i \in Items, Arrive(t, i) \/ Vanish(t, i)
        PROVE  SchedulerIsOff' /\ ScheduleInv'
    BY <1>0, <2>1, <2>3, OffSame, ScheduleSame DEF Arrive, Vanish
  <2>4. QED BY <1>10, <2>1, <2>2, <2>3, WholeNext DEF Sweeping
<1>11. CASE UNCHANGED vars
  <2>1. UNCHANGED deployment /\ UNCHANGED schedule /\ app' = app
    BY <1>11 DEF vars, deployment
  <2>2. QED BY <1>0, <1>1, <2>1, OffSame, ReleaseSame, WholeNext
<1>12. QED
  BY <1>2, <1>3, <1>4, <1>5, <1>6, <1>7, <1>8, <1>9, <1>10, <1>11 DEF Next

(* Deployment keeps its order, and the scheduler its lock and row, whatever *)
(* fails or restarts in between.                                            *)
THEOREM DeploymentInvariant == Spec => []DeploymentInv
  BY StartsWhole, StepsKeep, PTL DEF Spec

(* No attended command leaves an application on another release's schema    *)
(* (fillable_runtime.py, apply).                                            *)
THEOREM SchemasAreServed == Spec => []ServesItsSchema
<1>1. DeploymentInv => ServesItsSchema
  BY DEF DeploymentInv
<1>2. QED BY <1>1, DeploymentInvariant, PTL

(* No writer of the database runs beside a migration, and no second one.    *)
THEOREM MigrationsAreAlone == Spec => []MigratesAlone
<1>1. ASSUME DeploymentInv PROVE MigratesAlone
  <2>1. SUFFICES ASSUME migrations # {}, ~unattended
                 PROVE  Cardinality(migrations) = 1 /\ app = Nothing /\ ~ingress /\ AllOff
    BY DEF MigratesAlone
  <2>2. PICK p \in Receivers :
          /\ Is(p, "migrating")
          /\ migrations = {[graph |-> Graph(p), from |-> schema, by |-> p]}
    BY <1>1, <2>1 DEF DeploymentInv, StepsAreOrdered
  <2>3. Cardinality(migrations) = 1
    BY <2>2, FS_Singleton
  <2>4. app = Nothing /\ ~ingress
    BY <1>1, <2>2 DEF DeploymentInv, StepsAreOrdered, Is
  <2>5. QED BY <1>1, <2>3, <2>4 DEF DeploymentInv, SchedulerIsOff
<1>2. QED BY <1>1, DeploymentInvariant, PTL

(* What runs under a commit's name was built from it (load_images).         *)
THEOREM SourcesAreNamed == Spec => []RunsTheNamedSource
<1>1. DeploymentInv => RunsTheNamedSource
  BY DEF DeploymentInv
<1>2. QED BY <1>1, DeploymentInvariant, PTL

(* With any number of schedulers, each run that nobody ended is counted     *)
(* once.                                                                    *)
THEOREM InterruptionsAreCounted == Spec => []InterruptedAreCounted
<1>1. DeploymentInv => InterruptedAreCounted
  BY DEF DeploymentInv
<1>2. QED BY <1>1, DeploymentInvariant, PTL
==============================================================================
