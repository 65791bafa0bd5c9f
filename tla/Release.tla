------------------------------- MODULE Release -------------------------------
(***************************************************************************)
(* Deployment on the server: a receiver, started for each command, stores  *)
(* a verified archive or applies one.  Applying loads the images, accepts  *)
(* their schema history, stops the application, migrates the database,     *)
(* starts the application, then the relay, and records the release.  One   *)
(* process lock serialises the commands; nothing else survives a receiver, *)
(* so a command that fails at any step leaves what its steps did.  The     *)
(* receiver's own code is upgraded once, under the same lock; what the     *)
(* earlier code did with commands is not modelled.                         *)
(*                                                                         *)
(* Docker, Alembic and the host are external.  A container that was        *)
(* running comes back after a reboot, one that was stopped does not, and   *)
(* a migration is one transaction.  A command that takes ten minutes is    *)
(* given up, and the migration it started may go on.                       *)
(***************************************************************************)
EXTENDS Integers, FiniteSetsExt, Functions

CONSTANTS Receivers,   (* processes that run a command                         *)
          Releases,    (* merged commits                                       *)
          Graphs,      (* schema history of each release: revision to parent   *)
          Root,        (* the parent of the first, the schema of an empty base *)
          Newest,
          Images,      (* image of a role, with the commit its label names     *)
          Archives,    (* archives, each known by its digest                   *)
          Nothing,
          MaxApplies,  (* bound on commands beyond those the newest needs      *)
          MaxFailures  (* bound on failed commands, reboots and timeouts       *)

Roles == {"backend", "gateway"}

ASSUME ReleaseAssumptions ==
  /\ Nothing \notin Receivers /\ Nothing \notin Releases
  /\ Nothing \notin [named : Releases, built : Releases]

VARIABLES
  runtime,      (* ops/scripts/fillable_runtime.py                            *)
  manifest,     (* installed-files.json: the version whose digest it holds    *)
  releaseLock,  (* release.lock                                               *)
  receiver,     (* every receiver: its step, and the release and archive      *)
  stored,       (* releases/: archives with a receipt, as <<release, archive>> *)
  damaged,      (* those whose file no longer has its digest                  *)
  schema,       (* alembic_version                                            *)
  migrations,   (* migrations that run, and the receiver each answers to      *)
  app,          (* the application's containers: the release named, and built *)
  ingress,      (* whether the relay runs                                     *)
  record,       (* state.json                                                 *)
  unattended,   (* history: some migration went on without its receiver       *)
  content,      (* history: the last apply was the newest, and succeeded      *)
  applies, failures

deployment == <<runtime, manifest, releaseLock, receiver, stored, damaged, schema, migrations, app,
                ingress, record, unattended, content, applies, failures>>

installed  == <<runtime, manifest>>
process    == <<releaseLock, receiver>>
disk       == <<stored, damaged, record>>
containers == <<migrations, app, ingress>>
history    == <<unattended, content, applies>>

Waiting == [at |-> "idle", release |-> Nothing, archive |-> Nothing]

ReleaseInit ==
  /\ runtime \in {"previous", "target"} /\ manifest = runtime
  /\ releaseLock = Nothing
  /\ receiver = [p \in Receivers |-> Waiting]
  /\ stored = {} /\ damaged = {}
  /\ schema = Root
  /\ migrations = {}
  /\ app = Nothing /\ ingress = FALSE
  /\ record = Nothing
  /\ unattended = FALSE /\ content = FALSE
  /\ applies = 0 /\ failures = 0

-----------------------------------------------------------------------------
(* What a release must be.                                                  *)

(* The release's revisions, walked from the only head to the root, are one  *)
(* chain of all of them.                                                    *)
Heads(graph) == DOMAIN graph \ Range(graph)

Walk(graph, head) ==
  LET at[n \in 0..Cardinality(DOMAIN graph)] ==
        IF n = 0 THEN head
        ELSE IF at[n - 1] \in DOMAIN graph THEN graph[at[n - 1]] ELSE Nothing
  IN at

IsLinear(graph) ==
  /\ Cardinality(Heads(graph)) = 1
  /\ \A head \in Heads(graph) :
       LET at == Walk(graph, head)
           n  == Cardinality(DOMAIN graph)
       IN at[n] = Root /\ {at[i] : i \in 0..(n - 1)} = DOMAIN graph

HeadOf(graph) == CHOOSE head \in Heads(graph) : TRUE

TransitionFromKnown(graph, current) == IsLinear(graph) /\ current \in DOMAIN graph

(* A schema the release can go forward from: none yet, its head, or a known *)
(* ancestor.                                                                *)
Transition(graph, current) ==
  IsLinear(graph) /\ (current = Root \/ current \in DOMAIN graph)

(* The archive's manifest and the source in it name the commit, the         *)
(* manifest each role's image once, and the two images the archive holds    *)
(* are those, labelled and tagged with the commit.                          *)
ValidManifest(archive, source) ==
  /\ archive.source = source
  /\ \A role \in Roles : archive.rows[role].revision = source

ValidImages(archive, source) ==
  /\ Cardinality(archive.configs) = 2
  /\ \A role \in Roles : \E config \in archive.configs :
       archive.rows[role].id = config.image /\ config.tag = <<role, source>>
  /\ \A config \in archive.configs : config.image.label = source

UnpacksByItsOwn(archive, source) ==
  ValidManifest(archive, archive.source) /\ ValidImages(archive, archive.source)

Unpacks(archive, source) ==
  ValidManifest(archive, source) /\ ValidImages(archive, source)

(* The loaded image of a role must be the one the manifest described.       *)
Resolves(archive, role) ==
  LET row == archive.rows[role] IN
  row.id \in Images /\ row.id.label = row.revision

(* The pairs of a commit and an archive the packing of releases produces.   *)
Reviewed == {s \in Releases \X Archives : Unpacks(s[2], s[1])}

Built(archive) == archive.rows["backend"].id.label

(* Of a stored archive, the file still has the digest it was sent with.     *)
Kept(s) == s \in stored \ damaged
-----------------------------------------------------------------------------
(* The steps of a command.                                                  *)

Is(p, at)   == receiver[p].at = at
Named(p)    == receiver[p].release
Archive(p)  == receiver[p].archive
Graph(p)    == Graphs[Built(Archive(p))]
Target(p)   == HeadOf(Graph(p))
Goto(p, at) == receiver' = [receiver EXCEPT ![p].at = at]

(* The command is over: its process and its lock are gone.                  *)
Over(p) == receiver' = [receiver EXCEPT ![p] = Waiting] /\ releaseLock' = Nothing

Fails   == failures < MaxFailures /\ failures' = failures + 1
Serving == /\ record # Nothing /\ record.release = Newest
           /\ app # Nothing /\ app.named = Newest /\ ingress

(* Not counted: sending what is not there yet, and applying the newest      *)
(* release until that has succeeded.                                        *)
Needed(at, r, a) ==
  IF at = "receive" THEN <<r, a>> \in Reviewed \ stored ELSE r = Newest /\ ~content

(* Every command begins with the installed files, each with the digest that *)
(* was recorded; what else it looks at (Docker, the shared edge, space and  *)
(* memory) is there or the command fails.                                   *)
Preflight == runtime = "target" /\ manifest = runtime

(* A command takes the lock or is refused.  Applying what was not received  *)
(* is refused too.                                                          *)
Begin(p, at, r, a) ==
  /\ Is(p, "idle") /\ releaseLock = Nothing /\ Preflight
  /\ at = "apply" => <<r, a>> \in stored
  /\ releaseLock' = p
  /\ receiver' = [receiver EXCEPT ![p] = [at |-> at, release |-> r, archive |-> a]]
  /\ IF Needed(at, r, a) THEN UNCHANGED applies
     ELSE applies < MaxApplies /\ applies' = applies + 1
  /\ content' = (content /\ at # "apply")
  /\ UNCHANGED <<installed, disk, containers, schema, unattended, failures>>

(* An upload is stored once it is verified, whole, by a rename; what is     *)
(* stored already stays.                                                    *)
Receive(p) ==
  /\ Is(p, "receive")
  /\ stored' = stored \cup
       (IF Unpacks(Archive(p), Named(p)) THEN {<<Named(p), Archive(p)>>} ELSE {})
  /\ Over(p)
  /\ UNCHANGED <<installed, containers, schema, history, damaged, record, failures>>

(* Applying verifies the stored archive again, loads its images, resolves   *)
(* them and checks the composition.                                         *)
Load(p) ==
  /\ Is(p, "apply")
  /\ IF /\ Kept(<<Named(p), Archive(p)>>)
        /\ Unpacks(Archive(p), Named(p))
        /\ \A role \in Roles : Resolves(Archive(p), role)
     THEN Goto(p, "schema") /\ UNCHANGED releaseLock
     ELSE Over(p)
  /\ UNCHANGED <<installed, disk, containers, schema, history, failures>>

(* A history the release does not go forward from is refused before the     *)
(* application is touched.                                                  *)
CheckTransition(p) ==
  /\ Is(p, "schema")
  /\ IF Transition(Graph(p), schema)
     THEN Goto(p, "quiesce") /\ UNCHANGED releaseLock
     ELSE Over(p)
  /\ UNCHANGED <<installed, disk, containers, schema, history, failures>>

(* The relay, the gateway and every writer are stopped.                     *)
QuiesceRelayOnly(p) ==
  /\ Is(p, "quiesce")
  /\ ingress' = FALSE
  /\ Goto(p, "migrate")
  /\ UNCHANGED <<installed, disk, schema, history, releaseLock, migrations, app, failures>>

Quiesce(p) ==
  /\ Is(p, "quiesce")
  /\ app' = Nothing /\ ingress' = FALSE
  /\ Goto(p, "migrate")
  /\ UNCHANGED <<installed, disk, schema, history, releaseLock, migrations, failures>>

Migrate(p) ==
  /\ Is(p, "migrate")
  /\ migrations' = migrations \cup
       {[graph |-> Graph(p), from |-> schema, by |-> p]}
  /\ Goto(p, "migrating")
  /\ UNCHANGED <<installed, disk, schema, history, releaseLock, app, ingress, failures>>

(* A migration commits, unless the schema it began from is another one by   *)
(* now or none of its own; its receiver, if it still has one, learns which. *)
MigrationEnds(m) ==
  /\ migrations' = migrations \ {m}
  /\ LET commits == m.from = schema /\ (schema = Root \/ schema \in DOMAIN m.graph) IN
     /\ schema' = IF commits THEN HeadOf(m.graph) ELSE schema
     /\ IF m.by = Nothing THEN UNCHANGED process
        ELSE IF commits THEN Goto(m.by, "migrated") /\ UNCHANGED releaseLock
        ELSE Over(m.by)
  /\ UNCHANGED <<installed, disk, history, app, ingress, failures>>

CheckMigrated(p) ==
  /\ Is(p, "migrated")
  /\ IF schema = Target(p) THEN Goto(p, "start") /\ UNCHANGED releaseLock ELSE Over(p)
  /\ UNCHANGED <<installed, disk, containers, schema, history, failures>>

(* Starting the application runs the migration service first, which does    *)
(* nothing at the head and fails on a schema it does not know.              *)
StartApplication(p) ==
  /\ Is(p, "start")
  /\ IF schema \in DOMAIN Graph(p)
     THEN /\ schema' = Target(p)
          /\ app' = [named |-> Named(p), built |-> Built(Archive(p))]
          /\ Goto(p, "started") /\ UNCHANGED releaseLock
     ELSE Over(p) /\ UNCHANGED <<installed, schema, app>>
  /\ UNCHANGED <<installed, disk, history, migrations, ingress, failures>>

CheckStarted(p) ==
  /\ Is(p, "started")
  /\ IF schema = Target(p) THEN Goto(p, "relay") /\ UNCHANGED releaseLock ELSE Over(p)
  /\ UNCHANGED <<installed, disk, containers, schema, history, failures>>

StartRelay(p) ==
  /\ Is(p, "relay")
  /\ ingress' = TRUE
  /\ Goto(p, "verify")
  /\ UNCHANGED <<installed, disk, schema, history, releaseLock, migrations, app, failures>>

(* The other services of the host are as they were: the release is recorded *)
(* by a rename.                                                             *)
Succeed(p) ==
  /\ Is(p, "verify")
  /\ record' = [release |-> Named(p), archive |-> Archive(p), schema |-> Target(p)]
  /\ content' = (Named(p) = Newest)
  /\ Over(p)
  /\ UNCHANGED <<installed, containers, schema, stored, damaged, unattended, applies, failures>>

-----------------------------------------------------------------------------
(* The upgrade of the receiver: its code, then the digest on record.        *)

BeginUpgrade(p) ==
  /\ Is(p, "idle") /\ releaseLock = Nothing
  /\ runtime = "previous" /\ manifest = runtime
  /\ releaseLock' = p
  /\ Goto(p, "upgrade")
  /\ UNCHANGED <<installed, disk, containers, schema, history, failures>>

ReplaceRuntime(p) ==
  /\ Is(p, "upgrade")
  /\ runtime' = "target"
  /\ Goto(p, "manifest")
  /\ UNCHANGED <<manifest, releaseLock, disk, containers, schema, history, failures>>

ReplaceManifest(p) ==
  /\ Is(p, "manifest")
  /\ manifest' = "target"
  /\ Over(p)
  /\ UNCHANGED <<runtime, disk, containers, schema, history, failures>>
-----------------------------------------------------------------------------
(* What goes wrong.                                                         *)

(* A command fails.  Containers may have stopped or started all the same,   *)
(* and the relay is stopped again if that works; an upgrade takes back the  *)
(* code it replaced.                                                        *)
Fail(p) ==
  /\ ~Is(p, "idle") /\ ~Is(p, "migrating") /\ Fails
  /\ runtime' = IF Is(p, "manifest") THEN "previous" ELSE runtime
  /\ app' \in CASE Is(p, "quiesce") -> {app, Nothing}
                [] Is(p, "start")   -> {app, [named |-> Named(p),
                                              built |-> Built(Archive(p))]}
                [] OTHER            -> {app}
  /\ ingress' \in IF Is(p, "quiesce") \/ Is(p, "relay") \/ Is(p, "verify")
                    THEN {ingress, FALSE} ELSE {ingress}
  /\ app' = Nothing => ~ingress'
  /\ Over(p)
  /\ UNCHANGED <<manifest, disk, schema, history, migrations>>

(* Ten minutes pass: the migration may go on without its receiver.          *)
Timeout(p) ==
  /\ Is(p, "migrating") /\ Fails
  /\ migrations' = {IF m.by = p THEN [m EXCEPT !.by = Nothing] ELSE m : m \in migrations}
  /\ unattended' = TRUE
  /\ Over(p)
  /\ UNCHANGED <<installed, disk, schema, app, ingress, content, applies>>

(* The host restarts: receivers, locks and transactions are gone.           *)
Reboot ==
  /\ Fails
  /\ receiver' = [p \in Receivers |-> Waiting] /\ releaseLock' = Nothing
  /\ migrations' = {}
  /\ UNCHANGED <<installed, disk, schema, history, app, ingress>>

(* A stored archive decays.                                                 *)
Decay(s) ==
  /\ Kept(s) /\ Fails
  /\ damaged' = damaged \cup {s}
  /\ UNCHANGED <<installed, containers, schema, process, history, stored, record>>
==============================================================================
