# Fillable: a verification development

TLA+ models of the parts of Fillable whose correctness depends on more than one
actor: the storage service, the inspection of documents in the background, the
life of a document on the server (revisions, editing leases, saves, restores,
copies, pruning, trash and deletion), accounts and sessions, the browser tabs that
edit, and the deployment of a release together with the scheduler it stops and starts.
Each model is checked by TLC on small instances; every safety property of these runs is
also proved with TLAPS for every value of the constants. Liveness is checked by TLC only.

Source paths below are relative to `src/`; `backend/` stands for `src/backend/app/`.

## 1. Inventory of the system

Fillable keeps Word documents, lets one tab at a time edit each of them in the
browser and saves every change as a new immutable revision. A FastAPI application
(several threads, one process per container), RQ workers, a dispatcher and a
scheduler share one PostgreSQL database, one Redis and one directory of files.

| Component | State it keeps | Operations | What makes it hard | What makes it correct |
| --- | --- | --- | --- | --- |
| **Storage service** `backend/storage/service.py`, `filesystem.py`, `schema.py` | `storage_reservations`, `stored_files`, `storage_accounts`; entries under `staging/` and `files/`; one flock per operation | `store` (begin, grow, write, publish, clean), replay of a key, `recover`, `read` | SQL and the filesystem cannot commit together; a crash or a lost COMMIT answer anywhere; leases that expire under a living writer | a ready file is complete; bytes on disk are always charged; counters equal the sums; terminal states stay; every operation ends |
| **Storage maintenance and quotas** `storage/maintenance.py`, `quotas.py` | the same rows; limits; a cursor over reservations | `delete_file`, `reconcile`, quota settings, inventory | concurrent with readers and writers; retried for ever | a download is never cut; quota is released only after the bytes are gone |
| **Document inspection** `jobs/service.py`, `dispatcher.py`, `worker.py` | `processing_jobs` (the outbox), RQ's records in Redis | `submit`, `intent`, `run_once`, `claim`, inspect, `finish`, retries | at-least-once transport that loses, repeats and forgets; late results | one executor per attempt; only current revisions; final outcomes; bounded admission; every job ends |
| **Revisions, leases, saves, restores** `documents/leases.py`, `revision_commit.py`, `saves.py`, `restores.py`, `service.py` | `documents`, `document_versions`, `editing_leases` | acquire, renew, release; `upload`, `save`, `restore` | a save is five transactions; lease, session or revision change in between | linear immutable history; only the last holder publishes; file and model belong together |
| **Trash, deletion, retention, copies** `documents/trash.py`, `deletion.py`, `retention.py`, `copies.py` | document state, deadline, `history_settings` | trash, restore, empty, remove, expire, purge, prune, copy | listed in one transaction and removed in another; races with running saves | what is in use stays readable; deleted means gone; policy of the moment |
| **Accounts and sessions** `accounts/*` | `users`, `sessions`, `login_attempts` | login, logout, bootstrap, rename, password change, reset | concurrent failed logins; windows purged and deleted under those who wait for them; several row locks per request | limit per window; a password's sessions end with it; a cookie is exchanged once; circles of waiting requests only where one statement deletes several rows |
| **Scheduled maintenance** `maintenance.py` | advisory lock on a dedicated connection, `maintenance_state` with cursors | tick, attempts of a task, pages of a sweep, signals | lock connection lost while a task runs; rows that come and go between pages | interruptions counted once; a sweep gets to every row |
| Document formats `documents/package.py`, `export.py`, `validation.py`, `rebase.py`, ... | none | parse, validate, render | size and correspondence limits | a model renders into the package it came from |
| Field discovery and values `fields/*` | none | find blanks, validate values | overlapping spans | spans disjoint and inside the text |
| HTTP surface `main.py`, `errors.py`, routes, `documents/history.py`, `previews.py` | admission semaphores | routing, reads | limits under load | refuses rather than queues without bound |
| Migrations `migrations/` | schema revision | upgrade | run with the application stopped | one head |
| **Workspace in the browser** `frontend/src/workspace/*`, `accounts/requestBoundary.ts` | lease, draft, pending save attempt | acquire, renew, release, save, autosave, restore | timeouts after a commit, late answers, page reloads | edits only under its lease; a retry repeats the same request |
| Library and shell `frontend/src/library/*`, `shell/*` | lists and polls | list, upload, trash | answers out of order | shows the latest answer |
| Editor `frontend/src/editor/*` | ProseMirror state | transactions, field values | none between actors | positions survive edits |
| **Release runtime** `scripts/fillable_runtime.py`, `release_receiver.py`, `release_artifact.py`, `install_migration_runtime.py`, `fillable_edge*.py` | stored archives, containers, schema, recorded state, release lock | receive, apply, upgrade of the receiver, switch of the edge | stops between two phases; timeouts that leave a migration behind | code and schema agree; the next apply accepts what it finds |
| Continuous integration `scripts/release_gate.py`, ... | none | check build outputs | none | none |

How they interact. Every SQL transaction that charges an account first locks the
settings and the account (`Storage.lock_account`); every one that changes a document
locks its row. `saves.save`, `restores.restore`, `copies.create` and `service.upload`
are calls of `Storage.store`: it reserves capacity, iterates over a `chunks()` generator
of the caller (which checks the lease and reads revisions in transactions of its own),
and runs the caller's `finalize` inside the transaction that makes the file ready;
`finalize` publishes the revision, moves the lease along and admits an inspection job.
`deletion.purge` and `retention.prune` mark files in the document's transaction and call
`delete_file` afterwards. The scheduler repeats expiry, pruning and `reconcile`. Every request
of a session reads `sessions` and `users`, and a lease names the session that took it. An
`apply` stops every container, the scheduler's included, and starts them again after the migration.

`PROJECT.json` lists, with their lines, the hazards of this code and the property that
would notice each.

## 2. Plan

Order: what would lose or mix up a user's data first.

1. **Storage** (done): `Storage`, abstract `StorageLedger`.
2. **Inspection** (done): `ProcessingJobs`.
3. **Revisions** (done): `Revisions`, abstract `RevisionLog`.
4. **Accounts** (done): `Accounts`, statement by statement with its row locks.
5. **Editor tabs** (done): `EditorTabs`, the client protocol over an unreliable network.
6. **Deployment** (done): `Scheduler` and `Release`, composed in `Deployment`.
7. **Lock order**: done for the windows, users and sessions that the transactions of the
   accounts package lock (`NoLockInversion`); left: those of the other packages as sequences of
   row locks, alone and together with these.
8. **Pure algorithms** against reference definitions: `calculate_usage`, spans of field
   discovery, identities in `rebase`.
9. **Compositions**: a save as `Storage` sees it together with `Revisions` and the jobs.
10. **The edge**: the shared edge manager, and the first provisioning of a host.

The theorems first planned are all proved: inductive invariants for each of the six
models, every invariant and action property of the passing runs, and both refinements.
Further ones belong to what is left above: deadlock freedom over all packages, and that
a save as `Storage` and `Revisions` see it is one operation.

## 3. Modules

Each component has a model, a module of properties that extends it, an `MC` module with the
values TLC needs, and a module of proofs (`Storage` has two: `StorageProofs` for rows, flocks and entries,
`StorageAccountProofs` for counters, disk and ledger; `SumTheorems` has the facts about sums
they need). Definitions keep the source's names; `PROJECT.json` maps each to its lines. Beside some definitions stands one or more forms a plausible bug
would give them (`CommitUnfenced` beside `Commit`); nothing uses these: every property is
checked to fail when one of them replaces its neighbour.

### Storage (`Storage.tla`)

| In the model | In the code |
| --- | --- |
| `reservations[k]` with `live` | a row of `storage_reservations`, its lease not expired |
| `files[k]`, `accounts[o]`, `limits[o]` | `stored_files`, `storage_accounts`, override or default quota |
| `staging[k]`, `final[k]`, `bytes[k]` | the two directory entries, and the size of the inode they share |
| `writer[k]`, `readers[k]` | the exclusive and shared holders of the operation's flock |
| `sql` | the process whose publishing transaction is open: `_finish` links the final entry between its statements and its COMMIT, so this transaction is not one step. All others start with `lock_account` and are |
| `proc[p]`, `cursor[m]` | where a request or a maintainer is in `store`, `_clean`, `recover`, `read`, `delete_file`, `reconcile` |

Every filesystem call is a step of its own. `Crash` may end a process anywhere (the kernel
drops its flocks; rows, entries and an open transaction stay), `StepFails` and `StoreFails`
are errors, `Commit`, `Rollback` and `ServerResolves` separate what the database decided from what the client
heard. `ReconcileAccount` is the transaction of a sweep that counts again what an owner holds and
raises the counters that are too low. `StorageLedger` states the promise without transactions,
flocks and entries: quota is held before bytes exist and until they are gone.

### Inspection (`ProcessingJobs.tla`)

`jobs` are the rows, `transport` is what Redis records of each delivery (`none` also when
forgotten), `dispatcher` its batch and the fetch it waits for, `workers` the delivery each
one executes. `Intent` is the function every admitting transaction calls; `Supersede` what
a new revision does to the old rows. Redis may forget, repeat and delay deliveries; a worker or
the dispatcher may die after any step.

### Revisions (`Revisions.tla`)

One document. `doc` is its row (with whether `purge_after` has passed), `versions[v]` the
revision of number v with the state of its file, `lease` the row of `editing_leases`
(`id` numbers the lease identifiers in the order they are given out, `live` is the
expiry), `issued` remembers to whom, `sessions` those that are valid, `ops[k]` the save,
restore or copy with idempotency key k.

`Acquire`, `Renew`, `Release` are `leases.change`. An operation goes `Begin` (the request's
body), `Check` (first transaction of `chunks`), `ReadRow`, `ReadBytes`, then `Commit` or
`CommitCopy` (`finalize` in the publishing transaction), and may `Abort` at any time.
`Trash`, `Untrash`, `Empty`, `Remove`, `ListExpired`, `PurgeExpired`, `PruneList`, `PruneOne`
are the transactions of `trash.py`, `deletion.py` and `retention.py`; `FileRemoved` is the outcome of `delete_file`,
which `Storage` models in detail. Bytes and models are named by the operation that authored them.
`RevisionLog` states the promise: an append-only log with one
editor at a time who may append.

### Accounts (`Accounts.tla`)

| In the model | In the code |
| --- | --- |
| `users`, `sessions`, `windows` | rows of `users`, `sessions` and `login_attempts`; passwords and tokens are numbers in the order they are made |
| `held[k]`, `userlock[n]`, `sessionlock[s]` | who holds the row lock of a window (and what its open transaction did to it), of a user and of a session |
| `proc[r].pc`, `proc[r].rows` | the statement a request is at: purge of expired windows, insert, select, count, user, deletion of sessions (`expel` the expired ones, `revoke` a user's), finish; and the session rows it has still to delete |
| `answered[k]` | history: wrong guesses answered in the present window |

A request's transaction is as many steps as it has statements that can wait, under READ
COMMITTED: an insert with ON CONFLICT DO NOTHING inserts nothing when the row is there, a
SELECT FOR UPDATE that waited for a row since deleted returns nothing, a DELETE of several
rows locks them one by one in any order, waits for those that others hold and passes over
those that are gone, and of a circle of waiting requests one is aborted. So a bootstrap that
deletes the expired sessions and a reset or password change that deletes a user's can wait for
each other. Windows and sessions expire, requests crash.

### Editor tabs (`EditorTabs.tla`)

`tab[t]` is the state of `useEditingLease`, `useDocumentSave`, `useRestore` and
`requestBoundary` in a mounted workspace: lease status and deadline, draft, the key it
retries with. `net` holds requests and answers; a message that is no longer `awaited`
(timed out, aborted, of an earlier session) still reaches the server if it was on its way.
The server is `leases.change`, the check of the holder and `store` by key, each in one
step, since `Revisions` and `Storage` take them apart. `Rivals` are other clients as the
server sees them. Time is counted in ticks, of which a lease lives `Life`; pages are
hidden, left and brought back, sessions end and the user signs in again.

### Scheduled maintenance, releases and their composition

`Scheduler.tla`: `guardedBy` is the advisory lock, which goes with the connection it was
taken on, `state` the row of `maintenance_state`, `tick[p]` a process at its task and
attempt; `rows` are what each sweep goes over, a page after its cursor at a time. `open`
and `waiting` are histories: runs begun whose end nobody recorded, and sweeps that owe one
row a visit.

`Release.tla`: `receiver[p]` is the step of `receive`, `apply` or the receiver's own upgrade,
`stored` and `damaged` the archives on disk, `schema` and `migrations` the database and
the `migrate` containers that run on it, `app` and `ingress` the containers, `record`
`state.json`. An archive's name, the commit it was built from and the labels of its images
are separate, so wrong ones can be sent. A receiver may fail at any step, be cut off by its
timeout (the migration it started may go on: `unattended`), or go down with the host.

`Deployment.tla` composes the two: stopping the application sends the schedulers a signal
and waits until all are off, starting it launches them, a reboot restarts what ran.

## 4. What the runs check

All take between a few seconds and four minutes with two workers. Deadlock is checked in
each of them but `tabs`, where a tab that has used up its keys and drafts may come to an end.

| Run | Instance | Question |
| --- | --- | --- |
| `storage_rows` | one operation, two requests, one maintainer, files of up to 2 bytes, a limit of 1 or 2 that changes at any time, one fault, with fairness | rows, entries and flocks stay consistent (`StorageInv`, the inductive invariant itself), files and streams intact, bytes charged, a definite failure final; `Storage` implements `StorageLedger`, hence quota is released last and no ended operation or deleted file comes back; every operation ends, requested deletions complete |
| `storage_shared` | two operations of one owner, no maintainer, disk and staging of 4, a limit of 2 or 4 that changes at any time, one fault | counters equal sums, headroom kept when two writers compete and the quota is lowered under them |
| `storage_orphan` | no fault at all | finding, below |
| `jobs_saved` | two documents of one owner and a limit of one admitted job, one worker, three revisions of the first document (the second stays as uploaded), budget 1, no fault | only current revisions are worked on and the limit is kept (both in `JobsInv`), while saves, trash, purge and pruning race with inspection |
| `jobs_live` | one document and revision, two workers, budget 3 and as many attempts, one fault, with fairness | claims exclusive, outcomes final, every job ends |
| `jobs_untrash` | one document and worker | finding, below |
| `revisions_rows` | two tabs in two sessions, two operations, three revisions, two lease generations | only the last holder publishes, on top of the current revision; lapsed leases stay lapsed; deleted is gone (`RevisionsInv` is the inductive invariant); `Revisions` implements `RevisionLog` |
| `revisions_history` | one tab, two operations, four revisions, policies 1 and 2, with fairness | what is in use stays; pairs exact; pruning obeys the policy of the moment; copies are current; expired trash is deleted, the files of a deleted document go and none returns |
| `accounts_rows` | one account, two requests, one wrong guess per window, two passwords, two tokens | no window answers more wrong guesses than the limit, no session outlives its password, no cookie is exchanged twice, requests wait in a circle only over rows that one statement deletes in no order (`AccountsInv` is the inductive invariant) |
| `accounts_race` | the same | finding, below |
| `tabs` | one tab, one rival, a lease of two ticks, three revisions, two lease generations, two keys, drafts and sign-ins, one fault | the tab edits only under its lease, no save is lost or undone, "saved" and "refused" are true, and no answer of an earlier session is taken |
| `release` | two receivers, an older and a newer release, archives right and wrong, two schedulers with one task, whose cursor goes over two rows, one fault, with fairness | code and schema agree, migrations run alone, what runs is what its name says, interrupted runs are counted, repeated applies end up serving and sweeping |

Bounds. `MaxFaults`, `MaxTroubles`, `MaxFailures`, `MaxApplies`, `MaxVersion`, `MaxLease`,
`MaxAttempt`, `MaxSecret`, `MaxToken`, `MaxKey`, `MaxDraft`, `MaxLogin`, `FileBytes`, `DiskBytes`,
`StagingBytes` bound the exploration; they are constants of the models and, except in the
runs, arbitrary. They are chosen so that every action fires in some run and the conflicts
need no more. Staging is as large as the disk in `storage_shared`: with less, nobody is admitted beside an
operation that is being cleaned, whose bytes are gone and whose row is still active. Two requests are a writer and a rival (recovery, reader, deletion or replay)
and the maintainer is a third actor on the same operation; two bytes let an allocation be
exceeded after the first write; one fault in `storage_rows` is a crash, whose recovery then
meets a rival. Two lease generations are a handover; three revisions are two commits, of
which the second can be a restore of the first; four let a policy of 2 have something to
prune. A limit of one makes the second wrong guess the refused one, two passwords are a
change, two tokens a rotation. Two ticks let a lease age before it ends. Two receivers
compete for the lock, an older release can follow the newer, and a page of one row makes
the cursor wrap.
Larger instances were used while the models were built (two faults and two limits in
`Storage`, two documents with budget 2 in `ProcessingJobs`, two faults in `Deployment` for the inductive invariant) and are
not kept, for their time. An explicit retry of a failed job is not reached within the
attempts of `jobs_live`; the theorem `OutcomesAreFinal` covers it. `jobs_saved` has neither
faults nor attempts to requeue: that the limit survives requeues, and the other parts of `JobsInv`
survive late and repeated deliveries, is what the theorem `JobsInvariant` adds. A delivery whose host died after
popping it stays takeable in `ProcessingJobs`, which relies on RQ putting such deliveries back.
Keys, requests, documents and workers are symmetric where SYMMETRY is used; no liveness run uses it.

Fairness, and why the code justifies it.

- `Storage.FairSpec`: a process that has begun a call keeps running (it waits for nothing but flocks and locks that others
  release or the kernel drops), PostgreSQL ends the transaction of a dead client, time passes for leases, and the
  scheduler calls `reconcile` for ever. Nothing is assumed of requests that have not begun.
- `ProcessingJobs.FairSpec`: the dispatcher's loop and the RQ workers keep running
  (`run_once` is called for ever; supervised containers restart), leases and RQ's started records run out with time. Redis may lose as much
  as `MaxFaults` allows, but not for ever.
- `Revisions.FairSpec`: the scheduler repeats the expiry pass, and passes may stop
  early but not all of them (strong fairness of `PurgeExpired`, weak of `ListExpired`); a pending
  file is eventually removed, which is `DeletionCompletes` of Storage. Nothing
  is assumed of tabs, leases or operations.
- `Deployment.FairSpec`: a receiver's program runs, a migration ends, the scheduler's loop runs
  while its container does, and Docker kills a container that does not stop by itself. The last
  conjunct is about people: somebody keeps sending and applying the newest release until it serves,
  since nothing on the host retries a failed command. Nothing is assumed of other commands.

`Accounts` and `EditorTabs` state no fairness: their properties are about safety.

## 5. What is proved

Six inductive invariants, for any finite or infinite sets of the constants allowed by the
`ASSUME` of each model. For each, `...Proofs.tla` shows that the initial states satisfy it and that every
action keeps it, action by action; theorems for single properties are corollaries of it.

**`StorageInv`** (`StorageProofs`). The key facts are that past a lock step a process holds
the flock of its operation (`FlockInv`), that only one process is ever a fresh writer
(`OneWriter`), that an open publishing transaction excludes everybody who could change
its operation, although its process may be dead and its flock taken over (`SqlInv`), what the rows say of the entries (`RowInv`) and what a
process may rely on at each of its steps (`StepInv`). `ReadyIsIntact`, `BytesAreCharged`
and `StreamsAreIntact` are not inductive alone: whether a ready file is complete depends on what its writer knew before publishing.
Theorems: `StorageInvariant`, `TypeCorrect`, `ReadyFilesAreIntact`, `EveryByteIsCharged`, `DownloadsAreIntact`.

**Counters, disk and ledger** (`StorageAccountProofs`), on top of `StorageInv`.
`WritingIsCounted` (a row counts no more than it was allowed, and a process that writes has counted all but the
piece in its hands) and `FailedIsOver` (once a request was told that storing failed, no process is
left that could commit its operation, and no open transaction would) are kept by every
step; the second is why `FailureIsDefinite` holds. For the rest, one lemma
per action says what it does to the one operation it concerns: it
`Settles` (takes no more than before, and moves as the ledger says) or `Admits` (takes more, which
`_capacity` found there); `NextMoves` collects them. From that alone
follow `AccountingExact`, `HeadroomIsKept` and that the step is one of `StorageLedger` (`MovesKeep`).
`HeadroomIsKept` counts, of each admitted operation, what it has yet to write
(`Outstanding`), not what its row promises: a cleaned operation gives its bytes back
to the disk while its row is still active.
`SumTheorems` proves what a sum over a finite set is when a member is
added, taken away or changed, by well-founded induction over its subsets: the library's induction
for finite sets takes an operator, its well-founded minimum (`WFMin`) does not.
Theorems: `WritingStaysCounted`, `FailuresStayDefinite`, `AccountingStaysExact`, `HeadroomStays`,
`StorageImplementsLedger`, and `SweepsRepairNothing`: in no reachable state does
`reconcile_account` find a counter to repair, so a repair in the audit log means
that something else than this code wrote the row.

**`JobsInv`** (`ProcessingJobsProofs`). `ClaimIsSpent` carries the argument: between claim and
finish a worker's attempt is either the row's, no longer queued, or smaller than the row's, so no redelivery
finds it queued. `RowsAreWhole` says why a success is never offered again. Theorems: the invariant, types, the
CHECK constraints, `ActiveIsCurrent`, `OneExecutor`, `DeletedHasNoProposals`, `OutcomeIsFinal`,
and `AdmissionIsBounded`: a step either adds no active job, or adds one in an admitting transaction that counted fewer than the limit.

**`RevisionsInv`** (`RevisionsProofs`). `LeaseIsCurrent` says that a lease is of the current
revision and the last generation; with `GenerationsAreOrdered` this is why the
history's generations never go back. `OpInv` says what a prepared operation knows:
its bytes and its model belong together because both are those of a revision that cannot change.
`AuthoredOnce` says that an uncommitted save is nowhere in the history. Theorems: the invariant and its parts;
the action properties `NoCommitAfterHandover`, `LapsedStaysLapsed`, `HistoryIsImmutable`,
`PruningObeysPolicy`, `CopyIsCurrent`; and `HistoryImplementsLog`, that every step of `Revisions` is a step of
`RevisionLog` or a stutter, with the right to append mapped to the holder of a live lease.

**`AccountsInv`** (`AccountsProofs`). `RowsAreHeld` says who holds which window and how far it
is, `ReadsAreStable` that past `lock_attempt` a request holds its window and knows its
count, and holds the user whose password it verified: so neither can change before it
answers. `AttemptsAreCounted` and `SessionsAreCurrent` follow step by step from these, and
the latter needs `OwnersExist`. `WaitersAreTold` says that a deleted window is noticed by
those who wait for it, `PurgesAreOrdered` that requests past their insert never wait in a circle,
and `SessionsAreHeld` that a session is held only by a DELETE under way, which has locked or has
still to lock each session it must end. `NoLockInversion` takes the smallest circles, in which each request waits for
another of the circle; no waiting for a user is in one, those over windows have a purge in them and
those over sessions a bootstrap, for any number of requests. Such circles do occur in the code, and PostgreSQL fails one
of their requests; what the theorem says is that there are no others within this package. Theorems:
`AccountsInvariant`, `LimitIsKept`, `PasswordsEndSessions`, `LocksAreOrdered`,
`CookiesAreRotatedOnce`.

**`DeploymentInv`** (`DeploymentProofs`). Whoever is at a step of a command holds
`release.lock` (`CommandsAreLocked`), so it is alone, and one step's knowledge is still true at the
next: nothing of the application runs from the stop to the start, a migration runs only
while its receiver waits for it, and the schema that was checked is there when the
application starts (`StepsAreOrdered`, `MigrationsAnswer`). `RunsAreGuarded` says that
the scheduler with the guard is the one whose run the row shows as running, which is
why an interruption is counted, and once. Theorems: `DeploymentInvariant`, `SchemasAreServed`,
`MigrationsAreAlone`, `SourcesAreNamed`, `InterruptionsAreCounted`. The invariant is stronger than
what `release` checks; it was checked by TLC with one and two faults before it was proved.

**`TabsInv`** (`EditorTabsProofs`), in layers, each of which needs those before it. `SessionsInv`: what a
tab waits for was asked in its present session, so an answer of an earlier one
is never heard. `OperationsInv`: one request at most stores under a key, and a key
that was ended stays so; every revision follows the source its attempt named. `DraftsInv`: a tab waits for
one answer about the key it retries with, and that key started from what the tab has loaded.
`LeasesInv`: an answer that grants a lease is, while it travels, as good as its deadline; a release
on its way names an earlier generation, or one the tab itself has asked to release. The
properties are about tabs, but what keeps them true is what may be on the network, and most of the invariant
is about messages. A step of a tab carries the messages over, giving some of them up, and sends at
most one; a step of the server replaces one message by its answer. What each layer needs of
such a step is stated once, so an action is proved by what it does to its own tab or to the lease.
Theorems: `TabsInvariant`, `EditingStaysHeld`, `NoUpdateIsLost`, `AcknowledgementsAreTrue`, `RefusalsAreTrue`,
`AskedOnlyWhenSessionEnded`. `TabsInv` was checked by TLC on the instance of `tabs` before it was
proved. `TabsAssumptions` lets a tab save, or save and restore: `OperationsInv` reads the kind of an attempt
as one of these two.

Proved and not the property of a run: `TypeOK` of the first three models, `RowsAreValid`,
`DeletedHasNoProposals`, `HistoryIsLinear`, `HistoryIsImmutable`, `WritingIsCounted`,
`SweepsRepairNothing`, `DeploymentInv` and `TabsInv`.

Only model-checked: the properties under fairness, since liveness is out of the prover's reach:
`EveryOperationEnds`, `DeletionCompletes`, `EveryJobEnds`, `TrashEmpties`, `DeletedIsErased` and `ServesAndSweeps`;
and deadlock freedom, which is about ENABLED.

## 6. Findings

- `storage_orphan`: an operation whose lease expires after `_begin` commits and before
  `store` takes its flock is aborted by `recover`; the writer then still creates an empty staging
  entry, which nothing removes, since `_clean` returns at once for an aborted row. This differs from
  `AI/STORAGE_QUOTAS.md:80`. No bytes are involved.
- `jobs_untrash`: a document trashed while its job waits and restored later reports its
  current revision's inspection as stale, and cannot be inspected again until the next save, while
  `frontend/src/locales/en.json:141` explains staleness by an earlier revision.
- `accounts_race`: `lock_attempt` inserts the window with ON CONFLICT DO NOTHING and then selects it
  FOR UPDATE with `.one()` (`backend/accounts/service.py:209`). When the window is there and a concurrent
  login, reset or purge deletes it while the select waits, no row comes back and the attempt ends in an
  internal error, although `AI/AUTHENTICATION.md:18-20` has concurrent attempts serialized by it. The limit still holds.

Met while modelling, in behaviour the models include, and not stated as runs:

- A command that is given up after its 600 seconds can leave the `migrate` container running. If
  an older release is applied meanwhile, its code can end up on the newer schema, which
  `AI/SERVER_RUNTIME.md:101` excludes. The properties of `Deployment` are stated for histories without
  such an `unattended` migration.
- A restart of the host between the two replacements of `install_migration_runtime` leaves a
  receiver whose code and manifest disagree; it refuses every command, another upgrade included
  (`HalfUpgraded`). A stored archive that is damaged is not replaced by receiving it again,
  although `receive` answers that it is verified. `ServesAndSweeps` excludes both.
- A page that is hidden asks to release its generation; brought back from the back/forward cache, a
  retry of the workspace does not wait for that release, as `AI/WORKSPACE.md:168-169` has it, and can
  be given the same generation, which the late release then ends. `EditingIsHeld` excludes such a generation.
- A 429 or 401 in answer to a retry makes the tab forget a key whose earlier try may have been
  committed (`frontend/src/workspace/useDocumentSave.ts:72-73`), which differs from
  `AI/WORKSPACE.md:361` and `:373`. The tab learns of the newer revision as a conflict, so nothing is overwritten.

## 7. What is not modelled, and why

In the modelled components: digests, modes, fsync and the contents of files (values no property tells
apart); several documents sharing a lease table, since every transaction concerns one document and locks its row;
pages of fifty pending files and of pruning passes (each element is a transaction of its own, and a pass may end
anywhere); audit rows, labels, titles and previews; counters changed by hand, for which `reconcile_account` is there;
`dispatched_at`, which orders the dispatcher's batches; the timer that chooses when a tab saves by itself; the
hashes and languages of accounts; `attempt.json`, which no code reads. A receiver that is
killed alone while the docker client it started lives on is left out, and so is a reconnection of the scheduler's guard
connection, since SQLAlchemy refuses to continue the transaction. Of PostgreSQL, Redis, RQ, Docker and Alembic only what the code
relies on is modelled, marked external in the map.

Not modelled as components: document formats and field discovery (pure conversions, candidates for
bounded checks against a reference); the HTTP surface (routing, admission and reads that
change no state); the migrations themselves (one-shot scripts); the library, the shell and the editor in the browser (they
follow the server's state or keep none between actors); the shared edge and the first provisioning of
a host; continuous integration (checks without state). `PROJECT.json` lists each with its reason.
