------------------------------ MODULE Revisions ------------------------------
(***************************************************************************)
(* The life of one document on the server: its immutable revisions, the    *)
(* editing lease that decides who may add one, saves and restores that are *)
(* prepared outside any transaction and published under the lease, copies  *)
(* taken from it, pruning by an operator's policy, and its way through the *)
(* trash to deletion.                                                      *)
(*                                                                         *)
(* Every transaction that changes the document locks its row, so each is   *)
(* one step.  A save or a restore is not one transaction: store (module    *)
(* Storage) reserves capacity, asks chunks() for the bytes, which checks   *)
(* the lease, reads the row and reads the bytes in separate transactions,  *)
(* and publishes in the last one.  Anything may happen in between, and an  *)
(* operation may end without effect at any time.                           *)
(*                                                                         *)
(* An editor is a browser tab (client_id) under one authenticated session, *)
(* which is how a lease names its holder.  Bytes and models are named by   *)
(* the operation that authored them.                                       *)
(***************************************************************************)
EXTENDS Integers, FiniteSets

CONSTANTS Editors, Sessions, SessionOf, Keys, Original, None,
          Policies,     (* keep_latest values an operator sets                *)
          MaxVersion,   (* revisions explored                                 *)
          MaxLease      (* lease generations explored                         *)

Versions    == 1..MaxVersion
Generations == 1..MaxLease
Contents    == Keys \cup {Original}

ASSUME RevisionsAssumptions ==
  /\ SessionOf \in [Editors -> Sessions]
  /\ MaxVersion \in Nat \ {0} /\ MaxLease \in Nat
  /\ Policies \subseteq Nat \ {0}
  /\ Original \notin Keys
  /\ None \notin Contents \cup Editors \cup Nat

VARIABLES
  doc,        (* documents: state, current revision, purge_after has passed   *)
  versions,   (* document_versions with the state of their stored files       *)
  lease,      (* editing_leases                                               *)
  issued,     (* the editor each lease generation was given to                *)
  generation, (* the last lease generation given out                          *)
  sessions,   (* sessions that are neither ended nor expired                  *)
  ops,        (* saves, restores and copies, by idempotency key               *)
  keep,       (* history_settings.keep_latest                                 *)
  batch,      (* the revisions a pruning pass has listed                      *)
  listed      (* an expiry pass has listed the document                       *)

access == <<lease, issued, generation, sessions>>
upkeep == <<keep, batch, listed>>
vars   == <<doc, versions, access, ops, upkeep>>

NoLease   == [editor |-> None, id |-> 0, source |-> 0, live |-> FALSE]
NoVersion == [file |-> "none", bytes |-> None, model |-> None, parent |-> 0,
              origin |-> 0, by |-> 0]
First     == [NoVersion EXCEPT !.file = "ready", !.bytes = Original,
                               !.model = Original]
NoOp      == [kind |-> "none", pc |-> "none", editor |-> None, id |-> 0,
              source |-> 0, selected |-> 0, model |-> None, bytes |-> None]

Init ==
  /\ doc = [state |-> "absent", current |-> 1, due |-> FALSE]
  /\ versions = [v \in Versions |-> NoVersion]
  /\ lease = NoLease
  /\ issued = [g \in Generations |-> None]
  /\ generation = 0
  /\ sessions = Sessions
  /\ ops = [k \in Keys |-> NoOp]
  /\ keep = None
  /\ batch = {}
  /\ listed = FALSE

Authenticated(e) == SessionOf[e] \in sessions     (* accounts.profile.active_user *)
IsActive         == doc.state = "active"
Ready(v)         == v \in Versions /\ versions[v].file = "ready"
Visible          == IsActive /\ Ready(doc.current) (* documents.service.query *)
Exists(v)        == v \in Versions /\ versions[v].file # "none"

-----------------------------------------------------------------------------
(* documents.leases.change *)

Live == /\ lease.editor # None
        /\ lease.live /\ Authenticated(lease.editor)

Granted(e) ==
  /\ generation < MaxLease
  /\ generation' = generation + 1
  /\ issued' = [issued EXCEPT ![generation + 1] = e]
  /\ lease' = [editor |-> e, id |-> generation + 1, source |-> doc.current,
               live |-> TRUE]

AcquireFromOtherSession(e) ==   (* a session takes over what another one holds *)
  /\ Authenticated(e) /\ Visible
  /\ \/ /\ Live /\ lease.editor = e /\ lease.source = doc.current
        /\ lease' = [lease EXCEPT !.live = TRUE]
        /\ UNCHANGED <<issued, generation>>
     \/ /\ Live => SessionOf[lease.editor] # SessionOf[e]
        /\ Granted(e)
  /\ UNCHANGED <<doc, versions, sessions, ops, upkeep>>

(* Acquiring for the current revision: its live holder keeps the            *)
(* generation, anybody else must wait until the lease is not live.          *)
Acquire(e) ==
  /\ Authenticated(e) /\ Visible
  /\ \/ /\ Live /\ lease.editor = e /\ lease.source = doc.current
        /\ lease' = [lease EXCEPT !.live = TRUE]
        /\ UNCHANGED <<issued, generation>>
     \/ /\ Live => lease.editor = e /\ lease.source # doc.current
        /\ Granted(e)
  /\ UNCHANGED <<doc, versions, sessions, ops, upkeep>>

RenewExpired(e, g) ==
  /\ Authenticated(e) /\ Visible /\ g # 0
  /\ lease.editor = e /\ lease.id = g
  /\ lease' = [lease EXCEPT !.live = TRUE]
  /\ UNCHANGED <<doc, versions, issued, generation, sessions, ops, upkeep>>
(* A renewal cannot revive a lease that has run out. *)
Renew(e, g) ==
  /\ Authenticated(e) /\ Visible
  /\ Live /\ lease.editor = e /\ lease.id = g /\ lease.source = doc.current
  /\ lease' = [lease EXCEPT !.live = TRUE]
  /\ UNCHANGED <<doc, versions, issued, generation, sessions, ops, upkeep>>

Release(e, g, source) ==
  /\ Authenticated(e) /\ IsActive
  /\ lease.editor = e /\ lease.id = g /\ lease.source = source
  /\ lease' = NoLease
  /\ UNCHANGED <<doc, versions, issued, generation, sessions, ops, upkeep>>

(* Sixty seconds pass without a renewal. *)
LeaseExpires ==
  /\ lease.live
  /\ lease' = [lease EXCEPT !.live = FALSE]
  /\ UNCHANGED <<doc, versions, issued, generation, sessions, ops, upkeep>>

(* Logout, a password change, or the end of a session's time. *)
EndSession(s) ==
  /\ s \in sessions
  /\ sessions' = sessions \ {s}
  /\ UNCHANGED <<doc, versions, lease, issued, generation, ops, upkeep>>
-----------------------------------------------------------------------------
(* service.upload; the document appears with its first revision. *)

Upload(e) ==
  /\ Authenticated(e)
  /\ doc.state = "absent"
  /\ doc' = [doc EXCEPT !.state = "active"]
  /\ versions' = [versions EXCEPT ![1] = First]
  /\ UNCHANGED <<access, ops, upkeep>>

(* saves.save, restores.restore, copies.create: the key is new, and the     *)
(* body names what the client knows.  A retry of a running or ended key     *)
(* changes nothing (Storage._begin).                                        *)
Request == [kind : {"save", "restore", "copy"}, editor : Editors,
            id : Generations \cup {0}, source : Versions,
            selected : Versions \cup {0}]
WellFormed(r) ==
  /\ Authenticated(r.editor)
  /\ Exists(r.source)
  /\ IF r.kind = "copy" THEN r.id = 0
     ELSE r.id # 0 /\ issued[r.id] = r.editor
  /\ IF r.kind = "restore" THEN Exists(r.selected) ELSE r.selected = 0
Begin(k, r) ==
  /\ ops[k].pc = "none"
  /\ WellFormed(r)
  /\ ops' = [ops EXCEPT ![k] =
       [kind |-> r.kind, pc |-> IF r.kind = "copy" THEN "checked" ELSE "begun",
        editor |-> r.editor, id |-> r.id, source |-> r.source,
        selected |-> r.selected, model |-> None, bytes |-> None]]
  /\ UNCHANGED <<doc, versions, access, upkeep>>

(* revision_commit.holder *)
Holds(k) ==
  /\ Authenticated(ops[k].editor)
  /\ IsActive /\ doc.current = ops[k].source
  /\ lease.editor = ops[k].editor /\ lease.id = ops[k].id
  /\ lease.source = ops[k].source /\ lease.live

(* chunks(), first transaction *)
Check(k) ==
  /\ ops[k].pc = "begun"
  /\ Holds(k)
  /\ ops' = [ops EXCEPT ![k].pc = "checked"]
  /\ UNCHANGED <<doc, versions, access, upkeep>>

ReadCurrentRow(k) ==    (* a restore that reads the model of what is current *)
  /\ ops[k].pc = "checked"
  /\ Visible
  /\ ops' = [ops EXCEPT ![k].pc = "read", ![k].model =
       IF ops[k].kind = "save" THEN k ELSE versions[doc.current].model]
  /\ UNCHANGED <<doc, versions, access, upkeep>>
(* chunks(), second transaction: the row of the revision to start from.  A  *)
(* save's model is the editor's; it needs the row for the field review.     *)
From(k) == IF ops[k].kind = "restore" THEN ops[k].selected ELSE ops[k].source
ReadRow(k) ==
  /\ ops[k].pc = "checked"
  /\ IsActive /\ Ready(From(k))
  /\ ops[k].kind # "restore" => doc.current = ops[k].source
  /\ ops' = [ops EXCEPT ![k].pc = "read", ![k].model =
       IF ops[k].kind = "save" THEN k ELSE versions[From(k)].model]
  /\ UNCHANGED <<doc, versions, access, upkeep>>

(* chunks() reads the bytes through Storage.read: a save renders its model  *)
(* into the original upload.                                                *)
ReadBytes(k) ==
  /\ ops[k].pc = "read"
  /\ Ready(IF ops[k].kind = "save" THEN 1 ELSE From(k))
  /\ ops' = [ops EXCEPT ![k].pc = "prepared", ![k].bytes =
       IF ops[k].kind = "save" THEN k ELSE versions[From(k)].bytes]
  /\ UNCHANGED <<doc, versions, access, upkeep>>

(* What revision_commit.commit writes once its checks have passed. *)
Revision(k) ==
  [file |-> "ready", bytes |-> ops[k].bytes, model |-> ops[k].model,
   parent |-> ops[k].source, origin |-> ops[k].selected, by |-> ops[k].id]
Publish(k) ==
  LET v == ops[k].source + 1 IN
  /\ v \in Versions /\ versions[v].file = "none"
  /\ versions' = [versions EXCEPT ![v] = Revision(k)]
  /\ doc' = [doc EXCEPT !.current = v]
  /\ lease' = [lease EXCEPT !.source = v]
  /\ ops' = [ops EXCEPT ![k].pc = "committed"]
  /\ UNCHANGED <<issued, generation, sessions, upkeep>>

CommitUnfenced(k) ==    (* trusts the check made before preparing *)
  /\ ops[k].pc = "prepared" /\ ops[k].kind # "copy"
  /\ Publish(k)
CommitUnchecked(k) ==   (* forgets the lease, not the document *)
  /\ ops[k].pc = "prepared" /\ ops[k].kind # "copy"
  /\ Authenticated(ops[k].editor)
  /\ IsActive /\ doc.current = ops[k].source
  /\ Publish(k)
(* revision_commit.commit, in store's publishing transaction: everything is *)
(* checked again.                                                           *)
Commit(k) ==
  /\ ops[k].pc = "prepared" /\ ops[k].kind # "copy"
  /\ Holds(k)
  /\ ops[k].kind = "restore" => Ready(ops[k].selected)
  /\ Publish(k)

CommitCopyUnchecked(k) ==
  /\ ops[k].pc = "prepared" /\ ops[k].kind = "copy"
  /\ ops' = [ops EXCEPT ![k].pc = "committed"]
  /\ UNCHANGED <<doc, versions, access, upkeep>>
(* copies.create's finalize: the copy is a document of its own, and must be *)
(* of what is current when it appears.                                      *)
CommitCopy(k) ==
  /\ ops[k].pc = "prepared" /\ ops[k].kind = "copy"
  /\ Authenticated(ops[k].editor)
  /\ IsActive /\ doc.current = ops[k].source
  /\ ops' = [ops EXCEPT ![k].pc = "committed"]
  /\ UNCHANGED <<doc, versions, access, upkeep>>

(* A check fails, capacity is refused, the process dies and is recovered.   *)
Abort(k) ==
  /\ ops[k].pc \in {"begun", "checked", "read", "prepared"}
  /\ ops' = [ops EXCEPT ![k].pc = "aborted"]
  /\ UNCHANGED <<doc, versions, access, upkeep>>
-----------------------------------------------------------------------------
(* documents.trash and documents.deletion *)

Trash(e) ==
  /\ Authenticated(e) /\ IsActive
  /\ doc' = [doc EXCEPT !.state = "trashed", !.due = FALSE]
  /\ lease' = NoLease
  /\ UNCHANGED <<versions, issued, generation, sessions, ops, upkeep>>

UntrashDue(e) ==
  /\ Authenticated(e) /\ doc.state = "trashed"
  /\ doc' = [doc EXCEPT !.state = "active", !.due = FALSE]
  /\ UNCHANGED <<versions, access, ops, upkeep>>
(* restore: refused once the deadline has passed. *)
Untrash(e) ==
  /\ Authenticated(e) /\ doc.state = "trashed" /\ ~doc.due
  /\ doc' = [doc EXCEPT !.state = "active"]
  /\ UNCHANGED <<versions, access, ops, upkeep>>

(* Thirty days pass; or the owner empties the trash, which moves the        *)
(* deadline first and purges afterwards like an expiry pass.                *)
DeadlinePasses ==
  /\ doc.state = "trashed" /\ ~doc.due
  /\ doc' = [doc EXCEPT !.due = TRUE]
  /\ UNCHANGED <<versions, access, ops, upkeep>>
Empty(e) ==
  /\ Authenticated(e) /\ doc.state = "trashed"
  /\ doc' = [doc EXCEPT !.due = TRUE]
  /\ listed' = TRUE
  /\ UNCHANGED <<versions, access, ops, keep, batch>>

(* The transaction of purge, for a document that is not deleted yet. *)
Purged ==
  /\ doc' = [doc EXCEPT !.state = "deleted"]
  /\ versions' = [v \in Versions |-> [versions[v] EXCEPT
       !.model = None, !.file = IF @ = "ready" THEN "pending" ELSE @]]
  /\ lease' = NoLease

Remove(e) ==
  /\ Authenticated(e) /\ doc.state \in {"active", "trashed"}
  /\ Purged
  /\ UNCHANGED <<issued, generation, sessions, ops, upkeep>>

(* trash.expire: list, then purge what is still expired. *)
ListExpired ==
  /\ doc.state = "trashed" /\ doc.due
  /\ listed' = TRUE
  /\ UNCHANGED <<doc, versions, access, ops, keep, batch>>
PurgeExpired ==
  /\ listed
  /\ listed' = FALSE
  /\ \/ doc.state = "trashed" /\ doc.due /\ Purged
     \/ ~(doc.state = "trashed" /\ doc.due) /\ UNCHANGED <<doc, versions, lease>>
  /\ UNCHANGED <<issued, generation, sessions, ops, keep, batch>>
(* The pass ends early: its process died, or another document failed. *)
ExpiryStops ==
  /\ listed
  /\ listed' = FALSE
  /\ UNCHANGED <<doc, versions, access, ops, keep, batch>>

(* storage.maintenance.delete_file has removed a pending file: called by    *)
(* purge, by prune, and by every reconciliation.                            *)
FileRemoved(v) ==
  /\ versions[v].file = "pending"
  /\ versions' = [versions EXCEPT ![v].file = "deleted"]
  /\ UNCHANGED <<doc, access, ops, upkeep>>
-----------------------------------------------------------------------------
(* documents.retention *)

Configure(n) ==
  /\ keep' = n
  /\ UNCHANGED <<doc, versions, access, ops, batch, listed>>

CandidatesIncludeCurrent(n) ==
  IF ~IsActive THEN {}
  ELSE {v \in Versions : Ready(v) /\ v > 1 /\ v <= doc.current - n + 1}
CandidatesIncludeOriginal(n) ==
  IF ~IsActive THEN {}
  ELSE {v \in Versions : Ready(v) /\ v # doc.current /\ v <= doc.current - n}
Candidates(n) ==
  IF ~IsActive THEN {}
  ELSE {v \in Versions : Ready(v) /\ v > 1 /\ v # doc.current
                         /\ v <= doc.current - n}

PruneList ==
  /\ keep # None
  /\ batch' = Candidates(keep)
  /\ UNCHANGED <<doc, versions, access, ops, keep, listed>>

PruneTrustsList(v) ==
  /\ v \in batch
  /\ batch' = batch \ {v}
  /\ versions' = [versions EXCEPT
       ![v].file = IF @ = "ready" THEN "pending" ELSE @, ![v].model = None]
  /\ UNCHANGED <<doc, access, ops, keep, listed>>
(* delete_file asks authorize under all the locks; what is no candidate any *)
(* more is left alone.  The bytes go in FileRemoved.                        *)
PruneOne(v) ==
  /\ v \in batch
  /\ batch' = batch \ {v}
  /\ IF keep # None /\ v \in Candidates(keep)
     THEN versions' = [versions EXCEPT ![v].file = "pending", ![v].model = None]
     ELSE UNCHANGED versions
  /\ UNCHANGED <<doc, access, ops, keep, listed>>
PruneStops ==
  /\ batch # {}
  /\ batch' = {}
  /\ UNCHANGED <<doc, versions, access, ops, keep, listed>>
-----------------------------------------------------------------------------
Work(k) == Check(k) \/ ReadRow(k) \/ ReadBytes(k) \/ Commit(k) \/ CommitCopy(k) \/ Abort(k)
Lease ==
  \/ LeaseExpires
  \/ \E s \in Sessions : EndSession(s)
  \/ \E e \in Editors :
       \/ Acquire(e)
       \/ \E g \in Generations : Renew(e, g)
       \/ \E g \in Generations, source \in Versions : Release(e, g, source)
Owner ==
  \/ \E e \in Editors : Upload(e) \/ Trash(e) \/ Untrash(e) \/ Empty(e) \/ Remove(e)
  \/ \E k \in Keys, r \in Request : Begin(k, r)
Expiry == ListExpired \/ PurgeExpired
Upkeep ==
  \/ DeadlinePasses \/ Expiry \/ ExpiryStops
  \/ \E v \in Versions : FileRemoved(v) \/ PruneOne(v)
  \/ PruneList \/ PruneStops
  \/ \E n \in Policies \cup {None} : Configure(n)

Next == Lease \/ Owner \/ Upkeep \/ \E k \in Keys : Work(k)

(* The scheduler keeps running its expiry pass and its reconciliation;      *)
(* passes may stop early, but not all of them do.                           *)
Fairness ==
  /\ WF_vars(ListExpired) /\ SF_vars(PurgeExpired)
  /\ \A v \in Versions : WF_vars(FileRemoved(v))

Spec == Init /\ [][Next]_vars
FairSpec == Spec /\ Fairness
==============================================================================
