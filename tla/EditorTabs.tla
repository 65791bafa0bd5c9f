------------------------------ MODULE EditorTabs ------------------------------
(***************************************************************************)
(* Browser tabs that edit one document, and the server's side of their     *)
(* requests.  A tab keeps a draft, an editing lease with a deadline of its *)
(* own, and at most one save or restore whose outcome it does not know;    *)
(* the network delays requests past the moment the tab gives them up, and  *)
(* loses answers; sessions end and are renewed under running requests.     *)
(*                                                                         *)
(* Time is counted in ticks, of which a lease lives Life.  A message that  *)
(* nobody awaits any more still reaches the server if it was on its way.   *)
(***************************************************************************)
EXTENDS Integers, Sequences

CONSTANTS Tabs,
          Rivals,       (* other clients, as far as the server sees  *)
          None,
          Life,         (* of a lease: 60 s in the code              *)
          Kinds,        (* of operations: "save", "restore"          *)
          MaxVersion, MaxLease, MaxKey, MaxLogin,
          MaxDraft,     (* changes typed                             *)
          MaxFaults     (* of tabs, the network, sessions and the server *)

Editors  == Tabs \cup Rivals
Keys     == 1..MaxKey
Leasing  == {"acquire", "renew"}
Calls    == Kinds \cup {"load"}

ASSUME TabsAssumptions ==
  /\ None \notin Tabs \cup Rivals /\ Tabs \cap Rivals = {}
  /\ Life \in Nat \ {0}
  /\ Kinds \in {{"save"}, {"save", "restore"}}
  /\ \A n \in {MaxVersion, MaxLease, MaxKey, MaxDraft, MaxLogin, MaxFaults} : n \in Nat

VARIABLES
  versions,  (* by number: the key of the operation that wrote it, 0: upload  *)
  ops,       (* storage operations by key                                     *)
  lease,     (* the row of editing_leases                                     *)
  issued,    (* lease identifiers given out                                   *)
  session,   (* of every editor: its number, and whether the server honours it *)
  tab,       (* state of the mounted workspace                                *)
  attempts,  (* by key: the request body, and whether the server ended it    *)
  net,       (* requests and answers on their way, or in the server           *)
  faults     (* so far                                                         *)

vars == <<versions, ops, lease, issued, session, tab, attempts, net, faults>>
server == <<versions, ops, lease, issued>>

NoLease   == [tab |-> None, login |-> 0, id |-> 0, source |-> 0, left |-> 0]
NoAttempt == [tab |-> None, kind |-> "save", id |-> 0, source |-> 0, draft |-> 0,
              base |-> 0, selected |-> 0, ended |-> FALSE]
Unloaded  == [status |-> "checking", loaded |-> 0, base |-> 0, gen |-> 0, left |-> 0,
              draft |-> 0, acked |-> 0, key |-> 0, conflict |-> FALSE, out |-> FALSE,
              asked |-> {}]

Init ==
  /\ versions = <<0>>
  /\ ops = [k \in Keys |-> "none"]
  /\ lease = NoLease /\ issued = 0
  /\ session = [t \in Editors |-> [n |-> 1, live |-> TRUE]]
  /\ tab = [t \in Tabs |-> Unloaded]
  /\ attempts = [k \in Keys |-> NoAttempt]
  /\ net = {} /\ faults = 0

Current == Len(versions)
Fault   == faults < MaxFaults /\ faults' = faults + 1
-----------------------------------------------------------------------------
(* Messages *)

Request(t, act) ==
  [tab |-> t, act |-> act, at |-> "server", login |-> session[t].n, id |-> 0,
   source |-> 0, left |-> 0, key |-> 0, saved |-> 0, current |-> 0, says |-> "",
   awaited |-> TRUE]

(* The tab stops listening.  What has no effect on the server any more is   *)
(* dropped; the rest may still reach it, or never.                          *)
Ignore(msgs, t, acts) ==
  {m \in {IF m.tab = t /\ m.act \in acts THEN [m EXCEPT !.awaited = FALSE, !.left = 0] ELSE m
            : m \in msgs} : m.awaited \/ (m.at \in {"server", "storing"} /\ m.act # "load")}

Awaits(t, acts) == \E m \in net : m.tab = t /\ m.act \in acts /\ m.awaited

Answer(m, said) ==
  net' = (net \ {m}) \cup (IF m.awaited THEN {[said EXCEPT !.at = "tab"]} ELSE {})
Say(m, what) == Answer(m, [m EXCEPT !.says = what])
Stored(m) ==
  net' = (net \ {m}) \cup (IF m.awaited THEN {[m EXCEPT !.at = "stored"]} ELSE {})
-----------------------------------------------------------------------------
(* The editing lease, in the tab *)

CanEdit(t) == tab[t].status = "active" /\ tab[t].left > 0

(* Releases the generation in use, if there is one; a new acquisition by    *)
(* the effect waits for the promise stored here, and only for that one.     *)
Relinquish(msgs, t) ==
  Ignore(msgs, t, Leasing \cup {"release"}) \cup
  (IF tab[t].gen = 0 THEN {}
   ELSE {[Request(t, "release") EXCEPT !.id = tab[t].gen, !.source = tab[t].loaded]})
Asked(t) == tab[t].asked \cup (IF tab[t].gen = 0 THEN {} ELSE {<<tab[t].gen, tab[t].loaded>>})

(* The effect runs again: for another version, or another session.          *)
Rerun(t, new, msgs) ==
  /\ tab' = [tab EXCEPT ![t] = [new EXCEPT
       !.status = "checking", !.gen = 0, !.left = 0, !.asked = Asked(t)]]
  /\ net' = Relinquish(msgs, t)

Paused(s, why) ==
  [s EXCEPT !.left = 0, !.status = IF why = "revision" THEN "outdated" ELSE "paused"]

(* A 401 of the current session: nothing is sent and no answer is taken     *)
(* until the owner has signed in again.                                     *)
SignedOutHeard(t, new) ==
  /\ tab' = [tab EXCEPT ![t] = [new EXCEPT !.out = TRUE,
       !.status = "checking", !.gen = 0, !.left = 0]]
  /\ net' = {m \in net : ~(m.tab = t /\ m.at = "tab" /\ m.says = "authentication_required")}
SignedOut(t, new) ==
  /\ tab' = [tab EXCEPT ![t] = [new EXCEPT !.out = TRUE,
       !.status = "checking", !.gen = 0, !.left = 0]]
  /\ net' = Ignore(net, t, Leasing \cup Calls \cup {"release"})

Acquire(t) ==
  /\ tab[t].status = "checking" /\ tab[t].loaded # 0 /\ ~tab[t].out
  /\ ~Awaits(t, Leasing \cup {"release"})
  /\ net' = net \cup {[Request(t, "acquire") EXCEPT !.source = tab[t].loaded, !.left = Life]}
  /\ UNCHANGED <<server, session, tab, attempts, faults>>

Retry(t) ==
  /\ tab[t].status = "paused" /\ ~Awaits(t, Leasing)
  /\ tab' = [tab EXCEPT ![t].status = "checking"]
  /\ net' = net \cup {[Request(t, "acquire") EXCEPT !.source = tab[t].loaded, !.left = Life]}
  /\ UNCHANGED <<server, session, attempts, faults>>

Renew(t) ==
  /\ tab[t].status = "active" /\ ~Awaits(t, Leasing)
  /\ net' = net \cup {[Request(t, "renew") EXCEPT
       !.source = tab[t].loaded, !.id = tab[t].gen, !.left = Life]}
  /\ UNCHANGED <<server, session, tab, attempts, faults>>

(* The deadline counts from when the request was sent. *)
LeaseAnswerFresh(m) ==
  LET t == m.tab
      s == tab[t] IN
  /\ m.at = "tab" /\ m.act \in Leasing
  /\ IF m.says = "authentication_required" THEN SignedOut(t, s)
     ELSE /\ net' = net \ {m}
          /\ tab' = [tab EXCEPT ![t] =
               IF m.says = "active"
               THEN [s EXCEPT !.status = "active", !.gen = m.id, !.left = Life,
                              !.asked = @ \cap {<<m.id, s.loaded>>}]
               ELSE Paused(s, m.says)]
  /\ UNCHANGED <<server, session, attempts, faults>>
LeaseAnswer(m) ==
  LET t == m.tab
      s == tab[t] IN
  /\ m.at = "tab" /\ m.act \in Leasing
  /\ IF m.says = "authentication_required" THEN SignedOut(t, s)
     ELSE /\ net' = net \ {m}
          /\ tab' = [tab EXCEPT ![t] =
               IF m.says = "active" /\ m.left > 0 /\ (m.act = "renew" => s.left > 0)
               THEN [s EXCEPT !.status = "active", !.gen = m.id, !.left = m.left,
                              !.asked = @ \cap {<<m.id, s.loaded>>}]
               ELSE Paused(s, m.says)]
  /\ UNCHANGED <<server, session, attempts, faults>>

(* pagehide: the page may come back from the back/forward cache, or it is    *)
(* closed and does nothing more.                                            *)
Leave(t) ==
  /\ tab[t].loaded # 0 /\ ~tab[t].out
  /\ Fault
  /\ tab' = [tab EXCEPT ![t] = [Paused(tab[t], "lease_lost") EXCEPT !.asked = Asked(t)]]
  /\ net' = Relinquish(net, t)
  /\ UNCHANGED <<server, session, attempts>>

Tick ==
  LET Less(n) == IF n = 0 THEN 0 ELSE n - 1 IN
  /\ lease.left > 0 \/ (\E t \in Tabs : tab[t].left > 0) \/ (\E m \in net : m.left > 0)
  /\ lease' = [lease EXCEPT !.left = Less(@)]
  /\ tab' = [t \in Tabs |-> IF CanEdit(t) /\ tab[t].left = 1 THEN Paused(tab[t], "lease_lost")
                            ELSE [tab[t] EXCEPT !.left = Less(@)]]
  /\ net' = {[m EXCEPT !.left = Less(@)] : m \in net}
  /\ UNCHANGED <<versions, ops, issued, session, attempts, faults>>
-----------------------------------------------------------------------------
(* The draft, in the tab *)

Load(t) ==
  /\ tab[t].loaded = 0 /\ ~tab[t].out
  /\ tab' = [tab EXCEPT ![t].loaded = Current, ![t].base = Current]
  /\ UNCHANGED <<server, session, attempts, net, faults>>

Edit(t) ==
  /\ CanEdit(t) /\ tab[t].draft < MaxDraft
  /\ \A m \in net : m.tab = t /\ m.awaited /\ m.key # 0 => attempts[m.key].kind = "save"
  /\ tab' = [tab EXCEPT ![t].draft = @ + 1]
  /\ UNCHANGED <<server, session, attempts, net, faults>>

Pending(t) == tab[t].key # 0
Send(t, k) ==
  net' = net \cup {[Request(t, attempts'[k].kind) EXCEPT !.key = k]}
(* A first try keeps its detached snapshot; a retry sends that one again.   *)
Try(t, kind, selected) ==
  \/ /\ ~Pending(t) /\ CanEdit(t)
     /\ \E k \in Keys :
          /\ attempts[k].tab = None /\ \A j \in 1..(k - 1) : attempts[j].tab # None
          /\ attempts' = [attempts EXCEPT ![k] =
               [tab |-> t, kind |-> kind, id |-> tab[t].gen, source |-> tab[t].loaded,
                draft |-> tab[t].draft, base |-> tab[t].base, selected |-> selected,
                ended |-> FALSE]]
          /\ tab' = [tab EXCEPT ![t].key = k]
          /\ Send(t, k)
  \/ /\ Pending(t) /\ attempts[tab[t].key].kind = kind
     /\ attempts' = attempts
     /\ UNCHANGED tab
     /\ Send(t, tab[t].key)
Save(t) ==
  /\ ~Awaits(t, Calls) /\ ~tab[t].conflict /\ ~tab[t].out
  /\ Pending(t) \/ tab[t].draft # tab[t].acked
  /\ Try(t, "save", 0)
  /\ UNCHANGED <<server, session, faults>>
Restore(t) ==
  /\ ~Awaits(t, Calls) /\ ~tab[t].conflict /\ ~tab[t].out
  /\ "restore" \in Kinds
  /\ \E n \in 1..(tab[t].loaded - 1) : Try(t, "restore", n)
  /\ UNCHANGED <<server, session, faults>>

End(k) == attempts' = [attempts EXCEPT ![k].ended = TRUE]

AnsweredNewest(m) ==
  LET t == m.tab
      s == tab[t] IN
  /\ m.says = "stored" /\ attempts[m.key].kind = "save"
  /\ Rerun(t, [s EXCEPT !.loaded = m.current, !.base = m.saved, !.key = 0,
                        !.acked = attempts[m.key].draft], net \ {m})
  /\ UNCHANGED attempts
AnsweredLiveDraft(m) ==
  LET t == m.tab
      s == tab[t] IN
  /\ m.says = "stored" /\ m.saved = m.current /\ attempts[m.key].kind = "save"
  /\ Rerun(t, [s EXCEPT !.loaded = m.current, !.base = m.saved, !.key = 0,
                        !.acked = s.draft], net \ {m})
  /\ UNCHANGED attempts
(* What was saved is the server's current revision: the draft goes on from  *)
(* it.  It is acknowledged as it was sent.                                  *)
Acknowledged(m) ==
  LET t == m.tab
      s == tab[t] IN
  /\ m.says = "stored" /\ m.saved = m.current /\ attempts[m.key].kind = "save"
  /\ Rerun(t, [s EXCEPT !.loaded = m.current, !.base = m.saved, !.key = 0,
                        !.acked = attempts[m.key].draft], net \ {m})
  /\ UNCHANGED attempts
(* Somebody has saved since. *)
Superseded(m) ==
  /\ m.says = "stored" /\ m.saved # m.current
  /\ tab' = [tab EXCEPT ![m.tab] =
       [Paused(@, "revision") EXCEPT !.key = 0, !.conflict = TRUE]]
  /\ net' = net \ {m}
  /\ UNCHANGED attempts
(* The second request of a restore, for the content it produced. *)
Reload(m) ==
  /\ m.says = "stored" /\ m.saved = m.current /\ attempts[m.key].kind = "restore"
  /\ net' = (net \ {m}) \cup {[m EXCEPT !.act = "load", !.at = "server", !.says = "",
                                        !.login = session[m.tab].n]}
  /\ UNCHANGED <<tab, attempts>>

Denials == {"revision", "lease_lost", "operation_aborted"}
RefusedForgets(m) ==
  /\ m.says \in Denials \cup {"upload_busy", "operation_in_progress", "storage_unavailable"}
  /\ End(m.key)
  /\ net' = net \ {m}
  /\ tab' = [tab EXCEPT ![m.tab] =
       [(IF m.says \in {"revision", "lease_lost"} THEN Paused(@, m.says) ELSE @)
          EXCEPT !.key = 0, !.conflict = m.says = "revision"]]
(* A definite answer ends the attempt, the draft stays.                     *)
Refused(m) ==
  /\ m.says \in Denials \cup {"upload_busy"}
  /\ IF m.says \in Denials THEN End(m.key) ELSE UNCHANGED attempts
  /\ net' = net \ {m}
  /\ tab' = [tab EXCEPT ![m.tab] =
       [(IF m.says \in {"revision", "lease_lost"} THEN Paused(@, m.says) ELSE @)
          EXCEPT !.key = 0, !.conflict = m.says = "revision"]]
RefusedSession(m) ==
  /\ m.says = "authentication_required"
  /\ SignedOut(m.tab, [tab[m.tab] EXCEPT !.key = 0])
  /\ UNCHANGED attempts
(* Anything else leaves the attempt for the same key and body. *)
Uncertain(m) ==
  /\ m.says \in {"operation_in_progress", "storage_unavailable"}
  /\ net' = net \ {m}
  /\ UNCHANGED <<tab, attempts>>

OpAnswer(m) ==
  /\ m.at = "tab" /\ m.act \in Kinds
  /\ \/ Acknowledged(m) \/ Superseded(m) \/ Reload(m)
     \/ Refused(m) \/ RefusedSession(m) \/ Uncertain(m)
  /\ UNCHANGED <<server, session, faults>>

(* The restored pair replaces the draft only if it is still current. *)
LoadAnswer(m) ==
  LET t == m.tab
      s == tab[t] IN
  /\ m.at = "tab" /\ m.act = "load"
  /\ \/ /\ m.says = "current"
        /\ Rerun(t, [s EXCEPT !.loaded = m.saved, !.base = m.saved, !.draft = 0,
                              !.acked = 0, !.key = 0], net \ {m})
     \/ /\ m.says = "stale"
        /\ tab' = [tab EXCEPT ![t] = [Paused(s, "revision") EXCEPT !.key = 0, !.conflict = TRUE]]
        /\ net' = net \ {m}
     \/ m.says = "authentication_required" /\ SignedOut(t, s)
  /\ UNCHANGED <<server, session, attempts, faults>>

(* The owner gives the draft up and loads the current revision. *)
Reopen(t) ==
  /\ tab[t].loaded # 0 /\ ~tab[t].out /\ ~Awaits(t, Calls)
  /\ tab[t].status = "outdated" \/ tab[t].conflict \/ Pending(t)
  /\ Rerun(t, Unloaded, net)
  /\ UNCHANGED <<server, session, attempts, faults>>
-----------------------------------------------------------------------------
(* The server *)

Valid(m) == session[m.tab] = [n |-> m.login, live |-> TRUE]
Live == lease.left > 0 /\ session[lease.tab] = [n |-> lease.login, live |-> TRUE]
Same(m) == lease.tab = m.tab /\ lease.login = m.login
Generation(m) == Same(m) /\ lease.id = m.id /\ lease.source = m.source

Granted(m, id) ==
  /\ lease' = [tab |-> m.tab, login |-> m.login, id |-> id, source |-> m.source, left |-> Life]
  /\ Answer(m, [m EXCEPT !.says = "active", !.id = id])
(* leases.change *)
Grant(m) ==
  /\ m.at = "server" /\ m.act \in Leasing
  /\ Valid(m) /\ m.source = Current
  /\ IF m.act = "renew"
     THEN Live /\ Generation(m) /\ Granted(m, m.id) /\ UNCHANGED issued
     ELSE IF lease.tab # None /\ Live
     THEN /\ Same(m)
          /\ IF lease.source = m.source
             THEN Granted(m, lease.id) /\ UNCHANGED issued
             ELSE issued < MaxLease /\ issued' = issued + 1 /\ Granted(m, issued + 1)
     ELSE issued < MaxLease /\ issued' = issued + 1 /\ Granted(m, issued + 1)
  /\ UNCHANGED <<versions, ops, session, tab, attempts, faults>>
Deny(m) ==
  LET taken == lease.tab # None /\ Live IN
  /\ m.at = "server" /\ m.act \in Leasing
  /\ \/ ~Valid(m) /\ Say(m, "authentication_required")
     \/ Valid(m) /\ m.source # Current /\ Say(m, "revision")
     \/ /\ Valid(m) /\ m.source = Current
        /\ \/ m.act = "renew" /\ ~(taken /\ Generation(m)) /\ Say(m, "lease_lost")
           \/ m.act = "acquire" /\ taken /\ ~Same(m) /\ Say(m, "lease_busy")
  /\ UNCHANGED <<server, session, tab, attempts, faults>>
ReleaseBySession(m) ==
  /\ m.at = "server" /\ m.act = "release"
  /\ lease' = IF Valid(m) /\ Same(m) THEN NoLease ELSE lease
  /\ net' = net \ {m}
  /\ UNCHANGED <<versions, ops, issued, session, tab, attempts, faults>>
Release(m) ==
  /\ m.at = "server" /\ m.act = "release"
  /\ lease' = IF Valid(m) /\ Generation(m) THEN NoLease ELSE lease
  /\ net' = net \ {m}
  /\ UNCHANGED <<versions, ops, issued, session, tab, attempts, faults>>

(* holder: the fence of a save or restore *)
Fence(m) ==
  LET b == attempts[m.key] IN
  IF ~Valid(m) THEN "authentication_required"
  ELSE IF b.source # Current THEN "revision"
  ELSE IF lease.left > 0 /\ Generation([m EXCEPT !.id = b.id, !.source = b.source])
  THEN "" ELSE "lease_lost"

(* store: a key that was used answers for its operation; a new one is       *)
(* reserved, and checked by the first transaction of chunks.                *)
Begin(m) ==
  /\ m.at = "server" /\ m.act \in Kinds
  /\ IF ~Valid(m) THEN Say(m, "authentication_required") /\ UNCHANGED ops
     ELSE CASE ops[m.key] = "running" -> Say(m, "operation_in_progress") /\ UNCHANGED ops
            [] ops[m.key] = "aborted" -> Say(m, "operation_aborted") /\ UNCHANGED ops
            [] ops[m.key] = "committed" ->
                 Stored(m) /\ UNCHANGED ops
            [] OTHER ->
                 IF Fence(m) = ""
                 THEN /\ net' = (net \ {m}) \cup {[m EXCEPT !.at = "storing"]}
                      /\ ops' = [ops EXCEPT ![m.key] = "running"]
                 ELSE Say(m, Fence(m)) /\ ops' = [ops EXCEPT ![m.key] = "aborted"]
  /\ UNCHANGED <<versions, lease, issued, session, tab, attempts, faults>>

(* finalize, in the publishing transaction; the bound refuses like a quota. *)
Publish(m) ==
  /\ m.at = "storing"
  /\ IF Fence(m) = "" /\ Current < MaxVersion
     THEN /\ versions' = Append(versions, m.key)
          /\ lease' = [lease EXCEPT !.source = Current + 1]
          /\ ops' = [ops EXCEPT ![m.key] = "committed"]
          /\ Stored(m)
     ELSE /\ Say(m, IF Fence(m) = "" THEN "operation_aborted" ELSE Fence(m))
          /\ ops' = [ops EXCEPT ![m.key] = "aborted"]
          /\ UNCHANGED <<versions, lease>>
  /\ UNCHANGED <<issued, session, tab, attempts, faults>>

(* saved_info, after the commit *)
Inform(m) ==
  /\ m.at = "stored"
  /\ IF Valid(m)
     THEN Answer(m, [m EXCEPT !.says = "stored", !.current = Current,
                     !.saved = CHOOSE n \in 1..Current : versions[n] = m.key])
     ELSE Say(m, "authentication_required")
  /\ UNCHANGED <<server, session, tab, attempts, faults>>

(* history.content *)
Content(m) ==
  /\ m.at = "server" /\ m.act = "load"
  /\ Say(m, CASE ~Valid(m) -> "authentication_required"
              [] m.saved = Current -> "current"
              [] OTHER -> "stale")
  /\ UNCHANGED <<server, session, tab, attempts, faults>>

(* No upload slot is free; nothing is stored.                               *)
TurnAway(m) ==
  /\ m.at = "server" /\ m.act \in Kinds
  /\ Fault
  /\ Say(m, "upload_busy")
  /\ UNCHANGED <<server, session, tab, attempts>>
(* The process dies while it stores.                                        *)
Crash(m) ==
  /\ m.at = "storing"
  /\ Fault
  /\ Say(m, "storage_unavailable")
  /\ UNCHANGED <<server, session, tab, attempts>>
Recover(k) ==
  /\ ops[k] = "running" /\ \A m \in net : m.key = k => m.at # "storing"
  /\ ops' = [ops EXCEPT ![k] = "aborted"]
  /\ UNCHANGED <<versions, lease, issued, session, tab, attempts, net, faults>>

(* Another client takes the lease when it is free, saves, and lets it go     *)
(* (its session may have ended, or its owner has closed it).                *)
RivalTakes(r) ==
  /\ lease.tab = None \/ ~Live
  /\ issued < MaxLease
  /\ issued' = issued + 1
  /\ lease' = [tab |-> r, login |-> session[r].n, id |-> issued + 1,
               source |-> Current, left |-> Life]
  /\ UNCHANGED <<versions, ops, session, tab, attempts, net, faults>>
RivalSaves(r) ==
  /\ lease.tab = r /\ Live /\ Current < MaxVersion
  /\ versions' = Append(versions, 0)
  /\ lease' = [lease EXCEPT !.source = Current + 1]
  /\ UNCHANGED <<ops, issued, session, tab, attempts, net, faults>>
RivalReleases(r) ==
  /\ lease.tab = r
  /\ lease' = NoLease
  /\ UNCHANGED <<versions, ops, issued, session, tab, attempts, net, faults>>

EndSession(t) ==
  /\ session[t].live
  /\ Fault
  /\ session' = [session EXCEPT ![t].live = FALSE]
  /\ UNCHANGED <<server, tab, attempts, net>>
SignIn(t) ==
  /\ tab[t].out /\ session[t].n < MaxLogin
  /\ session' = [session EXCEPT ![t] = [n |-> @.n + 1, live |-> TRUE]]
  /\ tab' = [tab EXCEPT ![t].out = FALSE]
  /\ UNCHANGED <<server, attempts, net, faults>>

(* The tab gives a request up, or its connection fails, or the answer says  *)
(* that a dependency does: whatever the server did or will do is unknown.   *)
GiveUp(m) ==
  LET t == m.tab IN
  /\ m.awaited /\ Fault
  /\ net' = Ignore(net, t, {m.act})
  /\ tab' = [tab EXCEPT ![t] = CASE m.act \in Leasing -> Paused(@, "internal_error")
                                 [] m.act = "load" -> Paused(@, "revision")
                                 [] OTHER -> @]
  /\ UNCHANGED <<server, session, attempts>>
-----------------------------------------------------------------------------
Next ==
  \/ Tick
  \/ \E t \in Tabs :
       \/ Acquire(t) \/ Retry(t) \/ Renew(t) \/ Leave(t)
       \/ Load(t) \/ Edit(t) \/ Save(t) \/ Restore(t) \/ Reopen(t)
       \/ EndSession(t) \/ SignIn(t)
  \/ \E r \in Rivals : RivalTakes(r) \/ RivalSaves(r) \/ RivalReleases(r)
  \/ \E m \in net :
       \/ LeaseAnswer(m) \/ OpAnswer(m) \/ LoadAnswer(m) \/ GiveUp(m)
       \/ Grant(m) \/ Deny(m) \/ Release(m)
       \/ Begin(m) \/ Publish(m) \/ Inform(m) \/ Content(m) \/ TurnAway(m) \/ Crash(m)
  \/ \E k \in Keys : Recover(k)

Spec == Init /\ [][Next]_vars
==============================================================================
