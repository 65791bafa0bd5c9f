---------------------------- MODULE AccountsProofs ----------------------------
(***************************************************************************)
(* AccountsInv is inductive for every set of names and requests and every  *)
(* bound.  Most requests end by giving back what they hold: what that does *)
(* to everybody else's locks is proved once (EndKeepsLocks), as is what a  *)
(* request that commits makes of its window (Committed).                   *)
(***************************************************************************)
EXTENDS AccountsProperties, TLAPS

(* The part of the invariant about locks and waiting.                       *)
LockInv == RowsAreHeld /\ ReadsAreStable /\ WaitersAreTold /\ PurgesAreOrdered

LEMMA Bounds ==
  /\ Limit \in Nat /\ Limit >= 1 /\ MaxSecret \in Nat /\ MaxSecret >= 1
  /\ MaxToken \in Nat /\ 0 \notin Tokens
  /\ \A r \in Requests : r # None
  /\ \A n \in Names : n # None
  BY AccountsAssumptions DEF Tokens

LEMMA RestingType == Resting \in Running
  BY Bounds DEF Resting, Running, Kinds

LEMMA KeyType ==
  ASSUME TypeOK, NEW r \in Requests, proc[r].name \in Names
  PROVE  Key(r) \in Keys
<1>1. proc[r].kind = "change" \/ proc[r].kind # "change"
  OBVIOUS
<1>2. QED BY <1>1 DEF Key, Keys

(* What a request that ends leaves of another one.                          *)
Stays(q, removed) ==
  /\ proc'[q].kind = proc[q].kind /\ proc'[q].name = proc[q].name
  /\ proc'[q].token = proc[q].token /\ proc'[q].count = proc[q].count
  /\ proc'[q].secret = proc[q].secret
  /\ proc'[q].todo = proc[q].todo \ removed /\ proc'[q].rows = proc[q].rows
  /\ proc'[q].pc = IF proc[q].pc = "blocked" /\ Key(q) \in removed
                     THEN "missing" ELSE proc[q].pc

LEMMA Ended ==
  ASSUME TypeOK, NEW r \in Requests, NEW removed, End(r, removed)
  PROVE  /\ proc' \in [Requests -> Running]
         /\ held' \in [Keys -> Hold]
         /\ userlock' \in [Names -> Requests \cup {None}]
         /\ sessionlock' \in [Tokens -> Requests \cup {None}]
         /\ proc'[r] = Resting
         /\ \A q \in Requests : q # r => Stays(q, removed)
         /\ \A k \in Keys : held'[k] = IF held[k].by = r THEN Free ELSE held[k]
         /\ \A n \in Names : userlock'[n] = IF userlock[n] = r THEN None ELSE userlock[n]
         /\ \A t \in Tokens :
              sessionlock'[t] = IF sessionlock[t] = r THEN None ELSE sessionlock[t]
<1>1. proc' \in [Requests -> Running]
  <2>1. ASSUME NEW q \in Requests
        PROVE  [proc[q] EXCEPT !.todo = @ \ removed,
             !.pc = IF @ = "blocked" /\ Key(q) \in removed THEN "missing" ELSE @] \in Running
    <3>1. proc[q] \in Running
      BY DEF TypeOK
    <3>2. CASE proc[q].pc = "blocked" /\ Key(q) \in removed
      <4>1. [proc[q] EXCEPT !.todo = @ \ removed, !.pc = "missing"] \in Running
        BY <3>1 DEF Running
      <4>2. QED BY <3>2, <4>1
    <3>3. CASE ~(proc[q].pc = "blocked" /\ Key(q) \in removed)
      <4>1. [proc[q] EXCEPT !.todo = @ \ removed, !.pc = @] \in Running
        BY <3>1 DEF Running
      <4>2. QED BY <3>3, <4>1
    <3>4. QED BY <3>2, <3>3
  <2>2. QED BY <2>1, RestingType DEF End
<1>2. held' \in [Keys -> Hold]
  BY DEF End, TypeOK, Free, Hold
<1>3. /\ userlock' \in [Names -> Requests \cup {None}]
      /\ sessionlock' \in [Tokens -> Requests \cup {None}]
  BY DEF End, TypeOK
<1>4. proc'[r] = Resting
  BY DEF End
<1>5. \A q \in Requests : q # r =>
        proc'[q] = [proc[q] EXCEPT !.todo = @ \ removed,
             !.pc = IF @ = "blocked" /\ Key(q) \in removed THEN "missing" ELSE @]
  BY DEF End
<1>6. ASSUME NEW q \in Requests, q # r
      PROVE  Stays(q, removed)
  <2>1. proc[q] \in Running
    BY DEF TypeOK
  <2>2. QED BY <1>5, <1>6, <2>1 DEF Running, Stays
<1>7. \A k \in Keys : held'[k] = IF held[k].by = r THEN Free ELSE held[k]
  BY DEF End
<1>8. /\ \A n \in Names : userlock'[n] = IF userlock[n] = r THEN None ELSE userlock[n]
      /\ \A t \in Tokens : sessionlock'[t] = IF sessionlock[t] = r THEN None ELSE sessionlock[t]
  BY DEF End
<1>9. QED BY <1>1, <1>2, <1>3, <1>4, <1>6, <1>7, <1>8

LEMMA SameKey ==
  ASSUME NEW q, proc'[q].kind = proc[q].kind, proc'[q].name = proc[q].name
  PROVE  Key(q)' = Key(q)
  BY DEF Key

(* Ending keeps the locks of the others: what it changes it held itself,    *)
(* and whoever waited for what it removes is told.                          *)
LEMMA EndKeepsLocks ==
  ASSUME TypeOK, LockInv, OwnersExist, NEW r \in Requests, NEW removed, End(r, removed),
         windows' \in [Keys -> Window],
         \A k \in Keys : windows'[k] = windows[k] \/ held[k].by = r,
         \A k \in Keys : windows[k].there /\ ~windows'[k].there => k \in removed,
         \A n \in Names : users'[n].secret = users[n].secret \/ userlock[n] = r
  PROVE  LockInv'
<1> USE Ended
<1>1. \A q \in Requests : q # r => Key(q)' = Key(q)
  BY SameKey DEF Stays
<1>2. /\ Resting.pc = "idle" /\ Resting.kind = "session" /\ Resting.todo = {}
      /\ \A k \in Keys : held'[k].by # r
      /\ \A n \in Names : userlock'[n] # r
  BY Bounds DEF Resting, Free
<1>3. RowsAreHeld'
  <2>1. SUFFICES ASSUME NEW k \in Keys
                 PROVE  /\ held'[k].by = None <=> held'[k].how = "free"
                        /\ held'[k].how \in {"purged", "locked", "changed"} => windows'[k].there
                        /\ \A q \in Requests : held'[k].by = q =>
                             /\ proc'[q].kind \in Purging
                             /\ proc'[q].pc \in {"purge", "lock", "blocked", "missing", "count", "user", "finish", "revoke"}
                             /\ IF k = Key(q)' /\ proc'[q].pc # "purge"
                                THEN /\ held'[k].how # "purged"
                                     /\ proc'[q].pc \in {"lock", "count", "user", "finish", "revoke"}
                                     /\ proc'[q].pc = "lock" => held'[k].how = "inserted"
                                ELSE held'[k].how = "purged"
    BY DEF RowsAreHeld, RowIsHeld, At
  <2>2. CASE held[k].by = r
    BY <2>2, Bounds DEF Free
  <2>3. CASE held[k].by # r
    <3>1. held'[k] = held[k] /\ windows'[k] = windows[k]
      BY <2>3
    <3>2. ASSUME NEW q \in Requests, held'[k].by = q
          PROVE  /\ proc'[q].kind \in Purging
                 /\ proc'[q].pc \in {"purge", "lock", "blocked", "missing", "count", "user", "finish", "revoke"}
                 /\ IF k = Key(q)' /\ proc'[q].pc # "purge"
                    THEN /\ held'[k].how # "purged"
                         /\ proc'[q].pc \in {"lock", "count", "user", "finish", "revoke"}
                         /\ proc'[q].pc = "lock" => held'[k].how = "inserted"
                    ELSE held'[k].how = "purged"
      <4>1. q # r /\ held[k].by = q
        BY <2>3, <3>1, <3>2
      <4>2. Key(q)' = Key(q) /\ Stays(q, removed)
        BY <1>1, <4>1
      <4>3. QED BY <3>1, <4>1, <4>2 DEF LockInv, RowsAreHeld, RowIsHeld, At, Stays
    <3>3. QED BY <3>1, <3>2 DEF LockInv, RowsAreHeld, RowIsHeld
  <2>4. QED BY <2>2, <2>3
<1>4. ReadsAreStable'
  <2>1. SUFFICES ASSUME NEW q \in Requests
        PROVE
    /\ proc'[q].pc = "idle" => proc'[q].kind = "session"
    /\ proc'[q].kind \notin {"session", "reset"} => proc'[q].token # 0
    /\ proc'[q].pc \in {"open", "purge", "lock", "blocked", "missing", "count"} =>
         proc'[q].kind \in Purging
    /\ proc'[q].pc # "idle" /\ proc'[q].kind \notin {"session", "logout"} => proc'[q].name \in Names
    /\ proc'[q].pc \in {"user", "finish"} => proc'[q].kind \in Purging \cup {"rename"}
    /\ proc'[q].pc = "revoke" => proc'[q].kind \in {"change", "reset"}
    /\ proc'[q].pc \in {"count", "user", "finish", "revoke"} /\ proc'[q].kind \in Purging =>
         held'[Key(q)'].by = q /\ proc'[q].count = Own(q)'.count
    /\ proc'[q].pc \in {"user", "finish"} /\ proc'[q].kind = "login" => proc'[q].count < Limit
    /\ proc'[q].pc \in {"finish", "revoke"} =>
         IF proc'[q].secret = 0 THEN proc'[q].kind = "login"
         ELSE userlock'[proc'[q].name] = q /\ proc'[q].secret = users'[proc'[q].name].secret
    /\ \A n \in Names : userlock'[n] = q => proc'[q].pc \in {"finish", "revoke"} /\ proc'[q].name = n
    BY DEF ReadsAreStable, ReadIsStable, At
  <2>2. CASE q = r
    BY <1>2, <2>2
  <2>3. CASE q # r
    <3>1. Stays(q, removed) /\ Key(q)' = Key(q)
      BY <1>1, <2>3
    <3>2. CASE proc[q].pc \in {"count", "user", "finish", "revoke"} /\ proc[q].kind \in Purging
      <4>1. held[Key(q)].by = q /\ proc[q].count = Own(q).count
        BY <3>2 DEF LockInv, ReadsAreStable, ReadIsStable, At
      <4>2. Key(q) \in Keys
        BY <3>2, KeyType DEF LockInv, ReadsAreStable, ReadIsStable, At, Purging
      <4>3. held'[Key(q)] = held[Key(q)] /\ windows'[Key(q)] = windows[Key(q)]
        BY <2>3, <4>1, <4>2
      <4>4. Own(q)' = Own(q)
        BY <3>1, <4>3 DEF Own
      <4>5. held'[Key(q)'].by = q /\ proc'[q].count = Own(q)'.count
        BY <3>1, <4>1, <4>3, <4>4 DEF Stays
      <4>6. proc[q].pc \in {"finish", "revoke"} /\ proc[q].secret # 0 =>
              userlock'[proc'[q].name] = q /\ proc'[q].secret = users'[proc'[q].name].secret
        BY <2>3, <3>1, <3>2 DEF LockInv, ReadsAreStable, ReadIsStable, At, Stays, Purging
      <4>7. \A n \in Names : userlock'[n] = q => proc'[q].pc \in {"finish", "revoke"} /\ proc'[q].name = n
        BY <2>3, <3>1, Bounds DEF LockInv, ReadsAreStable, ReadIsStable, At, Stays
      <4>8. /\ proc'[q].pc = proc[q].pc /\ proc'[q].kind = proc[q].kind
            /\ proc'[q].name = proc[q].name /\ proc'[q].token = proc[q].token
            /\ proc'[q].secret = proc[q].secret /\ proc'[q].count = proc[q].count
        BY <3>1, <3>2 DEF Stays
      <4>9. /\ proc[q].kind \notin {"session", "reset"} => proc[q].token # 0
            /\ proc[q].pc = "revoke" => proc[q].kind \in {"change", "reset"}
            /\ proc[q].name \in Names
            /\ proc[q].pc \in {"user", "finish"} => proc[q].kind \in Purging \cup {"rename"}
            /\ proc[q].pc \in {"user", "finish"} /\ proc[q].kind = "login" => proc[q].count < Limit
            /\ proc[q].pc \in {"finish", "revoke"} /\ proc[q].secret = 0 => proc[q].kind = "login"
        BY <3>2 DEF LockInv, ReadsAreStable, ReadIsStable, At, Purging
      <4>10. QED BY <3>2, <4>5, <4>6, <4>7, <4>8, <4>9
    <3>3. CASE ~(proc[q].pc \in {"count", "user", "finish", "revoke"} /\ proc[q].kind \in Purging)
      <4>1. \A n \in Names : userlock'[n] = q => proc'[q].pc \in {"finish", "revoke"} /\ proc'[q].name = n
        BY <2>3, <3>1, Bounds DEF LockInv, ReadsAreStable, ReadIsStable, At, Stays
      <4>2. /\ proc[q].pc = "finish" => proc[q].kind = "rename" /\ proc[q].name \in Names
            /\ proc[q].pc # "revoke"
        BY <3>3 DEF LockInv, ReadsAreStable, ReadIsStable, At, Purging
      <4>3. proc[q].pc = "finish" =>
              /\ proc'[q].secret # 0
              /\ userlock'[proc'[q].name] = q /\ proc'[q].secret = users'[proc'[q].name].secret
        BY <2>3, <3>1, <4>2 DEF LockInv, ReadsAreStable, ReadIsStable, At, Stays
      <4>4. QED BY <3>1, <3>3, <4>1, <4>2, <4>3 DEF LockInv, ReadsAreStable, ReadIsStable, At, Stays
    <3>4. QED BY <3>2, <3>3
  <2>4. QED BY <2>2, <2>3
<1>5. WaitersAreTold'
  <2>1. SUFFICES ASSUME NEW q \in Requests
                 PROVE  /\ \A k \in proc'[q].todo : windows'[k].there
                        /\ proc'[q].pc = "blocked" => windows'[Key(q)'].there
    BY DEF WaitersAreTold, WaiterIsTold, At
  <2>2. CASE q = r
    BY <1>2, <2>2
  <2>3. CASE q # r
    <3>1. Stays(q, removed) /\ Key(q)' = Key(q)
      BY <1>1, <2>3
    <3>2. \A k \in proc'[q].todo : windows'[k].there
      <4>1. proc[q].todo \subseteq Keys
        BY DEF TypeOK, Running
      <4>2. QED BY <3>1, <4>1 DEF Stays, LockInv, WaitersAreTold, WaiterIsTold
    <3>3. proc[q].pc = "blocked" => Key(q) \in Keys /\ windows[Key(q)].there
      BY KeyType DEF LockInv, ReadsAreStable, ReadIsStable, WaitersAreTold, WaiterIsTold, At, Purging
    <3>4. QED BY <3>1, <3>2, <3>3 DEF Stays
  <2>4. QED BY <2>2, <2>3
<1>6. PurgesAreOrdered'
  <2>1. SUFFICES ASSUME NEW circle \in SUBSET Requests,
                   \A q \in circle : /\ proc'[q].pc \in {"lock", "blocked"}
                                     /\ held'[Key(q)'].how = "purged" /\ held'[Key(q)'].by \in circle
                 PROVE  circle = {}
    BY DEF PurgesAreOrdered
  <2>2. r \notin circle
    BY <1>2, <2>1
  <2>3. ASSUME NEW q \in circle
        PROVE  /\ proc[q].pc \in {"lock", "blocked"}
               /\ held[Key(q)].how = "purged" /\ held[Key(q)].by \in circle
    <3>1. q \in Requests /\ q # r
      BY <2>2
    <3>2. Stays(q, removed) /\ Key(q)' = Key(q)
      BY <1>1, <3>1
    <3>3. proc[q].pc \in {"lock", "blocked"}
      BY <2>1, <3>2 DEF Stays
    <3>4. Key(q) \in Keys
      BY <3>1, <3>3, KeyType DEF LockInv, ReadsAreStable, ReadIsStable, At, Purging
    <3>5. QED BY <2>1, <2>3, <3>2, <3>3, <3>4 DEF Free
  <2>4. QED BY <2>3 DEF LockInv, PurgesAreOrdered
<1>7. QED BY <1>3, <1>4, <1>5, <1>6 DEF LockInv
-----------------------------------------------------------------------------
(* Sessions that are held, or about to be deleted, are left alone by other  *)
(* requests.                                                                *)
DeletesAlike(q) ==
  /\ proc'[q].kind = proc[q].kind /\ proc'[q].name = proc[q].name
  /\ proc'[q].token = proc[q].token /\ proc'[q].rows = proc[q].rows
  /\ \A pc \in {"expel", "revoke"} : proc'[q].pc = pc <=> proc[q].pc = pc

LEMMA SessionsKept ==
  ASSUME TypeOK, ReadsAreStable, SessionsAreHeld, NEW r \in Requests,
         \A q \in Requests : q # r => DeletesAlike(q),
         \A t \in Tokens, q \in Requests : q # r => (sessionlock'[t] = q <=> sessionlock[t] = q),
         \A t \in Tokens, q \in Requests : q # r /\ sessionlock[t] = q =>
           sessions'[t].there = sessions[t].there /\ sessions'[t].user = sessions[t].user,
         \A t \in Tokens, q \in Requests :
           q # r /\ t \in proc[q].rows /\ sessions'[t].there =>
             sessions[t].there /\ sessions'[t].user = sessions[t].user,
         \A t \in Tokens, q \in Requests :
           q # r /\ At(q, "revoke") /\ sessions'[t].user = proc[q].name =>
             sessions[t].user = proc[q].name,
         \A t \in Tokens : sessionlock'[t] = r =>
           /\ sessions'[t].there
           /\ proc'[r].pc \in {"expel", "revoke"}
           /\ proc'[r].pc = "revoke" => sessions'[t].user = proc'[r].name,
         RevokesItsOwn(r)'
  PROVE  SessionsAreHeld'
<1>1. ASSUME NEW t \in Tokens, NEW q \in Requests, sessionlock'[t] = q
      PROVE  /\ sessions'[t].there
             /\ proc'[q].pc \in {"expel", "revoke"}
             /\ proc'[q].pc = "revoke" => sessions'[t].user = proc'[q].name
  <2>1. CASE q = r
    BY <1>1, <2>1
  <2>2. CASE q # r
    <3>1. sessionlock[t] = q /\ DeletesAlike(q)
      BY <1>1, <2>2
    <3>2. QED BY <2>2, <3>1 DEF SessionsAreHeld, SessionIsHeld, At, DeletesAlike
  <2>3. QED BY <2>1, <2>2
<1>2. ASSUME NEW q \in Requests, q # r
      PROVE  RevokesItsOwn(q)'
  <2>1. SUFFICES ASSUME proc'[q].pc = "revoke"
                 PROVE  /\ \A t \in Tokens : sessions'[t].user = proc'[q].name =>
                             t \in proc'[q].rows \/ sessionlock'[t] = q
                        /\ \A t \in proc'[q].rows : sessions'[t].there => sessions'[t].user = proc'[q].name
                        /\ proc'[q].kind = "change" => sessionlock'[proc'[q].token] = q
    BY DEF RevokesItsOwn, At
  <2>2. DeletesAlike(q) /\ proc[q].pc = "revoke" /\ RevokesItsOwn(q) /\ proc[q] \in Running
    BY <1>2, <2>1 DEF DeletesAlike, SessionsAreHeld, TypeOK
  <2>3. \A t \in Tokens : sessions'[t].user = proc'[q].name =>
          t \in proc'[q].rows \/ sessionlock'[t] = q
    BY <1>2, <2>2 DEF DeletesAlike, RevokesItsOwn, At
  <2>4. \A t \in proc'[q].rows : sessions'[t].there => sessions'[t].user = proc'[q].name
    BY <1>2, <2>2 DEF DeletesAlike, RevokesItsOwn, At, Running
  <2>5. proc'[q].kind = "change" => sessionlock'[proc'[q].token] = q
    <3>1. proc[q].kind = "change" => proc[q].token \in Tokens
      BY <2>2 DEF ReadsAreStable, ReadIsStable, Running
    <3>2. QED BY <1>2, <2>2, <3>1 DEF DeletesAlike, RevokesItsOwn, At
  <2>6. QED BY <2>3, <2>4, <2>5
<1>3. QED BY <1>1, <1>2 DEF SessionsAreHeld, SessionIsHeld, At

(* So do a request that deletes none and steps of nobody's request.         *)
LEMMA QuietKeepsSessions ==
  ASSUME TypeOK, ReadsAreStable, SessionsAreHeld, NEW r \in Requests,
         \A q \in Requests : q # r => DeletesAlike(q),
         proc[r].pc \notin {"expel", "revoke"}, proc'[r].pc \notin {"expel", "revoke"},
         UNCHANGED sessionlock,
         \A t \in Tokens : sessions'[t] = sessions[t] \/ (sessionlock[t] = None /\ sessions'[t] = NoSession)
  PROVE  SessionsAreHeld'
<1>1. NoSession.user = None /\ ~NoSession.there
  BY DEF NoSession
<1>2. \A t \in Tokens : sessionlock[t] # r
  BY DEF SessionsAreHeld, SessionIsHeld
<1>3. ASSUME NEW t \in Tokens, NEW q \in Requests, At(q, "revoke"), sessions'[t].user = proc[q].name
      PROVE  sessions[t].user = proc[q].name
  <2>1. proc[q].name \in Names
    BY <1>3 DEF ReadsAreStable, ReadIsStable, At
  <2>2. QED BY <1>1, <1>3, <2>1, Bounds
<1>4. \A t \in Tokens, q \in Requests : q # r /\ t \in proc[q].rows /\ sessions'[t].there =>
        sessions[t].there /\ sessions'[t].user = sessions[t].user
  BY <1>1
<1>5. \A t \in Tokens, q \in Requests : q # r /\ sessionlock[t] = q =>
        sessions'[t].there = sessions[t].there /\ sessions'[t].user = sessions[t].user
  BY Bounds
<1>6. RevokesItsOwn(r)'
  BY DEF RevokesItsOwn, At
<1>7. QED BY <1>2, <1>3, <1>4, <1>5, <1>6, SessionsKept

(* A request that ends gives its sessions back; those it deletes were its   *)
(* own to delete, and it puts none in the place of one that is still to go. *)
SessionsGiven(r) ==
  \A t \in Tokens :
    \/ sessions'[t] = sessions[t]
    \/ sessions'[t] = NoSession /\ sessionlock[t] \in {None, r}
    \/ /\ sessionlock[t] \in {None, r}
       /\ \A q \in Requests : q # r => t \notin proc[q].rows
       /\ sessions'[t].user \in Names => userlock[sessions'[t].user] = r

LEMMA EndKeepsSessions ==
  ASSUME TypeOK, ReadsAreStable, SessionsAreHeld, NEW r \in Requests, NEW removed, End(r, removed),
         SessionsGiven(r)
  PROVE  SessionsAreHeld'
<1> USE DEF SessionsGiven
<1>1. NoSession.user = None /\ ~NoSession.there
  BY DEF NoSession
<1>2. \A q \in Requests : q # r => DeletesAlike(q)
  BY Ended DEF DeletesAlike, Stays
<1>3. \A t \in Tokens, q \in Requests : q # r => (sessionlock'[t] = q <=> sessionlock[t] = q)
  BY Ended, Bounds
<1>4. \A t \in Tokens, q \in Requests : q # r /\ sessionlock[t] = q =>
        sessions'[t].there = sessions[t].there /\ sessions'[t].user = sessions[t].user
  BY Bounds
<1>5. \A t \in Tokens, q \in Requests : q # r /\ t \in proc[q].rows /\ sessions'[t].there =>
        sessions[t].there /\ sessions'[t].user = sessions[t].user
  BY <1>1
<1>6. ASSUME NEW t \in Tokens, NEW q \in Requests, q # r, At(q, "revoke"),
             sessions'[t].user = proc[q].name
      PROVE  sessions[t].user = proc[q].name
  <2>1. proc[q].name \in Names /\ userlock[proc[q].name] = q
    BY <1>6 DEF ReadsAreStable, ReadIsStable, At
  <2>2. QED BY <1>1, <1>6, <2>1, Bounds
<1>7. \A t \in Tokens : sessionlock'[t] # r
  BY Ended, Bounds
<1>8. RevokesItsOwn(r)'
  BY Ended DEF RevokesItsOwn, At, Resting
<1>9. QED BY <1>2, <1>3, <1>4, <1>5, <1>6, <1>7, <1>8, SessionsKept
-----------------------------------------------------------------------------
(* What is stored: accounts and sessions that suit each other.              *)
AccountsFit(us) ==
  \A n \in Names : /\ us[n].there <=> us[n].secret # 0
                   /\ us[n].active => us[n].there
SessionsFit(rows, us) ==
  \A t \in Tokens :
    /\ ~rows[t].there => rows[t].user = None
    /\ rows[t].user # None => /\ us[rows[t].user].there
                              /\ rows[t].under = us[rows[t].user].secret

LEMMA Fit ==
  (OwnersExist /\ SessionsAreCurrent) <=> (AccountsFit(users) /\ SessionsFit(sessions, users))
  BY DEF OwnersExist, SessionsAreCurrent, AccountsFit, SessionsFit
LEMMA FitNext ==
  (OwnersExist' /\ SessionsAreCurrent') <=> (AccountsFit(users') /\ SessionsFit(sessions', users'))
  BY DEF OwnersExist, SessionsAreCurrent, AccountsFit, SessionsFit

LEMMA Issued ==
  ASSUME NEW r \in Requests, NEW rows \in [Tokens -> Session], NEW us,
         NEW user \in Names \cup {None}, NEW under \in 0..MaxSecret,
         Issue(r, rows, user, under), SessionsFit(rows, us),
         user # None => us[user].there /\ under = us[user].secret
  PROVE  /\ sessions' \in [Tokens -> Session]
         /\ SessionsFit(sessions', us)
         /\ \A t \in Tokens : sessions'[t] # rows[t] =>
              /\ sessions'[t].user = user /\ ~rows[t].there
              /\ \A q \in Requests : q # r => t \notin proc[q].rows
         /\ \E t \in Tokens : ~rows[t].there /\ \A u \in Tokens : u # t => sessions'[u] = rows[u]
<1> DEFINE new == [there |-> TRUE, user |-> user, under |-> under, stale |-> FALSE]
<1>1. PICK t \in Tokens : /\ ~rows[t].there /\ sessions' = [rows EXCEPT ![t] = new]
                          /\ \A q \in Requests : q # r => t \notin proc[q].rows
  BY DEF Issue, Spare
<1>2. new \in Session /\ new.there /\ new.user = user /\ new.under = under
  BY DEF Session
<1> HIDE DEF new
<1>3. sessions' \in [Tokens -> Session]
  BY <1>1, <1>2
<1>4. sessions'[t] = new /\ \A u \in Tokens : u # t => sessions'[u] = rows[u]
  BY <1>1
<1>5. SessionsFit(sessions', us)
  BY <1>2, <1>4 DEF SessionsFit
<1>6. QED BY <1>1, <1>2, <1>3, <1>4, <1>5

(* A request that issues a session after it dropped some.                   *)
LEMMA IssuedIsGiven ==
  ASSUME SessionsAreHeld, OwnersExist, NEW r \in Requests, NEW rows,
         \A t \in Tokens :
           rows[t] = sessions[t] \/ (rows[t] = NoSession /\ sessionlock[t] \in {None, r}),
         TypeOK, NEW user,
         user \in Names => userlock[user] = r,
         \A t \in Tokens : sessions'[t] # rows[t] =>
           /\ sessions'[t].user = user /\ ~rows[t].there
           /\ \A q \in Requests : q # r => t \notin proc[q].rows
  PROVE  SessionsGiven(r)
<1>1. \A t \in Tokens : sessionlock[t] \notin {None, r} => sessions[t].there
  BY DEF TypeOK, SessionsAreHeld, SessionIsHeld
<1>2. SUFFICES ASSUME NEW t \in Tokens
               PROVE  \/ sessions'[t] = sessions[t]
                      \/ sessions'[t] = NoSession /\ sessionlock[t] \in {None, r}
                      \/ /\ sessionlock[t] \in {None, r}
                         /\ \A q \in Requests : q # r => t \notin proc[q].rows
                         /\ sessions'[t].user \in Names => userlock[sessions'[t].user] = r
  BY DEF SessionsGiven
<1>3. CASE sessions'[t] = rows[t]
  BY <1>3
<1>4. CASE sessions'[t] # rows[t]
  BY <1>1, <1>4
<1>5. QED BY <1>3, <1>4

LEMMA NoSessionType == NoSession \in Session /\ ~NoSession.there /\ NoSession.user = None
  BY Bounds DEF NoSession, Session

LEMMA NoWindowType == NoWindow \in Window /\ ~NoWindow.there
  BY Bounds DEF NoWindow, Window

(* Past its own window's lock.                                              *)
LEMMA OwnWindow ==
  ASSUME AccountsInv, NEW r \in Requests, proc[r].pc \in {"count", "user", "finish", "revoke"},
         proc[r].kind \in Purging
  PROVE  /\ Key(r) \in Keys /\ held[Key(r)].by = r /\ Key(r) \notin Purged(r)
         /\ Own(r) \in Window /\ Own(r).there
         /\ proc[r].count = Own(r).count
         /\ Since(r)[Key(r)] <= Own(r).count
         /\ Since(r) \in [Keys -> 0..Limit]
<1> USE DEF AccountsInv
<1>1. Key(r) \in Keys /\ held[Key(r)].by = r /\ proc[r].count = Own(r).count
  BY KeyType DEF ReadsAreStable, ReadIsStable, At, Purging
<1>2. held[Key(r)].how # "purged" /\ held[Key(r)].how # "free"
  BY <1>1, Bounds DEF RowsAreHeld, RowIsHeld, At
<1>3. Key(r) \notin Purged(r)
  BY <1>2 DEF Purged
<1>4. CASE held[Key(r)].how = "inserted"
  <2>1. Own(r) = [there |-> TRUE, count |-> 0, expired |-> FALSE]
    BY <1>4 DEF Own
  <2>2. Own(r) \in Window /\ Own(r).there /\ Own(r).count = 0
    BY <2>1, Bounds DEF Window
  <2>3. Since(r)[Key(r)] = 0
    <3>1. CASE windows[Key(r)].there
      BY <1>1, <1>4, <3>1 DEF Since, Renewed
    <3>2. CASE ~windows[Key(r)].there
      <4>1. answered[Key(r)] \in 0..Limit /\ answered[Key(r)] <= 0
        BY <1>1, <3>2 DEF AttemptsAreCounted, TypeOK
      <4>2. Since(r)[Key(r)] = IF Key(r) \in Purged(r) \cup Renewed(r) THEN 0 ELSE answered[Key(r)]
        BY <1>1 DEF Since
      <4>3. QED BY <4>1, <4>2, Bounds
    <3>3. QED BY <3>1, <3>2
  <2>4. Since(r) \in [Keys -> 0..Limit]
    BY Bounds DEF Since, TypeOK
  <2>5. QED BY <1>1, <1>3, <2>2, <2>3, <2>4
<1>5. CASE held[Key(r)].how # "inserted"
  <2>1. held[Key(r)].how \in {"locked", "changed"}
    BY <1>1, <1>2, <1>5 DEF TypeOK, Hold
  <2>2. windows[Key(r)].there /\ windows[Key(r)] \in Window
    BY <1>1, <2>1 DEF RowsAreHeld, RowIsHeld, TypeOK
  <2>3. Own(r) = windows[Key(r)]
    BY <1>5 DEF Own
  <2>4. Since(r)[Key(r)] = answered[Key(r)]
    BY <1>1, <1>3, <1>5 DEF Since, Renewed
  <2>5. answered[Key(r)] <= windows[Key(r)].count
    BY <1>1, <2>2 DEF AttemptsAreCounted
  <2>6. Since(r) \in [Keys -> 0..Limit]
    BY Bounds DEF Since, TypeOK
  <2>7. QED BY <1>1, <1>3, <2>2, <2>3, <2>4, <2>5, <2>6
<1>6. QED BY <1>4, <1>5

(* A commit: what becomes of the windows, and of the guesses answered in    *)
(* them; row is what becomes of the request's own.                          *)
LEMMA Committed ==
  ASSUME AccountsInv, NEW r \in Requests, proc[r].pc \in {"count", "user", "finish", "revoke"},
         proc[r].kind \in Purging,
         NEW row \in Window, Commit(r, row),
         NEW guesses \in Nat, guesses <= Limit, guesses <= IF row.there THEN row.count ELSE 0,
         answered' = [Since(r) EXCEPT ![Key(r)] = guesses],
         users' \in [Names -> Account],
         \A n \in Names : users'[n].secret = users[n].secret \/ userlock[n] = r,
         sessions' \in [Tokens -> Session], SessionsGiven(r)
  PROVE  TypeOK' /\ LockInv' /\ AttemptsAreCounted' /\ SessionsAreHeld'
<1> USE DEF AccountsInv
<1> DEFINE removed == Purged(r) \cup Renewed(r) \cup (IF row.there THEN {} ELSE {Key(r)})
<1>1. /\ Key(r) \in Keys /\ held[Key(r)].by = r /\ Key(r) \notin Purged(r)
      /\ Since(r) \in [Keys -> 0..Limit]
  BY OwnWindow
<1>2. End(r, removed)
  BY <1>1 DEF Commit
<1>3. windows' = [k \in Keys |-> IF k = Key(r) THEN row
                                ELSE IF k \in Purged(r) THEN NoWindow ELSE windows[k]]
  BY <1>1 DEF Commit
<1>4. windows' \in [Keys -> Window]
  BY <1>3, NoWindowType DEF TypeOK
<1>5. \A k \in Keys : k \in Purged(r) => held[k].by = r
  BY DEF Purged
<1>6. \A k \in Keys : windows'[k] = windows[k] \/ held[k].by = r
  BY <1>1, <1>3, <1>5
<1>7. \A k \in Keys : windows[k].there /\ ~windows'[k].there => k \in removed
  BY <1>3
<1>8. LockInv'
  BY <1>2, <1>4, <1>6, <1>7, EndKeepsLocks DEF LockInv
<1>9. answered' \in [Keys -> 0..Limit]
  BY <1>1, Bounds
<1>10. TypeOK'
  BY <1>2, <1>4, <1>9, Ended DEF TypeOK
<1>11. AttemptsAreCounted'
  <2>1. SUFFICES ASSUME NEW k \in Keys
                 PROVE  /\ answered'[k] <= Limit
                        /\ answered'[k] <= IF windows'[k].there THEN windows'[k].count ELSE 0
    BY DEF AttemptsAreCounted
  <2>2. CASE k = Key(r)
    BY <1>1, <1>3, <2>2
  <2>3. CASE k # Key(r)
    <3>1. answered'[k] = IF k \in Purged(r) \cup Renewed(r) THEN 0 ELSE answered[k]
      BY <1>1, <2>3 DEF Since
    <3>2. windows'[k] = IF k \in Purged(r) THEN NoWindow ELSE windows[k]
      BY <1>3, <2>3
    <3>3. windows[k] \in Window
      BY DEF TypeOK
    <3>4. k \in Renewed(r) => k \in Purged(r)
      BY <2>3 DEF Renewed, RowsAreHeld, RowIsHeld, At
    <3>5. CASE k \in Purged(r)
      BY <3>1, <3>2, <3>5, NoWindowType, Bounds DEF Window
    <3>6. CASE k \notin Purged(r)
      BY <3>1, <3>2, <3>4, <3>6 DEF AttemptsAreCounted
    <3>7. QED BY <3>5, <3>6
  <2>4. QED BY <2>2, <2>3
<1>12. SessionsAreHeld'
  BY <1>2, EndKeepsSessions
<1>13. QED BY <1>8, <1>10, <1>11, <1>12
-----------------------------------------------------------------------------
(* A step of another request leaves what this one has read.                 *)
LEMMA OtherKeepsRead ==
  ASSUME TypeOK, NEW q \in Requests, ReadIsStable(q), proc'[q] = proc[q],
         \A k \in Keys : held[k].by = q =>
           held'[k] = held[k] /\ windows'[k].count = windows[k].count,
         \A n \in Names : userlock'[n] = q <=> userlock[n] = q,
         \A n \in Names : users'[n].secret = users[n].secret \/ users[n].secret = 0
  PROVE  ReadIsStable(q)'
<1>1. Key(q)' = Key(q)
  BY SameKey
<1>2. CASE proc[q].pc \in {"count", "user", "finish", "revoke"} /\ proc[q].kind \in Purging
  <2>1. Key(q) \in Keys /\ held[Key(q)].by = q
    BY <1>2, KeyType DEF ReadIsStable, At, Purging
  <2>2. held'[Key(q)] = held[Key(q)] /\ windows'[Key(q)].count = windows[Key(q)].count
    BY <2>1
  <2>3. Own(q)'.count = Own(q).count
    BY <1>1, <2>2 DEF Own
  <2>4. held'[Key(q)'].by = q /\ proc'[q].count = Own(q)'.count
    BY <1>1, <1>2, <2>1, <2>2, <2>3 DEF ReadIsStable
  <2>5. proc[q].name \in Names
    BY <1>2 DEF ReadIsStable, At, Purging
  <2>6. QED BY <1>1, <2>4, <2>5 DEF ReadIsStable, At
<1>3. CASE ~(proc[q].pc \in {"count", "user", "finish", "revoke"} /\ proc[q].kind \in Purging)
  <2>1. proc[q].pc = "finish" => proc[q].name \in Names
    BY <1>3 DEF ReadIsStable, At, Purging
  <2>2. QED BY <1>3, <2>1 DEF ReadIsStable, At
<1>4. QED BY <1>2, <1>3

(* A request that holds nothing yet goes on to hold nothing.                *)
LEMMA StepsFree ==
  ASSUME AccountsInv, NEW r \in Requests, 
         proc[r].pc \in {"idle", "issue", "logout", "open", "expel"},
         NEW x \in Running, proc' = [proc EXCEPT ![r] = x],
         UNCHANGED <<users, windows, held, userlock>>,
         x.pc \in {"idle", "issue", "logout", "open", "purge", "user", "expel"},
         x.pc = "idle" => x.kind = "session",
         x.kind \notin {"session", "reset"} => x.token # 0,
         x.pc \in {"open", "purge"} => x.kind \in Purging,
         x.pc = "user" => x.kind = "rename",
         x.pc # "idle" /\ x.kind \notin {"session", "logout"} => x.name \in Names,
         \A k \in x.todo : windows[k].there
  PROVE  proc' \in [Requests -> Running] /\ LockInv'
<1> USE DEF AccountsInv
<1>1. proc' \in [Requests -> Running]
  BY DEF TypeOK
<1>2. proc'[r] = x /\ \A q \in Requests : q # r => proc'[q] = proc[q]
  BY DEF TypeOK
<1>3. /\ \A k \in Keys : held[k].by # r
      /\ \A n \in Names : userlock[n] # r
  BY DEF RowsAreHeld, RowIsHeld, ReadsAreStable, ReadIsStable, At
<1>4. \A q \in Requests : q # r => Key(q)' = Key(q)
  BY <1>2, SameKey
<1>5. RowsAreHeld'
  BY <1>2, <1>3, <1>4 DEF RowsAreHeld, RowIsHeld, At
<1>6. ReadsAreStable'
  <2>1. SUFFICES ASSUME NEW q \in Requests PROVE ReadIsStable(q)'
    BY DEF ReadsAreStable
  <2>2. CASE q = r
    BY <1>2, <1>3, <2>2 DEF ReadIsStable, At, Purging
  <2>3. CASE q # r
    BY <1>2, <2>3, OtherKeepsRead DEF ReadsAreStable
  <2>4. QED BY <2>2, <2>3
<1>7. WaitersAreTold'
  BY <1>2, <1>4 DEF WaitersAreTold, WaiterIsTold, At
<1>8. PurgesAreOrdered'
  BY <1>2, <1>4 DEF PurgesAreOrdered
<1>9. QED BY <1>1, <1>5, <1>6, <1>7, <1>8 DEF LockInv

LEMMA RollbackInv ==
  ASSUME AccountsInv, NEW r \in Requests, Rollback(r)
  PROVE  AccountsInv'
<1> USE DEF AccountsInv, Rollback
<1>1. LockInv'
  BY EndKeepsLocks DEF LockInv, TypeOK
<1>2. TypeOK'
  BY Ended DEF TypeOK
<1>3. OwnersExist' /\ AttemptsAreCounted' /\ SessionsAreCurrent'
  BY DEF OwnersExist, AttemptsAreCounted, SessionsAreCurrent
<1>4. SessionsAreHeld'
  BY EndKeepsSessions DEF SessionsGiven
<1>5. QED BY <1>1, <1>2, <1>3, <1>4 DEF LockInv

LEMMA BeginInv ==
  ASSUME AccountsInv, NEW r \in Requests, NEW kind \in Kinds, NEW t \in Tokens \cup {0},
         NEW n \in Names, Begin(r, kind, t, n)
  PROVE  AccountsInv'
<1> USE DEF AccountsInv
<1> DEFINE live == t # 0 /\ Live(t) /\ (kind \in {"rename", "change"} => sessions[t].user # None)
           x == [Resting EXCEPT
               !.pc = CASE kind = "logout" -> "logout" [] kind = "rename" -> "user"
                        [] OTHER -> "open",
               !.kind = kind, !.token = t,
               !.name = IF kind \in {"rename", "change"} THEN sessions[t].user ELSE n]
           y == [proc[r] EXCEPT !.pc = IF kind = "session" THEN "issue" ELSE @]
<1>1. proc[r] \in Running /\ proc[r].pc = "idle" /\ proc[r].kind = "session"
  BY DEF Begin, At, TypeOK, ReadsAreStable, ReadIsStable
<1>2. CASE live
  <2>1. kind \in {"login", "logout", "rename", "change"} /\ proc' = [proc EXCEPT ![r] = x]
        /\ sessions' = sessions
    BY <1>2 DEF Begin, Kinds
  <2>2. t \in Tokens /\ sessions[t].user \in Names \cup {None}
    BY <1>2 DEF TypeOK, Session
  <2>3. x \in Running
    <3>1. kind \in {"rename", "change"} => sessions[t].user \in Names
      BY <1>2, <2>2
    <3>2. QED BY <2>1, <2>2, <3>1, RestingType DEF Running, Resting
  <2>4. /\ x.pc = CASE kind = "logout" -> "logout" [] kind = "rename" -> "user" [] OTHER -> "open"
        /\ x.kind = kind /\ x.token = t /\ x.todo = {}
        /\ x.name = IF kind \in {"rename", "change"} THEN sessions[t].user ELSE n
    BY DEF Resting
  <2>5. kind \in {"rename", "change"} => sessions[t].user \in Names
    BY <1>2, <2>2
  <2> HIDE DEF x
  <2>6. proc' \in [Requests -> Running] /\ LockInv'
    <3>1. UNCHANGED <<users, windows, held, userlock>>
      BY DEF Begin
    <3>2. x.pc \in {"logout", "open", "user"} /\ (x.pc = "open" => x.kind \in Purging)
          /\ (x.pc = "user" => x.kind = "rename")
      BY <2>1, <2>4 DEF Purging
    <3>3. x.kind \notin {"session", "reset"} => x.token # 0
      BY <2>2, <2>4, Bounds
    <3>4. x.kind \notin {"session", "logout"} => x.name \in Names
      BY <2>4, <2>5
    <3>5. QED BY <1>1, <2>1, <2>3, <2>4, <3>1, <3>2, <3>3, <3>4, StepsFree
  <2>7. SessionsAreHeld'
    <3>1. proc'[r] = x /\ \A q \in Requests : q # r => proc'[q] = proc[q]
      BY <2>1 DEF TypeOK
    <3>2. x.pc \notin {"expel", "revoke"}
      BY <2>4
    <3>3. QED BY <1>1, <2>1, <3>1, <3>2, QuietKeepsSessions DEF Begin, DeletesAlike
  <2>8. QED BY <2>1, <2>6, <2>7 DEF Begin, LockInv, TypeOK, OwnersExist, AttemptsAreCounted, SessionsAreCurrent
<1>3. CASE ~live
  <2>1. /\ sessions' = [u \in Tokens |-> IF u = t /\ ~Live(u) THEN NoSession ELSE sessions[u]]
        /\ proc' = [proc EXCEPT ![r].pc = IF kind = "session" THEN "issue" ELSE @]
    BY <1>3 DEF Begin
  <2>2. y \in Running /\ y.pc \in {"idle", "issue"} /\ y.kind = "session" /\ y.todo = proc[r].todo
    BY <1>1 DEF Running
  <2>3. proc' = [proc EXCEPT ![r] = y]
    BY <2>1
  <2> HIDE DEF y
  <2>4. proc' \in [Requests -> Running] /\ LockInv'
    <3>1. UNCHANGED <<users, windows, held, userlock>>
      BY DEF Begin
    <3>2. \A k \in y.todo : windows[k].there
      BY <2>2 DEF WaitersAreTold, WaiterIsTold
    <3>3. QED BY <1>1, <2>2, <2>3, <3>1, <3>2, StepsFree
  <2>5. sessions' \in [Tokens -> Session] /\ SessionsFit(sessions', users')
    BY <2>1, Fit, NoSessionType DEF TypeOK, SessionsFit, Begin
  <2>6. AccountsFit(users')
    BY Fit DEF Begin
  <2>7. SessionsAreHeld'
    <3>1. proc'[r] = y /\ \A q \in Requests : q # r => proc'[q] = proc[q]
      BY <2>3 DEF TypeOK
    <3>2. \A u \in Tokens : \/ sessions'[u] = sessions[u]
                            \/ sessionlock[u] = None /\ sessions'[u] = NoSession
      BY <2>1, Bounds DEF Begin
    <3>3. UNCHANGED sessionlock
      BY DEF Begin
    <3>4. proc'[r].pc \notin {"expel", "revoke"} /\ proc[r].pc \notin {"expel", "revoke"}
      BY <1>1, <2>2, <3>1
    <3>5. QED BY <3>1, <3>2, <3>3, <3>4, QuietKeepsSessions DEF DeletesAlike
  <2>8. QED BY <2>4, <2>5, <2>6, <2>7, FitNext DEF Begin, LockInv, TypeOK, AttemptsAreCounted
<1>4. QED BY <1>2, <1>3

LEMMA BeginResetInv ==
  ASSUME AccountsInv, NEW r \in Requests, NEW n \in Names, BeginReset(r, n)
  PROVE  AccountsInv'
<1> USE DEF AccountsInv
<1> DEFINE x == [Resting EXCEPT !.pc = "open", !.kind = "reset", !.name = n]
<1>1. x \in Running /\ x.pc = "open" /\ x.kind = "reset" /\ x.name = n /\ x.todo = {}
  BY RestingType DEF Running, Resting, Kinds
<1>2. proc' = [proc EXCEPT ![r] = x]
  BY DEF BeginReset
<1> HIDE DEF x
<1>3. proc' \in [Requests -> Running] /\ LockInv'
  BY <1>1, <1>2, StepsFree DEF BeginReset, At, Purging
<1>4. SessionsAreHeld'
  <2>1. proc'[r] = x /\ \A q \in Requests : q # r => proc'[q] = proc[q]
    BY <1>2 DEF TypeOK
  <2>2. QED BY <1>1, <2>1, QuietKeepsSessions DEF BeginReset, At, DeletesAlike
<1>5. QED BY <1>3, <1>4 DEF BeginReset, LockInv, TypeOK, OwnersExist, AttemptsAreCounted, SessionsAreCurrent

LEMMA OpenInv ==
  ASSUME AccountsInv, NEW r \in Requests, Open(r)
  PROVE  AccountsInv'
<1> USE DEF AccountsInv
<1> DEFINE x == [proc[r] EXCEPT !.pc = "purge",
                   !.todo = {k \in Keys : windows[k].there /\ windows[k].expired}]
<1>1. proc[r] \in Running /\ proc[r].pc = "open" /\ ReadIsStable(r)
  BY DEF Open, At, TypeOK, ReadsAreStable
<1>2. /\ x \in Running /\ x.pc = "purge" /\ x.kind = proc[r].kind /\ x.name = proc[r].name
      /\ x.token = proc[r].token
      /\ x.todo = {k \in Keys : windows[k].there /\ windows[k].expired}
  BY <1>1 DEF Running
<1>3. proc' = [proc EXCEPT ![r] = x]
  BY DEF Open
<1> HIDE DEF x
<1>4. proc' \in [Requests -> Running] /\ LockInv'
  <2>1. /\ x.kind \in Purging /\ x.name \in Names
        /\ x.kind \notin {"session", "reset"} => x.token # 0
    BY <1>1, <1>2 DEF ReadIsStable, At, Purging
  <2>2. UNCHANGED <<users, windows, held, userlock>>
    BY DEF Open
  <2>3. QED BY <1>1, <1>2, <1>3, <2>1, <2>2, StepsFree
<1>5. SessionsAreHeld'
  <2>1. proc'[r] = x /\ \A q \in Requests : q # r => proc'[q] = proc[q]
    BY <1>2, <1>3 DEF TypeOK
  <2>2. QED BY <1>1, <1>2, <2>1, QuietKeepsSessions DEF Open, DeletesAlike
<1>6. QED BY <1>4, <1>5 DEF Open, LockInv, TypeOK, OwnersExist, AttemptsAreCounted, SessionsAreCurrent

(* A request without a user deletes sessions, issues another and ends.      *)
LEMMA AnonymousInv ==
  ASSUME AccountsInv, NEW r \in Requests, NEW rows \in [Tokens -> Session],
         \A t \in Tokens :
           rows[t] = sessions[t] \/ (rows[t] = NoSession /\ sessionlock[t] \in {None, r}),
         Issue(r, rows, None, 0), End(r, {}), UNCHANGED <<users, windows, answered>>
  PROVE  AccountsInv'
<1> USE DEF AccountsInv
<1>1. LockInv'
  BY EndKeepsLocks DEF LockInv, TypeOK
<1>2. SessionsFit(rows, users)
  BY Fit, NoSessionType DEF SessionsFit
<1>3. /\ sessions' \in [Tokens -> Session] /\ SessionsFit(sessions', users)
      /\ \A t \in Tokens : sessions'[t] # rows[t] =>
           /\ sessions'[t].user = None /\ ~rows[t].there
           /\ \A q \in Requests : q # r => t \notin proc[q].rows
  <2>1. None \in Names \cup {None} /\ 0 \in 0..MaxSecret
    BY Bounds
  <2>2. QED BY <1>2, <2>1, Issued
<1>4. TypeOK'
  BY <1>3, Ended DEF TypeOK
<1>5. OwnersExist' /\ SessionsAreCurrent'
  BY <1>3, Fit, FitNext
<1>6. AttemptsAreCounted'
  BY DEF AttemptsAreCounted
<1>7. SessionsAreHeld'
  <2>1. SessionsGiven(r)
    BY <1>3, Bounds, IssuedIsGiven
  <2>2. QED BY <2>1, EndKeepsSessions
<1>8. QED BY <1>1, <1>4, <1>5, <1>6, <1>7 DEF LockInv

LEMMA BootstrapInv ==
  ASSUME AccountsInv, NEW r \in Requests, Bootstrap(r)
  PROVE  AccountsInv'
<1> USE DEF AccountsInv
<1>1. PICK expired \in SUBSET Tokens : proc' = [proc EXCEPT ![r].pc = "expel", ![r].rows = expired]
  BY DEF Bootstrap
<1> DEFINE x == [proc[r] EXCEPT !.pc = "expel", !.rows = expired]
<1>2. proc[r] \in Running /\ proc[r].pc = "issue" /\ ReadIsStable(r) /\ WaiterIsTold(r)
  BY DEF Bootstrap, At, TypeOK, ReadsAreStable, WaitersAreTold
<1>3. /\ x \in Running /\ x.pc = "expel" /\ x.kind = proc[r].kind /\ x.name = proc[r].name
      /\ x.token = proc[r].token /\ x.todo = proc[r].todo
  BY <1>2 DEF Running
<1>4. proc' = [proc EXCEPT ![r] = x]
  BY <1>1
<1> HIDE DEF x
<1>5. proc' \in [Requests -> Running] /\ LockInv'
  <2>1. /\ x.kind \notin {"session", "reset"} => x.token # 0
        /\ x.kind \notin {"session", "logout"} => x.name \in Names
        /\ \A k \in x.todo : windows[k].there
    BY <1>2, <1>3 DEF ReadIsStable, At, WaiterIsTold
  <2>2. UNCHANGED <<users, windows, held, userlock>>
    BY DEF Bootstrap
  <2>3. QED BY <1>2, <1>3, <1>4, <2>1, <2>2, StepsFree
<1>6. SessionsAreHeld'
  <2>1. proc'[r] = x /\ \A q \in Requests : q # r => proc'[q] = proc[q]
    BY <1>3, <1>4 DEF TypeOK
  <2>2. \A t \in Tokens : sessionlock[t] # r
    BY <1>2 DEF SessionsAreHeld, SessionIsHeld
  <2>3. UNCHANGED <<sessions, sessionlock>>
    BY DEF Bootstrap
  <2>4. RevokesItsOwn(r)'
    BY <1>3, <2>1 DEF RevokesItsOwn, At
  <2>5. QED BY <2>1, <2>2, <2>3, <2>4, SessionsKept DEF DeletesAlike
<1>7. QED BY <1>5, <1>6 DEF Bootstrap, LockInv, TypeOK, OwnersExist, AttemptsAreCounted, SessionsAreCurrent

LEMMA DroppedType ==
  ASSUME AccountsInv, NEW r \in Requests
  PROVE  /\ Dropped(r) \in [Tokens -> Session]
         /\ \A t \in Tokens :
              \/ Dropped(r)[t] = sessions[t]
              \/ Dropped(r)[t] = NoSession /\ sessionlock[t] \in {None, r}
         /\ \A t \in Tokens : sessionlock[t] = r => Dropped(r)[t] = NoSession
  BY NoSessionType DEF Dropped, AccountsInv, TypeOK

LEMMA ExpelInv ==
  ASSUME AccountsInv, NEW r \in Requests, Expel(r)
  PROVE  AccountsInv'
  BY DroppedType, AnonymousInv DEF Expel

LEMMA LogoutInv ==
  ASSUME AccountsInv, NEW r \in Requests, Logout(r)
  PROVE  AccountsInv'
<1> DEFINE rows == [sessions EXCEPT ![proc[r].token] = NoSession]
<1>1. rows \in [Tokens -> Session]
  BY NoSessionType DEF AccountsInv, TypeOK
<1>2. \A t \in Tokens :
        rows[t] = sessions[t] \/ (rows[t] = NoSession /\ sessionlock[t] \in {None, r})
  BY DEF Logout, AccountsInv, TypeOK
<1> HIDE DEF rows
<1>3. Issue(r, rows, None, 0)
  BY DEF Logout, rows
<1>4. QED BY <1>1, <1>2, <1>3, AnonymousInv DEF Logout

(* A row more is locked, or found gone.                                     *)
LEMMA DeleteInv ==
  ASSUME AccountsInv, NEW r \in Requests, NEW t \in Tokens, Delete(r, t)
  PROVE  AccountsInv'
<1> USE DEF AccountsInv
<1> DEFINE x == [proc[r] EXCEPT !.rows = @ \ {t}]
<1>1. /\ proc[r] \in Running /\ proc[r].pc \in {"expel", "revoke"} /\ t \in proc[r].rows
      /\ sessionlock[t] = None /\ RevokesItsOwn(r) /\ ReadIsStable(r)
      /\ sessions[t].there \/ sessions[t].user = None
      /\ proc' = [proc EXCEPT ![r] = x]
      /\ sessionlock' = IF sessions[t].there THEN [sessionlock EXCEPT ![t] = r] ELSE sessionlock
      /\ UNCHANGED <<users, sessions, windows, held, userlock, answered>>
  BY DEF Delete, TypeOK, SessionsAreHeld, ReadsAreStable, OwnersExist
<1>2. /\ x \in Running /\ x.pc = proc[r].pc /\ x.kind = proc[r].kind /\ x.name = proc[r].name
      /\ x.token = proc[r].token /\ x.todo = proc[r].todo /\ x.count = proc[r].count
      /\ x.secret = proc[r].secret /\ x.rows = proc[r].rows \ {t}
  BY <1>1 DEF Running
<1> HIDE DEF x
<1>3. /\ proc' \in [Requests -> Running] /\ proc'[r] = x
      /\ \A q \in Requests : q # r => proc'[q] = proc[q]
  BY <1>1, <1>2 DEF TypeOK
<1>4. /\ sessionlock' \in [Tokens -> Requests \cup {None}]
      /\ sessionlock'[t] = IF sessions[t].there THEN r ELSE None
      /\ \A u \in Tokens : u # t => sessionlock'[u] = sessionlock[u]
  BY <1>1 DEF TypeOK
<1>5. LockInv'
  <2>1. \A q \in Requests :
          /\ proc'[q].pc = proc[q].pc /\ proc'[q].kind = proc[q].kind
          /\ proc'[q].name = proc[q].name /\ proc'[q].token = proc[q].token
          /\ proc'[q].todo = proc[q].todo /\ proc'[q].count = proc[q].count
          /\ proc'[q].secret = proc[q].secret
    BY <1>2, <1>3
  <2>2. \A q \in Requests : Key(q)' = Key(q)
    BY <2>1, SameKey
  <2>3. \A q \in Requests : Own(q)' = Own(q)
    BY <1>1, <2>2 DEF Own
  <2>4. RowsAreHeld'
    BY <1>1, <2>1, <2>2 DEF RowsAreHeld, RowIsHeld, At
  <2>5. ReadsAreStable'
    BY <1>1, <2>1, <2>2, <2>3 DEF ReadsAreStable, ReadIsStable, At
  <2>6. WaitersAreTold'
    BY <1>1, <2>1, <2>2 DEF WaitersAreTold, WaiterIsTold, At
  <2>7. PurgesAreOrdered'
    BY <1>1, <2>1, <2>2 DEF PurgesAreOrdered
  <2>8. QED BY <2>4, <2>5, <2>6, <2>7 DEF LockInv
<1>6. SessionsAreHeld'
  <2>1. \A u \in Tokens : sessionlock'[u] = r =>
          /\ sessions'[u].there
          /\ proc'[r].pc \in {"expel", "revoke"}
          /\ proc'[r].pc = "revoke" => sessions'[u].user = proc'[r].name
    BY <1>1, <1>2, <1>3, <1>4, Bounds DEF SessionsAreHeld, SessionIsHeld, RevokesItsOwn, At
  <2>2. RevokesItsOwn(r)'
    <3>1. proc[r].pc = "revoke" => proc[r].name \in Names
                                   /\ (proc[r].kind = "change" => proc[r].token \in Tokens)
      BY <1>1 DEF ReadIsStable, At, Running
    <3>2. \A u \in Tokens : proc[r].pc = "revoke" /\ sessions[u].user = proc[r].name =>
            u \in x.rows \/ sessionlock'[u] = r
      BY <1>1, <1>2, <1>4, <3>1, Bounds DEF RevokesItsOwn, At
    <3>3. proc[r].pc = "revoke" /\ proc[r].kind = "change" => sessionlock'[proc[r].token] = r
      BY <1>1, <1>4, <3>1, Bounds DEF RevokesItsOwn, At
    <3>4. QED BY <1>1, <1>2, <1>3, <3>2, <3>3 DEF RevokesItsOwn, At
  <2>3. \A q \in Requests : q # r => DeletesAlike(q)
    BY <1>3 DEF DeletesAlike
  <2>4. \A u \in Tokens, q \in Requests : q # r => (sessionlock'[u] = q <=> sessionlock[u] = q)
    BY <1>1, <1>4, Bounds
  <2>5. QED BY <1>1, <2>1, <2>2, <2>3, <2>4, SessionsKept
<1>7. QED BY <1>1, <1>3, <1>4, <1>5, <1>6 DEF LockInv, TypeOK, OwnersExist, AttemptsAreCounted, SessionsAreCurrent

(* Steps of nobody's request leave the locks; a password only changes from  *)
(* none, and a window's count not at all.                                   *)
LEMMA OutsideKeepsLocks ==
  ASSUME TypeOK, LockInv, UNCHANGED <<held, userlock, proc>>,
         \A k \in Keys : windows'[k].there = windows[k].there /\ windows'[k].count = windows[k].count,
         \A n \in Names : users'[n].secret = users[n].secret \/ users[n].secret = 0
  PROVE  LockInv'
<1>1. \A q \in Requests : Key(q)' = Key(q)
  BY SameKey
<1>2. RowsAreHeld'
  BY <1>1 DEF LockInv, RowsAreHeld, RowIsHeld, At
<1>3. ReadsAreStable'
  BY OtherKeepsRead DEF LockInv, ReadsAreStable
<1>4. WaitersAreTold'
  <2>1. SUFFICES ASSUME NEW q \in Requests PROVE WaiterIsTold(q)'
    BY DEF WaitersAreTold
  <2>2. proc[q].todo \subseteq Keys
    BY DEF TypeOK, Running
  <2>3. proc[q].pc = "blocked" => Key(q) \in Keys
    BY KeyType DEF LockInv, ReadsAreStable, ReadIsStable, At, Purging
  <2>4. QED BY <1>1, <2>2, <2>3 DEF LockInv, WaitersAreTold, WaiterIsTold, At
<1>5. PurgesAreOrdered'
  BY <1>1 DEF LockInv, PurgesAreOrdered
<1>6. QED BY <1>2, <1>3, <1>4, <1>5 DEF LockInv

LEMMA OutsideKeepsSessions ==
  ASSUME TypeOK, SessionsAreHeld, UNCHANGED <<sessionlock, proc>>,
         \A t \in Tokens : sessions'[t].there = sessions[t].there /\ sessions'[t].user = sessions[t].user
  PROVE  SessionsAreHeld'
<1>1. \A t \in Tokens : SessionIsHeld(t)'
  BY DEF SessionsAreHeld, SessionIsHeld, At
<1>2. \A q \in Requests : proc[q].rows \subseteq Tokens
  BY DEF TypeOK, Running
<1>3. \A q \in Requests : RevokesItsOwn(q)'
  BY <1>2 DEF SessionsAreHeld, RevokesItsOwn, At
<1>4. QED BY <1>1, <1>3 DEF SessionsAreHeld

LEMMA OutsideInv ==
  ASSUME AccountsInv,
         \/ \E n \in Names : Provision(n) \/ Disable(n)
         \/ \E k \in Keys : Expire(k)
         \/ \E t \in Tokens : Age(t)
  PROVE  AccountsInv'
<1> USE DEF AccountsInv
<1>1. CASE \E n \in Names : Provision(n)
  <2>1. PICK n \in Names : Provision(n)
    BY <1>1
  <2>2. /\ users[n].secret = 0
        /\ users' = [users EXCEPT ![n] = [there |-> TRUE, active |-> TRUE, secret |-> 1]]
    BY <2>1 DEF Provision, OwnersExist
  <2>3. users' \in [Names -> Account]
    BY <2>2, Bounds DEF TypeOK, Account
  <2>4. LockInv'
    BY <2>1, <2>2, OutsideKeepsLocks DEF Provision, TypeOK, LockInv
  <2>5. AccountsFit(users') /\ SessionsFit(sessions', users')
    BY <2>1, <2>2, Fit DEF Provision, AccountsFit, SessionsFit, TypeOK, Session
  <2>6. SessionsAreHeld'
    BY <2>1, OutsideKeepsSessions DEF Provision
  <2>7. QED BY <2>1, <2>3, <2>4, <2>5, <2>6, FitNext DEF Provision, LockInv, TypeOK, AttemptsAreCounted
<1>2. CASE \E n \in Names : Disable(n)
  <2>1. PICK n \in Names : Disable(n)
    BY <1>2
  <2>2. /\ users' \in [Names -> Account]
        /\ \A m \in Names : /\ users'[m].secret = users[m].secret /\ users'[m].there = users[m].there
                             /\ users'[m].active => users[m].active
    BY <2>1 DEF Disable, TypeOK, Account
  <2>3. LockInv'
    BY <2>1, <2>2, OutsideKeepsLocks DEF Disable, TypeOK, LockInv
  <2>4. AccountsFit(users') /\ SessionsFit(sessions', users')
    BY <2>1, <2>2, Fit DEF Disable, AccountsFit, SessionsFit, TypeOK, Session
  <2>5. SessionsAreHeld'
    BY <2>1, OutsideKeepsSessions DEF Disable
  <2>6. QED BY <2>1, <2>2, <2>3, <2>4, <2>5, FitNext DEF Disable, LockInv, TypeOK, AttemptsAreCounted
<1>3. CASE \E k \in Keys : Expire(k)
  <2>1. PICK k \in Keys : Expire(k)
    BY <1>3
  <2>2. /\ windows' \in [Keys -> Window]
        /\ \A j \in Keys : windows'[j].there = windows[j].there /\ windows'[j].count = windows[j].count
    BY <2>1 DEF Expire, TypeOK, Window
  <2>3. LockInv'
    BY <2>1, <2>2, OutsideKeepsLocks DEF Expire, TypeOK, LockInv
  <2>4. SessionsAreHeld'
    BY <2>1, OutsideKeepsSessions DEF Expire
  <2>5. TypeOK'
    BY <2>1, <2>2 DEF Expire, TypeOK
  <2>6. AttemptsAreCounted' /\ OwnersExist' /\ SessionsAreCurrent'
    BY <2>1, <2>2 DEF Expire, AttemptsAreCounted, OwnersExist, SessionsAreCurrent
  <2>7. QED BY <2>3, <2>4, <2>5, <2>6 DEF LockInv
<1>4. CASE \E t \in Tokens : Age(t)
  <2>1. PICK t \in Tokens : Age(t)
    BY <1>4
  <2>2. /\ sessions' \in [Tokens -> Session]
        /\ \A u \in Tokens : /\ sessions'[u].there = sessions[u].there /\ sessions'[u].user = sessions[u].user
                              /\ sessions'[u].under = sessions[u].under
    <3>1. /\ sessions \in [Tokens -> Session] /\ sessions[t] \in Session
          /\ sessions' = [sessions EXCEPT ![t].stale = TRUE]
      BY <2>1 DEF Age, TypeOK
    <3>2. /\ [sessions[t] EXCEPT !.stale = TRUE] \in Session
          /\ sessions' = [sessions EXCEPT ![t] = [sessions[t] EXCEPT !.stale = TRUE]]
      BY <3>1 DEF Session
    <3>3. sessions' \in [Tokens -> Session]
      BY <3>1, <3>2
    <3>4. QED BY <3>1, <3>3 DEF Session
  <2>3. LockInv'
    BY <2>1, OutsideKeepsLocks DEF Age, TypeOK, LockInv
  <2>4. SessionsAreHeld'
    BY <2>1, <2>2, OutsideKeepsSessions DEF Age
  <2>5. QED BY <2>1, <2>2, <2>3, <2>4 DEF Age, LockInv, TypeOK, AttemptsAreCounted, OwnersExist, SessionsAreCurrent
<1>5. QED BY <1>1, <1>2, <1>3, <1>4
-----------------------------------------------------------------------------
(* lock_attempt *)

LEMMA PurgeInv ==
  ASSUME AccountsInv, NEW r \in Requests, NEW k \in Keys, Purge(r, k)
  PROVE  AccountsInv'
<1> USE DEF AccountsInv
<1>1. /\ proc[r] \in Running /\ proc[r].pc = "purge" /\ k \in proc[r].todo /\ windows[k].there
      /\ held[k] = Free /\ proc[r].kind \in Purging /\ proc[r].name \in Names
  BY DEF Purge, At, TypeOK, WaitersAreTold, WaiterIsTold, ReadsAreStable, ReadIsStable, Purging
<1>2. /\ held' = [held EXCEPT ![k] = [by |-> r, how |-> "purged"]]
      /\ proc' = [proc EXCEPT ![r].todo = @ \ {k}]
      /\ UNCHANGED <<users, sessions, windows, userlock, sessionlock, answered>>
  BY DEF Purge
<1>3. proc' \in [Requests -> Running] /\ held' \in [Keys -> Hold]
  <2>1. [by |-> r, how |-> "purged"] \in Hold /\ [proc[r] EXCEPT !.todo = @ \ {k}] \in Running
    BY <1>1 DEF Hold, Running
  <2>2. QED BY <1>2, <2>1 DEF TypeOK
<1>4. /\ proc'[r].pc = "purge" /\ proc'[r].kind = proc[r].kind /\ proc'[r].name = proc[r].name
      /\ proc'[r].token = proc[r].token /\ proc'[r].todo \subseteq proc[r].todo
      /\ \A q \in Requests : q # r => proc'[q] = proc[q]
      /\ held'[k].by = r /\ held'[k].how = "purged" /\ \A j \in Keys : j # k => held'[j] = held[j]
  BY <1>1, <1>2 DEF TypeOK, Running
<1>5. \A q \in Requests : Key(q)' = Key(q)
  BY <1>4, SameKey
<1>6. RowsAreHeld'
  <2>1. SUFFICES ASSUME NEW j \in Keys PROVE RowIsHeld(j)'
    BY DEF RowsAreHeld
  <2>2. RowIsHeld(j)
    BY DEF RowsAreHeld
  <2>3. CASE j = k
    BY <1>1, <1>2, <1>4, <1>5, <2>3, Bounds DEF RowIsHeld, At
  <2>4. CASE j # k
    <3>1. held'[j] = held[j] /\ windows'[j] = windows[j]
      BY <1>2, <1>4, <2>4
    <3>2. \A q \in Requests : proc'[q].pc = proc[q].pc /\ proc'[q].kind = proc[q].kind
      BY <1>1, <1>4
    <3>3. QED BY <1>5, <2>2, <3>1, <3>2 DEF RowIsHeld, At
  <2>5. QED BY <2>3, <2>4
<1>7. ReadsAreStable'
  <2>1. SUFFICES ASSUME NEW q \in Requests PROVE ReadIsStable(q)'
    BY DEF ReadsAreStable
  <2>2. CASE q = r
    BY <1>1, <1>2, <1>4, <2>2 DEF ReadsAreStable, ReadIsStable, At
  <2>3. CASE q # r
    BY <1>1, <1>2, <1>4, <2>3, Bounds, OtherKeepsRead DEF ReadsAreStable, Free
  <2>4. QED BY <2>2, <2>3
<1>8. WaitersAreTold'
  BY <1>1, <1>2, <1>4, <1>5 DEF WaitersAreTold, WaiterIsTold, At
<1>9. PurgesAreOrdered'
  <2>1. SUFFICES ASSUME NEW circle \in SUBSET Requests,
                   \A q \in circle : /\ proc'[q].pc \in {"lock", "blocked"}
                                     /\ held'[Key(q)'].how = "purged" /\ held'[Key(q)'].by \in circle
                 PROVE  circle = {}
    BY DEF PurgesAreOrdered
  <2>2. r \notin circle
    BY <1>4, <2>1
  <2>3. ASSUME NEW q \in circle
        PROVE  /\ proc[q].pc \in {"lock", "blocked"}
               /\ held[Key(q)].how = "purged" /\ held[Key(q)].by \in circle
    <3>1. Key(q) # k
      BY <1>4, <1>5, <2>1, <2>2
    <3>2. q \in Requests /\ q # r /\ proc'[q] = proc[q]
      BY <1>4, <2>2
    <3>3. Key(q) \in Keys
      BY <2>1, <3>2, KeyType DEF ReadsAreStable, ReadIsStable, At, Purging
    <3>4. QED BY <1>4, <1>5, <2>1, <3>1, <3>2, <3>3
  <2>4. QED BY <2>3 DEF PurgesAreOrdered
<1>10. SessionsAreHeld'
  BY <1>1, <1>2, <1>4, QuietKeepsSessions DEF DeletesAlike
<1>11. QED BY <1>2, <1>3, <1>6, <1>7, <1>8, <1>9, <1>10
           DEF TypeOK, OwnersExist, AttemptsAreCounted, SessionsAreCurrent

(* The other steps of lock_attempt and of the transactions that go on from  *)
(* it take hold of no row but the request's own window and user.            *)
LEMMA HolderStep ==
  ASSUME AccountsInv, NEW r \in Requests,
         proc' \in [Requests -> Running], held' \in [Keys -> Hold],
         userlock' \in [Names -> Requests \cup {None}],
         sessionlock' \in [Tokens -> Requests \cup {None}],
         \A q \in Requests : q # r => proc'[q] = proc[q],
         /\ proc'[r].kind = proc[r].kind /\ proc'[r].name = proc[r].name
         /\ proc'[r].token = proc[r].token /\ proc'[r].todo = proc[r].todo
         /\ proc'[r].pc \in {"lock", "blocked", "missing", "count", "user", "finish", "revoke"},
         \A k \in Keys : held'[k] # held[k] =>
           k = Key(r) /\ held[k].by \in {None, r} /\ held'[k].by = r /\ held'[k].how # "purged",
         \A n \in Names : userlock'[n] # userlock[n] => userlock[n] = None /\ userlock'[n] = r,
         \A k \in Keys : k = Key(r) => RowIsHeld(k)',
         ReadIsStable(r)', proc'[r].pc = "blocked" => windows[Key(r)].there,
         proc'[r].pc \in {"lock", "blocked"} =>
           Key(r) \in Keys /\ (proc[r].pc = "lock" \/ held'[Key(r)].how # "purged"),
         SessionsAreHeld' \/ (/\ UNCHANGED sessionlock
                              /\ proc[r].pc # "expel" /\ proc[r].pc # "revoke"
                              /\ proc'[r].pc # "revoke"),
         UNCHANGED <<users, sessions, windows, answered>>
  PROVE  AccountsInv'
<1> USE DEF AccountsInv
<1>1. \A q \in Requests : Key(q)' = Key(q)
  BY SameKey
<1>2. RowsAreHeld'
  <2>1. SUFFICES ASSUME NEW j \in Keys, j # Key(r) PROVE RowIsHeld(j)'
    BY DEF RowsAreHeld
  <2>2. RowIsHeld(j) /\ held'[j] = held[j] /\ windows'[j] = windows[j]
    BY <2>1 DEF RowsAreHeld
  <2>3. ASSUME NEW q \in Requests, held'[j].by = q
        PROVE  /\ proc'[q].kind \in Purging
               /\ proc'[q].pc \in {"purge", "lock", "blocked", "missing", "count", "user", "finish", "revoke"}
               /\ IF j = Key(q)' /\ proc'[q].pc # "purge"
                  THEN /\ held'[j].how # "purged"
                       /\ proc'[q].pc \in {"lock", "count", "user", "finish", "revoke"}
                       /\ proc'[q].pc = "lock" => held'[j].how = "inserted"
                  ELSE held'[j].how = "purged"
    <3>1. CASE q = r
      BY <1>1, <2>1, <2>2, <2>3, <3>1 DEF RowIsHeld, At
    <3>2. CASE q # r
      BY <1>1, <2>2, <2>3, <3>2 DEF RowIsHeld, At
    <3>3. QED BY <3>1, <3>2
  <2>4. QED BY <2>2, <2>3 DEF RowIsHeld, At
<1>3. ReadsAreStable'
  <2>1. SUFFICES ASSUME NEW q \in Requests, q # r PROVE ReadIsStable(q)'
    BY DEF ReadsAreStable
  <2>2. \A k \in Keys : held[k].by = q => held'[k] = held[k] /\ windows'[k].count = windows[k].count
    BY <2>1, Bounds
  <2>3. \A n \in Names : userlock'[n] = q <=> userlock[n] = q
    BY <2>1, Bounds
  <2>4. QED BY <2>1, <2>2, <2>3, OtherKeepsRead DEF ReadsAreStable
<1>4. WaitersAreTold'
  BY <1>1 DEF WaitersAreTold, WaiterIsTold, At
<1>5. PurgesAreOrdered'
  <2>1. SUFFICES ASSUME NEW circle \in SUBSET Requests,
                   \A q \in circle : /\ proc'[q].pc \in {"lock", "blocked"}
                                     /\ held'[Key(q)'].how = "purged" /\ held'[Key(q)'].by \in circle
                 PROVE  circle = {}
    BY DEF PurgesAreOrdered
  <2>2. ASSUME NEW q \in circle
        PROVE  /\ proc[q].pc \in {"lock", "blocked"}
               /\ held[Key(q)].how = "purged" /\ held[Key(q)].by \in circle
    <3>1. q \in Requests /\ Key(q)' = Key(q)
      BY <1>1
    <3>2. proc[q].pc \in {"lock", "blocked"}
      BY <2>1, <3>1
    <3>3. Key(q) \in Keys
      BY <3>1, <3>2, KeyType DEF ReadsAreStable, ReadIsStable, At, Purging
    <3>4. held'[Key(q)] = held[Key(q)]
      BY <2>1, <2>2, <3>1, <3>3
    <3>5. QED BY <2>1, <2>2, <3>1, <3>2, <3>4
  <2>3. QED BY <2>2 DEF PurgesAreOrdered
<1>6. SessionsAreHeld'
  BY QuietKeepsSessions DEF DeletesAlike
<1>7. QED BY <1>2, <1>3, <1>4, <1>5, <1>6 DEF TypeOK, OwnersExist, AttemptsAreCounted, SessionsAreCurrent

LEMMA InsertInv ==
  ASSUME AccountsInv, NEW r \in Requests, Insert(r)
  PROVE  AccountsInv'
<1> USE DEF AccountsInv
<1>0. PICK k \in Keys : k = Key(r)
  BY KeyType DEF Insert, At, ReadsAreStable, ReadIsStable, Purging
<1>1. /\ proc[r] \in Running /\ proc[r].pc = "purge" /\ proc[r].kind \in Purging
      /\ proc[r].name \in Names /\ ReadIsStable(r) /\ RowIsHeld(k)
  BY DEF Insert, At, TypeOK, ReadsAreStable, ReadIsStable, RowsAreHeld, Purging
<1>2. /\ held[k].by = r \/ held[k].how \in {"free", "locked"}
      /\ held' = IF held[k].by = r \/ ~windows[k].there
                  THEN [held EXCEPT ![k] = [by |-> r, how |-> "inserted"]] ELSE held
      /\ proc' = [proc EXCEPT ![r].pc = "lock"]
      /\ UNCHANGED <<users, sessions, windows, userlock, sessionlock, answered>>
  BY <1>0 DEF Insert, Goto
<1>3. /\ proc' \in [Requests -> Running] /\ \A q \in Requests : q # r => proc'[q] = proc[q]
      /\ proc'[r].pc = "lock" /\ proc'[r].kind = proc[r].kind /\ proc'[r].name = proc[r].name
      /\ proc'[r].token = proc[r].token /\ proc'[r].todo = proc[r].todo
  <2>1. [proc[r] EXCEPT !.pc = "lock"] \in Running
    BY <1>1 DEF Running
  <2>2. QED BY <1>1, <1>2, <2>1 DEF TypeOK, Running
<1>4. \A q \in Requests : Key(q)' = Key(q)
  BY <1>3, SameKey
<1>5. held' \in [Keys -> Hold]
  <2>1. [by |-> r, how |-> "inserted"] \in Hold
    BY DEF Hold
  <2>2. QED BY <1>2, <2>1 DEF TypeOK
<1>6. CASE held[k].by = r \/ ~windows[k].there
  <2>1. held'[k].by = r /\ held'[k].how = "inserted" /\ \A j \in Keys : j # k => held'[j] = held[j]
    BY <1>1, <1>2, <1>6 DEF TypeOK
  <2>2. held[k].by \in {None, r}
    BY <1>1, <1>2, <1>6 DEF RowIsHeld
  <2>3. RowIsHeld(k)'
    BY <1>1, <1>3, <1>4, <1>0, <2>1, Bounds DEF RowIsHeld, At
  <2>4. ReadIsStable(r)'
    BY <1>1, <1>2, <1>3 DEF ReadIsStable, At
  <2>5. \A j \in Keys : held'[j] # held[j] =>
          j = Key(r) /\ held[j].by \in {None, r} /\ held'[j].by = r /\ held'[j].how # "purged"
    BY <1>0, <2>1, <2>2
  <2>6. \A j \in Keys : j = Key(r) => RowIsHeld(j)'
    BY <1>0, <2>3
  <2>7. userlock' \in [Names -> Requests \cup {None}]
        /\ sessionlock' \in [Tokens -> Requests \cup {None}]
    BY <1>2 DEF TypeOK
  <2>8. held'[Key(r)].how # "purged" /\ Key(r) \in Keys
    BY <1>0, <2>1
  <2>9. QED BY <1>1, <1>2, <1>3, <1>5, <2>4, <2>5, <2>6, <2>7, <2>8, HolderStep
<1>7. CASE ~(held[k].by = r \/ ~windows[k].there)
  <2>1. held' = held /\ held[k].by # r /\ held[k].how # "purged"
    BY <1>2, <1>7
  <2>2. RowIsHeld(k)'
    BY <1>0, <1>1, <1>2, <1>3, <1>4, <2>1 DEF RowIsHeld, At, TypeOK
  <2>3. ReadIsStable(r)'
    BY <1>1, <1>2, <1>3 DEF ReadIsStable, At
  <2>4. QED BY <1>1, <1>2, <1>3, <1>5, <2>1, <2>2, <2>3, <1>0, HolderStep DEF TypeOK
<1>8. QED BY <1>6, <1>7

(* The window is locked, and its count read.                                *)
LEMMA TakeInv ==
  ASSUME AccountsInv, NEW r \in Requests, Take(r),
         \/ proc[r].pc = "lock" /\ (held[Key(r)].by = r \/ (windows[Key(r)].there /\ held[Key(r)] = Free))
         \/ proc[r].pc = "blocked" /\ held[Key(r)] = Free
  PROVE  AccountsInv'
<1> USE DEF AccountsInv
<1>0. PICK k \in Keys : k = Key(r)
  BY KeyType DEF ReadsAreStable, ReadIsStable, At, Purging
<1> DEFINE next == IF proc[r].kind = "login" THEN "count" ELSE "user"
           x == [proc[r] EXCEPT !.count = Own(r).count, !.pc = next]
<1>1. /\ proc[r] \in Running /\ proc[r].kind \in Purging /\ proc[r].name \in Names
      /\ ReadIsStable(r) /\ RowIsHeld(k) /\ held[k] \in Hold /\ windows[k] \in Window
      /\ proc[r].pc \in {"lock", "blocked"}
  BY DEF TypeOK, ReadsAreStable, ReadIsStable, RowsAreHeld, Purging, At
<1>2. /\ held' = IF held[k].by = r THEN held ELSE [held EXCEPT ![k] = [by |-> r, how |-> "locked"]]
      /\ proc' = [proc EXCEPT ![r] = x]
      /\ UNCHANGED <<users, sessions, windows, userlock, sessionlock, answered>>
  BY <1>0 DEF Take
<1>3. Own(r).count \in 0..Limit
  BY <1>0, <1>1, Bounds DEF Own, Window
<1>4. /\ x \in Running /\ x.pc = next /\ x.kind = proc[r].kind /\ x.name = proc[r].name
      /\ x.token = proc[r].token /\ x.todo = proc[r].todo /\ x.count = Own(r).count
      /\ next \in {"count", "user"}
  BY <1>1, <1>3 DEF Running
<1> HIDE DEF x, next
<1>5. /\ proc' \in [Requests -> Running] /\ \A q \in Requests : q # r => proc'[q] = proc[q]
      /\ proc'[r] = x
  BY <1>2, <1>4 DEF TypeOK
<1>6. Key(r)' = Key(r)
  BY <1>4, <1>5, SameKey
<1>7. held' \in [Keys -> Hold]
  <2>1. [by |-> r, how |-> "locked"] \in Hold
    BY DEF Hold
  <2>2. QED BY <1>2, <2>1 DEF TypeOK
<1>8. /\ held'[k].by = r /\ held'[k].how \in {"inserted", "locked"}
      /\ held'[k].how = "inserted" <=> held[k].how = "inserted"
      /\ held'[k].how = "locked" => windows[k].there
      /\ \A j \in Keys : held'[j] # held[j] => j = k /\ held[j].by \in {None, r}
  <2>1. CASE held[k].by = r
    <3>1. held[k].how = "inserted"
      BY <1>0, <1>1, <2>1, Bounds DEF RowIsHeld, At, Free
    <3>2. QED BY <1>2, <2>1, <3>1
  <2>2. CASE held[k].by # r
    <3>1. held[k].how = "free" /\ held[k].by = None
      BY <1>0, <2>2 DEF Free
    <3>2. windows[k].there
      BY <1>0, <2>2 DEF WaitersAreTold, WaiterIsTold, At
    <3>3. held' = [held EXCEPT ![k] = [by |-> r, how |-> "locked"]]
      BY <1>2, <2>2
    <3>4. held'[k] = [by |-> r, how |-> "locked"] /\ \A j \in Keys : j # k => held'[j] = held[j]
      BY <3>3 DEF TypeOK
    <3>5. QED BY <3>1, <3>2, <3>4
  <2>3. QED BY <2>1, <2>2
<1>9. Own(r)' = Own(r)
  BY <1>0, <1>2, <1>6, <1>8 DEF Own
<1>10. RowIsHeld(k)'
  BY <1>0, <1>1, <1>2, <1>4, <1>5, <1>6, <1>8, Bounds DEF RowIsHeld, At
<1>11. ReadIsStable(r)'
  <2>1. x.pc = "user" => x.kind # "login"
    BY <1>4 DEF next
  <2>2. \A n \in Names : userlock'[n] # r
    BY <1>1, <1>2 DEF ReadIsStable, At
  <2>3. x.kind \notin {"session", "reset"} => x.token # 0
    BY <1>1, <1>4 DEF ReadIsStable
  <2>4. held'[Key(r)'].by = r /\ proc'[r].count = Own(r)'.count
    BY <1>0, <1>4, <1>5, <1>6, <1>8, <1>9
  <2>5. QED BY <1>1, <1>4, <1>5, <2>1, <2>2, <2>3, <2>4 DEF ReadIsStable, At
<1>12. \A j \in Keys : held'[j] # held[j] =>
          j = Key(r) /\ held[j].by \in {None, r} /\ held'[j].by = r /\ held'[j].how # "purged"
  BY <1>0, <1>8
<1>13. QED BY <1>0, <1>2, <1>4, <1>5, <1>7, <1>10, <1>11, <1>12, HolderStep DEF TypeOK

LEMMA LockStepInv ==
  ASSUME AccountsInv, NEW r \in Requests, Lock(r)
  PROVE  AccountsInv'
<1> USE DEF AccountsInv
<1>0. PICK k \in Keys : k = Key(r)
  BY KeyType DEF Lock, ReadsAreStable, ReadIsStable, At, Purging
<1>1. CASE held[k].by = r \/ (windows[k].there /\ held[k] = Free)
  BY <1>0, <1>1, TakeInv DEF Lock, At
<1>2. CASE ~(held[k].by = r \/ (windows[k].there /\ held[k] = Free))
  <2> DEFINE next == IF windows[k].there THEN "blocked" ELSE "missing"
             x == [proc[r] EXCEPT !.pc = next]
  <2>1. /\ proc' = [proc EXCEPT ![r] = x]
        /\ UNCHANGED <<users, sessions, windows, held, userlock, sessionlock, answered>>
        /\ proc[r].pc = "lock" /\ held[k].by # r
    BY <1>0, <1>2 DEF Lock, Goto, At
  <2>2. /\ proc[r] \in Running /\ proc[r].kind \in Purging /\ proc[r].name \in Names
        /\ ReadIsStable(r) /\ RowIsHeld(k)
    BY <2>1 DEF TypeOK, ReadsAreStable, ReadIsStable, RowsAreHeld, Purging, At
  <2>3. /\ x \in Running /\ x.pc = next /\ x.kind = proc[r].kind /\ x.name = proc[r].name
        /\ x.token = proc[r].token /\ x.todo = proc[r].todo
        /\ next \in {"blocked", "missing"} /\ (next = "blocked" => windows[k].there)
    BY <2>2 DEF Running
  <2> HIDE DEF x, next
  <2>4. /\ proc' \in [Requests -> Running] /\ \A q \in Requests : q # r => proc'[q] = proc[q]
        /\ proc'[r] = x
    BY <2>1, <2>3 DEF TypeOK
  <2>5. \A q \in Requests : Key(q)' = Key(q)
    BY <2>3, <2>4, SameKey
  <2>6. RowIsHeld(k)'
    BY <1>0, <2>1, <2>2, <2>3, <2>4, <2>5 DEF RowIsHeld, At
  <2>7. ReadIsStable(r)'
    BY <2>1, <2>2, <2>3, <2>4 DEF ReadIsStable, At
  <2>8. \A j \in Keys : j = Key(r) => RowIsHeld(j)'
    BY <1>0, <2>6
  <2>9. held' \in [Keys -> Hold] /\ userlock' \in [Names -> Requests \cup {None}]
        /\ sessionlock' \in [Tokens -> Requests \cup {None}]
    BY <2>1 DEF TypeOK
  <2>10. proc'[r].pc \in {"blocked", "missing"} /\ (proc'[r].pc = "blocked" => windows[Key(r)].there)
    BY <1>0, <2>3, <2>4
  <2>11. QED BY <1>0, <2>1, <2>3, <2>4, <2>7, <2>8, <2>9, <2>10, HolderStep
<1>3. QED BY <1>1, <1>2

LEMMA UnblockInv ==
  ASSUME AccountsInv, NEW r \in Requests, Unblock(r)
  PROVE  AccountsInv'
  BY TakeInv DEF Unblock, At
-----------------------------------------------------------------------------
(* login, reset_password, change_password                                   *)

LEMMA CountInv ==
  ASSUME AccountsInv, NEW r \in Requests, Count(r)
  PROVE  AccountsInv'
<1> USE DEF AccountsInv
<1>0. /\ proc[r] \in Running /\ proc[r].pc = "count" /\ proc[r].kind \in Purging
      /\ proc[r].name \in Names /\ ReadIsStable(r)
  BY DEF Count, At, TypeOK, ReadsAreStable, ReadIsStable, Purging
<1>1. PICK k \in Keys : k = Key(r)
  BY <1>0, KeyType
<1>2. CASE proc[r].count >= Limit
  <2>1. Commit(r, Own(r)) /\ answered' = Since(r) /\ UNCHANGED <<users, sessions>>
    BY <1>2 DEF Count
  <2>2. /\ Own(r) \in Window /\ Own(r).there /\ Since(r)[Key(r)] <= Own(r).count
        /\ Since(r) \in [Keys -> 0..Limit]
    BY <1>0, OwnWindow
  <2> DEFINE guesses == Since(r)[Key(r)]
  <2>3. guesses \in Nat /\ guesses <= Limit
    BY <1>1, <2>2, Bounds
  <2>4. answered' = [Since(r) EXCEPT ![Key(r)] = guesses]
    BY <1>1, <2>1, <2>2
  <2> HIDE DEF guesses
  <2>5. guesses <= IF Own(r).there THEN Own(r).count ELSE 0
    BY <2>2 DEF guesses
  <2>6. TypeOK' /\ LockInv' /\ AttemptsAreCounted' /\ SessionsAreHeld'
    BY <1>0, <2>1, <2>2, <2>3, <2>4, <2>5, Committed DEF TypeOK, SessionsGiven
  <2>7. QED BY <2>1, <2>6 DEF LockInv, OwnersExist, SessionsAreCurrent
<1>3. CASE ~(proc[r].count >= Limit)
  <2> DEFINE x == [proc[r] EXCEPT !.pc = "user"]
  <2>1. /\ proc' = [proc EXCEPT ![r] = x]
        /\ held' = [held EXCEPT ![k].how = IF @ = "locked" THEN "changed" ELSE @]
        /\ UNCHANGED <<users, sessions, windows, userlock, sessionlock, answered>>
    BY <1>1, <1>3 DEF Count, Goto
  <2>2. /\ x \in Running /\ x.pc = "user" /\ x.kind = proc[r].kind /\ x.name = proc[r].name
        /\ x.token = proc[r].token /\ x.todo = proc[r].todo /\ x.count = proc[r].count
    BY <1>0 DEF Running
  <2> HIDE DEF x
  <2>3. /\ proc' \in [Requests -> Running] /\ \A q \in Requests : q # r => proc'[q] = proc[q]
        /\ proc'[r] = x
    BY <2>1, <2>2 DEF TypeOK
  <2>4. \A q \in Requests : Key(q)' = Key(q)
    BY <2>2, <2>3, SameKey
  <2>5. held[k] \in Hold /\ held[k].by = r /\ held[k].how # "purged" /\ RowIsHeld(k)
    BY <1>0, <1>1, OwnWindow DEF TypeOK, RowsAreHeld, RowIsHeld, At
  <2>6. /\ held' \in [Keys -> Hold] /\ held'[k].by = r /\ held'[k].how # "purged"
        /\ held'[k].how # "free"
        /\ (held'[k].how = "inserted" <=> held[k].how = "inserted")
        /\ (held'[k].how \in {"locked", "changed"} => held[k].how \in {"locked", "changed"})
        /\ \A j \in Keys : j # k => held'[j] = held[j]
    <3>1. [held[k] EXCEPT !.how = IF @ = "locked" THEN "changed" ELSE @] \in Hold
      BY <2>5 DEF Hold
    <3>2. held[k].how # "free"
      BY <2>5, Bounds DEF RowIsHeld
    <3>3. held'[k] = [held[k] EXCEPT !.how = IF @ = "locked" THEN "changed" ELSE @]
      BY <2>1 DEF TypeOK
    <3>4. \A j \in Keys : j # k => held'[j] = held[j]
      BY <2>1 DEF TypeOK
    <3>5. held' \in [Keys -> Hold]
      BY <2>1, <3>1 DEF TypeOK
    <3>6. held'[k].by = r /\ held'[k].how = IF held[k].how = "locked" THEN "changed" ELSE held[k].how
      BY <2>5, <3>3 DEF Hold
    <3>7. QED BY <2>5, <3>2, <3>4, <3>5, <3>6
  <2>7. RowIsHeld(k)'
    BY <1>0, <1>1, <2>1, <2>2, <2>3, <2>4, <2>5, <2>6, Bounds DEF RowIsHeld, At
  <2>8. Own(r)'.count = Own(r).count
    BY <1>1, <2>1, <2>4, <2>6 DEF Own
  <2>9. ReadIsStable(r)'
    <3>1. proc[r].count < Limit
      BY <1>0, <1>3, Bounds DEF Running
    <3>2. held'[Key(r)'].by = r /\ proc'[r].count = Own(r)'.count
      BY <1>0, <1>1, <2>2, <2>3, <2>4, <2>6, <2>8 DEF ReadIsStable
    <3>3. \A n \in Names : userlock'[n] # r
      BY <1>0, <2>1 DEF ReadIsStable, At
    <3>4. x.kind \notin {"session", "reset"} => x.token # 0
      BY <1>0, <2>2 DEF ReadIsStable
    <3>5. QED BY <1>0, <2>2, <2>3, <3>1, <3>2, <3>3, <3>4 DEF ReadIsStable, At
  <2>10. \A j \in Keys : held'[j] # held[j] =>
          j = Key(r) /\ held[j].by \in {None, r} /\ held'[j].by = r /\ held'[j].how # "purged"
    BY <1>1, <2>5, <2>6
  <2>11. \A j \in Keys : j = Key(r) => RowIsHeld(j)'
    BY <1>1, <2>7
  <2>12. userlock' \in [Names -> Requests \cup {None}]
        /\ sessionlock' \in [Tokens -> Requests \cup {None}]
    BY <2>1 DEF TypeOK
  <2>13. QED BY <1>0, <2>1, <2>2, <2>3, <2>6, <2>9, <2>10, <2>11, <2>12, HolderStep
<1>4. QED BY <1>2, <1>3

LEMMA UserInv ==
  ASSUME AccountsInv, NEW r \in Requests, User(r)
  PROVE  AccountsInv'
<1> USE DEF AccountsInv
<1> DEFINE n == proc[r].name
           x == [proc[r] EXCEPT !.pc = "finish", !.secret = users[n].secret]
<1>0. /\ proc[r] \in Running /\ proc[r].pc = "user" /\ proc[r].kind \in Purging \cup {"rename"}
      /\ ReadIsStable(r) /\ n \in Names /\ userlock[n] = None
  BY DEF User, At, TypeOK, ReadsAreStable, ReadIsStable, Purging
<1>1. CASE ~Wanted(r)
  BY <1>1, RollbackInv DEF User
<1>2. CASE Wanted(r)
  <2>1. /\ proc' = [proc EXCEPT ![r] = x]
        /\ userlock' = IF users[n].there THEN [userlock EXCEPT ![n] = r] ELSE userlock
        /\ UNCHANGED <<users, sessions, windows, held, sessionlock, answered>>
    BY <1>2 DEF User
  <2>2. users[n] \in Account /\ (users[n].there <=> users[n].secret # 0)
        /\ (users[n].active => users[n].there)
    BY <1>0 DEF TypeOK, OwnersExist
  <2>3. /\ x \in Running /\ x.pc = "finish" /\ x.kind = proc[r].kind /\ x.name = n
        /\ x.token = proc[r].token /\ x.todo = proc[r].todo /\ x.count = proc[r].count
        /\ x.secret = users[n].secret
    BY <1>0, <2>2 DEF Running, Account
  <2>4. x.secret = 0 => x.kind = "login"
    BY <1>0, <1>2, <2>2, <2>3 DEF Wanted, Purging
  <2> HIDE DEF x
  <2>5. /\ proc' \in [Requests -> Running] /\ \A q \in Requests : q # r => proc'[q] = proc[q]
        /\ proc'[r] = x
    BY <2>1, <2>3 DEF TypeOK
  <2>6. \A q \in Requests : Key(q)' = Key(q)
    BY <2>3, <2>5, SameKey
  <2>7. /\ userlock' \in [Names -> Requests \cup {None}]
        /\ \A m \in Names : userlock'[m] # userlock[m] => userlock[m] = None /\ userlock'[m] = r
        /\ \A m \in Names : userlock'[m] = r => m = n
        /\ x.secret # 0 => userlock'[n] = r
    <3>1. \A m \in Names : userlock[m] # r
      BY <1>0 DEF ReadIsStable, At
    <3>2. QED BY <1>0, <2>1, <2>2, <2>3, <3>1 DEF TypeOK
  <2>8. \A k \in Keys : k = Key(r) => RowIsHeld(k)'
    <3>1. SUFFICES ASSUME NEW k \in Keys, k = Key(r) PROVE RowIsHeld(k)'
      OBVIOUS
    <3>2. RowIsHeld(k)
      BY DEF RowsAreHeld
    <3>3. QED BY <1>0, <2>1, <2>3, <2>5, <2>6, <3>1, <3>2 DEF RowIsHeld, At
  <2>9. ReadIsStable(r)'
    <3>1. proc[r].kind \in Purging => held'[Key(r)'].by = r /\ proc'[r].count = Own(r)'.count
      <4>1. held'[Key(r)'] = held[Key(r)] /\ Own(r)' = Own(r)
        BY <2>1, <2>6 DEF Own
      <4>2. QED BY <1>0, <2>3, <2>5, <4>1 DEF ReadIsStable
    <3>2. proc'[r].kind = "login" => proc'[r].count < Limit
      BY <1>0, <2>3, <2>5 DEF ReadIsStable
    <3>3. proc'[r].secret # 0 => userlock'[proc'[r].name] = r /\ proc'[r].secret = users'[proc'[r].name].secret
      BY <2>1, <2>3, <2>5, <2>7
    <3>4. x.kind \notin {"session", "reset"} => x.token # 0
      BY <1>0, <2>3 DEF ReadIsStable
    <3>5. QED BY <1>0, <2>3, <2>4, <2>5, <2>7, <3>1, <3>2, <3>3, <3>4 DEF ReadIsStable, At
  <2>10. held' \in [Keys -> Hold] /\ UNCHANGED <<users, sessions, windows, held, sessionlock, answered>>
    BY <2>1 DEF TypeOK
  <2>11. sessionlock' \in [Tokens -> Requests \cup {None}]
    BY <2>1 DEF TypeOK
  <2>12. QED BY <1>0, <2>3, <2>5, <2>7, <2>8, <2>9, <2>10, <2>11, HolderStep
<1>3. QED BY <1>1, <1>2

(* A wrong guess below the limit is one more in its window.                 *)
LEMMA FailedInv ==
  ASSUME AccountsInv, NEW r \in Requests, proc[r].pc = "finish", proc[r].kind \in Purging,
         proc[r].count < Limit, Failed(r)
  PROVE  AccountsInv'
<1> USE DEF AccountsInv
<1>1. /\ Key(r) \in Keys /\ Own(r) \in Window /\ Own(r).there /\ Own(r).count < Limit
      /\ Since(r) \in [Keys -> 0..Limit] /\ Since(r)[Key(r)] <= Own(r).count
  BY OwnWindow
<1> DEFINE row == [Own(r) EXCEPT !.count = @ + 1]
           guesses == Since(r)[Key(r)] + 1
<1>2. row \in Window /\ row.there /\ row.count = Own(r).count + 1
  BY <1>1, Bounds DEF Window
<1>3. guesses \in Nat /\ guesses <= row.count /\ guesses <= Limit
  <2>1. Own(r).count \in Nat
    BY <1>1, Bounds DEF Window
  <2>2. Since(r)[Key(r)] \in Nat
    BY <1>1, Bounds
  <2> HIDE DEF row
  <2>3. QED BY <1>1, <1>2, <2>1, <2>2, Bounds
<1>4. Commit(r, row) /\ answered' = [Since(r) EXCEPT ![Key(r)] = guesses]
      /\ UNCHANGED <<users, sessions>>
  BY DEF Failed
<1> HIDE DEF row, guesses
<1>5. TypeOK' /\ LockInv' /\ AttemptsAreCounted' /\ SessionsAreHeld'
  BY <1>2, <1>3, <1>4, Committed DEF TypeOK, SessionsGiven
<1>6. QED BY <1>4, <1>5 DEF LockInv, OwnersExist, SessionsAreCurrent

(* A right one removes the window.                                          *)
LEMMA SucceededInv ==
  ASSUME AccountsInv, NEW r \in Requests, proc[r].pc \in {"finish", "revoke"},
         proc[r].kind \in Purging, Succeeded(r),
         users' \in [Names -> Account],
         \A n \in Names : users'[n].secret = users[n].secret \/ userlock[n] = r,
         sessions' \in [Tokens -> Session],
         AccountsFit(users'), SessionsFit(sessions', users'), SessionsGiven(r)
  PROVE  AccountsInv'
<1> USE DEF AccountsInv
<1>1. TypeOK' /\ LockInv' /\ AttemptsAreCounted' /\ SessionsAreHeld'
  <2> DEFINE guesses == 0
  <2>1. guesses \in Nat /\ guesses <= Limit
        /\ guesses <= IF NoWindow.there THEN NoWindow.count ELSE 0
    BY NoWindowType, Bounds
  <2>2. Commit(r, NoWindow) /\ answered' = [Since(r) EXCEPT ![Key(r)] = guesses]
    BY DEF Succeeded
  <2> HIDE DEF guesses
  <2>3. QED BY <2>1, <2>2, NoWindowType, Committed
<1>2. QED BY <1>1, FitNext DEF LockInv

(* What a request at its end has read of its user is still so.              *)
LEMMA AtFinish ==
  ASSUME AccountsInv, NEW r \in Requests, proc[r].pc \in {"finish", "revoke"}
  PROVE  /\ proc[r].name \in Names /\ proc[r].token \in Tokens \cup {0}
         /\ proc[r].kind \in {"login", "rename", "change"} => proc[r].token \in Tokens
         /\ proc[r].kind = "login" => proc[r].count < Limit
         /\ proc[r].secret \in 0..MaxSecret
         /\ proc[r].secret # 0 =>
              /\ userlock[proc[r].name] = r
              /\ proc[r].secret = users[proc[r].name].secret
              /\ users[proc[r].name].there
         /\ proc[r].kind # "login" => proc[r].secret # 0
<1> USE DEF AccountsInv
<1>1. proc[r] \in Running /\ ReadIsStable(r)
  BY DEF TypeOK, ReadsAreStable
<1>2. proc[r].name \in Names
  BY <1>1 DEF ReadIsStable, At, Purging
<1>3. QED BY <1>1, <1>2 DEF ReadIsStable, At, Running, OwnersExist

LEMMA FinishLoginInv ==
  ASSUME AccountsInv, NEW r \in Requests, FinishLogin(r)
  PROVE  AccountsInv'
<1> DEFINE n == proc[r].name
           t == proc[r].token
           rows == [sessions EXCEPT ![t] = NoSession]
<1>1. proc[r].pc = "finish" /\ proc[r].kind = "login" /\ proc[r].kind \in Purging
  BY DEF FinishLogin, At, Purging
<1>2. CASE Failed(r)
  BY <1>1, <1>2, AtFinish, FailedInv
<1>3. CASE Rollback(r)
  BY <1>3, RollbackInv
<1>4. CASE /\ proc[r].secret # 0 /\ sessionlock[t] = None /\ Issue(r, rows, n, proc[r].secret)
           /\ Succeeded(r) /\ UNCHANGED users
  <2>1. AccountsFit(users) /\ SessionsFit(sessions, users) /\ sessions \in [Tokens -> Session]
    BY Fit DEF AccountsInv, TypeOK
  <2>2. t \in Tokens /\ n \in Names /\ proc[r].secret \in 0..MaxSecret /\ users[n].there
        /\ proc[r].secret = users[n].secret /\ userlock[n] = r
    BY <1>1, <1>4, AtFinish
  <2>3. /\ rows \in [Tokens -> Session] /\ SessionsFit(rows, users)
        /\ \A u \in Tokens :
             rows[u] = sessions[u] \/ (rows[u] = NoSession /\ sessionlock[u] \in {None, r})
    BY <1>4, <2>1, NoSessionType DEF SessionsFit
  <2> HIDE DEF rows, n, t
  <2>4. /\ sessions' \in [Tokens -> Session] /\ SessionsFit(sessions', users)
        /\ \A u \in Tokens : sessions'[u] # rows[u] =>
             /\ sessions'[u].user = n /\ ~rows[u].there
             /\ \A q \in Requests : q # r => u \notin proc[q].rows
    BY <1>4, <2>2, <2>3, Issued
  <2>5. users' \in [Names -> Account]
    BY <1>4 DEF AccountsInv, TypeOK
  <2>6. SessionsGiven(r)
    BY <2>2, <2>3, <2>4, IssuedIsGiven DEF AccountsInv
  <2>7. QED BY <1>1, <1>4, <2>1, <2>4, <2>5, <2>6, SucceededInv
<1>5. QED BY <1>2, <1>3, <1>4 DEF FinishLogin

(* A new password suits the sessions that are left: the request has locked  *)
(* every one of the account, so it drops them all.                          *)
LEMMA Renewal ==
  ASSUME AccountsInv, NEW r \in Requests, proc[r].pc = "revoke", proc[r].rows = {},
         NewSecret(proc[r].name)
  PROVE  /\ users' \in [Names -> Account] /\ AccountsFit(users')
         /\ Dropped(r) \in [Tokens -> Session] /\ SessionsFit(Dropped(r), users')
         /\ users'[proc[r].name].there
         /\ users'[proc[r].name].secret = users[proc[r].name].secret + 1
         /\ users'[proc[r].name].secret \in 0..MaxSecret
         /\ \A m \in Names : m # proc[r].name => users'[m] = users[m]
<1> DEFINE n == proc[r].name
<1>1. /\ AccountsFit(users) /\ SessionsFit(sessions, users) /\ sessions \in [Tokens -> Session]
      /\ n \in Names /\ users[n] \in Account /\ users \in [Names -> Account] /\ users[n].there
  <2>1. proc[r].secret # 0
    BY DEF AccountsInv, ReadsAreStable, ReadIsStable, At
  <2>2. QED BY <2>1, Fit, AtFinish DEF AccountsInv, TypeOK
<1>2. \A t \in Tokens : sessions[t].user = n => Dropped(r)[t] = NoSession
  BY DroppedType DEF AccountsInv, SessionsAreHeld, RevokesItsOwn, At
<1> DEFINE x == [users[n] EXCEPT !.secret = @ + 1]
<1>3. x \in Account /\ x.there /\ x.active = users[n].active /\ x.secret = users[n].secret + 1
      /\ x.secret # 0
  BY <1>1, Bounds DEF NewSecret, Account
<1>4. users' = [users EXCEPT ![n] = x]
  BY DEF NewSecret
<1> HIDE DEF x
<1>5. users' \in [Names -> Account] /\ users'[n] = x /\ \A m \in Names : m # n => users'[m] = users[m]
  BY <1>1, <1>3, <1>4
<1>6. AccountsFit(users')
  BY <1>1, <1>3, <1>5 DEF AccountsFit
<1>7. SessionsFit(Dropped(r), users')
  <2>1. SUFFICES ASSUME NEW t \in Tokens
          PROVE  /\ ~Dropped(r)[t].there => Dropped(r)[t].user = None
                 /\ Dropped(r)[t].user # None =>
                      /\ users'[Dropped(r)[t].user].there
                      /\ Dropped(r)[t].under = users'[Dropped(r)[t].user].secret
    BY DEF SessionsFit
  <2>2. sessions[t].user \in Names \cup {None}
    BY <1>1 DEF Session
  <2>3. CASE Dropped(r)[t] = NoSession
    BY <2>3, NoSessionType
  <2>4. CASE Dropped(r)[t] # NoSession
    <3>1. Dropped(r)[t] = sessions[t] /\ sessions[t].user # n
      BY <1>2, <2>4, DroppedType
    <3>2. QED BY <1>1, <1>5, <2>2, <3>1 DEF SessionsFit
  <2>5. QED BY <2>3, <2>4
<1>8. users'[n].secret \in 0..MaxSecret
  BY <1>3, <1>5 DEF Account
<1>9. QED BY <1>3, <1>5, <1>6, <1>7, <1>8, DroppedType

LEMMA RevokeInv ==
  ASSUME AccountsInv, NEW r \in Requests, Revoke(r)
  PROVE  AccountsInv'
<1> DEFINE n == proc[r].name
<1>1. /\ proc[r].pc = "revoke" /\ proc[r].rows = {} /\ NewSecret(n) /\ Succeeded(r)
      /\ proc[r].kind \in Purging
  BY DEF Revoke, AccountsInv, ReadsAreStable, ReadIsStable, At, Purging
<1>2. proc[r].secret # 0
  BY <1>1 DEF AccountsInv, ReadsAreStable, ReadIsStable, At
<1>3. n \in Names /\ userlock[n] = r /\ proc[r].secret = users[n].secret
  BY <1>1, <1>2, AtFinish
<1>4. /\ users' \in [Names -> Account] /\ AccountsFit(users')
      /\ Dropped(r) \in [Tokens -> Session] /\ SessionsFit(Dropped(r), users')
      /\ users'[n].there /\ proc[r].secret + 1 = users'[n].secret
      /\ proc[r].secret + 1 \in 0..MaxSecret
      /\ \A m \in Names : m # n => users'[m] = users[m]
  BY <1>1, <1>3, Renewal
<1> HIDE DEF n
<1>5. /\ sessions' \in [Tokens -> Session] /\ SessionsFit(sessions', users')
      /\ \A t \in Tokens : sessions'[t] # Dropped(r)[t] =>
           /\ sessions'[t].user = n /\ ~Dropped(r)[t].there
           /\ \A q \in Requests : q # r => t \notin proc[q].rows
  <2>1. CASE sessions' = Dropped(r)
    BY <1>4, <2>1
  <2>2. CASE Issue(r, Dropped(r), n, proc[r].secret + 1)
    BY <1>3, <1>4, <2>2, Issued
  <2>3. QED BY <2>1, <2>2 DEF Revoke, n
<1>6. SessionsGiven(r)
  BY <1>3, <1>5, DroppedType, IssuedIsGiven DEF AccountsInv
<1>7. \A m \in Names : users'[m].secret = users[m].secret \/ userlock[m] = r
  BY <1>3, <1>4
<1>8. QED BY <1>1, <1>4, <1>5, <1>6, <1>7, SucceededInv

(* The DELETE of an account's sessions begins: it has found them all.       *)
LEMMA RevokingInv ==
  ASSUME AccountsInv, NEW r \in Requests, proc[r].pc = "finish", proc[r].kind \in {"change", "reset"},
         NEW locked \in SUBSET Tokens, Revoking(r, locked),
         \A t \in locked : /\ sessionlock[t] = None /\ sessions[t].there
                            /\ sessions[t].user = proc[r].name,
         proc[r].kind = "change" => proc[r].token \in locked
  PROVE  AccountsInv'
<1> USE DEF AccountsInv
<1> DEFINE x == [proc[r] EXCEPT !.pc = "revoke",
                                !.rows = {t \in Tokens : sessions[t].user = proc[r].name} \ locked]
<1>1. /\ proc[r] \in Running /\ ReadIsStable(r) /\ proc[r].kind \in Purging
      /\ proc' = [proc EXCEPT ![r] = x]
      /\ sessionlock' = [t \in Tokens |-> IF t \in locked THEN r ELSE sessionlock[t]]
      /\ UNCHANGED <<users, sessions, windows, held, userlock, answered>>
  BY DEF Revoking, TypeOK, ReadsAreStable, Purging
<1>2. /\ x \in Running /\ x.pc = "revoke" /\ x.kind = proc[r].kind /\ x.name = proc[r].name
      /\ x.token = proc[r].token /\ x.todo = proc[r].todo /\ x.count = proc[r].count
      /\ x.secret = proc[r].secret
      /\ x.rows = {t \in Tokens : sessions[t].user = proc[r].name} \ locked
  BY <1>1 DEF Running
<1> HIDE DEF x
<1>3. /\ proc' \in [Requests -> Running] /\ proc'[r] = x
      /\ \A q \in Requests : q # r => proc'[q] = proc[q]
  BY <1>1, <1>2 DEF TypeOK
<1>4. sessionlock' \in [Tokens -> Requests \cup {None}]
      /\ \A t \in Tokens : sessionlock'[t] = IF t \in locked THEN r ELSE sessionlock[t]
  BY <1>1 DEF TypeOK
<1>5. Key(r)' = Key(r) /\ \A q \in Requests : Key(q)' = Key(q)
  BY <1>2, <1>3, SameKey
<1>6. \A k \in Keys : k = Key(r) => RowIsHeld(k)'
  <2>1. SUFFICES ASSUME NEW k \in Keys, k = Key(r) PROVE RowIsHeld(k)'
    OBVIOUS
  <2>2. RowIsHeld(k)
    BY DEF RowsAreHeld
  <2>3. QED BY <1>1, <1>2, <1>3, <1>5, <2>1, <2>2 DEF RowIsHeld, At
<1>7. ReadIsStable(r)'
  <2>1. Own(r)' = Own(r)
    BY <1>1, <1>5 DEF Own
  <2>2. QED BY <1>1, <1>2, <1>3, <1>5, <2>1 DEF ReadIsStable, At
<1>8. SessionsAreHeld'
  <2>1. \A t \in Tokens : sessionlock[t] # r
    BY DEF SessionsAreHeld, SessionIsHeld
  <2>2. \A t \in Tokens : sessionlock'[t] = r => t \in locked
    BY <1>4, <2>1
  <2>3. RevokesItsOwn(r)'
    BY <1>1, <1>2, <1>3, <1>4 DEF RevokesItsOwn, At
  <2>4. \A q \in Requests : q # r => DeletesAlike(q)
    BY <1>3 DEF DeletesAlike
  <2>5. \A t \in Tokens, q \in Requests : q # r => (sessionlock'[t] = q <=> sessionlock[t] = q)
    BY <1>4, Bounds
  <2>6. QED BY <1>1, <1>2, <1>3, <2>2, <2>3, <2>4, <2>5, SessionsKept
<1>9. held' \in [Keys -> Hold] /\ userlock' \in [Names -> Requests \cup {None}]
  BY <1>1 DEF TypeOK
<1>10. QED BY <1>1, <1>2, <1>3, <1>4, <1>6, <1>7, <1>8, <1>9, HolderStep

LEMMA FinishResetInv ==
  ASSUME AccountsInv, NEW r \in Requests, FinishReset(r)
  PROVE  AccountsInv'
  BY RevokingInv DEF FinishReset, At

LEMMA FinishChangeInv ==
  ASSUME AccountsInv, NEW r \in Requests, FinishChange(r)
  PROVE  AccountsInv'
<1>1. proc[r].pc = "finish" /\ proc[r].kind = "change" /\ proc[r].kind \in Purging
  BY DEF FinishChange, At, Purging
<1>2. proc[r].token \in Tokens
  BY <1>1, AtFinish
<1>3. CASE Rollback(r)
  BY <1>3, RollbackInv
<1>4. CASE Commit(r, Own(r)) /\ answered' = Since(r) /\ UNCHANGED <<users, sessions>>
  <2>1. /\ Own(r) \in Window /\ Own(r).there /\ Since(r)[Key(r)] <= Own(r).count
        /\ Since(r) \in [Keys -> 0..Limit] /\ Key(r) \in Keys
    BY <1>1, OwnWindow
  <2> DEFINE guesses == Since(r)[Key(r)]
  <2>2. guesses \in Nat /\ guesses <= Limit
    BY <2>1, Bounds
  <2>3. answered' = [Since(r) EXCEPT ![Key(r)] = guesses]
    BY <1>4, <2>1
  <2>4. guesses <= IF Own(r).there THEN Own(r).count ELSE 0
    BY <2>1
  <2> HIDE DEF guesses
  <2>5. users' \in [Names -> Account] /\ sessions' \in [Tokens -> Session] /\ SessionsGiven(r)
        /\ \A m \in Names : users'[m].secret = users[m].secret \/ userlock[m] = r
    BY <1>4 DEF AccountsInv, TypeOK, SessionsGiven
  <2>6. TypeOK' /\ LockInv' /\ AttemptsAreCounted' /\ SessionsAreHeld'
    BY <1>1, <1>4, <2>1, <2>2, <2>3, <2>4, <2>5, Committed
  <2>7. QED BY <1>4, <2>6 DEF AccountsInv, LockInv, OwnersExist, SessionsAreCurrent
<1>5. CASE proc[r].count < Limit /\ Failed(r)
  BY <1>1, <1>5, FailedInv
<1>6. CASE Locked(r) /\ Revoking(r, {proc[r].token})
  BY <1>1, <1>2, <1>6, RevokingInv DEF Locked, Fenced
<1>7. QED BY <1>3, <1>4, <1>5, <1>6 DEF FinishChange
-----------------------------------------------------------------------------
LEMMA InitInv ==
  ASSUME Init
  PROVE  AccountsInv
<1> USE DEF Init
<1>1. TypeOK
  <2>1. /\ NoUser \in Account /\ Free \in Hold
    BY Bounds DEF NoUser, Account, Free, Hold
  <2>2. QED BY <2>1, Bounds, RestingType, NoSessionType, NoWindowType DEF TypeOK
<1>2. RowsAreHeld
  BY Bounds DEF RowsAreHeld, RowIsHeld, Free
<1>3. ReadsAreStable
  BY Bounds DEF ReadsAreStable, ReadIsStable, At, Resting
<1>4. WaitersAreTold
  BY DEF WaitersAreTold, WaiterIsTold, At, Resting
<1>5. PurgesAreOrdered /\ SessionsAreHeld
  BY Bounds DEF PurgesAreOrdered, SessionsAreHeld, SessionIsHeld, RevokesItsOwn, At, Resting
<1>6. OwnersExist /\ SessionsAreCurrent
  BY NoSessionType DEF OwnersExist, SessionsAreCurrent, NoUser
<1>7. AttemptsAreCounted
  BY Bounds DEF AttemptsAreCounted, NoWindow
<1>8. QED BY <1>1, <1>2, <1>3, <1>4, <1>5, <1>6, <1>7 DEF AccountsInv

LEMMA StepInv ==
  ASSUME AccountsInv, [Next]_vars
  PROVE  AccountsInv'
<1>1. ASSUME NEW r \in Requests, Step(r)
      PROVE  AccountsInv'
  BY <1>1, BootstrapInv, ExpelInv, LogoutInv, DeleteInv, RevokeInv, OpenInv, PurgeInv, InsertInv,
     LockStepInv, UnblockInv, CountInv, UserInv, FinishLoginInv, FinishResetInv, FinishChangeInv,
     RollbackInv
     DEF Step, Miss, FinishRename, Victim, Abandon
<1>2. ASSUME NEW r \in Requests, Crash(r)
      PROVE  AccountsInv'
  BY <1>2, RollbackInv DEF Crash
<1>3. CASE UNCHANGED vars
  <2>1. AccountsInv <=> AccountsInv'
    BY <1>3 DEF vars, AccountsInv, TypeOK, RowsAreHeld, RowIsHeld, ReadsAreStable, ReadIsStable,
       WaitersAreTold, WaiterIsTold, PurgesAreOrdered, SessionsAreHeld, SessionIsHeld,
       RevokesItsOwn, OwnersExist, AttemptsAreCounted,
       SessionsAreCurrent, Key, Own, At
  <2>2. QED BY <2>1
<1>4. QED BY <1>1, <1>2, <1>3, BeginInv, BeginResetInv, OutsideInv DEF Next

(* Accounts, sessions, attempt windows and the locks on them stay as the    *)
(* service expects them, however requests interleave, crash or deadlock.    *)
THEOREM AccountsInvariant == Spec => []AccountsInv
  BY InitInv, StepInv, PTL DEF Spec

(* The limit of failed attempts holds against any number of concurrent      *)
(* logins, password changes and resets, with expired windows purged between *)
(* them (lock_attempt).                                                     *)
THEOREM LimitIsKept == Spec => []AttemptsAreCounted
<1>1. AccountsInv => AttemptsAreCounted
  BY DEF AccountsInv
<1>2. QED BY <1>1, AccountsInvariant, PTL

(* No session outlives the password it was issued under.                    *)
THEOREM PasswordsEndSessions == Spec => []SessionsAreCurrent
<1>1. AccountsInv => SessionsAreCurrent
  BY DEF AccountsInv
<1>2. QED BY <1>1, AccountsInvariant, PTL

(* Whoever waits in a circle waits for it within it, and for one kind of    *)
(* row only: who holds a session waits for sessions, who holds a user waits *)
(* for none but these.                                                      *)
LEMMA WaitsFor ==
  ASSUME AccountsInv, NEW c \in SUBSET Requests, Circle(c), NEW q \in c
  PROVE  \E p \in c :
           /\ p # q /\ Stuck(p) /\ p \in Waits(q)
           /\ \/ proc[q].pc \in {"expel", "revoke"} /\ \E t \in proc[q].rows : sessionlock[t] = p
              \/ proc[q].pc = "finish" /\ sessionlock[proc[q].token] = p /\ proc[q].token \in Tokens
              \/ proc[q].pc = "user" /\ userlock[proc[q].name] = p /\ proc[q].name \in Names
              \/ proc[q].pc = "blocked" /\ held[Key(q)].by = p
              \/ proc[q].pc = "purge"
<1>1. PICK p \in c : p \in Waits(q)
  BY DEF Circle
<1>2. p # q /\ Stuck(p)
  BY <1>1 DEF Waits, Circle
<1>3. proc[q] \in Running /\ ReadIsStable(q)
  BY DEF AccountsInv, TypeOK, ReadsAreStable
<1>4. CASE proc[q].pc \in {"expel", "revoke"}
  <2>1. Waits(q) = {sessionlock[t] : t \in proc[q].rows} \ {None, q}
    BY <1>4 DEF Waits, At
  <2>2. QED BY <1>1, <1>2, <1>4, <2>1
<1>5. CASE proc[q].pc = "finish"
  <2>1. proc[q].kind # "reset"
    BY <1>1, <1>5 DEF Waits, At
  <2>2. Waits(q) = {sessionlock[proc[q].token]} \ {None, q}
    BY <1>5, <2>1 DEF Waits, At
  <2>3. proc[q].token \in Tokens
    <3>1. proc[q].kind \notin {"session", "reset"}
      BY <1>3, <1>5, <2>1 DEF ReadIsStable, At, Purging
    <3>2. QED BY <1>3, <3>1 DEF ReadIsStable, Running
  <2>4. QED BY <1>1, <1>2, <1>5, <2>2, <2>3
<1>6. CASE proc[q].pc = "user"
  <2>1. proc[q].name \in Names
    BY <1>3, <1>6 DEF ReadIsStable, At, Purging
  <2>2. QED BY <1>1, <1>2, <1>6, <2>1 DEF Waits, At
<1>7. CASE proc[q].pc \in {"purge", "blocked"}
  BY <1>1, <1>2, <1>7 DEF Waits, At
<1>8. CASE proc[q].pc \notin {"expel", "revoke", "finish", "user", "purge", "blocked"}
  BY <1>1, <1>8 DEF Waits, At
<1>9. QED BY <1>4, <1>5, <1>6, <1>7, <1>8

(* However many requests meet, the locks of windows, of users and of        *)
(* sessions deadlock only where a purge of expired windows, or bootstrap's  *)
(* removal of expired sessions, takes rows of its table in no order.        *)
THEOREM LocksAreOrdered == Spec => []NoLockInversion
<1>1. ASSUME AccountsInv, NEW c \in SUBSET Requests, Deadlock(c)
      PROVE  \/ /\ \A q \in c : proc[q].pc \in {"purge", "blocked"}
                /\ \E q \in c : At(q, "purge")
             \/ /\ \A q \in c : proc[q].pc \in {"expel", "revoke"}
                /\ \E q \in c : At(q, "expel")
  <2> USE <1>1
  <2> DEFINE D == {q \in c : proc[q].pc \in {"expel", "revoke"}}
  <2>1. Circle(c)
    BY DEF Deadlock
  <2>2. ASSUME NEW t \in Tokens, NEW p \in c, sessionlock[t] = p
        PROVE  p \in D
    BY <2>2 DEF AccountsInv, SessionsAreHeld, SessionIsHeld
  <2>3. ASSUME NEW q \in D
        PROVE  Waits(q) \cap D # {}
    <3>1. PICK p \in c : p \in Waits(q) /\ \E t \in proc[q].rows : sessionlock[t] = p
      BY <2>1, <2>3, WaitsFor
    <3>2. proc[q].rows \subseteq Tokens
      BY DEF AccountsInv, TypeOK, Running
    <3>3. QED BY <2>2, <3>1, <3>2
  <2>4. CASE D # {}
    <3>1. Circle(D)
      BY <2>1, <2>3, <2>4 DEF Circle
    <3>2. D = c
      BY <3>1 DEF Deadlock
    <3>3. ASSUME \A q \in c : proc[q].pc = "revoke"
          PROVE  FALSE
      <4>1. PICK q \in c : TRUE
        BY <2>1 DEF Circle
      <4>2. PICK p \in c : p # q /\ \E t \in proc[q].rows : sessionlock[t] = p
        BY <2>1, <3>3, WaitsFor
      <4>3. PICK t \in proc[q].rows : sessionlock[t] = p
        BY <4>2
      <4>4. t \in Tokens
        BY DEF AccountsInv, TypeOK, Running
      <4>5. sessions[t].there /\ sessions[t].user = proc[p].name
        BY <3>3, <4>3, <4>4 DEF AccountsInv, SessionsAreHeld, SessionIsHeld, At
      <4>6. sessions[t].user = proc[q].name
        BY <3>3, <4>5 DEF AccountsInv, SessionsAreHeld, RevokesItsOwn, At
      <4>7. /\ proc[p].kind \in {"change", "reset"} /\ proc[q].kind \in {"change", "reset"}
            /\ proc[p].secret # 0 /\ proc[q].secret # 0
        BY <3>3 DEF AccountsInv, ReadsAreStable, ReadIsStable, At
      <4>8. userlock[proc[p].name] = p /\ userlock[proc[q].name] = q
        BY <3>3, <4>7, AtFinish
      <4>9. QED BY <4>2, <4>5, <4>6, <4>8
    <3>4. QED BY <3>2, <3>3 DEF At
  <2>5. CASE D = {}
    <3>1. ASSUME NEW q \in c
          PROVE  proc[q].pc \in {"purge", "blocked", "user"}
      BY <2>1, <2>2, <2>5, WaitsFor
    <3>2. ASSUME NEW q \in c, proc[q].pc = "user"
          PROVE  FALSE
      <4>1. PICK p \in c : userlock[proc[q].name] = p /\ proc[q].name \in Names
        BY <2>1, <3>2, WaitsFor
      <4>2. proc[p].pc \in {"finish", "revoke"}
        BY <4>1 DEF AccountsInv, ReadsAreStable, ReadIsStable
      <4>3. QED BY <3>1, <4>2
    <3>3. ASSUME \A q \in c : proc[q].pc = "blocked"
          PROVE  FALSE
      <4>1. ASSUME NEW q \in c
            PROVE  held[Key(q)].how = "purged" /\ held[Key(q)].by \in c
        <5>1. PICK p \in c : held[Key(q)].by = p
          BY <2>1, <3>3, WaitsFor
        <5>2. Key(q) \in Keys
          BY <3>3, KeyType DEF AccountsInv, ReadsAreStable, ReadIsStable, At, Purging
        <5>3. QED BY <3>3, <5>1, <5>2 DEF AccountsInv, RowsAreHeld, RowIsHeld, At
      <4>2. c = {}
        BY <3>3, <4>1 DEF AccountsInv, PurgesAreOrdered
      <4>3. QED BY <2>1, <4>2 DEF Circle
    <3>4. QED BY <3>1, <3>2, <3>3 DEF At
  <2>6. QED BY <2>4, <2>5
<1>2. AccountsInv => NoLockInversion
  BY <1>1 DEF NoLockInversion
<1>3. QED BY <1>2, AccountsInvariant, PTL

(* A session of an account that appears takes the place of one that goes.   *)
Rotates ==
  \A t \in Tokens :
    sessions'[t].user # None /\ ~sessions[t].there =>
      \E u \in Tokens : sessions[u].there /\ ~sessions'[u].there

LEMMA Rotation ==
  ASSUME AccountsInv, NEW r \in Requests, NEW rows \in [Tokens -> Session],
         \A t \in Tokens : rows[t] \in {sessions[t], NoSession},
         NEW user \in Names \cup {None}, NEW under, Issue(r, rows, user, under),
         user # None => \E u \in Tokens : sessions[u].there /\ rows[u] = NoSession
  PROVE  Rotates
<1> DEFINE new == [there |-> TRUE, user |-> user, under |-> under, stale |-> FALSE]
<1>1. PICK t \in Tokens : ~rows[t].there /\ sessions' = [rows EXCEPT ![t] = new]
  BY DEF Issue, Spare
<1>2. sessions'[t].user = user /\ \A u \in Tokens : u # t => sessions'[u] = rows[u]
  BY <1>1
<1>3. \A u \in Tokens : ~sessions[u].there => sessions[u].user = None
  BY DEF AccountsInv, OwnersExist
<1>4. SUFFICES ASSUME NEW u \in Tokens, sessions'[u].user # None, ~sessions[u].there
               PROVE  \E v \in Tokens : sessions[v].there /\ ~sessions'[v].there
  BY DEF Rotates
<1>5. u = t /\ user # None
  BY <1>2, <1>3, <1>4, NoSessionType
<1>6. PICK v \in Tokens : sessions[v].there /\ rows[v] = NoSession
  BY <1>5
<1>7. v # t
  BY <1>4, <1>5, <1>6
<1>8. QED BY <1>2, <1>6, <1>7, NoSessionType

LEMMA StepRotates ==
  ASSUME AccountsInv, Next
  PROVE  Rotates
<1>1. sessions \in [Tokens -> Session] /\ \A u \in Tokens : ~sessions[u].there => sessions[u].user = None
  BY DEF AccountsInv, OwnersExist, TypeOK
<1>2. CASE \A t \in Tokens : sessions'[t] \in {sessions[t], NoSession}
  BY <1>1, <1>2, NoSessionType DEF Rotates
<1>3. ASSUME NEW r \in Requests, Expel(r)
      PROVE  Rotates
  <2>1. Issue(r, Dropped(r), None, 0)
    BY <1>3 DEF Expel
  <2>2. QED BY <2>1, DroppedType, Rotation
<1>4. ASSUME NEW r \in Requests, Logout(r)
      PROVE  Rotates
  <2> DEFINE rows == [sessions EXCEPT ![proc[r].token] = NoSession]
  <2>1. rows \in [Tokens -> Session] /\ \A t \in Tokens : rows[t] \in {sessions[t], NoSession}
    BY <1>1, NoSessionType
  <2>2. Issue(r, rows, None, 0)
    BY <1>4 DEF Logout
  <2> HIDE DEF rows
  <2>3. QED BY <2>1, <2>2, Rotation
<1>5. ASSUME NEW r \in Requests, FinishLogin(r)
      PROVE  Rotates
  <2>1. CASE Failed(r) \/ Rollback(r)
    BY <1>1, <2>1, <1>2 DEF Failed, Rollback
  <2>2. CASE /\ sessions[proc[r].token].there
             /\ Issue(r, [sessions EXCEPT ![proc[r].token] = NoSession], proc[r].name, proc[r].secret)
    <3> DEFINE t == proc[r].token
               rows == [sessions EXCEPT ![t] = NoSession]
    <3>1. t \in Tokens /\ proc[r].name \in Names
      BY <1>5, AtFinish DEF FinishLogin, At
    <3>2. rows \in [Tokens -> Session] /\ \A u \in Tokens : rows[u] \in {sessions[u], NoSession}
      BY <1>1, NoSessionType
    <3>3. sessions[t].there /\ rows[t] = NoSession
      BY <1>1, <2>2, <3>1
    <3>4. Issue(r, rows, proc[r].name, proc[r].secret)
      BY <2>2
    <3> HIDE DEF rows, t
    <3>5. QED BY <3>1, <3>2, <3>3, <3>4, Rotation
  <2>3. QED BY <1>5, <2>1, <2>2 DEF FinishLogin
<1>6. ASSUME NEW r \in Requests, FinishChange(r) \/ FinishReset(r)
      PROVE  Rotates
  BY <1>2, <1>6 DEF FinishChange, FinishReset, Revoking, Rollback, Failed
<1>7. ASSUME NEW r \in Requests, Revoke(r)
      PROVE  Rotates
  <2>1. CASE sessions' = Dropped(r)
    BY <1>1, <1>2, <2>1, DroppedType
  <2>2. CASE /\ proc[r].kind = "change"
             /\ Issue(r, Dropped(r), proc[r].name, proc[r].secret + 1)
    <3> DEFINE t == proc[r].token
               n == proc[r].name
    <3>1. t \in Tokens /\ n \in Names
      BY <1>7, <2>2, AtFinish DEF Revoke, At
    <3>2. sessionlock[t] = r
      BY <1>7, <2>2 DEF AccountsInv, SessionsAreHeld, RevokesItsOwn, Revoke, At
    <3>3. sessions[t].there /\ Dropped(r)[t] = NoSession
      BY <3>1, <3>2, DroppedType DEF AccountsInv, SessionsAreHeld, SessionIsHeld
    <3>4. QED BY <2>2, <3>1, <3>3, DroppedType, Rotation
  <2>3. QED BY <1>7, <2>1, <2>2 DEF Revoke
<1>8. ASSUME NEW t \in Tokens, Age(t)
      PROVE  Rotates
  <2>1. \A u \in Tokens : sessions'[u].user = sessions[u].user
    BY <1>1, <1>8 DEF Age, Session
  <2>2. QED BY <1>1, <2>1 DEF Rotates
<1>9. ASSUME NEW r \in Requests, NEW kind \in Kinds, NEW t \in Tokens \cup {0}, NEW n \in Names,
             Begin(r, kind, t, n)
      PROVE  Rotates
  BY <1>2, <1>9 DEF Begin
<1>10. ASSUME UNCHANGED sessions
       PROVE  Rotates
  BY <1>2, <1>10
<1>11. ASSUME NEW r \in Requests, Step(r)
       PROVE  Rotates
  <2>1. CASE \/ Bootstrap(r) \/ (\E t \in Tokens : Delete(r, t))
             \/ Open(r) \/ (\E k \in Keys : Purge(r, k)) \/ Insert(r) \/ Lock(r) \/ Unblock(r)
             \/ Miss(r) \/ Count(r) \/ User(r) \/ FinishRename(r) \/ Victim(r) \/ Abandon(r)
    BY <2>1, <1>10 DEF Bootstrap, Delete, Open, Purge, Insert, Lock, Unblock, Take, Miss, Count, User, FinishRename,
       Victim, Abandon, Rollback
  <2>2. QED BY <1>3, <1>4, <1>5, <1>6, <1>7, <1>11, <2>1 DEF Step
<1>12. QED
  BY <1>8, <1>9, <1>10, <1>11 DEF Next, Crash, Rollback, BeginReset, Provision, Disable, Expire

(* Of the requests that carry the same cookie, each replaces it at most     *)
(* once (login, change_password, issue).                                    *)
THEOREM CookiesAreRotatedOnce == Spec => RotatedOnce
<1>1. AccountsInv /\ [Next]_vars => [Rotates]_vars
  BY StepRotates
<1>2. [][Rotates]_vars <=> RotatedOnce
  BY PTL DEF Rotates, RotatedOnce
<1>3. QED BY <1>1, <1>2, AccountsInvariant, PTL DEF Spec
==============================================================================
