-------------------------- MODULE AccountsProperties --------------------------
(* What must be true of accounts, sessions and attempt windows. *)
EXTENDS Accounts

Account == [there : BOOLEAN, active : BOOLEAN, secret : 0..MaxSecret]
Session == [there : BOOLEAN, user : Names \cup {None}, under : 0..MaxSecret, stale : BOOLEAN]
Window  == [there : BOOLEAN, count : 0..Limit, expired : BOOLEAN]
Hold    == [by : Requests \cup {None},
            how : {"free", "purged", "inserted", "locked", "changed"}]
Running == [pc : {"idle", "issue", "logout", "open", "purge", "lock", "blocked", "missing",
                  "count", "user", "finish", "revoke", "expel"},
            kind : Kinds, name : Names \cup {None}, token : Tokens \cup {0},
            todo : SUBSET Keys, rows : SUBSET Tokens, count : 0..Limit, secret : 0..MaxSecret]

(* Every variable has its type. *)
TypeOK ==
  /\ users \in [Names -> Account]
  /\ sessions \in [Tokens -> Session]
  /\ windows \in [Keys -> Window]
  /\ held \in [Keys -> Hold]
  /\ userlock \in [Names -> Requests \cup {None}]
  /\ sessionlock \in [Tokens -> Requests \cup {None}]
  /\ proc \in [Requests -> Running]
  /\ answered \in [Keys -> 0..Limit]

(* No window ever answers more wrong guesses than the limit, however many   *)
(* requests try at once, and whatever is purged, rolled back or reset       *)
(* between them (lock_attempt, login, change_password).                     *)
AttemptsAreCounted ==
  \A k \in Keys :
    /\ answered[k] <= Limit
    /\ answered[k] <= IF windows[k].there THEN windows[k].count ELSE 0

(* A session of an account was always issued under its current password: a  *)
(* change or a reset leaves no session behind, not even one whose login had *)
(* verified the old password before it.                                     *)
SessionsAreCurrent ==
  \A t \in Tokens : sessions[t].there /\ sessions[t].user # None =>
    sessions[t].under = users[sessions[t].user].secret

(* An authenticated session only ever takes the place of one that ends in   *)
(* the same step: two logins or password changes that carry the same cookie *)
(* do not both succeed, though each was authenticated before.               *)
RotatedOnce ==
  [][\A t \in Tokens :
       sessions'[t].user # None /\ ~sessions[t].there =>
         \E u \in Tokens : sessions[u].there /\ ~sessions'[u].there]_vars

-----------------------------------------------------------------------------
(* Why they hold: the inductive invariant.  Who holds a row, and how.       *)
RowIsHeld(k) ==
  /\ held[k].by = None <=> held[k].how = "free"
  /\ held[k].how \in {"purged", "locked", "changed"} => windows[k].there
  /\ \A r \in Requests : held[k].by = r =>
       /\ proc[r].kind \in Purging
       /\ proc[r].pc \in {"purge", "lock", "blocked", "missing", "count", "user", "finish",
                          "revoke"}
       /\ IF k = Key(r) /\ ~At(r, "purge")
          THEN /\ held[k].how # "purged"
               /\ proc[r].pc \in {"lock", "count", "user", "finish", "revoke"}
               /\ At(r, "lock") => held[k].how = "inserted"
          ELSE held[k].how = "purged"
RowsAreHeld == \A k \in Keys : RowIsHeld(k)

(* Past lock_attempt a request holds its window and knows its count; it     *)
(* holds the user it read.                                                  *)
ReadIsStable(r) ==
  /\ At(r, "idle") => proc[r].kind = "session"
  /\ proc[r].kind \notin {"session", "reset"} => proc[r].token # 0
  /\ proc[r].pc \in {"open", "purge", "lock", "blocked", "missing", "count"} =>
       proc[r].kind \in Purging
  /\ ~At(r, "idle") /\ proc[r].kind \notin {"session", "logout"} => proc[r].name \in Names
  /\ proc[r].pc \in {"user", "finish"} => proc[r].kind \in Purging \cup {"rename"}
  /\ At(r, "revoke") => proc[r].kind \in {"change", "reset"}
  /\ proc[r].pc \in {"count", "user", "finish", "revoke"} /\ proc[r].kind \in Purging =>
       held[Key(r)].by = r /\ proc[r].count = Own(r).count
  /\ proc[r].pc \in {"user", "finish"} /\ proc[r].kind = "login" => proc[r].count < Limit
  /\ proc[r].pc \in {"finish", "revoke"} =>
       IF proc[r].secret = 0 THEN proc[r].kind = "login"
       ELSE userlock[proc[r].name] = r /\ proc[r].secret = users[proc[r].name].secret
  /\ \A n \in Names : userlock[n] = r =>
       proc[r].pc \in {"finish", "revoke"} /\ proc[r].name = n
ReadsAreStable == \A r \in Requests : ReadIsStable(r)

(* A session's row is held only by a DELETE under way, and there; the DELETE *)
(* that ends an account's sessions has locked or still has to lock each of  *)
(* them, and of others none.                                                *)
SessionIsHeld(t) ==
  \A r \in Requests : sessionlock[t] = r =>
    /\ sessions[t].there
    /\ proc[r].pc \in {"expel", "revoke"}
    /\ At(r, "revoke") => sessions[t].user = proc[r].name
RevokesItsOwn(r) ==
  At(r, "revoke") =>
    /\ \A t \in Tokens : sessions[t].user = proc[r].name => t \in proc[r].rows \/ sessionlock[t] = r
    /\ \A t \in proc[r].rows : sessions[t].there => sessions[t].user = proc[r].name
    /\ proc[r].kind = "change" => sessionlock[proc[r].token] = r
SessionsAreHeld == (\A t \in Tokens : SessionIsHeld(t)) /\ (\A r \in Requests : RevokesItsOwn(r))

(* Sessions and passwords belong to accounts that exist. *)
OwnersExist ==
  /\ \A n \in Names : users[n].there <=> users[n].secret # 0
  /\ \A n \in Names : users[n].active => users[n].there
  /\ \A t \in Tokens : ~sessions[t].there => sessions[t].user = None
  /\ \A t \in Tokens : sessions[t].user # None => users[sessions[t].user].there

(* Whoever waits for a window learns when it is removed, and a request that *)
(* still has windows to purge or its own to wait for knows they are there.  *)
WaiterIsTold(r) ==
  /\ \A k \in proc[r].todo : windows[k].there
  /\ At(r, "blocked") => windows[Key(r)].there
WaitersAreTold == \A r \in Requests : WaiterIsTold(r)

(* Requests past their insert never wait in a circle for windows that they  *)
(* purge from each other: at its insert a request found its own unpurged,   *)
(* and by then it had purged all it ever will.                              *)
PurgesAreOrdered ==
  \A circle \in SUBSET Requests :
    (\A q \in circle : /\ proc[q].pc \in {"lock", "blocked"}
                       /\ held[Key(q)].how = "purged" /\ held[Key(q)].by \in circle)
      => circle = {}

AccountsInv ==
  /\ TypeOK
  /\ RowsAreHeld
  /\ ReadsAreStable
  /\ WaitersAreTold
  /\ PurgesAreOrdered
  /\ SessionsAreHeld
  /\ OwnersExist
  /\ AttemptsAreCounted
  /\ SessionsAreCurrent
-----------------------------------------------------------------------------
(* Windows are locked before users and users before sessions.  Where these  *)
(* requests deadlock, it is over rows that one statement deletes in no      *)
(* order: the expired windows of all accounts, with a request that purges   *)
(* them among the deadlocked, or sessions, with a bootstrap among them that *)
(* deletes the expired ones.  Nobody who waits for a user is ever part of a *)
(* deadlock, and no deadlock reaches over two of the three tables.  (Of     *)
(* this package's transactions: what else locks a user is not looked at.)   *)
NoLockInversion ==
  \A c \in SUBSET Requests : Deadlock(c) =>
    \/ /\ \A q \in c : proc[q].pc \in {"purge", "blocked"}
       /\ \E q \in c : At(q, "purge")
    \/ /\ \A q \in c : proc[q].pc \in {"expel", "revoke"}
       /\ \E q \in c : At(q, "expel")

(* lock_attempt ends in .one(): the window it made sure of is there when it *)
(* locks it.                                                                *)
WindowIsFound == \A r \in Requests : ~At(r, "missing")
==============================================================================
