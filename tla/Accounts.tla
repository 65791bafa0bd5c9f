------------------------------- MODULE Accounts -------------------------------
(***************************************************************************)
(* Local accounts, opaque server sessions and the windows of failed        *)
(* attempts, all rows of PostgreSQL.  A request first authenticates with   *)
(* the token it carries (one transaction, read_session) and then runs one  *)
(* transaction of its own.  That transaction takes row locks in several    *)
(* statements, and other requests run between them: it purges expired      *)
(* windows, makes sure its own window exists, locks it, locks the user and *)
(* its session, deletes sessions one row after the other, and commits.     *)
(*                                                                         *)
(* A transaction that has only one more row to lock, and waits for nothing *)
(* after it, takes that lock and commits in one step, which waits for the  *)
(* row to be free.                                                         *)
(*                                                                         *)
(* What PostgreSQL does at READ COMMITTED is part of the model: a delete   *)
(* waits for a row another transaction holds; INSERT ... ON CONFLICT DO    *)
(* NOTHING waits for a row that is being inserted, changed or deleted but  *)
(* not for one that is only locked; SELECT ... FOR UPDATE that waited for  *)
(* a row which is then deleted finds none; and of transactions that wait   *)
(* for each other in a circle one is aborted.                              *)
(***************************************************************************)
EXTENDS Integers

CONSTANTS Names,       (* login names, of accounts that exist or may be made  *)
          Requests,    (* requests in progress, one transaction each          *)
          None,
          Limit,       (* failures of a window: 5 in the code                 *)
          MaxSecret,   (* passwords an account ever has                       *)
          MaxToken     (* session tokens in use at a time                     *)

Kinds   == {"session", "login", "logout", "rename", "change", "reset"}
Purging == {"login", "change", "reset"}
Tokens  == 1..MaxToken
Keys    == Names \X {"login", "change"}

ASSUME AccountsAssumptions ==
  /\ Limit \in Nat \ {0} /\ MaxSecret \in Nat \ {0} /\ MaxToken \in Nat \ {0}
  /\ None \notin Names /\ None \notin Requests

VARIABLES
  users,      (* users: which exist, whether active, the current password    *)
  sessions,   (* sessions: by token, whose, and whether idle or expired      *)
  windows,    (* login_attempts, as committed                                *)
  held,       (* the request that holds a window's row, and what it did      *)
  userlock,   (* the request that holds a user's row                         *)
  sessionlock,(* the request that holds a session's row                      *)
  proc,       (* every request: its statement and what its transaction read  *)
  answered    (* history: wrong guesses answered since a window was opened   *)

vars == <<users, sessions, windows, held, userlock, sessionlock, proc, answered>>

NoUser    == [there |-> FALSE, active |-> FALSE, secret |-> 0]
NoSession == [there |-> FALSE, user |-> None, under |-> 0, stale |-> FALSE]
NoWindow  == [there |-> FALSE, count |-> 0, expired |-> FALSE]
Free      == [by |-> None, how |-> "free"]
Resting   == [pc |-> "idle", kind |-> "session", name |-> None, token |-> 0,
              todo |-> {}, rows |-> {}, count |-> 0, secret |-> 0]

Init ==
  /\ users = [n \in Names |-> NoUser]
  /\ sessions = [t \in Tokens |-> NoSession]
  /\ windows = [k \in Keys |-> NoWindow]
  /\ held = [k \in Keys |-> Free]
  /\ userlock = [n \in Names |-> None]
  /\ sessionlock = [t \in Tokens |-> None]
  /\ proc = [r \in Requests |-> Resting]
  /\ answered = [k \in Keys |-> 0]

At(r, pc) == proc[r].pc = pc
Key(r)    == <<proc[r].name, IF proc[r].kind = "change" THEN "change" ELSE "login">>
Goto(r, pc) == proc' = [proc EXCEPT ![r].pc = pc]

(* A request ends; its locks go, and whoever waited for a window that is    *)
(* now removed finds no row: a delete goes on, a SELECT returns nothing.    *)
End(r, removed) ==
  /\ proc' = [q \in Requests |->
       IF q = r THEN Resting
       ELSE [proc[q] EXCEPT !.todo = @ \ removed,
               !.pc = IF @ = "blocked" /\ Key(q) \in removed THEN "missing" ELSE @]]
  /\ held' = [k \in Keys |-> IF held[k].by = r THEN Free ELSE held[k]]
  /\ userlock' = [n \in Names |-> IF userlock[n] = r THEN None ELSE userlock[n]]
  /\ sessionlock' = [t \in Tokens |-> IF sessionlock[t] = r THEN None ELSE sessionlock[t]]

Rollback(r) ==
  /\ End(r, {})
  /\ UNCHANGED <<users, sessions, windows, answered>>

(* The rows a transaction removes are those it purged and, when it          *)
(* succeeded, its own window; row is what its own window becomes.           *)
Purged(r) == {k \in Keys : held[k] = [by |-> r, how |-> "purged"]}
Renewed(r) == {k \in Keys : held[k].by = r /\ held[k].how = "inserted" /\ windows[k].there}
Commit(r, row) ==
  LET mine == IF held[Key(r)].by = r THEN {Key(r)} ELSE {} IN
  /\ windows' = [k \in Keys |-> IF k \in mine THEN row
                                ELSE IF k \in Purged(r) THEN NoWindow ELSE windows[k]]
  /\ End(r, Purged(r) \cup Renewed(r) \cup (IF row.there THEN {} ELSE mine))

Own(r) == IF held[Key(r)].how = "inserted"
          THEN [there |-> TRUE, count |-> 0, expired |-> FALSE] ELSE windows[Key(r)]
Since(r) == [k \in Keys |-> IF k \in Purged(r) \cup Renewed(r) THEN 0 ELSE answered[k]]
-----------------------------------------------------------------------------
(* Authentication, and the requests of one statement *)

(* issue: a fresh token.  The model reuses the numbers of tokens that are   *)
(* dead and that no other request carries or is about to delete: a dead     *)
(* token is like none.                                                      *)
Spare(r, rows) ==
  {t \in Tokens : /\ ~rows[t].there
                  /\ \A q \in Requests \ {r} : proc[q].token # t /\ t \notin proc[q].rows}
Issue(r, rows, user, under) ==
  \E t \in Spare(r, rows) :
    /\ \A u \in Spare(r, rows) : t <= u
    /\ sessions' = [rows EXCEPT ![t] =
         [there |-> TRUE, user |-> user, under |-> under, stale |-> FALSE]]

Live(t) ==
  /\ sessions[t].there /\ ~sessions[t].stale
  /\ sessions[t].user # None => users[sessions[t].user].active

(* read_session, within mutation_session and bootstrap: a dead session is   *)
(* deleted; a live one is used again.                                       *)
Begin(r, kind, t, n) ==
  /\ At(r, "idle") /\ kind # "reset"
  /\ t # 0 => sessionlock[t] = None
  /\ IF t # 0 /\ Live(t) /\ (kind \in {"rename", "change"} => sessions[t].user # None)
     THEN /\ kind # "session"
          /\ proc' = [proc EXCEPT ![r] = [Resting EXCEPT
               !.pc = CASE kind = "logout" -> "logout" [] kind = "rename" -> "user"
                        [] OTHER -> "open",
               !.kind = kind, !.token = t,
               !.name = IF kind \in {"rename", "change"} THEN sessions[t].user ELSE n]]
          /\ UNCHANGED sessions
     ELSE /\ sessions' = [u \in Tokens |->
               IF u = t /\ ~Live(u) THEN NoSession ELSE sessions[u]]
          /\ proc' = [proc EXCEPT ![r].pc = IF kind = "session" THEN "issue" ELSE @]
  /\ UNCHANGED <<users, windows, held, userlock, sessionlock, answered>>

(* A DELETE of several sessions locks those it has found one after another, *)
(* in no order; it waits for each that another transaction holds, and goes  *)
(* past the ones that are gone by then.                                     *)
Delete(r, t) ==
  /\ proc[r].pc \in {"expel", "revoke"} /\ t \in proc[r].rows
  /\ sessionlock[t] = None
  /\ sessionlock' = IF sessions[t].there THEN [sessionlock EXCEPT ![t] = r] ELSE sessionlock
  /\ proc' = [proc EXCEPT ![r].rows = @ \ {t}]
  /\ UNCHANGED <<users, sessions, windows, held, userlock, answered>>
Dropped(r) == [t \in Tokens |-> IF sessionlock[t] = r THEN NoSession ELSE sessions[t]]

(* The second transaction of bootstrap: of the stale sessions it finds      *)
(* those that have expired, deletes them and issues another.                *)
Bootstrap(r) ==
  /\ At(r, "issue")
  /\ \E expired \in SUBSET {t \in Tokens : sessions[t].stale} :
       proc' = [proc EXCEPT ![r].pc = "expel", ![r].rows = expired]
  /\ UNCHANGED <<users, sessions, windows, held, userlock, sessionlock, answered>>
Expel(r) ==
  /\ At(r, "expel") /\ proc[r].rows = {}
  /\ Issue(r, Dropped(r), None, 0)
  /\ End(r, {})
  /\ UNCHANGED <<users, windows, answered>>

Logout(r) ==
  /\ At(r, "logout") /\ sessionlock[proc[r].token] = None
  /\ Issue(r, [sessions EXCEPT ![proc[r].token] = NoSession], None, 0)
  /\ End(r, {})
  /\ UNCHANGED <<users, windows, answered>>

(* The operator's commands. *)
Provision(n) ==
  /\ ~users[n].there
  /\ users' = [users EXCEPT ![n] = [there |-> TRUE, active |-> TRUE, secret |-> 1]]
  /\ UNCHANGED <<sessions, windows, held, userlock, sessionlock, proc, answered>>
BeginReset(r, n) ==
  /\ At(r, "idle")
  /\ proc' = [proc EXCEPT ![r] = [Resting EXCEPT !.pc = "open", !.kind = "reset", !.name = n]]
  /\ UNCHANGED <<users, sessions, windows, held, userlock, sessionlock, answered>>
(* Nothing in the code disables an account: the database is edited. *)
Disable(n) ==
  /\ users[n].active /\ userlock[n] = None
  /\ users' = [users EXCEPT ![n].active = FALSE]
  /\ UNCHANGED <<sessions, windows, held, userlock, sessionlock, proc, answered>>
-----------------------------------------------------------------------------
(* lock_attempt: its three statements *)

OpenLocksUser(r) ==
  /\ At(r, "open")
  /\ proc[r].kind = "change" => userlock[proc[r].name] = None
  /\ userlock' = IF proc[r].kind = "change" THEN [userlock EXCEPT ![proc[r].name] = r] ELSE userlock
  /\ proc' = [proc EXCEPT ![r].pc = "purge",
                          ![r].todo = {k \in Keys : windows[k].there /\ windows[k].expired}]
  /\ UNCHANGED <<users, sessions, windows, held, sessionlock, answered>>
Open(r) ==
  /\ At(r, "open")
  /\ proc' = [proc EXCEPT ![r].pc = "purge",
                          ![r].todo = {k \in Keys : windows[k].there /\ windows[k].expired}]
  /\ UNCHANGED <<users, sessions, windows, held, userlock, sessionlock, answered>>

Purge(r, k) ==
  /\ At(r, "purge") /\ k \in proc[r].todo
  /\ held[k] = Free
  /\ held' = [held EXCEPT ![k] = [by |-> r, how |-> "purged"]]
  /\ proc' = [proc EXCEPT ![r].todo = @ \ {k}]
  /\ UNCHANGED <<users, sessions, windows, userlock, sessionlock, answered>>

Insert(r) ==
  LET k == Key(r) IN
  /\ At(r, "purge") /\ proc[r].todo = {}
  /\ held[k].by = r \/ held[k].how \in {"free", "locked"}
  /\ held' = IF held[k].by = r \/ ~windows[k].there
             THEN [held EXCEPT ![k] = [by |-> r, how |-> "inserted"]] ELSE held
  /\ Goto(r, "lock")
  /\ UNCHANGED <<users, sessions, windows, userlock, sessionlock, answered>>

Take(r) ==
  LET k == Key(r) IN
  /\ held' = IF held[k].by = r THEN held ELSE [held EXCEPT ![k] = [by |-> r, how |-> "locked"]]
  /\ proc' = [proc EXCEPT ![r].count = Own(r).count,
                          ![r].pc = IF proc[r].kind = "login" THEN "count" ELSE "user"]
  /\ UNCHANGED <<users, sessions, windows, userlock, sessionlock, answered>>
Lock(r) ==
  LET k == Key(r) IN
  /\ At(r, "lock")
  /\ IF held[k].by = r \/ (windows[k].there /\ held[k] = Free) THEN Take(r)
     ELSE /\ Goto(r, IF windows[k].there THEN "blocked" ELSE "missing")
          /\ UNCHANGED <<users, sessions, windows, held, userlock, sessionlock, answered>>
Unblock(r) == At(r, "blocked") /\ held[Key(r)] = Free /\ Take(r)

(* .one() raises NoResultFound; the transaction is rolled back. *)
Miss(r) == At(r, "missing") /\ Rollback(r)
-----------------------------------------------------------------------------
(* login, reset_password, update_preference, change_password *)

CountOffByOne(r) ==
  /\ At(r, "count")
  /\ IF proc[r].count > Limit
     THEN /\ Commit(r, Own(r)) /\ answered' = Since(r)
          /\ UNCHANGED <<users, sessions>>
     ELSE /\ Goto(r, "user")
          /\ held' = [held EXCEPT ![Key(r)].how = IF @ = "locked" THEN "changed" ELSE @]
          /\ UNCHANGED <<users, sessions, windows, userlock, sessionlock, answered>>
(* A login is refused, or counted before the password is looked at. *)
Count(r) ==
  /\ At(r, "count")
  /\ IF proc[r].count >= Limit
     THEN /\ Commit(r, Own(r)) /\ answered' = Since(r)
          /\ UNCHANGED <<users, sessions>>
     ELSE /\ Goto(r, "user")
          /\ held' = [held EXCEPT ![Key(r)].how = IF @ = "locked" THEN "changed" ELSE @]
          /\ UNCHANGED <<users, sessions, windows, userlock, sessionlock, answered>>

(* SELECT ... FOR UPDATE of the user; reset wants it to exist, active_user  *)
(* to be active.                                                            *)
Wanted(r) ==
  LET u == users[proc[r].name] IN
  CASE proc[r].kind = "reset" -> u.there
    [] proc[r].kind \in {"rename", "change"} -> u.active
    [] OTHER -> TRUE
UserUnlocked(r) ==
  LET n == proc[r].name IN
  /\ At(r, "user")
  /\ IF Wanted(r)
     THEN /\ proc' = [proc EXCEPT ![r].pc = "finish", ![r].secret = users[n].secret]
          /\ UNCHANGED <<users, sessions, windows, held, userlock, sessionlock, answered>>
     ELSE Rollback(r)
User(r) ==
  LET n == proc[r].name IN
  /\ At(r, "user") /\ userlock[n] = None
  /\ IF Wanted(r)
     THEN /\ proc' = [proc EXCEPT ![r].pc = "finish", ![r].secret = users[n].secret]
          /\ userlock' = IF users[n].there THEN [userlock EXCEPT ![n] = r] ELSE userlock
          /\ UNCHANGED <<users, sessions, windows, held, sessionlock, answered>>
     ELSE Rollback(r)

FailedRaises(r) ==
  /\ End(r, {})
  /\ answered' = [answered EXCEPT ![Key(r)] = @ + 1]
  /\ UNCHANGED <<users, sessions, windows>>
Failed(r) ==
  /\ Commit(r, [Own(r) EXCEPT !.count = @ + 1])
  /\ answered' = [Since(r) EXCEPT ![Key(r)] = @ + 1]
  /\ UNCHANGED <<users, sessions>>
Succeeded(r) ==
  /\ Commit(r, NoWindow)
  /\ answered' = [Since(r) EXCEPT ![Key(r)] = 0]

FinishLoginAnyway(r) ==
  LET n == proc[r].name
      t == proc[r].token IN
  /\ At(r, "finish") /\ proc[r].kind = "login"
  /\ \/ Failed(r)
     \/ /\ users[n].active /\ proc[r].secret # 0
        /\ Issue(r, [sessions EXCEPT ![t] = NoSession], n, proc[r].secret)
        /\ Succeeded(r)
        /\ UNCHANGED users
(* Whether the password is right is the client's choice.  A session that    *)
(* is only idle may still be exchanged, an expired one may not and is not   *)
(* waited for.                                                              *)
FinishLogin(r) ==
  LET n == proc[r].name
      t == proc[r].token
      known == users[n].active /\ proc[r].secret # 0 IN
  /\ At(r, "finish") /\ proc[r].kind = "login"
  /\ \/ Failed(r)
     \/ known /\ (sessions[t].there => sessions[t].stale) /\ Rollback(r)
     \/ /\ known /\ sessions[t].there /\ sessionlock[t] = None
        /\ Issue(r, [sessions EXCEPT ![t] = NoSession], n, proc[r].secret)
        /\ Succeeded(r)
        /\ UNCHANGED users

(* The statement that deletes every session of the user begins, with those  *)
(* that the request has locked already.                                     *)
Revoking(r, locked) ==
  LET n == proc[r].name IN
  /\ users[n].secret < MaxSecret
  /\ sessionlock' = [t \in Tokens |-> IF t \in locked THEN r ELSE sessionlock[t]]
  /\ proc' = [proc EXCEPT ![r].pc = "revoke",
                          ![r].rows = {t \in Tokens : sessions[t].user = n} \ locked]
  /\ UNCHANGED <<users, sessions, windows, held, userlock, answered>>
NewSecret(n) ==
  /\ users[n].secret < MaxSecret
  /\ users' = [users EXCEPT ![n].secret = @ + 1]

(* Every row is locked: the new password and, after a change, a new session *)
(* are committed.                                                           *)
Revoke(r) ==
  LET n == proc[r].name IN
  /\ At(r, "revoke") /\ proc[r].rows = {}
  /\ NewSecret(n)
  /\ IF proc[r].kind = "change" THEN Issue(r, Dropped(r), n, proc[r].secret + 1)
     ELSE sessions' = Dropped(r)
  /\ Succeeded(r)

FinishReset(r) == At(r, "finish") /\ proc[r].kind = "reset" /\ Revoking(r, {})

(* The second half of active_user waits for the session it wants.           *)
Fenced(r) ==
  LET s == sessions[proc[r].token] IN s.there /\ s.user = proc[r].name /\ ~s.stale
Locked(r) == Fenced(r) /\ sessionlock[proc[r].token] = None

FinishChange(r) ==
  /\ At(r, "finish") /\ proc[r].kind = "change"
  /\ \/ ~Fenced(r) /\ Rollback(r)
     \/ /\ Locked(r) /\ proc[r].count >= Limit
        /\ Commit(r, Own(r)) /\ answered' = Since(r)
        /\ UNCHANGED <<users, sessions>>
     \/ Locked(r) /\ proc[r].count < Limit /\ Failed(r)
     \/ Locked(r) /\ proc[r].count < Limit /\ Revoking(r, {proc[r].token})

(* Names and languages are not told apart here: only the locks are. *)
FinishRename(r) ==
  /\ At(r, "finish") /\ proc[r].kind = "rename"
  /\ Fenced(r) => Locked(r)
  /\ Rollback(r)
-----------------------------------------------------------------------------
(* Time, crashes and deadlocks *)

Expire(k) ==
  /\ windows[k].there /\ ~windows[k].expired
  /\ windows' = [windows EXCEPT ![k].expired = TRUE]
  /\ UNCHANGED <<users, sessions, held, userlock, sessionlock, proc, answered>>
Age(t) ==
  /\ sessions[t].there /\ ~sessions[t].stale
  /\ sessions' = [sessions EXCEPT ![t].stale = TRUE]
  /\ UNCHANGED <<users, windows, held, userlock, sessionlock, proc, answered>>

Crash(r) == ~At(r, "idle") /\ Rollback(r)

(* Where the bounds leave no token or password, a request is abandoned.     *)
Abandon(r) ==
  /\ \/ /\ proc[r].pc \in {"expel", "logout", "finish", "revoke"}
        /\ Spare(r, sessions) = {}
     \/ At(r, "finish") /\ users[proc[r].name].secret = MaxSecret
  /\ Rollback(r)

(* Whom a request that holds a row may have to wait for: read_session and   *)
(* logout wait as well, for the one row they lock, with none in hand.       *)
Waits(r) ==
  LET k == Key(r) IN
  (CASE At(r, "purge") /\ proc[r].todo # {} -> {held[j].by : j \in proc[r].todo}
     [] At(r, "purge") /\ held[k].how # "locked" -> {held[k].by}
     [] At(r, "blocked") -> {held[k].by}
     [] At(r, "user") -> {userlock[proc[r].name]}
     [] At(r, "finish") /\ proc[r].kind # "reset" -> {sessionlock[proc[r].token]}
     [] proc[r].pc \in {"expel", "revoke"} -> {sessionlock[t] : t \in proc[r].rows}
     [] OTHER -> {}) \ {None, r}
Stuck(r) ==
  /\ Waits(r) # {}
  /\ \A k \in proc[r].todo : held[k] # Free
  /\ \A t \in proc[r].rows : sessionlock[t] # None
(* A deadlock: requests that wait for each other, and none too many.        *)
Circle(c) == c # {} /\ \A q \in c : Stuck(q) /\ Waits(q) \cap c # {}
Deadlock(c) == Circle(c) /\ \A d \in SUBSET c : Circle(d) => d = c
Victim(r) == (\E c \in SUBSET Requests : r \in c /\ Deadlock(c)) /\ Rollback(r)
-----------------------------------------------------------------------------
Step(r) ==
  \/ Bootstrap(r) \/ Expel(r) \/ Logout(r) \/ (\E t \in Tokens : Delete(r, t)) \/ Revoke(r)
  \/ Open(r) \/ (\E k \in Keys : Purge(r, k)) \/ Insert(r) \/ Lock(r) \/ Unblock(r)
  \/ Miss(r) \/ Count(r) \/ User(r)
  \/ FinishLogin(r) \/ FinishReset(r) \/ FinishChange(r) \/ FinishRename(r)
  \/ Victim(r) \/ Abandon(r)

Next ==
  \/ \E r \in Requests :
       \/ \E kind \in Kinds, t \in Tokens \cup {0}, n \in Names :
            Begin(r, kind, t, n)
       \/ \E n \in Names : BeginReset(r, n)
       \/ Step(r)
       \/ Crash(r)
  \/ \E n \in Names : Provision(n) \/ Disable(n)
  \/ \E k \in Keys : Expire(k)
  \/ \E t \in Tokens : Age(t)

Spec == Init /\ [][Next]_vars
==============================================================================
