------------------------- MODULE EditorTabsProperties -------------------------
(* What must be true of tabs that edit one document over the network. *)
EXTENDS EditorTabs

(* A tab that lets its user edit holds the live lease, and the server will  *)
(* not end it earlier than the tab does: so no two tabs edit at once.  Left *)
(* out are a session that the server has ended, which the tab learns from   *)
(* its next request, and a generation the page itself asked to release when *)
(* it was hidden, and got back.                                             *)
EditingIsHeld ==
  \A t \in Tabs :
    CanEdit(t) /\ session[t].live /\ <<tab[t].gen, tab[t].loaded>> \notin tab[t].asked =>
      /\ lease.tab = t /\ lease.id = tab[t].gen /\ lease.login = session[t].n
      /\ lease.left >= tab[t].left

(* The revision a tab holds its lease for and names as the source of a save *)
(* is the one its draft was typed on, also when another tab has saved       *)
(* before a late answer; and every saved revision follows its source.  So   *)
(* no save undoes what another tab saved.                                   *)
NoLostUpdate ==
  /\ \A t \in Tabs : tab[t].loaded = tab[t].base
  /\ \A k \in Keys : attempts[k].source = attempts[k].base
  /\ \A n \in {v \in 2..Current : versions[v] # 0} : attempts[versions[n]].source = n - 1

(* A tab says "saved" of exactly that state of its draft which a revision   *)
(* holds, typed before the answer or after a timeout alike.                 *)
AcknowledgedIsSaved ==
  \A t \in Tabs : tab[t].acked # 0 =>
    LET a == attempts[versions[tab[t].base]] IN
    a.tab = t /\ a.kind = "save" /\ a.draft = tab[t].acked

(* An attempt that the server ended for the tab (its revision or its lease  *)
(* was lost, or it was aborted) is never stored afterwards by an earlier    *)
(* request with its key that was still on its way.                          *)
RefusedIsNotSaved ==
  \A k \in Keys :
    attempts[k].ended => ops[k] = "aborted" /\ \A n \in 1..Current : versions[n] # k

(* Only the end of its present session makes a tab ask its user to sign in, *)
(* never an answer to a request of an earlier one.                          *)
AskedOnlyWhenEnded ==
  \A t \in Tabs : tab[t].out => ~session[t].live
-----------------------------------------------------------------------------
(* Why the invariants above hold: the inductive invariant, in four layers.  *)

Says == {"", "active", "revision", "lease_lost", "lease_busy", "stored", "current",
         "stale", "authentication_required", "operation_in_progress",
         "operation_aborted", "upload_busy", "storage_unavailable"}
Message ==
  [tab : Tabs, act : Leasing \cup Calls \cup {"release"},
   at : {"server", "storing", "stored", "tab"}, login : Nat, id : Nat, source : Nat,
   left : 0..Life, key : Keys \cup {0}, saved : Nat, current : Nat, says : Says,
   awaited : BOOLEAN]

Lease ==
  [tab : Editors \cup {None}, login : Nat, id : Nat, source : Nat, left : 0..Life]
Attempt ==
  [tab : Tabs \cup {None}, kind : Kinds \cup {"save"}, id : Nat, source : Nat,
   draft : Nat, base : Nat, selected : Nat, ended : BOOLEAN]
Workspace ==
  [status : {"checking", "active", "paused", "outdated"}, loaded : Nat, base : Nat,
   gen : Nat, left : 0..Life, draft : Nat, acked : Nat, key : Keys \cup {0},
   conflict : BOOLEAN, out : BOOLEAN, asked : SUBSET (Nat \X Nat)]

(* Every variable has its type. *)
TypeOK ==
  /\ versions \in Seq(Keys \cup {0}) /\ Current >= 1
  /\ ops \in [Keys -> {"none", "running", "committed", "aborted"}]
  /\ lease \in Lease /\ issued \in Nat
  /\ session \in [Editors -> [n : Nat, live : BOOLEAN]]
  /\ tab \in [Tabs -> Workspace]
  /\ attempts \in [Keys -> Attempt]
  /\ net \subseteq Message
  /\ faults \in Nat

(* What is awaited was asked in the present session, while the user was in. *)
SessionsInv ==
  /\ \A m \in net :
       /\ m.login <= session[m.tab].n
       /\ m.awaited => m.login = session[m.tab].n /\ ~tab[m.tab].out
       /\ ~m.awaited => m.at \in {"server", "storing"}
       /\ m.at = "tab" /\ m.says = "authentication_required" => ~session[m.tab].live
  /\ \A t \in Tabs : tab[t].out =>
       ~session[t].live /\ tab[t].status = "checking" /\ tab[t].left = 0

(* One request at most stores under a key, and a key's end is for good.     *)
OperationsInv ==
  /\ \A m \in net :
       /\ m.act \in Calls => m.key \in Keys /\ attempts[m.key].tab = m.tab
       /\ m.at = "storing" => m.act \in Kinds /\ ops[m.key] = "running"
       /\ m.at = "stored" => m.act \in Kinds /\ ops[m.key] = "committed"
       /\ m.at = "tab" /\ m.act \in Kinds /\ m.says \in Denials => ops[m.key] = "aborted"
       /\ (m.at = "tab" /\ m.says = "stored") \/ m.act = "load" =>
            m.saved \in 1..Current /\ versions[m.saved] = m.key
  /\ \A m, o \in net : m.at = "storing" /\ o.at = "storing" /\ m.key = o.key => m = o
  /\ \A k \in Keys :
       /\ attempts[k].ended => ops[k] = "aborted"
       /\ ops[k] = "committed" => \E n \in 1..Current : versions[n] = k
  /\ \A n \in 1..Current : versions[n] # 0 =>
       /\ n >= 2 /\ ops[versions[n]] = "committed"
       /\ attempts[versions[n]].tab # None /\ attempts[versions[n]].source = n - 1

(* A tab waits for one answer about the key it retries with, and what it    *)
(* has loaded is what that key started from.                                *)
DraftsInv ==
  /\ \A t \in Tabs :
       /\ tab[t].loaded = tab[t].base /\ tab[t].loaded <= Current
       /\ tab[t].loaded = 0 =>
            tab[t].acked = 0 /\ tab[t].key = 0 /\ tab[t].status = "checking"
       /\ tab[t].key # 0 => /\ attempts[tab[t].key].tab = t
                            /\ attempts[tab[t].key].source = tab[t].loaded
       /\ tab[t].acked # 0 => versions[tab[t].base] # 0
  /\ AcknowledgedIsSaved
  /\ \A k \in Keys : attempts[k].source = attempts[k].base
  /\ \A m \in net : m.awaited /\ m.act \in Calls => m.key = tab[m.tab].key
  /\ \A m, o \in net : m.awaited /\ o.awaited /\ m.tab = o.tab
                         /\ m.act \in Calls /\ o.act \in Calls => m = o

Editing(t, g, l) == session[t].live /\ <<g, l>> \notin tab[t].asked
HeldBy(t, g, n) == /\ lease.tab = t /\ lease.id = g /\ lease.login = session[t].n
                   /\ lease.left >= n
Active(m) == m.at = "tab" /\ m.act \in Leasing /\ m.says = "active"

(* The lease is of the current revision and the last generation.  An answer *)
(* on its way is as good as its deadline; a generation that may still be    *)
(* released is one the tab has asked to release.                            *)
LeasesInv ==
  /\ lease.tab # None => lease.id = issued /\ lease.source = Current
  /\ \A t \in Tabs : tab[t].gen <= issued
  /\ \A m \in net : m.act \in Leasing /\ m.awaited =>
       /\ tab[m.tab].loaded # 0 /\ m.source = tab[m.tab].loaded
       /\ Active(m) => m.id <= issued
       /\ Active(m) /\ m.left > 0 /\ Editing(m.tab, m.id, m.source)
            => HeldBy(m.tab, m.id, m.left)
  /\ \A m \in net : m.act = "release" =>
       /\ m.id <= issued /\ m.source <= Current
       /\ tab[m.tab].loaded = 0 \/ m.source <= tab[m.tab].loaded
       /\ Valid(m) /\ m.id = issued /\ m.source = Current
            => <<m.id, m.source>> \in tab[m.tab].asked
  /\ \A m, o \in net : m.awaited /\ o.awaited /\ m.tab = o.tab
                         /\ m.act \in Leasing /\ o.act \in Leasing => m = o
  /\ \A m, o \in net : m.act = "release" /\ Active(o) /\ m.tab = o.tab => m.id <= o.id
  /\ EditingIsHeld

TabsInv == TypeOK /\ SessionsInv /\ OperationsInv /\ DraftsInv /\ LeasesInv
==============================================================================
