---------------------------- MODULE EditorTabsProofs ----------------------------
(***************************************************************************)
(* Proofs about the tabs that edit a document, for any tabs, rivals,       *)
(* lifetimes of leases and bounds: the inductive invariant of              *)
(* EditorTabsProperties, layer by layer, and the properties it implies.    *)
(*                                                                         *)
(* A step of a tab carries the messages over, giving some of them up, and  *)
(* sends at most one; a step of the server replaces one message by its     *)
(* answer.  What each layer needs of such a step is stated once (parts 4   *)
(* and 6), so that a step is proved by what it does to its own tab or      *)
(* lease.                                                                  *)
(***************************************************************************)
EXTENDS EditorTabsProperties, TLAPS

(* Part 1.  Messages.                                                       *)

Acts == Leasing \cup Calls \cup {"release"}

(* x is what is left of y: given up, aged or as it was.                     *)
Follows(x, y) ==
  /\ x.tab = y.tab /\ x.act = y.act /\ x.at = y.at /\ x.login = y.login
  /\ x.id = y.id /\ x.source = y.source /\ x.key = y.key /\ x.saved = y.saved
  /\ x.current = y.current /\ x.says = y.says
  /\ x.left <= y.left /\ (x.awaited => y.awaited)
  /\ x.awaited \/ ~y.awaited \/ x.at \in {"server", "storing"}

Dimmed(y, t, acts) ==
  IF y.tab = t /\ y.act \in acts THEN [y EXCEPT !.awaited = FALSE, !.left = 0] ELSE y

LEMMA LifeIs == Life \in Nat /\ 0 \in 0..Life /\ Life \in 0..Life /\ Life # 0
BY TabsAssumptions

LEMMA MessageShape ==
  ASSUME NEW m \in Message
  PROVE  /\ m.tab \in Tabs /\ m.act \in Acts /\ m.login \in Nat /\ m.id \in Nat
         /\ m.at \in {"server", "storing", "stored", "tab"}
         /\ m.source \in Nat /\ m.left \in 0..Life /\ m.key \in Keys \cup {0}
         /\ m.saved \in Nat /\ m.current \in Nat /\ m.says \in Says /\ m.awaited \in BOOLEAN
         /\ m.left \in Nat
BY LifeIs DEF Message, Acts

LEMMA FollowsItself == ASSUME NEW m \in Message PROVE Follows(m, m)
BY MessageShape DEF Follows

LEMMA IgnoreIs ==
  ASSUME NEW S, NEW t, NEW acts, NEW x \in Ignore(S, t, acts)
  PROVE  /\ x.awaited \/ (x.at \in {"server", "storing"} /\ x.act # "load")
         /\ \E y \in S : x = Dimmed(y, t, acts)
BY DEF Ignore, Dimmed

LEMMA DimmedFollows ==
  ASSUME NEW y \in Message, NEW t, NEW acts,
         LET x == Dimmed(y, t, acts) IN x.awaited \/ x.at \in {"server", "storing"}
  PROVE  /\ Dimmed(y, t, acts) \in Message
         /\ Follows(Dimmed(y, t, acts), y)
         /\ Dimmed(y, t, acts).awaited =>
              Dimmed(y, t, acts) = y /\ ~(y.tab = t /\ y.act \in acts)
<1>1. CASE y.tab = t /\ y.act \in acts
  <2> DEFINE x == [y EXCEPT !.awaited = FALSE, !.left = 0]
  <2>1. x \in Message
    BY LifeIs DEF Message
  <2>2. /\ x.tab = y.tab /\ x.act = y.act /\ x.at = y.at /\ x.login = y.login
        /\ x.id = y.id /\ x.source = y.source /\ x.key = y.key /\ x.saved = y.saved
        /\ x.current = y.current /\ x.says = y.says /\ x.left = 0 /\ x.awaited = FALSE
    BY DEF Message
  <2>3. Dimmed(y, t, acts) = x
    BY <1>1 DEF Dimmed
  <2>4. 0 <= y.left
    BY MessageShape
  <2>5. QED BY <2>1, <2>2, <2>3, <2>4 DEF Follows
<1>2. CASE ~(y.tab = t /\ y.act \in acts)
  BY <1>2, FollowsItself DEF Dimmed
<1>3. QED BY <1>1, <1>2

LEMMA Ignored ==
  ASSUME NEW S \in SUBSET Message, NEW t, NEW acts, NEW x \in Ignore(S, t, acts)
  PROVE  /\ x \in Message /\ (x.act = "load" => x.awaited)
         /\ \E y \in S : /\ Follows(x, y) /\ x = Dimmed(y, t, acts)
                         /\ x.awaited => x = y /\ ~(y.tab = t /\ y.act \in acts)
<1>1. PICK y \in S : x = Dimmed(y, t, acts)
  BY IgnoreIs
<1>2. x.awaited \/ (x.at \in {"server", "storing"} /\ x.act # "load")
  BY IgnoreIs
<1>3. QED BY <1>1, <1>2, DimmedFollows

LEMMA RequestShape ==
  ASSUME TypeOK, NEW t \in Tabs, NEW act \in Acts
  PROVE  Request(t, act) \in Message
<1>1. session[t].n \in Nat
  BY DEF TypeOK, Editors
<1>2. QED BY <1>1, LifeIs DEF Request, Message, Acts, Says

LEMMA TabShape ==
  ASSUME TypeOK, NEW t \in Tabs
  PROVE  /\ tab[t] \in Workspace
         /\ tab[t].status \in {"checking", "active", "paused", "outdated"}
         /\ tab[t].loaded \in Nat /\ tab[t].base \in Nat /\ tab[t].gen \in Nat
         /\ tab[t].left \in 0..Life /\ tab[t].left \in Nat /\ tab[t].draft \in Nat
         /\ tab[t].acked \in Nat /\ tab[t].key \in Keys \cup {0}
         /\ tab[t].out \in BOOLEAN /\ tab[t].asked \in SUBSET (Nat \X Nat)
         /\ session[t].n \in Nat /\ session[t].live \in BOOLEAN
<1>1. tab[t] \in Workspace /\ session[t] \in [n : Nat, live : BOOLEAN]
  BY DEF TypeOK, Editors
<1>2. QED BY <1>1, LifeIs DEF Workspace

LEMMA NetShape ==
  ASSUME TypeOK, NEW m \in net
  PROVE  /\ m \in Message
         /\ m.tab \in Tabs /\ m.act \in Acts /\ m.login \in Nat /\ m.id \in Nat
         /\ m.at \in {"server", "storing", "stored", "tab"}
         /\ m.source \in Nat /\ m.left \in 0..Life /\ m.key \in Keys \cup {0}
         /\ m.saved \in Nat /\ m.current \in Nat /\ m.says \in Says /\ m.awaited \in BOOLEAN
         /\ m.left \in Nat /\ 0 <= m.left
BY MessageShape DEF TypeOK

-----------------------------------------------------------------------------
(* Part 2.  Types.                                                          *)

LEMMA RelinquishIs ==
  ASSUME TypeOK, NEW S \in SUBSET Message, NEW t \in Tabs, NEW x \in Relinquish(S, t)
  PROVE  /\ x \in Message
         /\ \/ x \in Ignore(S, t, Leasing \cup {"release"})
            \/ /\ tab[t].gen # 0 /\ x.act = "release" /\ x.tab = t /\ x.at = "server"
               /\ x.id = tab[t].gen /\ x.source = tab[t].loaded /\ x.awaited
               /\ x.login = session[t].n /\ x.says = ""
<1>1. CASE x \in Ignore(S, t, Leasing \cup {"release"})
  BY <1>1, Ignored
<1>2. CASE /\ tab[t].gen # 0
           /\ x = [Request(t, "release") EXCEPT !.id = tab[t].gen, !.source = tab[t].loaded]
  <2> DEFINE r == Request(t, "release")
  <2>1. /\ r \in Message /\ r.act = "release" /\ r.tab = t /\ r.at = "server"
        /\ r.login = session[t].n /\ r.says = "" /\ r.awaited
    <3>1. "release" \in Acts
      BY DEF Acts
    <3>2. r \in Message
      BY <3>1, RequestShape
    <3>3. /\ r.act = "release" /\ r.tab = t
          /\ r.at = "server" /\ r.login = session[t].n /\ r.says = ""
      BY DEF Request
    <3>4. r.awaited
      BY DEF Request
    <3>5. QED BY <3>2, <3>3, <3>4
  <2>2. tab[t].gen \in Nat /\ tab[t].loaded \in Nat
    BY TabShape
  <2> HIDE DEF r
  <2>3. x = [r EXCEPT !.id = tab[t].gen, !.source = tab[t].loaded]
    BY <1>2 DEF r
  <2>4. QED BY <1>2, <2>1, <2>2, <2>3 DEF Message
<1>3. QED BY <1>1, <1>2 DEF Relinquish

LEMMA IgnoreTyped ==
  ASSUME NEW S \in SUBSET Message, NEW t, NEW acts
  PROVE  Ignore(S, t, acts) \subseteq Message
BY Ignored

LEMMA RelinquishTyped ==
  ASSUME TypeOK, NEW S \in SUBSET Message, NEW t \in Tabs
  PROVE  Relinquish(S, t) \subseteq Message
BY RelinquishIs

LEMMA PausedTyped ==
  ASSUME NEW s \in Workspace, NEW why
  PROVE  /\ Paused(s, why) \in Workspace /\ Paused(s, why).left = 0
         /\ Paused(s, why).status \in {"paused", "outdated"}
         /\ Paused(s, why).loaded = s.loaded /\ Paused(s, why).base = s.base
         /\ Paused(s, why).gen = s.gen /\ Paused(s, why).acked = s.acked
         /\ Paused(s, why).key = s.key /\ Paused(s, why).out = s.out
         /\ Paused(s, why).asked = s.asked /\ Paused(s, why).draft = s.draft
BY LifeIs DEF Paused, Workspace

LEMMA AskedTyped ==
  ASSUME TypeOK, NEW t \in Tabs
  PROVE  Asked(t) \in SUBSET (Nat \X Nat)
BY TabShape DEF Asked

LEMMA UnloadedTyped == Unloaded \in Workspace
BY LifeIs DEF Unloaded, Workspace

(* One tab changes.                                                         *)
LEMMA TabTyped ==
  ASSUME TypeOK, NEW t \in Tabs, NEW w \in Workspace, tab' = [tab EXCEPT ![t] = w]
  PROVE  /\ tab' \in [Tabs -> Workspace] /\ tab'[t] = w
         /\ \A u \in Tabs : u # t => tab'[u] = tab[u]
BY DEF TypeOK

LEMMA RerunTyped ==
  ASSUME TypeOK, NEW t \in Tabs, NEW w \in Workspace, NEW S \in SUBSET Message,
         Rerun(t, w, S)
  PROVE  /\ tab' \in [Tabs -> Workspace] /\ net' \subseteq Message
         /\ tab'[t].status = "checking" /\ tab'[t].gen = 0 /\ tab'[t].left = 0
         /\ tab'[t].asked = Asked(t) /\ tab'[t].loaded = w.loaded
         /\ tab'[t].base = w.base /\ tab'[t].acked = w.acked /\ tab'[t].key = w.key
         /\ tab'[t].out = w.out
         /\ \A u \in Tabs : u # t => tab'[u] = tab[u]
<1> DEFINE v == [w EXCEPT !.status = "checking", !.gen = 0, !.left = 0, !.asked = Asked(t)]
<1>1. /\ v \in Workspace /\ v.status = "checking" /\ v.gen = 0 /\ v.left = 0
      /\ v.asked = Asked(t) /\ v.loaded = w.loaded /\ v.base = w.base
      /\ v.acked = w.acked /\ v.key = w.key /\ v.out = w.out
  BY AskedTyped, LifeIs DEF Workspace
<1>2. tab' = [tab EXCEPT ![t] = v]
  BY DEF Rerun
<1>3. net' \subseteq Message
  BY RelinquishTyped DEF Rerun
<1>4. QED BY <1>1, <1>2, <1>3, TabTyped

LEMMA SignedOutTyped ==
  ASSUME TypeOK, NEW t \in Tabs, NEW w \in Workspace, SignedOut(t, w)
  PROVE  /\ tab' \in [Tabs -> Workspace] /\ net' \subseteq Message
         /\ tab'[t].status = "checking" /\ tab'[t].gen = 0 /\ tab'[t].left = 0
         /\ tab'[t].asked = w.asked /\ tab'[t].loaded = w.loaded
         /\ tab'[t].base = w.base /\ tab'[t].acked = w.acked /\ tab'[t].key = w.key
         /\ tab'[t].out = TRUE
         /\ \A u \in Tabs : u # t => tab'[u] = tab[u]
<1> DEFINE v == [w EXCEPT !.out = TRUE, !.status = "checking", !.gen = 0, !.left = 0]
<1>1. /\ v \in Workspace /\ v.status = "checking" /\ v.gen = 0 /\ v.left = 0
      /\ v.asked = w.asked /\ v.loaded = w.loaded /\ v.base = w.base
      /\ v.acked = w.acked /\ v.key = w.key /\ v.out = TRUE
  BY LifeIs DEF Workspace
<1>2. tab' = [tab EXCEPT ![t] = v]
  BY DEF SignedOut
<1>3. net' \subseteq Message
  BY IgnoreTyped DEF SignedOut, TypeOK
<1>4. QED BY <1>1, <1>2, <1>3, TabTyped

(* The other variables, where they change.                                  *)
LEMMA RestTyped ==
  ASSUME TypeOK, tab' \in [Tabs -> Workspace], net' \subseteq Message,
         UNCHANGED <<server, session, attempts>>, faults' \in Nat
  PROVE  TypeOK'
BY DEF TypeOK, server, Current

LEMMA FaultTyped == ASSUME TypeOK, Fault PROVE faults' \in Nat
BY DEF TypeOK, Fault

(* A message of the server: m is answered by n, or nobody waits for it.     *)
Responds(m, n) ==
  /\ n.tab = m.tab /\ n.act = m.act /\ n.login = m.login /\ n.source = m.source
  /\ n.left = m.left /\ n.key = m.key /\ (n.awaited <=> m.awaited)
ServerNet(m) ==
  \A x \in net' :
    x \in net \ {m} \/ (Responds(m, x) /\ x.awaited /\ x.at \in {"stored", "tab"})

Said(m, what, i, s, c) == [m EXCEPT !.says = what, !.id = i, !.saved = s, !.current = c]

LEMMA AnswerIs ==
  ASSUME TypeOK, NEW m \in net, NEW what \in Says, NEW i \in Nat, NEW s \in Nat, NEW c \in Nat,
         Answer(m, Said(m, what, i, s, c)),
         NEW x \in net', x \notin net \ {m}
  PROVE  /\ x \in Message /\ Responds(m, x) /\ x.awaited /\ x.at = "tab" /\ x.says = what
         /\ x.id = i /\ x.saved = s /\ x.current = c
<1>1. m \in Message
  BY DEF TypeOK
<1>2. m.awaited /\ x = [[m EXCEPT !.says = what, !.id = i, !.saved = s, !.current = c]
                          EXCEPT !.at = "tab"]
  BY DEF Answer, Said
<1>3. x = [m EXCEPT !.says = what, !.id = i, !.saved = s, !.current = c, !.at = "tab"]
  BY <1>1, <1>2 DEF Message
<1>4. x \in Message
  BY <1>1, <1>3 DEF Message
<1>5. /\ x.tab = m.tab /\ x.act = m.act /\ x.login = m.login /\ x.source = m.source
      /\ x.left = m.left /\ x.key = m.key /\ x.awaited = m.awaited
      /\ x.at = "tab" /\ x.says = what /\ x.id = i /\ x.saved = s /\ x.current = c
  BY <1>1, <1>3 DEF Message
<1>6. QED BY <1>2, <1>4, <1>5 DEF Responds

LEMMA SayIs ==
  ASSUME TypeOK, NEW m \in net, NEW what \in Says, Say(m, what),
         NEW x \in net', x \notin net \ {m}
  PROVE  /\ x \in Message /\ Responds(m, x) /\ x.awaited /\ x.at = "tab" /\ x.says = what
         /\ x.id = m.id /\ x.saved = m.saved /\ x.current = m.current
<1>1. m \in Message /\ m.id \in Nat /\ m.saved \in Nat /\ m.current \in Nat
  BY NetShape
<1>2. [m EXCEPT !.says = what] = Said(m, what, m.id, m.saved, m.current)
  BY <1>1 DEF Message, Said
<1>3. Answer(m, Said(m, what, m.id, m.saved, m.current))
  BY <1>2 DEF Say
<1>4. QED BY <1>1, <1>3, AnswerIs

LEMMA StoredIs ==
  ASSUME TypeOK, NEW m \in net, Stored(m), NEW x \in net', x \notin net \ {m}
  PROVE  /\ x \in Message /\ Responds(m, x) /\ x.awaited /\ x.at = "stored"
         /\ x.says = m.says /\ x.id = m.id /\ x.saved = m.saved /\ x.current = m.current
<1>1. m \in Message
  BY DEF TypeOK
<1>2. m.awaited /\ x = [m EXCEPT !.at = "stored"]
  BY DEF Stored
<1>3. x \in Message
  BY <1>1, <1>2 DEF Message
<1>4. /\ x.tab = m.tab /\ x.act = m.act /\ x.login = m.login /\ x.source = m.source
      /\ x.left = m.left /\ x.key = m.key /\ x.awaited = m.awaited
      /\ x.at = "stored" /\ x.says = m.says /\ x.id = m.id /\ x.saved = m.saved
      /\ x.current = m.current
  BY <1>1, <1>2 DEF Message
<1>5. QED BY <1>2, <1>3, <1>4 DEF Responds

LEMMA StoringIs ==
  ASSUME TypeOK, NEW m \in net, NEW x, x = [m EXCEPT !.at = "storing"]
  PROVE  /\ x \in Message /\ Responds(m, x) /\ x.at = "storing"
         /\ x.says = m.says /\ x.id = m.id /\ x.saved = m.saved /\ x.current = m.current
<1>1. m \in Message
  BY DEF TypeOK
<1>2. x \in Message
  BY <1>1 DEF Message
<1>3. /\ x.tab = m.tab /\ x.act = m.act /\ x.login = m.login /\ x.source = m.source
      /\ x.left = m.left /\ x.key = m.key /\ x.awaited = m.awaited
      /\ x.at = "storing" /\ x.says = m.says /\ x.id = m.id /\ x.saved = m.saved
      /\ x.current = m.current
  BY <1>1 DEF Message
<1>4. QED BY <1>2, <1>3 DEF Responds

(* Keys of what the server stores are keys; which the layers below show.    *)
LEMMA AnsweredTyped ==
  ASSUME TypeOK, NEW m \in net,
         \A x \in net' : x \in net \ {m} \/ x \in Message
  PROVE  net' \subseteq Message
BY DEF TypeOK

LEMMA KeyShape ==
  ASSUME TypeOK, OperationsInv, NEW m \in net, m.act \in Calls
  PROVE  /\ m.key \in Keys /\ attempts[m.key] \in Attempt /\ attempts[m.key].tab = m.tab
         /\ attempts[m.key].draft \in Nat /\ attempts[m.key].source \in Nat
         /\ attempts[m.key].id \in Nat
<1>1. m.key \in Keys /\ attempts[m.key].tab = m.tab
  BY DEF OperationsInv
<1>2. attempts[m.key] \in Attempt
  BY <1>1 DEF TypeOK
<1>3. QED BY <1>1, <1>2 DEF Attempt

LEMMA CurrentShape == ASSUME TypeOK PROVE Current \in Nat /\ Current >= 1
BY DEF TypeOK, Current

LEMMA KindsAre == Kinds \subseteq Calls /\ "load" \in Calls /\ "load" \notin Kinds
                  /\ Calls \subseteq Acts /\ Leasing \subseteq Acts /\ "release" \in Acts
                  /\ Calls \cap Leasing = {} /\ "release" \notin Calls \cup Leasing
BY TabsAssumptions DEF Calls, Acts, Leasing

(* What Acquire, Retry and Renew send.                                      *)
LeaseRequest(t, x) ==
  /\ x \in Message /\ x.tab = t /\ x.act \in Leasing /\ x.at = "server" /\ x.says = ""
  /\ x.login = session[t].n /\ x.source = tab[t].loaded /\ x.awaited
LEMMA LeaseRequests ==
  ASSUME TypeOK, NEW t \in Tabs, Acquire(t) \/ Retry(t) \/ Renew(t)
  PROVE  \E x : LeaseRequest(t, x) /\ net' = net \cup {x}
<1>1. /\ tab[t].loaded \in Nat /\ tab[t].gen \in Nat /\ Life \in 0..Life
      /\ "acquire" \in Acts /\ "renew" \in Acts
      /\ "acquire" \in Leasing /\ "renew" \in Leasing
  BY TabShape, LifeIs DEF Acts, Leasing
<1>2. CASE net' = net \cup {[Request(t, "acquire") EXCEPT !.source = tab[t].loaded,
                                                         !.left = Life]}
  <2>1. PICK r : r = Request(t, "acquire")
    OBVIOUS
  <2> DEFINE x == [r EXCEPT !.source = tab[t].loaded, !.left = Life]
  <2>2. /\ r \in Message /\ r.tab = t /\ r.act = "acquire" /\ r.at = "server"
        /\ r.login = session[t].n /\ r.says = ""
    <3>1. r \in Message
      BY <1>1, <2>1, RequestShape
    <3>2. /\ r.tab = t /\ r.act = "acquire"
          /\ r.at = "server" /\ r.login = session[t].n /\ r.says = ""
      BY <2>1 DEF Request
    <3>3. QED BY <3>1, <3>2
  <2>a. r.awaited
    BY <2>1 DEF Request
  <2>3. /\ x \in Message /\ x.tab = t /\ x.act = "acquire" /\ x.at = "server"
        /\ x.says = "" /\ x.login = session[t].n /\ x.source = tab[t].loaded
    BY <1>1, <2>2 DEF Message
  <2>b. x.awaited
    BY <2>a, <2>2 DEF Message
  <2>4. LeaseRequest(t, x)
    BY <1>1, <2>3, <2>b DEF LeaseRequest
  <2>5. net' = net \cup {x}
    BY <1>2, <2>1
  <2>6. QED BY <2>4, <2>5
<1>3. CASE net' = net \cup {[Request(t, "renew") EXCEPT !.source = tab[t].loaded,
                                                       !.id = tab[t].gen, !.left = Life]}
  <2>1. PICK r : r = Request(t, "renew")
    OBVIOUS
  <2> DEFINE x == [r EXCEPT !.source = tab[t].loaded, !.id = tab[t].gen, !.left = Life]
  <2>2. /\ r \in Message /\ r.tab = t /\ r.act = "renew" /\ r.at = "server"
        /\ r.login = session[t].n /\ r.says = ""
    <3>1. r \in Message
      BY <1>1, <2>1, RequestShape
    <3>2. /\ r.tab = t /\ r.act = "renew"
          /\ r.at = "server" /\ r.login = session[t].n /\ r.says = ""
      BY <2>1 DEF Request
    <3>3. QED BY <3>1, <3>2
  <2>a. r.awaited
    BY <2>1 DEF Request
  <2>3. /\ x \in Message /\ x.tab = t /\ x.act = "renew" /\ x.at = "server"
        /\ x.says = "" /\ x.login = session[t].n /\ x.source = tab[t].loaded
    BY <1>1, <2>2 DEF Message
  <2>b. x.awaited
    BY <2>a, <2>2 DEF Message
  <2>4. LeaseRequest(t, x)
    BY <1>1, <2>3, <2>b DEF LeaseRequest
  <2>5. net' = net \cup {x}
    BY <1>3, <2>1
  <2>6. QED BY <2>4, <2>5
<1>4. QED BY <1>2, <1>3 DEF Acquire, Retry, Renew

(* What Save and Restore send.                                              *)
OpRequest(t, x) ==
  /\ x \in Message /\ x.tab = t /\ x.act \in Kinds /\ x.at = "server" /\ x.says = ""
  /\ x.login = session[t].n /\ x.awaited
Snapshot(t, kind, n) ==
  [tab |-> t, kind |-> kind, id |-> tab[t].gen, source |-> tab[t].loaded,
   draft |-> tab[t].draft, base |-> tab[t].base, selected |-> n, ended |-> FALSE]
FirstTry(t, k, kind, n) ==
  /\ tab[t].key = 0 /\ CanEdit(t) /\ attempts[k].tab = None
  /\ attempts' = [attempts EXCEPT ![k] = Snapshot(t, kind, n)]
  /\ tab' = [tab EXCEPT ![t].key = k]
TryAgain(t, k) == k = tab[t].key /\ k # 0 /\ UNCHANGED <<attempts, tab>>

LEMMA OpRequests ==
  ASSUME TypeOK, NEW t \in Tabs, Save(t) \/ Restore(t)
  PROVE  \E k \in Keys, kind \in Kinds, n \in Nat, x \in Message :
           /\ FirstTry(t, k, kind, n) \/ TryAgain(t, k)
           /\ OpRequest(t, x) /\ x.key = k /\ net' = net \cup {x}
<1>1. PICK kind \in Kinds, n \in Nat : Try(t, kind, n)
  <2>1. "save" \in Kinds
    BY TabsAssumptions
  <2>2. CASE Save(t)
    BY <2>1, <2>2 DEF Save
  <2>3. CASE Restore(t)
    <3>1. PICK n \in 1..(tab[t].loaded - 1) : Try(t, "restore", n) /\ "restore" \in Kinds
      BY <2>3 DEF Restore
    <3>2. n \in Nat
      BY TabShape
    <3>3. QED BY <3>1, <3>2
  <2>4. QED BY <2>2, <2>3
<1>2. PICK k \in Keys : /\ FirstTry(t, k, kind, n) \/ TryAgain(t, k)
                       /\ attempts'[k].kind = kind /\ Send(t, k)
  <2>1. CASE Pending(t)
    <3>1. tab[t].key \in Keys /\ tab[t].key # 0
      BY <2>1, TabShape DEF Pending
    <3>2. attempts[tab[t].key].kind = kind /\ attempts' = attempts /\ tab' = tab
          /\ Send(t, tab[t].key)
      BY <1>1, <2>1 DEF Try
    <3>3. QED BY <3>1, <3>2 DEF TryAgain
  <2>2. CASE ~Pending(t)
    <3>1. PICK k \in Keys : /\ attempts[k].tab = None /\ CanEdit(t)
                           /\ attempts' = [attempts EXCEPT ![k] = Snapshot(t, kind, n)]
                           /\ tab' = [tab EXCEPT ![t].key = k] /\ Send(t, k)
      BY <1>1, <2>2 DEF Try, Snapshot
    <3>2. attempts'[k].kind = kind
      BY <3>1 DEF TypeOK, Snapshot
    <3>3. tab[t].key = 0
      BY <2>2 DEF Pending
    <3>4. QED BY <3>1, <3>2, <3>3 DEF FirstTry
  <2>3. QED BY <2>1, <2>2
<1>3. kind \in Acts
  BY KindsAre
<1>4. PICK r : r = Request(t, kind)
  OBVIOUS
<1> DEFINE x == [r EXCEPT !.key = k]
<1>5. /\ r \in Message /\ r.tab = t /\ r.act = kind /\ r.at = "server"
      /\ r.login = session[t].n /\ r.says = ""
  <2>1. r \in Message
    BY <1>3, <1>4, RequestShape
  <2>2. /\ r.tab = t /\ r.act = kind
        /\ r.at = "server" /\ r.login = session[t].n /\ r.says = ""
    BY <1>4 DEF Request
  <2>3. QED BY <2>1, <2>2
<1>6. r.awaited
  BY <1>4 DEF Request
<1>7. /\ x \in Message /\ x.tab = t /\ x.act = kind /\ x.at = "server"
      /\ x.says = "" /\ x.login = session[t].n /\ x.key = k
  BY <1>5 DEF Message
<1>8. x.awaited
  BY <1>5, <1>6 DEF Message
<1>9. OpRequest(t, x)
  BY <1>7, <1>8 DEF OpRequest
<1>10. net' = net \cup {x}
  BY <1>2, <1>4 DEF Send
<1> HIDE DEF x
<1>11. QED BY <1>2, <1>7, <1>9, <1>10

LEMMA ClosedTyped ==
  ASSUME NEW s \in Workspace, NEW b \in BOOLEAN, NEW w,
         w = [s EXCEPT !.key = 0, !.conflict = b]
  PROVE  /\ w \in Workspace /\ w.key = 0 /\ w.status = s.status /\ w.left = s.left
         /\ w.loaded = s.loaded /\ w.base = s.base /\ w.gen = s.gen /\ w.acked = s.acked
         /\ w.out = s.out /\ w.asked = s.asked
BY DEF Workspace

LEMMA EndTyped ==
  ASSUME TypeOK, NEW k \in Keys, End(k)
  PROVE  /\ attempts' \in [Keys -> Attempt]
         /\ \A j \in Keys : j # k => attempts'[j] = attempts[j]
         /\ attempts'[k] = [attempts[k] EXCEPT !.ended = TRUE]
<1>1. attempts[k] \in Attempt
  BY DEF TypeOK
<1>2. [attempts[k] EXCEPT !.ended = TRUE] \in Attempt
  BY <1>1 DEF Attempt
<1>3. attempts' = [attempts EXCEPT ![k] = [attempts[k] EXCEPT !.ended = TRUE]]
  BY DEF End, TypeOK
<1>4. QED BY <1>2, <1>3 DEF TypeOK

LEMMA SessionTyped ==
  ASSUME TypeOK, NEW t \in Tabs, EndSession(t) \/ SignIn(t)
  PROVE  /\ session' \in [Editors -> [n : Nat, live : BOOLEAN]]
         /\ \A e \in Editors : e # t => session'[e] = session[e]
         /\ \/ SignIn(t) /\ session'[t].n = session[t].n + 1 /\ session'[t].live
            \/ EndSession(t) /\ session'[t].n = session[t].n /\ ~session'[t].live
<1>1. t \in Editors /\ session[t] \in [n : Nat, live : BOOLEAN] /\ session[t].n \in Nat
  BY TabShape DEF Editors, TypeOK
<1>2. CASE EndSession(t)
  <2> DEFINE s == [session[t] EXCEPT !.live = FALSE]
  <2>1. s \in [n : Nat, live : BOOLEAN] /\ s.n = session[t].n /\ ~s.live
    BY <1>1
  <2>2. session' = [session EXCEPT ![t] = s]
    BY <1>1, <1>2 DEF EndSession, TypeOK
  <2> HIDE DEF s
  <2>4. QED BY <1>1, <1>2, <2>1, <2>2 DEF TypeOK
<1>3. CASE SignIn(t)
  BY <1>1, <1>3 DEF SignIn, TypeOK
<1>4. QED BY <1>2, <1>3

LEMMA ValidIs ==
  ASSUME TypeOK, NEW m \in Message
  PROVE  Valid(m) <=> session[m.tab].n = m.login /\ session[m.tab].live
<1>1. session[m.tab] \in [n : Nat, live : BOOLEAN] /\ m.login \in Nat
  BY MessageShape DEF TypeOK, Editors
<1>2. CASE session[m.tab].n = m.login /\ session[m.tab].live
  <2>1. session[m.tab] = [n |-> session[m.tab].n, live |-> session[m.tab].live]
    BY <1>1
  <2>2. QED BY <1>1, <1>2, <2>1 DEF Valid
<1>3. CASE Valid(m)
  BY <1>1, <1>3 DEF Valid
<1>4. QED BY <1>2, <1>3

LEMMA NewAttemptTyped ==
  ASSUME TypeOK, NEW t \in Tabs, NEW k \in Keys, NEW kind \in Kinds, NEW n \in Nat,
         FirstTry(t, k, kind, n)
  PROVE  /\ attempts' \in [Keys -> Attempt] /\ tab' \in [Tabs -> Workspace]
         /\ attempts'[k] = Snapshot(t, kind, n)
         /\ \A j \in Keys : j # k => attempts'[j] = attempts[j]
         /\ tab'[t] = [tab[t] EXCEPT !.key = k]
         /\ \A u \in Tabs : u # t => tab'[u] = tab[u]
<1>1. Snapshot(t, kind, n) \in Attempt
  BY TabShape DEF Snapshot, Attempt
<1>2. attempts' \in [Keys -> Attempt] /\ attempts'[k] = Snapshot(t, kind, n)
      /\ \A j \in Keys : j # k => attempts'[j] = attempts[j]
  BY <1>1 DEF TypeOK, FirstTry
<1>3. [tab[t] EXCEPT !.key = k] \in Workspace
  BY TabShape DEF Workspace
<1>4. tab' = [tab EXCEPT ![t] = [tab[t] EXCEPT !.key = k]]
  BY DEF FirstTry, TypeOK
<1>5. QED BY <1>2, <1>3, <1>4, TabTyped

(* What a tab knows once it is told it holds its lease.                     *)
Activated(s, m) ==
  [s EXCEPT !.status = "active", !.gen = m.id, !.left = m.left,
            !.asked = @ \cap {<<m.id, s.loaded>>}]
LEMMA ActiveTyped ==
  ASSUME TypeOK, NEW m \in net, NEW s \in Workspace, NEW w, w = Activated(s, m)
  PROVE  /\ w \in Workspace /\ w.status = "active" /\ w.gen = m.id /\ w.left = m.left
         /\ w.loaded = s.loaded /\ w.base = s.base /\ w.acked = s.acked /\ w.key = s.key
         /\ w.out = s.out /\ w.asked = s.asked \cap {<<m.id, s.loaded>>}
<1>1. m.id \in Nat /\ m.left \in 0..Life
  BY NetShape
<1>2. s.asked \cap {<<m.id, s.loaded>>} \in SUBSET (Nat \X Nat)
  BY DEF Workspace
<1>3. QED BY <1>1, <1>2 DEF Activated, Workspace

LEMMA TabStepTyped ==
  ASSUME TypeOK, NEW t \in Tabs,
         \/ Acquire(t) \/ Retry(t) \/ Renew(t) \/ Leave(t) \/ Load(t) \/ Edit(t)
         \/ Save(t) \/ Restore(t) \/ Reopen(t) \/ EndSession(t) \/ SignIn(t)
  PROVE  TypeOK'
<1>s. tab[t] \in Workspace /\ tab \in [Tabs -> Workspace] /\ net \subseteq Message
      /\ faults \in Nat
  BY TabShape DEF TypeOK
<1>1. CASE Acquire(t) \/ Retry(t) \/ Renew(t)
  <2>1. PICK x : LeaseRequest(t, x) /\ net' = net \cup {x}
    BY <1>1, LeaseRequests
  <2>2. net' \subseteq Message
    BY <1>s, <2>1 DEF LeaseRequest
  <2>3. tab' \in [Tabs -> Workspace]
    BY <1>1, <1>s DEF Acquire, Retry, Renew, Workspace
  <2>4. UNCHANGED <<server, session, attempts>> /\ faults' \in Nat
    BY <1>1, <1>s DEF Acquire, Retry, Renew
  <2>5. QED BY <2>2, <2>3, <2>4, RestTyped
<1>2. CASE Leave(t)
  <2>1. [Paused(tab[t], "lease_lost") EXCEPT !.asked = Asked(t)] \in Workspace
    BY <1>s, PausedTyped, AskedTyped DEF Workspace
  <2>2. tab' \in [Tabs -> Workspace] /\ net' \subseteq Message
    BY <1>2, <1>s, <2>1, TabTyped, RelinquishTyped DEF Leave
  <2>3. UNCHANGED <<server, session, attempts>> /\ faults' \in Nat
    BY <1>2, FaultTyped DEF Leave
  <2>4. QED BY <2>2, <2>3, RestTyped
<1>3. CASE Load(t) \/ Edit(t)
  <2>1. tab' \in [Tabs -> Workspace]
    BY <1>3, <1>s, CurrentShape DEF Load, Edit, Workspace
  <2>2. UNCHANGED <<server, session, attempts>> /\ faults' \in Nat /\ net' = net
    BY <1>3, <1>s DEF Load, Edit
  <2>3. QED BY <1>s, <2>1, <2>2, RestTyped
<1>4. CASE Save(t) \/ Restore(t)
  <2>1. PICK k \in Keys, kind \in Kinds, n \in Nat, x \in Message :
          (FirstTry(t, k, kind, n) \/ TryAgain(t, k)) /\ net' = net \cup {x}
    BY <1>4, OpRequests
  <2>2. net' \subseteq Message
    BY <1>s, <2>1
  <2>3. attempts' \in [Keys -> Attempt] /\ tab' \in [Tabs -> Workspace]
    BY <2>1, NewAttemptTyped DEF TryAgain, TypeOK
  <2>4. UNCHANGED <<server, session, faults>>
    BY <1>4 DEF Save, Restore
  <2>5. QED BY <2>2, <2>3, <2>4 DEF TypeOK, server, Current
<1>5. CASE Reopen(t)
  <2>1. tab' \in [Tabs -> Workspace] /\ net' \subseteq Message
    BY <1>5, <1>s, RerunTyped, UnloadedTyped DEF Reopen
  <2>2. UNCHANGED <<server, session, attempts>> /\ faults' \in Nat
    BY <1>5, <1>s DEF Reopen
  <2>3. QED BY <2>1, <2>2, RestTyped
<1>6. CASE EndSession(t) \/ SignIn(t)
  <2>1. session' \in [Editors -> [n : Nat, live : BOOLEAN]]
    BY <1>6, SessionTyped
  <2>2. tab' \in [Tabs -> Workspace]
    <3>1. [tab[t] EXCEPT !.out = FALSE] \in Workspace
      BY <1>s DEF Workspace
    <3>2. tab' = tab \/ tab' = [tab EXCEPT ![t] = [tab[t] EXCEPT !.out = FALSE]]
      BY <1>6, <1>s DEF EndSession, SignIn
    <3>3. QED BY <1>s, <3>1, <3>2
  <2>3. UNCHANGED <<server, attempts, net>> /\ faults' \in Nat
    BY <1>6, <1>s, FaultTyped DEF EndSession, SignIn
  <2>4. QED BY <2>1, <2>2, <2>3 DEF TypeOK, server, Current
<1>7. QED BY <1>1, <1>2, <1>3, <1>4, <1>5, <1>6

LEMMA HeardTyped ==
  ASSUME TypeOK, OperationsInv, NEW m \in net,
         LeaseAnswer(m) \/ OpAnswer(m) \/ LoadAnswer(m) \/ GiveUp(m)
  PROVE  TypeOK'
<1>s. /\ tab[m.tab] \in Workspace /\ tab \in [Tabs -> Workspace] /\ net \subseteq Message
      /\ faults \in Nat /\ m.tab \in Tabs /\ net \ {m} \subseteq Message
  BY TabShape, NetShape DEF TypeOK
<1>1. ASSUME tab' \in [Tabs -> Workspace], net' \subseteq Message,
             UNCHANGED <<server, session, attempts, faults>>
      PROVE  TypeOK'
  BY <1>1, <1>s, RestTyped
<1>2. CASE LeaseAnswer(m)
  <2>1. CASE SignedOut(m.tab, tab[m.tab])
    BY <1>s, <1>1, <1>2, <2>1, SignedOutTyped DEF LeaseAnswer
  <2>2. CASE /\ net' = net \ {m}
             /\ \E w \in Workspace : tab' = [tab EXCEPT ![m.tab] = w]
    BY <1>s, <1>1, <1>2, <2>2, TabTyped DEF LeaseAnswer
  <2>3. ASSUME NEW w, w = Paused(tab[m.tab], m.says)
               \/ w = Activated(tab[m.tab], m)
        PROVE  w \in Workspace
    BY <1>s, <2>3, PausedTyped, ActiveTyped
  <2>4. QED BY <1>2, <2>1, <2>2, <2>3 DEF LeaseAnswer, Activated
<1>3. CASE OpAnswer(m)
  <2>0. m.act \in Calls /\ UNCHANGED <<server, session, faults>>
    BY <1>3, KindsAre DEF OpAnswer
  <2>1. CASE Acknowledged(m)
    <3> DEFINE w == [tab[m.tab] EXCEPT !.loaded = m.current, !.base = m.saved, !.key = 0,
                                       !.acked = attempts[m.key].draft]
    <3>1. w \in Workspace
      BY <1>s, <2>0, NetShape, KeyShape DEF Workspace
    <3>2. Rerun(m.tab, w, net \ {m}) /\ attempts' = attempts
      BY <2>1 DEF Acknowledged
    <3> HIDE DEF w
    <3>3. QED BY <1>s, <1>1, <2>0, <3>1, <3>2, RerunTyped
  <2>2. CASE Superseded(m)
    <3> DEFINE w == [Paused(tab[m.tab], "revision") EXCEPT !.key = 0, !.conflict = TRUE]
    <3>1. w \in Workspace
      BY <1>s, PausedTyped, ClosedTyped
    <3>2. tab' = [tab EXCEPT ![m.tab] = w] /\ net' = net \ {m} /\ attempts' = attempts
      BY <2>2, <1>s DEF Superseded
    <3>3. QED BY <1>s, <1>1, <2>0, <3>1, <3>2, TabTyped
  <2>3. CASE Reload(m)
    <3> DEFINE x == [m EXCEPT !.act = "load", !.at = "server", !.says = "",
                              !.login = session[m.tab].n]
    <3>1. x \in Message
      <4>1. "" \in Says /\ "load" \in Acts
        BY DEF Says, Acts, Calls
      <4>2. m \in Message /\ session[m.tab].n \in Nat
        BY <1>s, TabShape, NetShape
      <4>3. QED BY <4>1, <4>2 DEF Message, Acts
    <3>2. net' = (net \ {m}) \cup {x} /\ UNCHANGED <<tab, attempts>>
      BY <2>3 DEF Reload
    <3>3. QED BY <1>s, <1>1, <2>0, <3>1, <3>2
  <2>4. CASE Refused(m)
    <3> DEFINE v == IF m.says \in {"revision", "lease_lost"} THEN Paused(tab[m.tab], m.says)
                    ELSE tab[m.tab]
               w == [v EXCEPT !.key = 0, !.conflict = m.says = "revision"]
    <3>1. v \in Workspace
      BY <1>s, PausedTyped
    <3>2. w \in Workspace
      BY <3>1, ClosedTyped
    <3>3. tab' = [tab EXCEPT ![m.tab] = w] /\ net' = net \ {m}
      BY <2>4, <1>s DEF Refused
    <3>4. attempts' \in [Keys -> Attempt]
      BY <2>4, <2>0, KeyShape, EndTyped DEF Refused, TypeOK
    <3> HIDE DEF w
    <3>5. tab' \in [Tabs -> Workspace] /\ net' \subseteq Message
      BY <1>s, <3>2, <3>3, TabTyped
    <3>6. QED BY <2>0, <3>4, <3>5 DEF TypeOK, server, Current
  <2>5. CASE RefusedSession(m)
    <3>1. [tab[m.tab] EXCEPT !.key = 0] \in Workspace
      BY <1>s DEF Workspace
    <3>2. QED BY <1>s, <1>1, <2>0, <2>5, <3>1, SignedOutTyped DEF RefusedSession
  <2>6. CASE Uncertain(m)
    BY <1>s, <1>1, <2>0, <2>6 DEF Uncertain
  <2>7. QED BY <1>3, <2>1, <2>2, <2>3, <2>4, <2>5, <2>6 DEF OpAnswer
<1>4. CASE LoadAnswer(m)
  <2>0. UNCHANGED <<server, session, attempts, faults>>
    BY <1>4 DEF LoadAnswer
  <2>1. CASE SignedOut(m.tab, tab[m.tab])
    BY <1>s, <1>1, <2>0, <2>1, SignedOutTyped
  <2>2. CASE Rerun(m.tab, [tab[m.tab] EXCEPT !.loaded = m.saved, !.base = m.saved, !.draft = 0,
                              !.acked = 0, !.key = 0], net \ {m})
    <3> DEFINE w == [tab[m.tab] EXCEPT !.loaded = m.saved, !.base = m.saved, !.draft = 0,
                              !.acked = 0, !.key = 0]
    <3>1. w \in Workspace
      BY <1>s, NetShape DEF Workspace
    <3>2. Rerun(m.tab, w, net \ {m})
      BY <2>2
    <3> HIDE DEF w
    <3>3. QED BY <1>s, <1>1, <2>0, <3>1, <3>2, RerunTyped
  <2>3. CASE /\ tab' = [tab EXCEPT ![m.tab] =
                  [Paused(tab[m.tab], "revision") EXCEPT !.key = 0, !.conflict = TRUE]]
             /\ net' = net \ {m}
    <3>1. [Paused(tab[m.tab], "revision") EXCEPT !.key = 0, !.conflict = TRUE] \in Workspace
      BY <1>s, PausedTyped, ClosedTyped
    <3>2. QED BY <1>s, <1>1, <2>0, <2>3, <3>1, TabTyped
  <2>4. QED BY <1>4, <2>1, <2>2, <2>3 DEF LoadAnswer
<1>5. CASE GiveUp(m)
  <2>1. net' \subseteq Message
    BY <1>s, <1>5, IgnoreTyped DEF GiveUp
  <2>2. tab' \in [Tabs -> Workspace]
    <3>1. PICK w \in Workspace : tab' = [tab EXCEPT ![m.tab] = w]
      BY <1>s, <1>5, PausedTyped DEF GiveUp
    <3>2. QED BY <1>s, <3>1, TabTyped
  <2>3. UNCHANGED <<server, session, attempts>> /\ faults' \in Nat
    BY <1>5, FaultTyped DEF GiveUp
  <2>4. QED BY <2>1, <2>2, <2>3, RestTyped
<1>6. QED BY <1>2, <1>3, <1>4, <1>5

LEMMA SaysAre ==
  /\ {"", "active", "revision", "lease_lost", "lease_busy", "stored", "current", "stale",
      "authentication_required", "operation_in_progress", "operation_aborted",
      "upload_busy", "storage_unavailable"} = Says
  /\ \A m : Fence(m) \in {"", "authentication_required", "revision", "lease_lost"}
BY DEF Says, Fence

(* What Grant does to the lease, and what it answers.                       *)
LEMMA GrantIs ==
  ASSUME TypeOK, NEW m \in net, Grant(m)
  PROVE  /\ Valid(m) /\ m.at = "server" /\ m.act \in Leasing /\ m.source = Current
         /\ UNCHANGED <<versions, ops, session, tab, attempts, faults>>
         /\ lease' \in Lease /\ lease'.tab = m.tab /\ lease'.login = m.login
         /\ lease'.source = m.source /\ lease'.left = Life /\ issued' \in Nat
         /\ lease'.id \in Nat
         /\ \/ /\ issued' = issued /\ lease'.id = lease.id /\ lease.tab = m.tab
               /\ lease.login = m.login
            \/ /\ issued' = issued + 1 /\ lease'.id = issued'
               /\ lease.tab = None \/ ~Live
                    \/ (lease.tab = m.tab /\ lease.login = m.login /\ lease.source # m.source)
         /\ \A x \in net' : x \in net \ {m}
              \/ /\ x \in Message /\ Responds(m, x) /\ x.awaited /\ x.at = "tab"
                 /\ x.says = "active" /\ x.id = lease'.id
<1>1. m \in Message /\ m.tab \in Tabs /\ m.login \in Nat /\ m.source \in Nat /\ m.id \in Nat
      /\ m.saved \in Nat /\ m.current \in Nat /\ lease \in Lease /\ issued \in Nat
  BY NetShape DEF TypeOK
<1>2. /\ Valid(m) /\ m.at = "server" /\ m.act \in Leasing /\ m.source = Current
      /\ UNCHANGED <<versions, ops, session, tab, attempts, faults>>
  BY DEF Grant
<1>3. PICK i : /\ Granted(m, i)
               /\ \/ i = m.id /\ Generation(m) /\ issued' = issued
                  \/ i = lease.id /\ Same(m) /\ issued' = issued
                  \/ /\ i = issued + 1 /\ issued' = issued + 1
                     /\ lease.tab = None \/ ~Live \/ (Same(m) /\ lease.source # m.source)
  BY DEF Grant
<1>4. i \in Nat
  BY <1>1, <1>3 DEF Lease
<1>5. lease' = [tab |-> m.tab, login |-> m.login, id |-> i, source |-> m.source, left |-> Life]
  BY <1>3 DEF Granted
<1>6. /\ lease' \in Lease /\ lease'.tab = m.tab /\ lease'.login = m.login
      /\ lease'.source = m.source /\ lease'.left = Life /\ lease'.id = i
  BY <1>1, <1>4, <1>5, LifeIs DEF Lease, Editors
<1>7. /\ issued' \in Nat
      /\ \/ /\ issued' = issued /\ i = lease.id /\ lease.tab = m.tab
            /\ lease.login = m.login
         \/ /\ issued' = issued + 1 /\ i = issued'
            /\ lease.tab = None \/ ~Live
                 \/ (lease.tab = m.tab /\ lease.login = m.login /\ lease.source # m.source)
  BY <1>1, <1>3 DEF Generation, Same
<1>8. [m EXCEPT !.says = "active", !.id = i] = Said(m, "active", i, m.saved, m.current)
  BY <1>1 DEF Message, Said
<1>9. Answer(m, Said(m, "active", i, m.saved, m.current))
  BY <1>3, <1>8 DEF Granted
<1>10. ASSUME NEW x \in net', x \notin net \ {m}
       PROVE  /\ x \in Message /\ Responds(m, x) /\ x.awaited /\ x.at = "tab"
              /\ x.says = "active" /\ x.id = i
  <2>1. "active" \in Says
    BY DEF Says
  <2>2. QED BY <1>1, <1>4, <1>9, <1>10, <2>1, AnswerIs
<1>11. QED BY <1>2, <1>4, <1>6, <1>7, <1>10

LEMMA DenyIs ==
  ASSUME TypeOK, NEW m \in net, Deny(m)
  PROVE  /\ UNCHANGED <<server, session, tab, attempts, faults>> /\ m.act \in Leasing
         /\ \A x \in net' : x \in net \ {m}
              \/ /\ x \in Message /\ Responds(m, x) /\ x.awaited /\ x.at = "tab"
                 /\ x.says \in Says \ {"active", "stored"}
                 /\ x.says = "authentication_required" => ~Valid(m)
<1>1. PICK what \in {"authentication_required", "revision", "lease_lost", "lease_busy"} :
        Say(m, what) /\ (what = "authentication_required" => ~Valid(m))
  BY DEF Deny
<1>2. what \in Says \ {"active", "stored"}
  BY <1>1 DEF Says
<1>3. ASSUME NEW x \in net', x \notin net \ {m}
      PROVE  /\ x \in Message /\ Responds(m, x) /\ x.awaited /\ x.at = "tab"
             /\ x.says = what
  BY <1>1, <1>2, <1>3, SayIs
<1>4. QED BY <1>1, <1>2, <1>3 DEF Deny

LEMMA BeginIs ==
  ASSUME TypeOK, OperationsInv, NEW m \in net, Begin(m)
  PROVE  /\ UNCHANGED <<versions, lease, issued, session, tab, attempts, faults>>
         /\ m.act \in Kinds /\ m.key \in Keys /\ m.at = "server"
         /\ \/ ops' = ops
            \/ /\ ops[m.key] = "none"
               /\ \E o \in {"running", "aborted"} : ops' = [ops EXCEPT ![m.key] = o]
         /\ \A x \in net' : x \in net \ {m}
              \/ /\ x \in Message /\ Responds(m, x) /\ x.at = "storing"
                 /\ ops[m.key] = "none" /\ ops'[m.key] = "running"
              \/ /\ x \in Message /\ Responds(m, x) /\ x.awaited
                 /\ \/ x.at = "stored" /\ ops[m.key] = "committed"
                    \/ /\ x.at = "tab" /\ x.says # "stored"
                       /\ x.says = "authentication_required" => ~Valid(m)
                       /\ x.says \in Denials => ops'[m.key] = "aborted"
<1>1. /\ m.act \in Kinds /\ m.at = "server" /\ m.act \in Calls
      /\ UNCHANGED <<versions, lease, issued, session, tab, attempts, faults>>
  BY KindsAre DEF Begin
<1>2. m.key \in Keys /\ ops \in [Keys -> {"none", "running", "committed", "aborted"}]
  BY <1>1, KeyShape DEF TypeOK
<1>3. CASE ~Valid(m) /\ Say(m, "authentication_required") /\ ops' = ops
  <2>1. "authentication_required" \in Says \ Denials
    BY DEF Says, Denials
  <2>2. QED BY <1>1, <1>2, <1>3, <2>1, SayIs
<1>4. CASE Say(m, "operation_in_progress") /\ ops' = ops
  <2>1. "operation_in_progress" \in Says \ Denials
    BY DEF Says, Denials
  <2>2. QED BY <1>1, <1>2, <1>4, <2>1, SayIs
<1>5. CASE ops[m.key] = "aborted" /\ Say(m, "operation_aborted") /\ ops' = ops
  <2>1. "operation_aborted" \in Says
    BY DEF Says
  <2>2. QED BY <1>1, <1>2, <1>5, <2>1, SayIs
<1>6. CASE ops[m.key] = "committed" /\ Stored(m) /\ ops' = ops
  BY <1>1, <1>2, <1>6, StoredIs
<1>7. CASE /\ ops[m.key] = "none" /\ ops' = [ops EXCEPT ![m.key] = "running"]
           /\ net' = (net \ {m}) \cup {[m EXCEPT !.at = "storing"]}
  <2>1. ASSUME NEW x \in net', x \notin net \ {m}
        PROVE  x \in Message /\ Responds(m, x) /\ x.at = "storing"
    BY <1>7, <2>1, StoringIs
  <2>2. ops'[m.key] = "running"
    BY <1>2, <1>7
  <2>3. QED BY <1>1, <1>2, <1>7, <2>1, <2>2
<1>8. CASE /\ ops[m.key] = "none" /\ ops' = [ops EXCEPT ![m.key] = "aborted"]
           /\ Say(m, Fence(m)) /\ Fence(m) # ""
  <2>1. /\ Fence(m) \in Says /\ Fence(m) # "stored"
        /\ Fence(m) = "authentication_required" => ~Valid(m)
    BY SaysAre DEF Fence
  <2>2. ops'[m.key] = "aborted"
    BY <1>2, <1>8
  <2>3. ASSUME NEW x \in net', x \notin net \ {m}
        PROVE  x \in Message /\ Responds(m, x) /\ x.awaited /\ x.at = "tab"
               /\ x.says = Fence(m)
    <3>1. PICK what : what = Fence(m)
      OBVIOUS
    <3>2. what \in Says /\ Say(m, what)
      BY <1>8, <2>1, <3>1
    <3>3. x \in Message /\ Responds(m, x) /\ x.awaited /\ x.at = "tab" /\ x.says = what
      BY <2>3, <3>2, SayIs
    <3>4. QED BY <3>1, <3>3
  <2>4. QED BY <1>1, <1>2, <1>8, <2>1, <2>2, <2>3
<1>9. \/ ~Valid(m) /\ Say(m, "authentication_required") /\ ops' = ops
      \/ Say(m, "operation_in_progress") /\ ops' = ops
      \/ ops[m.key] = "aborted" /\ Say(m, "operation_aborted") /\ ops' = ops
      \/ ops[m.key] = "committed" /\ Stored(m) /\ ops' = ops
      \/ ops[m.key] = "none" /\ ops' = [ops EXCEPT ![m.key] = "running"]
           /\ net' = (net \ {m}) \cup {[m EXCEPT !.at = "storing"]}
      \/ ops[m.key] = "none" /\ ops' = [ops EXCEPT ![m.key] = "aborted"]
           /\ Say(m, Fence(m)) /\ Fence(m) # ""
  BY <1>2 DEF Begin
<1>10. QED BY <1>3, <1>4, <1>5, <1>6, <1>7, <1>8, <1>9

LEMMA PublishIs ==
  ASSUME TypeOK, OperationsInv, NEW m \in net, Publish(m)
  PROVE  /\ UNCHANGED <<issued, session, tab, attempts, faults>>
         /\ m.at = "storing" /\ m.act \in Kinds /\ m.key \in Keys /\ ops[m.key] = "running"
         /\ \/ /\ Valid(m) /\ attempts[m.key].source = Current
               /\ lease.tab = m.tab /\ lease.login = m.login
               /\ versions' = Append(versions, m.key)
               /\ lease' = [lease EXCEPT !.source = Current + 1]
               /\ ops' = [ops EXCEPT ![m.key] = "committed"]
            \/ ops' = [ops EXCEPT ![m.key] = "aborted"] /\ UNCHANGED <<versions, lease>>
         /\ \A x \in net' : x \in net \ {m}
              \/ /\ x \in Message /\ Responds(m, x) /\ x.awaited
                 /\ \/ x.at = "stored" /\ ops'[m.key] = "committed"
                    \/ /\ x.at = "tab" /\ x.says # "stored" /\ ops'[m.key] = "aborted"
                       /\ x.says = "authentication_required" => ~Valid(m)
<1>1. /\ m.at = "storing" /\ m.act \in Kinds /\ ops[m.key] = "running" /\ m.act \in Calls
      /\ UNCHANGED <<issued, session, tab, attempts, faults>>
  BY KindsAre DEF Publish, OperationsInv
<1>2. m.key \in Keys /\ ops \in [Keys -> {"none", "running", "committed", "aborted"}]
  BY <1>1, KeyShape DEF TypeOK
<1>3. CASE /\ Fence(m) = "" /\ Stored(m) /\ versions' = Append(versions, m.key)
           /\ lease' = [lease EXCEPT !.source = Current + 1]
           /\ ops' = [ops EXCEPT ![m.key] = "committed"]
  <2>1. /\ Valid(m) /\ attempts[m.key].source = Current
        /\ lease.tab = m.tab /\ lease.login = m.login
    <3>1. /\ Valid(m) /\ attempts[m.key].source = Current
          /\ Generation([m EXCEPT !.id = attempts[m.key].id, !.source = attempts[m.key].source])
      BY <1>3 DEF Fence
    <3>2. m \in Message
      BY DEF TypeOK
    <3>3. QED BY <3>1, <3>2 DEF Generation, Same, Message
  <2>2. ops'[m.key] = "committed"
    BY <1>2, <1>3
  <2>3. ASSUME NEW x \in net', x \notin net \ {m}
        PROVE  x \in Message /\ Responds(m, x) /\ x.awaited /\ x.at = "stored"
    BY <1>3, <2>3, StoredIs
  <2>4. QED BY <1>1, <1>2, <1>3, <2>1, <2>2, <2>3
<1>4. CASE /\ \E what \in Says \ {"stored"} :
                Say(m, what) /\ (what = "authentication_required" => ~Valid(m))
           /\ ops' = [ops EXCEPT ![m.key] = "aborted"] /\ UNCHANGED <<versions, lease>>
  <2>1. PICK what \in Says \ {"stored"} :
          Say(m, what) /\ (what = "authentication_required" => ~Valid(m))
    BY <1>4
  <2>2. ops'[m.key] = "aborted"
    BY <1>2, <1>4
  <2>3. ASSUME NEW x \in net', x \notin net \ {m}
        PROVE  x \in Message /\ Responds(m, x) /\ x.awaited /\ x.at = "tab" /\ x.says = what
    BY <2>1, <2>3, SayIs
  <2>4. QED BY <1>1, <1>2, <1>4, <2>1, <2>2, <2>3
<1>5. /\ Fence(m) \in Says \ {"stored"} /\ "operation_aborted" \in Says \ {"stored"}
      /\ Fence(m) = "authentication_required" => ~Valid(m)
  BY SaysAre DEF Fence, Says
<1>6. QED BY <1>3, <1>4, <1>5 DEF Publish

LEMMA InformIs ==
  ASSUME TypeOK, OperationsInv, NEW m \in net, Inform(m)
  PROVE  /\ UNCHANGED <<server, session, tab, attempts, faults>>
         /\ m.act \in Kinds /\ m.key \in Keys
         /\ \A x \in net' : x \in net \ {m}
              \/ /\ x \in Message /\ Responds(m, x) /\ x.awaited /\ x.at = "tab"
                 /\ \/ x.says = "authentication_required" /\ ~Valid(m)
                    \/ /\ x.says = "stored" /\ x.current = Current
                       /\ x.saved \in 1..Current /\ versions[x.saved] = m.key
<1>1. /\ m.at = "stored" /\ m.act \in Kinds /\ m.act \in Calls /\ ops[m.key] = "committed"
      /\ UNCHANGED <<server, session, tab, attempts, faults>>
  BY KindsAre DEF Inform, OperationsInv
<1>2. m.key \in Keys /\ Current \in Nat /\ m \in Message /\ m.id \in Nat
  BY <1>1, KeyShape, CurrentShape, NetShape
<1>3. CASE ~Valid(m)
  <2>1. "authentication_required" \in Says /\ Say(m, "authentication_required")
    BY <1>3 DEF Says, Inform
  <2>2. QED BY <1>1, <1>2, <1>3, <2>1, SayIs
<1>4. CASE Valid(m)
  <2> DEFINE s == CHOOSE n \in 1..Current : versions[n] = m.key
  <2>1. s \in 1..Current /\ versions[s] = m.key
    BY <1>1, <1>2 DEF OperationsInv
  <2>2. s \in Nat
    BY <1>2, <2>1
  <2>3. Answer(m, [m EXCEPT !.says = "stored", !.current = Current, !.saved = s])
    BY <1>4 DEF Inform
  <2> HIDE DEF s
  <2>4. [m EXCEPT !.says = "stored", !.current = Current, !.saved = s]
          = Said(m, "stored", m.id, s, Current)
    BY <1>2 DEF Message, Said
  <2>5. "stored" \in Says
    BY DEF Says
  <2>6. Answer(m, Said(m, "stored", m.id, s, Current))
    BY <2>3, <2>4
  <2>7. ASSUME NEW x \in net', x \notin net \ {m}
        PROVE  /\ x \in Message /\ Responds(m, x) /\ x.awaited /\ x.at = "tab"
               /\ x.says = "stored" /\ x.saved = s /\ x.current = Current
    BY <1>2, <2>2, <2>5, <2>6, <2>7, AnswerIs
  <2>8. QED BY <1>1, <1>2, <2>1, <2>7
<1>5. QED BY <1>3, <1>4

LEMMA ContentIs ==
  ASSUME TypeOK, NEW m \in net, Content(m)
  PROVE  /\ UNCHANGED <<server, session, tab, attempts, faults>> /\ m.act = "load"
         /\ \A x \in net' : x \in net \ {m}
              \/ /\ x \in Message /\ Responds(m, x) /\ x.awaited /\ x.at = "tab"
                 /\ x.saved = m.saved /\ x.says \in {"current", "stale", "authentication_required"}
                 /\ x.says = "authentication_required" => ~Valid(m)
<1>1. PICK what \in {"current", "stale", "authentication_required"} :
        Say(m, what) /\ (what = "authentication_required" => ~Valid(m))
  BY DEF Content
<1>2. what \in Says
  BY <1>1 DEF Says
<1>3. ASSUME NEW x \in net', x \notin net \ {m}
      PROVE  /\ x \in Message /\ Responds(m, x) /\ x.awaited /\ x.at = "tab"
             /\ x.says = what /\ x.saved = m.saved
  BY <1>1, <1>2, <1>3, SayIs
<1>4. QED BY <1>1, <1>2, <1>3 DEF Content

LEMMA FailsIs ==
  ASSUME TypeOK, NEW m \in net, TurnAway(m) \/ Crash(m)
  PROVE  /\ UNCHANGED <<server, session, tab, attempts>> /\ faults' \in Nat
         /\ \A x \in net' : x \in net \ {m}
              \/ /\ x \in Message /\ Responds(m, x) /\ x.awaited /\ x.at = "tab"
                 /\ x.says \in {"upload_busy", "storage_unavailable"}
<1>1. PICK what \in {"upload_busy", "storage_unavailable"} : Say(m, what)
  BY DEF TurnAway, Crash
<1>2. what \in Says
  BY <1>1 DEF Says
<1>3. ASSUME NEW x \in net', x \notin net \ {m}
      PROVE  /\ x \in Message /\ Responds(m, x) /\ x.awaited /\ x.at = "tab"
             /\ x.says = what
  BY <1>1, <1>2, <1>3, SayIs
<1>4. QED BY <1>1, <1>2, <1>3, FaultTyped DEF TurnAway, Crash

LEMMA NoLeaseTyped == NoLease \in Lease /\ NoLease.tab = None
BY LifeIs DEF NoLease, Lease

LEMMA LeaseShape ==
  ASSUME TypeOK
  PROVE  /\ lease \in Lease /\ lease.tab \in Editors \cup {None} /\ lease.login \in Nat
         /\ lease.id \in Nat /\ lease.source \in Nat /\ lease.left \in 0..Life
         /\ lease.left \in Nat /\ issued \in Nat
BY LifeIs DEF TypeOK, Lease

(* One more version, by operation k or, where k is 0, of another client.    *)
LEMMA VersionTyped ==
  ASSUME TypeOK, NEW k \in Keys \cup {0}, versions' = Append(versions, k)
  PROVE  /\ versions' \in Seq(Keys \cup {0}) /\ Current' = Current + 1
         /\ versions'[Current + 1] = k
         /\ \A n \in 1..Current : versions'[n] = versions[n]
BY DEF TypeOK, Current

LEMMA ServerTyped ==
  ASSUME TypeOK, OperationsInv, NEW m \in net,
         \/ Grant(m) \/ Deny(m) \/ Release(m) \/ Begin(m) \/ Publish(m) \/ Inform(m)
         \/ Content(m) \/ TurnAway(m) \/ Crash(m)
  PROVE  TypeOK'
<1>1. CASE Grant(m)
  <2>1. net' \subseteq Message
    BY <1>1, GrantIs, AnsweredTyped
  <2>2. /\ UNCHANGED <<versions, ops, session, tab, attempts, faults>>
        /\ lease' \in Lease /\ issued' \in Nat
    BY <1>1, GrantIs
  <2>3. QED BY <2>1, <2>2 DEF TypeOK, Current
<1>2. CASE Deny(m)
  <2>1. net' \subseteq Message
    BY <1>2, DenyIs, AnsweredTyped
  <2>2. UNCHANGED <<server, session, tab, attempts, faults>>
    BY <1>2, DenyIs
  <2>3. QED BY <2>1, <2>2 DEF TypeOK, Current, server
<1>3. CASE Release(m)
  <2>1. lease' \in Lease /\ net' \subseteq Message
        /\ UNCHANGED <<versions, ops, issued, session, tab, attempts, faults>>
    BY <1>3, NoLeaseTyped DEF Release, TypeOK
  <2>2. QED BY <2>1 DEF TypeOK, Current
<1>4. CASE Begin(m)
  <2>1. net' \subseteq Message
    BY <1>4, BeginIs, AnsweredTyped
  <2>2. UNCHANGED <<versions, lease, issued, session, tab, attempts, faults>>
    BY <1>4, BeginIs
  <2>3. ops' \in [Keys -> {"none", "running", "committed", "aborted"}]
    BY <1>4, BeginIs DEF TypeOK
  <2>4. QED BY <2>1, <2>2, <2>3 DEF TypeOK, Current
<1>5. CASE Publish(m)
  <2>1. net' \subseteq Message
    BY <1>5, PublishIs, AnsweredTyped
  <2>2. UNCHANGED <<issued, session, tab, attempts, faults>> /\ m.key \in Keys
    BY <1>5, PublishIs
  <2>3. ops' \in [Keys -> {"none", "running", "committed", "aborted"}]
    BY <1>5, PublishIs DEF TypeOK
  <2>4. /\ versions' = versions \/ versions' = Append(versions, m.key)
        /\ lease' = lease \/ lease' = [lease EXCEPT !.source = Current + 1]
    BY <1>5, PublishIs
  <2>5. versions' \in Seq(Keys \cup {0}) /\ Current' >= 1
    BY <2>2, <2>4, VersionTyped, CurrentShape DEF TypeOK, Current
  <2>6. lease' \in Lease
    BY <2>4, CurrentShape, LeaseShape DEF Lease
  <2>7. QED BY <2>1, <2>2, <2>3, <2>5, <2>6 DEF TypeOK
<1>6. CASE Inform(m)
  <2>1. net' \subseteq Message
    BY <1>6, InformIs, AnsweredTyped
  <2>2. UNCHANGED <<server, session, tab, attempts, faults>>
    BY <1>6, InformIs
  <2>3. QED BY <2>1, <2>2 DEF TypeOK, Current, server
<1>7. CASE Content(m)
  <2>1. net' \subseteq Message
    BY <1>7, ContentIs, AnsweredTyped
  <2>2. UNCHANGED <<server, session, tab, attempts, faults>>
    BY <1>7, ContentIs
  <2>3. QED BY <2>1, <2>2 DEF TypeOK, Current, server
<1>8. CASE TurnAway(m) \/ Crash(m)
  <2>1. net' \subseteq Message
    BY <1>8, FailsIs, AnsweredTyped
  <2>2. UNCHANGED <<server, session, tab, attempts>> /\ faults' \in Nat
    BY <1>8, FailsIs
  <2>3. QED BY <2>1, <2>2 DEF TypeOK, Current, server
<1>9. QED BY <1>1, <1>2, <1>3, <1>4, <1>5, <1>6, <1>7, <1>8

LEMMA OthersTyped ==
  ASSUME TypeOK,
         \/ \E r \in Rivals : RivalTakes(r) \/ RivalSaves(r) \/ RivalReleases(r)
         \/ \E k \in Keys : Recover(k)
  PROVE  TypeOK'
<1>s. issued \in Nat /\ issued + 1 \in Nat /\ Current \in Nat /\ Current + 1 \in Nat
  BY LeaseShape, CurrentShape
<1>1. ASSUME NEW r \in Rivals, RivalTakes(r)
      PROVE  TypeOK'
  <2>1. r \in Editors /\ session[r].n \in Nat
    BY DEF TypeOK, Editors
  <2>2. lease' \in Lease /\ issued' \in Nat
        /\ UNCHANGED <<versions, ops, session, tab, attempts, net, faults>>
    BY <1>1, <1>s, <2>1, LifeIs DEF RivalTakes, Lease
  <2>3. QED BY <2>2 DEF TypeOK, Current
<1>2. ASSUME NEW r \in Rivals, RivalSaves(r)
      PROVE  TypeOK'
  <2>1. lease' \in Lease
    BY <1>2, <1>s, LeaseShape DEF RivalSaves, Lease
  <2>2. versions' \in Seq(Keys \cup {0}) /\ Current' >= 1
    BY <1>2, <1>s, VersionTyped DEF RivalSaves
  <2>3. QED BY <1>2, <2>1, <2>2 DEF TypeOK, RivalSaves
<1>3. ASSUME NEW r \in Rivals, RivalReleases(r)
      PROVE  TypeOK'
  BY <1>3, NoLeaseTyped DEF TypeOK, RivalReleases, Current
<1>4. ASSUME NEW k \in Keys, Recover(k)
      PROVE  TypeOK'
  BY <1>4 DEF TypeOK, Recover, Current
<1>5. QED BY <1>1, <1>2, <1>3, <1>4

(* A tick.                                                                  *)
Older(n) == IF n = 0 THEN 0 ELSE n - 1
Aged(y) == [y EXCEPT !.left = Older(y.left)]

LEMMA OlderIs ==
  ASSUME NEW n \in 0..Life
  PROVE  Older(n) \in 0..Life /\ Older(n) <= n
BY LifeIs DEF Older

LEMMA AgedIs ==
  ASSUME NEW y \in Message
  PROVE  /\ Aged(y) \in Message /\ Follows(Aged(y), y) /\ Aged(y).left = Older(y.left)
         /\ Aged(y).awaited <=> y.awaited
<1>1. y.left \in 0..Life /\ y.awaited \in BOOLEAN
  BY MessageShape
<1>2. Older(y.left) \in 0..Life /\ Older(y.left) <= y.left
  BY <1>1, OlderIs
<1>3. Aged(y) \in Message
  BY <1>2 DEF Aged, Message
<1>4. LET x == Aged(y) IN
      /\ x.tab = y.tab /\ x.act = y.act /\ x.at = y.at /\ x.login = y.login
      /\ x.id = y.id /\ x.source = y.source /\ x.key = y.key /\ x.saved = y.saved
      /\ x.current = y.current /\ x.says = y.says /\ x.left = Older(y.left)
      /\ x.awaited = y.awaited
  BY DEF Aged, Message
<1>5. QED BY <1>1, <1>2, <1>3, <1>4 DEF Follows

LEMMA TickIs ==
  ASSUME TypeOK, Tick
  PROVE  /\ UNCHANGED <<versions, ops, issued, session, attempts, faults>>
         /\ lease' \in Lease /\ lease'.tab = lease.tab /\ lease'.login = lease.login
         /\ lease'.id = lease.id /\ lease'.source = lease.source
         /\ lease'.left = Older(lease.left)
         /\ net' = {Aged(y) : y \in net}
         /\ tab' \in [Tabs -> Workspace]
         /\ \A t \in Tabs :
              /\ tab'[t].loaded = tab[t].loaded /\ tab'[t].base = tab[t].base
              /\ tab'[t].gen = tab[t].gen /\ tab'[t].acked = tab[t].acked
              /\ tab'[t].key = tab[t].key /\ tab'[t].out = tab[t].out
              /\ tab'[t].asked = tab[t].asked /\ tab'[t].left = Older(tab[t].left)
              /\ tab'[t].status = tab[t].status \/ tab[t].status = "active"
              /\ tab'[t].status = "active" => tab[t].status = "active"
<1>1. /\ UNCHANGED <<versions, ops, issued, session, attempts, faults>>
      /\ lease' = [lease EXCEPT !.left = Older(lease.left)]
      /\ net' = {Aged(y) : y \in net}
      /\ tab' = [t \in Tabs |-> IF CanEdit(t) /\ tab[t].left = 1
                                THEN Paused(tab[t], "lease_lost")
                                ELSE [tab[t] EXCEPT !.left = Older(tab[t].left)]]
  BY DEF Tick, Older, Aged
<1>2. /\ lease' \in Lease /\ lease'.tab = lease.tab /\ lease'.login = lease.login
      /\ lease'.id = lease.id /\ lease'.source = lease.source
      /\ lease'.left = Older(lease.left)
  BY <1>1, LeaseShape, OlderIs DEF Lease
<1>3. ASSUME NEW t \in Tabs
      PROVE  /\ tab'[t] \in Workspace
             /\ tab'[t].loaded = tab[t].loaded /\ tab'[t].base = tab[t].base
             /\ tab'[t].gen = tab[t].gen /\ tab'[t].acked = tab[t].acked
             /\ tab'[t].key = tab[t].key /\ tab'[t].out = tab[t].out
             /\ tab'[t].asked = tab[t].asked /\ tab'[t].left = Older(tab[t].left)
             /\ tab'[t].status = tab[t].status \/ tab[t].status = "active"
             /\ tab'[t].status = "active" => tab[t].status = "active"
  <2>1. tab[t] \in Workspace /\ tab[t].left \in 0..Life
    BY TabShape
  <2>2. Older(tab[t].left) \in 0..Life
    BY <2>1, OlderIs
  <2>3. CASE CanEdit(t) /\ tab[t].left = 1
    <3>1. tab'[t] = Paused(tab[t], "lease_lost") /\ tab[t].status = "active"
      BY <1>1, <2>3 DEF CanEdit
    <3>2. Older(tab[t].left) = 0
      BY <2>3 DEF Older
    <3>3. /\ Paused(tab[t], "lease_lost") \in Workspace
          /\ Paused(tab[t], "lease_lost").status \in {"paused", "outdated"}
      BY <2>1, PausedTyped
    <3>4. QED BY <2>1, <3>1, <3>2, <3>3, PausedTyped
  <2>4. CASE ~(CanEdit(t) /\ tab[t].left = 1)
    <3>1. tab'[t] = [tab[t] EXCEPT !.left = Older(tab[t].left)]
      BY <1>1, <2>4
    <3>2. QED BY <2>1, <2>2, <3>1 DEF Workspace
  <2>5. QED BY <2>3, <2>4
<1>4. tab' \in [Tabs -> Workspace]
  <2>1. tab' = [t \in Tabs |-> tab'[t]]
    BY <1>1
  <2>2. QED BY <2>1, <1>3
<1>5. QED BY <1>1, <1>2, <1>3, <1>4

LEMMA TickTyped == ASSUME TypeOK, Tick PROVE TypeOK'
<1>1. net' \subseteq Message
  BY TickIs, AgedIs DEF TypeOK
<1>2. /\ UNCHANGED <<versions, ops, issued, session, attempts, faults>>
      /\ lease' \in Lease /\ tab' \in [Tabs -> Workspace]
  BY TickIs
<1>3. QED BY <1>1, <1>2 DEF TypeOK, Current

LEMMA InitTyped == Init => TypeOK
<1> SUFFICES ASSUME Init PROVE TypeOK
  OBVIOUS
<1>1. versions \in Seq(Keys \cup {0}) /\ Current >= 1
  BY DEF Init, Current
<1>2. lease \in Lease /\ issued \in Nat /\ faults \in Nat /\ net \subseteq Message
  BY NoLeaseTyped DEF Init
<1>3. tab \in [Tabs -> Workspace]
  BY UnloadedTyped DEF Init
<1>4. NoAttempt \in Attempt
  BY DEF NoAttempt, Attempt
<1>5. QED BY <1>1, <1>2, <1>3, <1>4 DEF Init, TypeOK

-----------------------------------------------------------------------------
(* Part 3.  What a step does to the messages.  A step of a tab carries the  *)
(* messages over, some of them given up, and sends at most one; a step of   *)
(* the server replaces one.                                                 *)

Carries(f, A) == \A x \in A : \E y \in net : x = f[y] /\ Follows(x, y)
Carried(A) == A \subseteq Message /\ \E f : Carries(f, A)

(* Nobody waits any more for a message of t about one of acts.              *)
Silent(A, t, acts) == \A x \in A : x.tab = t /\ x.act \in acts => ~x.awaited

Sent(x) ==
  /\ x \in Message /\ x.at = "server" /\ x.says = "" /\ x.awaited
  /\ x.login = session[x.tab].n
TabNet(A, N) ==
  /\ net' = A \cup N /\ Carried(A)
  /\ \A x \in N : Sent(x)
  /\ \A x, z \in N : x = z

LEMMA SomeCarried ==
  ASSUME TypeOK, NEW A \in SUBSET net
  PROVE  Carried(A)
<1> DEFINE f == [y \in net |-> y]
<1>1. \A x \in A : x \in net /\ x \in Message /\ x = f[x] /\ Follows(x, x)
  BY FollowsItself DEF TypeOK
<1>2. Carries(f, A)
  BY <1>1 DEF Carries
<1>3. QED BY <1>1, <1>2 DEF Carried

LEMMA IgnoredCarried ==
  ASSUME TypeOK, NEW S \in SUBSET net, NEW t, NEW acts
  PROVE  /\ Carried(Ignore(S, t, acts))
         /\ Silent(Ignore(S, t, acts), t, acts)
         /\ \A u, as : Silent(S, u, as) => Silent(Ignore(S, t, acts), u, as)
<1> DEFINE f == [y \in net |-> Dimmed(y, t, acts)]
           A == Ignore(S, t, acts)
<1>0. S \subseteq Message
  BY DEF TypeOK
<1>1. ASSUME NEW x \in A
      PROVE  /\ x \in Message
             /\ \E y \in S : /\ Follows(x, y) /\ x = f[y]
                             /\ x.awaited => x = y /\ ~(y.tab = t /\ y.act \in acts)
  BY <1>0, <1>1, Ignored
<1>2. Carries(f, A) /\ A \subseteq Message
  <2> HIDE DEF f, A
  <2>1. QED BY <1>1 DEF Carries
<1>3. Carried(A)
  BY <1>2 DEF Carried
<1>4. Silent(A, t, acts) /\ \A u, as : Silent(S, u, as) => Silent(A, u, as)
  <2> HIDE DEF f, A
  <2>1. QED BY <1>1 DEF Silent
<1>5. QED BY <1>3, <1>4

LEMMA AgedCarried ==
  ASSUME TypeOK, Tick
  PROVE  TabNet(net', {})
<1> DEFINE f == [y \in net |-> Aged(y)]
<1>1. net' = {Aged(y) : y \in net}
  BY TickIs
<1>2. \A x \in net' : x \in Message /\ \E y \in net : x = f[y] /\ Follows(x, y)
  BY <1>1, AgedIs DEF TypeOK
<1>3. Carries(f, net')
  BY <1>2 DEF Carries
<1>4. QED BY <1>2, <1>3 DEF Carried, TabNet

LEMMA QuietNet ==
  ASSUME TypeOK, net' \subseteq net
  PROVE  TabNet(net', {})
BY SomeCarried DEF TabNet

(* What is released, by Leave and wherever the effect runs again.           *)
Released(t, N) ==
  \A x \in N :
    /\ x.act = "release" /\ x.tab = t /\ tab[t].gen # 0 /\ x.id = tab[t].gen
    /\ x.source = tab[t].loaded

LEMMA RelinquishCarried ==
  ASSUME TypeOK, NEW S \in SUBSET net, NEW t \in Tabs, net' = Relinquish(S, t)
  PROVE  \E A, N : /\ TabNet(A, N) /\ Released(t, N)
                   /\ Silent(A, t, Leasing \cup {"release"})
                   /\ \A u, as : Silent(S, u, as) => Silent(A, u, as)
<1> DEFINE A == Ignore(S, t, Leasing \cup {"release"})
           N == IF tab[t].gen = 0 THEN {}
                ELSE {[Request(t, "release") EXCEPT !.id = tab[t].gen, !.source = tab[t].loaded]}
<1>0. S \in SUBSET Message
  BY DEF TypeOK
<1>1. net' = A \cup N
  BY DEF Relinquish
<1>2. /\ Carried(A) /\ Silent(A, t, Leasing \cup {"release"})
      /\ \A u, as : Silent(S, u, as) => Silent(A, u, as)
  BY IgnoredCarried
<1>3. \A x, z \in N : x = z
  OBVIOUS
<1>4. ASSUME NEW x \in N
      PROVE  Sent(x) /\ x.act = "release" /\ x.tab = t /\ tab[t].gen # 0 /\ x.id = tab[t].gen
             /\ x.source = tab[t].loaded
  <2>0. PICK r : r = Request(t, "release")
    OBVIOUS
  <2>1. /\ r \in Message /\ r.act = "release" /\ r.tab = t /\ r.at = "server"
        /\ r.login = session[t].n /\ r.says = ""
    <3>1. "release" \in Acts
      BY DEF Acts
    <3>2. r \in Message
      BY <2>0, <3>1, RequestShape
    <3>3. /\ r.act = "release" /\ r.tab = t
          /\ r.at = "server" /\ r.login = session[t].n /\ r.says = ""
      BY <2>0 DEF Request
    <3>4. QED BY <3>2, <3>3
  <2>a. r.awaited
    BY <2>0 DEF Request
  <2>2. tab[t].gen \in Nat /\ tab[t].loaded \in Nat
    BY TabShape
  <2>3. tab[t].gen # 0 /\ x = [r EXCEPT !.id = tab[t].gen, !.source = tab[t].loaded]
    BY <1>4, <2>0
  <2> HIDE DEF N
  <2>4. /\ x \in Message /\ x.tab = t /\ x.act = "release" /\ x.at = "server"
        /\ x.says = "" /\ x.login = session[t].n /\ x.id = tab[t].gen
        /\ x.source = tab[t].loaded
    BY <2>1, <2>2, <2>3 DEF Message
  <2>b. x.awaited
    BY <2>a, <2>1, <2>3 DEF Message
  <2>c. Sent(x)
    BY <2>4, <2>b DEF Sent
  <2>5. QED BY <2>3, <2>4, <2>c
<1>5. TabNet(A, N)
  <2> HIDE DEF A, N
  <2>1. \A x \in N : Sent(x)
    BY <1>4
  <2>2. QED BY <1>1, <1>2, <1>3, <2>1 DEF TabNet
<1>6. Released(t, N)
  <2> HIDE DEF A, N
  <2>1. QED BY <1>4 DEF Released
<1> HIDE DEF A, N
<1>7. QED BY <1>2, <1>5, <1>6

LEMMA SignedOutCarried ==
  ASSUME TypeOK, NEW t \in Tabs, NEW w, SignedOut(t, w)
  PROVE  TabNet(net', {}) /\ Silent(net', t, Acts)
<1>1. net' = Ignore(net, t, Acts)
  BY DEF SignedOut, Acts
<1>2. QED BY <1>1, IgnoredCarried DEF TabNet

LEMMA LeaseRequestNet ==
  ASSUME TypeOK, NEW t \in Tabs, NEW x, LeaseRequest(t, x), net' = net \cup {x}
  PROVE  TabNet(net, {x})
<1>1. Carried(net)
  BY SomeCarried
<1>2. Sent(x)
  BY DEF LeaseRequest, Sent
<1>3. QED BY <1>1, <1>2 DEF TabNet

LEMMA OpRequestNet ==
  ASSUME TypeOK, NEW t \in Tabs, NEW x, OpRequest(t, x), net' = net \cup {x}
  PROVE  TabNet(net, {x})
<1>1. Carried(net)
  BY SomeCarried
<1>2. Sent(x)
  BY DEF OpRequest, Sent
<1>3. QED BY <1>1, <1>2 DEF TabNet

ReloadOf(m) == [m EXCEPT !.act = "load", !.at = "server", !.says = "",
                         !.login = session[m.tab].n]
LEMMA ReloadNet ==
  ASSUME TypeOK, NEW m \in net, m.awaited, Reload(m)
  PROVE  /\ TabNet(net \ {m}, {ReloadOf(m)})
         /\ ReloadOf(m).tab = m.tab /\ ReloadOf(m).act = "load" /\ ReloadOf(m).key = m.key
         /\ ReloadOf(m).saved = m.saved
<1>1. m \in Message /\ session[m.tab].n \in Nat
  BY NetShape, TabShape
<1>2. PICK x : x = ReloadOf(m)
  OBVIOUS
<1>3. /\ x \in Message /\ x.tab = m.tab /\ x.act = "load" /\ x.at = "server" /\ x.says = ""
      /\ x.login = session[m.tab].n /\ x.key = m.key /\ x.saved = m.saved
  BY <1>1, <1>2 DEF Message, Says, Calls, ReloadOf
<1>4. x.awaited
  BY <1>1, <1>2 DEF Message, ReloadOf
<1>5. Sent(x)
  BY <1>3, <1>4 DEF Sent
<1>6. net' = (net \ {m}) \cup {x}
  BY <1>2 DEF Reload, ReloadOf
<1>7. Carried(net \ {m})
  BY SomeCarried
<1>8. TabNet(net \ {m}, {x})
  BY <1>5, <1>6, <1>7 DEF TabNet
<1>9. QED BY <1>2, <1>3, <1>8

(* The server replaces m by one message at most.                            *)
LEMMA OneAnswer ==
  ASSUME NEW m \in net,
         \/ Grant(m) \/ Deny(m) \/ Release(m) \/ Begin(m) \/ Publish(m) \/ Inform(m)
         \/ Content(m) \/ TurnAway(m) \/ Crash(m)
  PROVE  \E r : net' \subseteq (net \ {m}) \cup {r}
<1>1. ASSUME NEW x, Answer(m, x) PROVE \E r : net' \subseteq (net \ {m}) \cup {r}
  BY <1>1 DEF Answer
<1>2. ASSUME NEW what, Say(m, what) PROVE \E r : net' \subseteq (net \ {m}) \cup {r}
  BY <1>1, <1>2 DEF Say
<1>3. ASSUME Stored(m) PROVE \E r : net' \subseteq (net \ {m}) \cup {r}
  BY <1>3 DEF Stored
<1>4. CASE Grant(m)
  BY <1>1, <1>4 DEF Grant, Granted
<1>5. CASE Deny(m)
  BY <1>2, <1>5 DEF Deny
<1>6. CASE Release(m)
  BY <1>6 DEF Release
<1>7. CASE Begin(m)
  BY <1>2, <1>3, <1>7 DEF Begin
<1>8. CASE Publish(m)
  BY <1>2, <1>3, <1>8 DEF Publish
<1>9. CASE Inform(m)
  BY <1>1, <1>2, <1>9 DEF Inform
<1>10. CASE Content(m)
  <2>1. \E what : Say(m, what)
    BY <1>10 DEF Content
  <2>2. QED BY <1>2, <2>1
<1>11. CASE TurnAway(m) \/ Crash(m)
  BY <1>2, <1>11 DEF TurnAway, Crash
<1>12. QED BY <1>4, <1>5, <1>6, <1>7, <1>8, <1>9, <1>10, <1>11

LEMMA CarriedIs ==
  ASSUME NEW A, Carried(A), NEW x \in A
  PROVE  x \in Message /\ \E y \in net : Follows(x, y)
BY DEF Carried, Carries

LEMMA CarriedOnce ==
  ASSUME NEW A, Carried(A), NEW x \in A, NEW z \in A
  PROVE  \E y, v \in net : Follows(x, y) /\ Follows(z, v) /\ (y = v => x = z)
BY DEF Carried, Carries

-----------------------------------------------------------------------------
(* Part 4.  What a step of a tab must do for each layer: on the messages    *)
(* carried over as A, and for every tab t.                                  *)

SessionOf(t, A) ==
  tab'[t].out => /\ tab'[t].status = "checking" /\ tab'[t].left = 0
                 /\ tab[t].out \/ (~session[t].live /\ Silent(A, t, Acts))

LEMMA SessionsKept ==
  ASSUME TypeOK, SessionsInv, NEW A, NEW N, TabNet(A, N), session' = session,
         \A x \in N : ~tab'[x.tab].out,
         \A t \in Tabs : SessionOf(t, A)
  PROVE  SessionsInv'
<1>1. ASSUME NEW x \in A
      PROVE  /\ x.login <= session[x.tab].n
             /\ x.awaited => x.login = session[x.tab].n /\ ~tab'[x.tab].out
             /\ ~x.awaited => x.at \in {"server", "storing"}
             /\ x.at = "tab" /\ x.says = "authentication_required" => ~session[x.tab].live
  <2>1. Carried(A)
    BY DEF TabNet
  <2>2. x \in Message /\ x.tab \in Tabs /\ x.act \in Acts /\ x.awaited \in BOOLEAN
    BY <2>1, <1>1, CarriedIs, MessageShape
  <2>3. PICK y \in net : Follows(x, y)
    BY <2>1, <1>1, CarriedIs
  <2>4. y.awaited \in BOOLEAN
    BY NetShape
  <2>5. /\ y.login <= session[x.tab].n
        /\ y.awaited => y.login = session[x.tab].n /\ ~tab[x.tab].out
        /\ ~y.awaited => y.at \in {"server", "storing"}
        /\ y.at = "tab" /\ y.says = "authentication_required" => ~session[x.tab].live
    BY <2>3 DEF SessionsInv, Follows
  <2>6. x.awaited => ~tab'[x.tab].out
    BY <1>1, <2>2, <2>3, <2>5 DEF SessionOf, Silent, Follows
  <2>7. QED BY <2>3, <2>4, <2>5, <2>6 DEF Follows
<1>2. ASSUME NEW x \in N
      PROVE  /\ x.login <= session[x.tab].n
             /\ x.awaited => x.login = session[x.tab].n /\ ~tab'[x.tab].out
             /\ ~x.awaited => x.at \in {"server", "storing"}
             /\ x.at = "tab" /\ x.says = "authentication_required" => ~session[x.tab].live
  <2>1. Sent(x)
    BY <1>2 DEF TabNet
  <2>2. x \in Message /\ x.login \in Nat /\ x.at = "server" /\ x.login = session[x.tab].n
    BY <2>1, MessageShape DEF Sent
  <2>3. QED BY <1>2, <2>2
<1>3. \A t \in Tabs : tab'[t].out =>
        ~session[t].live /\ tab'[t].status = "checking" /\ tab'[t].left = 0
  BY DEF SessionOf, SessionsInv
<1>4. net' = A \cup N
  BY DEF TabNet
<1>5. QED BY <1>1, <1>2, <1>3, <1>4 DEF SessionsInv

(* An attempt as it was, or ended with its operation.                       *)
Stays(k) ==
  /\ attempts'[k].tab = attempts[k].tab /\ attempts'[k].kind = attempts[k].kind
  /\ attempts'[k].source = attempts[k].source /\ attempts'[k].draft = attempts[k].draft
  /\ attempts'[k].base = attempts[k].base
  /\ attempts'[k].ended => attempts[k].ended \/ ops[k] = "aborted"
Begins(k) ==
  /\ attempts[k].tab = None /\ attempts'[k].source = attempts'[k].base
  /\ ~attempts'[k].ended

LEMMA TabsAreNotNone == \A t \in Tabs : t # None
BY TabsAssumptions

LEMMA OperationsKept ==
  ASSUME TypeOK, OperationsInv, NEW A, NEW N, TabNet(A, N), UNCHANGED <<versions, ops>>,
         \A k \in Keys : Stays(k) \/ Begins(k),
         \A x \in N :
           /\ x.act \in Calls => x.key \in Keys /\ attempts'[x.key].tab = x.tab
           /\ x.act = "load" => x.saved \in 1..Current /\ versions[x.saved] = x.key
  PROVE  OperationsInv'
<1>0. Current' = Current /\ net' = A \cup N /\ Carried(A)
  BY DEF Current, TabNet
<1>1. ASSUME NEW x \in A
      PROVE  /\ x.act \in Calls => x.key \in Keys /\ attempts'[x.key].tab = x.tab
             /\ x.at = "storing" => x.act \in Kinds /\ ops[x.key] = "running"
             /\ x.at = "stored" => x.act \in Kinds /\ ops[x.key] = "committed"
             /\ x.at = "tab" /\ x.act \in Kinds /\ x.says \in Denials => ops[x.key] = "aborted"
             /\ (x.at = "tab" /\ x.says = "stored") \/ x.act = "load" =>
                  x.saved \in 1..Current /\ versions[x.saved] = x.key
  <2>1. PICK y \in net : Follows(x, y)
    BY <1>0, <1>1, CarriedIs
  <2>2. y.tab \in Tabs
    BY NetShape
  <2>3. x.act \in Calls => x.key \in Keys /\ attempts[x.key].tab = x.tab /\ x.tab # None
    BY <2>1, <2>2, TabsAreNotNone DEF OperationsInv, Follows
  <2>4. x.act \in Calls => x.key \in Keys /\ attempts'[x.key].tab = x.tab
    BY <2>3 DEF Stays, Begins
  <2>5. QED BY <2>1, <2>4 DEF OperationsInv, Follows
<1>2. ASSUME NEW x \in N PROVE x.at = "server"
  BY <1>2 DEF TabNet, Sent
<1>3. \A x, z \in net' : x.at = "storing" /\ z.at = "storing" /\ x.key = z.key => x = z
  <2>1. SUFFICES ASSUME NEW x \in A, NEW z \in A, x.at = "storing", z.at = "storing",
                        x.key = z.key
                 PROVE  x = z
    BY <1>0, <1>2
  <2>2. PICK y, v \in net : Follows(x, y) /\ Follows(z, v) /\ (y = v => x = z)
    BY <1>0, CarriedOnce
  <2>3. y.at = "storing" /\ v.at = "storing" /\ y.key = v.key
    BY <2>1, <2>2 DEF Follows
  <2>4. y = v
    BY <2>3 DEF OperationsInv
  <2>5. QED BY <2>2, <2>4
<1>4. \A k \in Keys : /\ attempts'[k].ended => ops[k] = "aborted"
                      /\ ops[k] = "committed" => \E n \in 1..Current : versions[n] = k
  BY DEF OperationsInv, Stays, Begins
<1>5. \A n \in 1..Current : versions[n] # 0 =>
        /\ n >= 2 /\ ops[versions[n]] = "committed"
        /\ attempts'[versions[n]].tab # None /\ attempts'[versions[n]].source = n - 1
  <2>1. SUFFICES ASSUME NEW n \in 1..Current, versions[n] # 0
                 PROVE  /\ n >= 2 /\ ops[versions[n]] = "committed"
                        /\ attempts'[versions[n]].tab # None
                        /\ attempts'[versions[n]].source = n - 1
    OBVIOUS
  <2>2. versions[n] \in Keys
    BY <2>1 DEF TypeOK, Current
  <2>3. QED BY <2>1, <2>2 DEF OperationsInv, Stays, Begins
<1>6. \A x \in net' :
        /\ x.act \in Calls => x.key \in Keys /\ attempts'[x.key].tab = x.tab
        /\ x.at = "storing" => x.act \in Kinds /\ ops[x.key] = "running"
        /\ x.at = "stored" => x.act \in Kinds /\ ops[x.key] = "committed"
        /\ x.at = "tab" /\ x.act \in Kinds /\ x.says \in Denials => ops[x.key] = "aborted"
        /\ (x.at = "tab" /\ x.says = "stored") \/ x.act = "load" =>
             x.saved \in 1..Current /\ versions[x.saved] = x.key
  BY <1>0, <1>1, <1>2
<1>7. QED BY <1>0, <1>3, <1>4, <1>5, <1>6 DEF OperationsInv

(* The draft of t in state s, but for its key.                              *)
Draft(t, s) ==
  /\ s.loaded = s.base /\ s.loaded <= Current
  /\ s.loaded = 0 => s.acked = 0 /\ s.key = 0 /\ s.status = "checking"
  /\ s.acked # 0 => LET a == attempts[versions[s.base]] IN
                    /\ s.base \in 1..Current /\ versions[s.base] # 0
                    /\ a.tab = t /\ a.kind = "save" /\ a.draft = s.acked
DraftOf(t, A) ==
  /\ Draft(t, tab'[t])
  /\ tab'[t].key # 0 => /\ attempts'[tab'[t].key].tab = t
                        /\ attempts'[tab'[t].key].source = tab'[t].loaded
  /\ tab'[t].key = tab[t].key \/ Silent(A, t, Calls)

LEMMA DraftIs ==
  ASSUME TypeOK, DraftsInv, NEW t \in Tabs
  PROVE  /\ Draft(t, tab[t])
         /\ tab[t].key # 0 => /\ attempts[tab[t].key].tab = t /\ tab[t].key \in Keys
                              /\ attempts[tab[t].key].source = tab[t].loaded
<1>1. /\ tab[t].loaded = tab[t].base /\ tab[t].loaded <= Current
      /\ tab[t].loaded = 0 => tab[t].acked = 0 /\ tab[t].key = 0 /\ tab[t].status = "checking"
      /\ tab[t].key # 0 => /\ attempts[tab[t].key].tab = t
                           /\ attempts[tab[t].key].source = tab[t].loaded
      /\ tab[t].acked # 0 => versions[tab[t].base] # 0
  BY DEF DraftsInv
<1>2. tab[t].loaded \in Nat /\ Current \in Nat /\ tab[t].key \in Keys \cup {0}
  BY TabShape, CurrentShape
<1>3. tab[t].acked # 0 => tab[t].base \in 1..Current
  BY <1>1, <1>2
<1>4. tab[t].acked # 0 => LET a == attempts[versions[tab[t].base]] IN
                          a.tab = t /\ a.kind = "save" /\ a.draft = tab[t].acked
  BY DEF DraftsInv, AcknowledgedIsSaved
<1>5. QED BY <1>1, <1>2, <1>3, <1>4 DEF Draft

LEMMA DraftsKept ==
  ASSUME TypeOK, OperationsInv, DraftsInv, NEW A, NEW N, TabNet(A, N), versions' = versions,
         \A k \in Keys : Stays(k) \/ Begins(k),
         \A t \in Tabs : DraftOf(t, A),
         \A x \in N : x.act \in Calls => /\ x.tab \in Tabs /\ x.key = tab'[x.tab].key
                                         /\ Silent(A, x.tab, Calls)
  PROVE  DraftsInv'
<1>0. Current' = Current /\ net' = A \cup N /\ Carried(A) /\ (\A x, z \in N : x = z)
  BY DEF Current, TabNet
<1>1. ASSUME NEW t \in Tabs
      PROVE  /\ tab'[t].loaded = tab'[t].base /\ tab'[t].loaded <= Current
             /\ tab'[t].loaded = 0 =>
                  tab'[t].acked = 0 /\ tab'[t].key = 0 /\ tab'[t].status = "checking"
             /\ tab'[t].key # 0 => /\ attempts'[tab'[t].key].tab = t
                                   /\ attempts'[tab'[t].key].source = tab'[t].loaded
             /\ tab'[t].acked # 0 => versions[tab'[t].base] # 0
             /\ tab'[t].acked # 0 => LET a == attempts'[versions[tab'[t].base]] IN
                                     a.tab = t /\ a.kind = "save" /\ a.draft = tab'[t].acked
  <2>1. ASSUME tab'[t].acked # 0
        PROVE  LET a == attempts'[versions[tab'[t].base]] IN
               a.tab = t /\ a.kind = "save" /\ a.draft = tab'[t].acked
    <3>1. /\ tab'[t].base \in 1..Current /\ versions[tab'[t].base] # 0
          /\ attempts[versions[tab'[t].base]].tab = t
          /\ attempts[versions[tab'[t].base]].kind = "save"
          /\ attempts[versions[tab'[t].base]].draft = tab'[t].acked
      BY <2>1 DEF DraftOf, Draft
    <3>2. versions[tab'[t].base] \in Keys
      BY <3>1 DEF TypeOK, Current
    <3>3. Stays(versions[tab'[t].base])
      BY <3>1, <3>2, TabsAreNotNone DEF Begins
    <3>4. QED BY <3>1, <3>3 DEF Stays
  <2>2. QED BY <2>1 DEF DraftOf, Draft
<1>2. \A k \in Keys : attempts'[k].source = attempts'[k].base
  BY DEF DraftsInv, Stays, Begins
<1>3. ASSUME NEW x \in A, x.awaited, x.act \in Calls
      PROVE  x.key = tab'[x.tab].key
  <2>1. PICK y \in net : Follows(x, y)
    BY <1>0, CarriedIs
  <2>2. y.tab \in Tabs /\ y.key = tab[y.tab].key /\ x.tab = y.tab /\ x.key = y.key
    BY <1>3, <2>1, NetShape DEF DraftsInv, Follows
  <2>3. tab'[x.tab].key = tab[x.tab].key
    BY <1>3, <2>2 DEF DraftOf, Silent
  <2>4. QED BY <2>2, <2>3
<1>4. ASSUME NEW x \in A, NEW z \in A, x.awaited, z.awaited, x.tab = z.tab, x.act \in Calls,
             z.act \in Calls
      PROVE  x = z
  <2>1. PICK y, v \in net : Follows(x, y) /\ Follows(z, v) /\ (y = v => x = z)
    BY <1>0, CarriedOnce
  <2>2. y.awaited /\ v.awaited
    BY <1>4, <2>1 DEF Follows
  <2>3. y.tab = v.tab /\ y.act \in Calls /\ v.act \in Calls
    BY <1>4, <2>1 DEF Follows
  <2>4. QED BY <2>1, <2>2, <2>3 DEF DraftsInv
<1>5. ASSUME NEW x \in A, NEW z \in N, x.awaited, x.tab = z.tab, x.act \in Calls,
             z.act \in Calls
      PROVE  FALSE
  BY <1>5 DEF Silent
<1>6. \A x \in net' : x.awaited /\ x.act \in Calls => x.key = tab'[x.tab].key
  BY <1>0, <1>3
<1>7. \A x, z \in net' : x.awaited /\ z.awaited /\ x.tab = z.tab
                           /\ x.act \in Calls /\ z.act \in Calls => x = z
  BY <1>0, <1>4, <1>5
<1>8. AcknowledgedIsSaved'
  BY <1>1 DEF AcknowledgedIsSaved
<1>9. QED BY <1>0, <1>1, <1>2, <1>6, <1>7, <1>8 DEF DraftsInv

(* The lease, while the server does nothing.                                *)
LeaseOf(t, A) ==
  /\ tab'[t].gen <= issued
  /\ \/ Silent(A, t, Leasing)
     \/ tab'[t].loaded = tab[t].loaded /\ tab[t].asked \subseteq tab'[t].asked
  /\ \/ tab'[t].loaded = tab[t].loaded \/ tab'[t].loaded = 0 \/ tab'[t].loaded = Current
     \/ tab[t].loaded # 0 /\ tab[t].loaded <= tab'[t].loaded
  /\ \/ tab[t].asked \subseteq tab'[t].asked
     \/ \A x \in net : x.act = "release" /\ x.tab = t /\ Valid(x) /\ x.id = issued
                         /\ x.source = Current => <<x.id, x.source>> \in tab'[t].asked
  /\ tab'[t].status = "active" /\ tab'[t].left > 0 /\ session[t].live
       /\ <<tab'[t].gen, tab'[t].loaded>> \notin tab'[t].asked
       => HeldBy(t, tab'[t].gen, tab'[t].left)

(* A release that t sends of the generation it gives up.                    *)
Lets(x, A) ==
  /\ x.tab \in Tabs /\ x.id <= issued /\ x.source <= Current
  /\ tab'[x.tab].loaded = 0 \/ x.source <= tab'[x.tab].loaded
  /\ <<x.id, x.source>> \in tab'[x.tab].asked
  /\ Silent(A, x.tab, Leasing)
Requests(x, A) ==
  /\ x.tab \in Tabs /\ tab'[x.tab].loaded # 0 /\ x.source = tab'[x.tab].loaded
  /\ Silent(A, x.tab, Leasing)

LEMMA ActiveIsAwaited ==
  ASSUME TypeOK, SessionsInv, NEW o \in net, Active(o)
  PROVE  o.awaited
BY DEF SessionsInv, Active

LEMMA LeasesKept ==
  ASSUME TypeOK, TypeOK', SessionsInv', LeasesInv, NEW A, NEW N, TabNet(A, N),
         UNCHANGED <<server, session>>,
         \A t \in Tabs : LeaseOf(t, A),
         \A x \in N : /\ x.act \in Leasing => Requests(x, A)
                      /\ x.act = "release" => Lets(x, A)
  PROVE  LeasesInv'
<1>0. /\ Current' = Current /\ net' = A \cup N /\ Carried(A) /\ issued' = issued
      /\ lease' = lease /\ session' = session
  BY DEF Current, TabNet, server
<1>s. Current \in Nat /\ issued \in Nat
  BY CurrentShape, LeaseShape
<1>n. \A x, z \in N : x = z
  BY DEF TabNet
<1>m. ASSUME NEW x \in N PROVE x \in Message /\ x.at = "server"
  BY <1>m DEF TabNet, Sent
<1>1. ASSUME NEW x \in A, NEW y \in net, Follows(x, y)
      PROVE  /\ x.tab = y.tab /\ x.act = y.act /\ x.at = y.at /\ x.login = y.login
             /\ x.id = y.id /\ x.source = y.source /\ x.says = y.says /\ x.left <= y.left
             /\ x.tab \in Tabs /\ y.left \in Nat /\ x.left \in Nat /\ x.id \in Nat
             /\ x.source \in Nat
  <2>1. x \in Message
    BY <1>0, CarriedIs
  <2>2. QED BY <1>1, <2>1, MessageShape, NetShape DEF Follows
<1>2. ASSUME NEW x \in net', x.act \in Leasing, x.awaited
      PROVE  /\ tab'[x.tab].loaded # 0 /\ x.source = tab'[x.tab].loaded
             /\ Active(x) => x.id <= issued
             /\ Active(x) /\ x.left > 0 /\ Editing(x.tab, x.id, x.source)'
                  => HeldBy(x.tab, x.id, x.left)
  <2>1. CASE x \in A
    <3>1. PICK y \in net : Follows(x, y)
      BY <1>0, <2>1, CarriedIs
    <3>2. y.awaited
      BY <1>2, <3>1 DEF Follows
    <3>3. /\ x.tab = y.tab /\ x.act = y.act /\ x.at = y.at /\ x.id = y.id
          /\ x.source = y.source /\ x.says = y.says /\ x.left <= y.left
          /\ x.tab \in Tabs /\ y.left \in Nat /\ x.left \in Nat
      BY <2>1, <3>1, <1>1
    <3>4. tab'[x.tab].loaded = tab[x.tab].loaded /\ tab[x.tab].asked \subseteq tab'[x.tab].asked
      BY <1>2, <2>1, <3>3 DEF LeaseOf, Silent
    <3>5. /\ tab[x.tab].loaded # 0 /\ x.source = tab[x.tab].loaded
          /\ Active(y) => x.id <= issued
          /\ Active(y) /\ y.left > 0 /\ Editing(x.tab, x.id, x.source)
               => HeldBy(x.tab, x.id, y.left)
      BY <1>2, <3>2, <3>3 DEF LeasesInv
    <3>6. Active(x) => Active(y)
      BY <3>3 DEF Active
    <3>7. Editing(x.tab, x.id, x.source)' => Editing(x.tab, x.id, x.source)
      BY <1>0, <3>4 DEF Editing
    <3>8. HeldBy(x.tab, x.id, y.left) => HeldBy(x.tab, x.id, x.left)
      BY <3>3, LeaseShape DEF HeldBy
    <3>9. QED BY <3>3, <3>4, <3>5, <3>6, <3>7, <3>8
  <2>2. CASE x \in N
    BY <1>2, <1>m, <2>2 DEF Active, Requests
  <2>3. QED BY <1>0, <2>1, <2>2
<1>3. ASSUME NEW x \in net', x.act = "release"
      PROVE  /\ x.id <= issued /\ x.source <= Current
             /\ tab'[x.tab].loaded = 0 \/ x.source <= tab'[x.tab].loaded
             /\ Valid(x) /\ x.id = issued /\ x.source = Current
                  => <<x.id, x.source>> \in tab'[x.tab].asked
  <2>1. CASE x \in A
    <3>1. PICK y \in net : Follows(x, y)
      BY <1>0, <2>1, CarriedIs
    <3>2. /\ x.tab = y.tab /\ x.act = y.act /\ x.id = y.id /\ x.login = y.login
          /\ x.source = y.source /\ x.tab \in Tabs /\ x.id \in Nat /\ x.source \in Nat
      BY <2>1, <3>1, <1>1
    <3>3. /\ x.id <= issued /\ x.source <= Current
          /\ tab[x.tab].loaded = 0 \/ x.source <= tab[x.tab].loaded
          /\ Valid(y) /\ x.id = issued /\ x.source = Current
                  => <<x.id, x.source>> \in tab[x.tab].asked
      BY <1>3, <3>2 DEF LeasesInv
    <3>4. Valid(x) => Valid(y)
      BY <3>2 DEF Valid
    <3>5. tab'[x.tab].loaded = 0 \/ x.source <= tab'[x.tab].loaded
      <4>1. tab'[x.tab].loaded \in Nat /\ tab[x.tab].loaded \in Nat
        BY <3>2, TabShape DEF TypeOK, Workspace
      <4>2. \/ tab'[x.tab].loaded = tab[x.tab].loaded \/ tab'[x.tab].loaded = 0
            \/ tab'[x.tab].loaded = Current
            \/ tab[x.tab].loaded # 0 /\ tab[x.tab].loaded <= tab'[x.tab].loaded
        BY <3>2 DEF LeaseOf
      <4>3. x.source <= Current /\ (tab[x.tab].loaded = 0 \/ x.source <= tab[x.tab].loaded)
        BY <3>3
      <4>4. QED BY <1>s, <3>2, <4>1, <4>2, <4>3
    <3>6. Valid(x) /\ x.id = issued /\ x.source = Current
                  => <<x.id, x.source>> \in tab'[x.tab].asked
      <4>1. CASE tab[x.tab].asked \subseteq tab'[x.tab].asked
        BY <3>3, <3>4, <4>1
      <4>2. CASE \A z \in net : z.act = "release" /\ z.tab = x.tab /\ Valid(z) /\ z.id = issued
                         /\ z.source = Current => <<z.id, z.source>> \in tab'[x.tab].asked
        BY <1>3, <3>2, <3>4, <4>2
      <4>3. QED BY <3>2, <4>1, <4>2 DEF LeaseOf
    <3>7. QED BY <3>3, <3>5, <3>6
  <2>2. CASE x \in N
    BY <1>3, <2>2 DEF Lets
  <2>3. QED BY <1>0, <2>1, <2>2
<1>4. ASSUME NEW x \in net', NEW z \in net', x.awaited, z.awaited, x.tab = z.tab,
             x.act \in Leasing, z.act \in Leasing
      PROVE  x = z
  <2>1. CASE x \in A /\ z \in A
    <3>1. PICK y, v \in net : Follows(x, y) /\ Follows(z, v) /\ (y = v => x = z)
      BY <1>0, <2>1, CarriedOnce
    <3>2. y.awaited /\ v.awaited
      BY <1>4, <3>1 DEF Follows
    <3>3. y.tab = v.tab /\ y.act \in Leasing /\ v.act \in Leasing
      BY <1>4, <3>1 DEF Follows
    <3>4. y = v
      BY <3>2, <3>3 DEF LeasesInv
    <3>5. QED BY <3>1, <3>4
  <2>2. CASE x \in A /\ z \in N
    BY <1>4, <2>2 DEF Requests, Silent
  <2>3. CASE z \in A /\ x \in N
    BY <1>4, <2>3 DEF Requests, Silent
  <2>4. CASE x \in N /\ z \in N
    BY <2>4, <1>n
  <2>5. QED BY <1>0, <2>1, <2>2, <2>3, <2>4
<1>5. ASSUME NEW x \in net', NEW o \in net', x.act = "release", Active(o), x.tab = o.tab
      PROVE  x.id <= o.id
  <2>1. o \in A
    BY <1>0, <1>5, <1>m DEF Active
  <2>2. o.awaited
    BY <1>5 DEF SessionsInv, Active
  <2>3. CASE x \in A
    <3>1. PICK y \in net : Follows(x, y)
      BY <1>0, <2>3, CarriedIs
    <3>2. PICK v \in net : Follows(o, v)
      BY <1>0, <2>1, CarriedIs
    <3>3. x.tab = y.tab /\ x.act = y.act /\ x.id = y.id
      BY <2>3, <3>1, <1>1
    <3>4. o.tab = v.tab /\ o.act = v.act /\ o.id = v.id /\ o.at = v.at /\ o.says = v.says
      BY <2>1, <3>2, <1>1
    <3>5. Active(v)
      BY <1>5, <3>4 DEF Active
    <3>6. y.id <= v.id
      BY <1>5, <3>3, <3>4, <3>5 DEF LeasesInv
    <3>7. QED BY <3>3, <3>4, <3>6
  <2>4. CASE x \in N
    BY <1>5, <2>1, <2>2, <2>4 DEF Lets, Silent, Active
  <2>5. QED BY <1>0, <2>3, <2>4
<1>6. lease.tab # None => lease.id = issued /\ lease.source = Current
  BY DEF LeasesInv
<1>7. \A t \in Tabs : tab'[t].gen <= issued
  BY DEF LeaseOf
<1>8. EditingIsHeld'
  <2>1. SUFFICES ASSUME NEW t \in Tabs, CanEdit(t)', session'[t].live,
                        <<tab'[t].gen, tab'[t].loaded>> \notin tab'[t].asked
                 PROVE  /\ lease'.tab = t /\ lease'.id = tab'[t].gen
                        /\ lease'.login = session'[t].n /\ lease'.left >= tab'[t].left
    BY DEF EditingIsHeld
  <2>2. HeldBy(t, tab'[t].gen, tab'[t].left)
    BY <1>0, <2>1 DEF LeaseOf, CanEdit
  <2>3. QED BY <1>0, <2>2 DEF HeldBy
<1>9. \A x \in net' : x.act \in Leasing /\ x.awaited =>
        /\ tab'[x.tab].loaded # 0 /\ x.source = tab'[x.tab].loaded
        /\ Active(x)' => x.id <= issued'
        /\ Active(x)' /\ x.left > 0 /\ Editing(x.tab, x.id, x.source)'
             => HeldBy(x.tab, x.id, x.left)'
  BY <1>0, <1>2 DEF Active, HeldBy
<1>10. \A x \in net' : x.act = "release" =>
        /\ x.id <= issued' /\ x.source <= Current'
        /\ tab'[x.tab].loaded = 0 \/ x.source <= tab'[x.tab].loaded
        /\ Valid(x)' /\ x.id = issued' /\ x.source = Current'
             => <<x.id, x.source>> \in tab'[x.tab].asked
  BY <1>0, <1>3 DEF Valid
<1>11. \A x, z \in net' : x.awaited /\ z.awaited /\ x.tab = z.tab
                         /\ x.act \in Leasing /\ z.act \in Leasing => x = z
  BY <1>4
<1>12. \A x, o \in net' : x.act = "release" /\ Active(o)' /\ x.tab = o.tab => x.id <= o.id
  BY <1>5 DEF Active
<1>13. QED BY <1>0, <1>6, <1>7, <1>8, <1>9, <1>10, <1>11, <1>12 DEF LeasesInv

-----------------------------------------------------------------------------
(* Part 5.  The steps of a tab.                                             *)

Fine(x, A) ==
  /\ ~tab'[x.tab].out
  /\ x.act \in Calls => /\ x.tab \in Tabs /\ x.key \in Keys /\ x.key = tab'[x.tab].key
                        /\ attempts'[x.key].tab = x.tab /\ Silent(A, x.tab, Calls)
  /\ x.act = "load" => x.saved \in 1..Current /\ versions[x.saved] = x.key
  /\ x.act \in Leasing => Requests(x, A)
  /\ x.act = "release" => Lets(x, A)

LEMMA TabStepKept ==
  ASSUME TabsInv, TypeOK', NEW A, NEW N, TabNet(A, N), UNCHANGED <<server, session>>,
         \A k \in Keys : Stays(k) \/ Begins(k),
         \A t \in Tabs : SessionOf(t, A) /\ DraftOf(t, A) /\ LeaseOf(t, A),
         \A x \in N : Fine(x, A)
  PROVE  TabsInv'
<1>1. SessionsInv'
  BY SessionsKept DEF TabsInv, Fine
<1>2. OperationsInv'
  <2>1. UNCHANGED <<versions, ops>>
    BY DEF server
  <2>2. QED BY <2>1, OperationsKept DEF TabsInv, Fine
<1>3. DraftsInv'
  <2>1. versions' = versions
    BY DEF server
  <2>2. QED BY <2>1, DraftsKept DEF TabsInv, Fine
<1>4. LeasesInv'
  BY <1>1, LeasesKept DEF TabsInv, Fine
<1>5. QED BY <1>1, <1>2, <1>3, <1>4 DEF TabsInv

(* What t has stays; at most it stops editing.                              *)
Keeps(t) ==
  /\ tab'[t].loaded = tab[t].loaded /\ tab'[t].base = tab[t].base
  /\ tab'[t].gen = tab[t].gen /\ tab'[t].acked = tab[t].acked
  /\ tab'[t].key = tab[t].key /\ tab'[t].out = tab[t].out
  /\ tab[t].asked \subseteq tab'[t].asked /\ tab'[t].left <= tab[t].left
  /\ tab'[t].status = "active" => tab[t].status = "active"
  /\ tab[t].out \/ tab[t].loaded = 0 => tab'[t].status = tab[t].status

LEMMA SameKeeps ==
  ASSUME TypeOK, NEW t \in Tabs, tab'[t] = tab[t]
  PROVE  Keeps(t)
BY TabShape DEF Keeps

(* The lease of t is not affected by what keeps or ends its editing.        *)
LEMMA HeldStays ==
  ASSUME TabsInv, TypeOK', NEW t \in Tabs,
         tab'[t].gen = tab[t].gen, tab'[t].loaded = tab[t].loaded,
         tab[t].asked \subseteq tab'[t].asked, tab'[t].left <= tab[t].left,
         tab'[t].status = "active" => tab[t].status = "active"
  PROVE  tab'[t].status = "active" /\ tab'[t].left > 0 /\ session[t].live
           /\ <<tab'[t].gen, tab'[t].loaded>> \notin tab'[t].asked
           => HeldBy(t, tab'[t].gen, tab'[t].left)
<1>1. SUFFICES ASSUME tab'[t].status = "active", tab'[t].left > 0, session[t].live,
                      <<tab'[t].gen, tab'[t].loaded>> \notin tab'[t].asked
               PROVE  HeldBy(t, tab'[t].gen, tab'[t].left)
  OBVIOUS
<1>2. tab[t].left \in Nat /\ tab'[t].left \in Nat /\ lease.left \in Nat
  <2>1. TypeOK
    BY DEF TabsInv
  <2>2. tab'[t].left \in 0..Life
    BY DEF TypeOK, Workspace
  <2>3. QED BY <2>1, <2>2, TabShape, LeaseShape, LifeIs
<1>3. CanEdit(t) /\ <<tab[t].gen, tab[t].loaded>> \notin tab[t].asked
  BY <1>1, <1>2 DEF CanEdit
<1>4. /\ lease.tab = t /\ lease.id = tab[t].gen /\ lease.login = session[t].n
      /\ lease.left >= tab[t].left
  BY <1>1, <1>3 DEF TabsInv, LeasesInv, EditingIsHeld
<1>5. QED BY <1>2, <1>4 DEF HeldBy

LEMMA KeptTab ==
  ASSUME TabsInv, TypeOK', NEW t \in Tabs, NEW A, Keeps(t),
         \A k \in Keys : Stays(k) \/ Begins(k)
  PROVE  SessionOf(t, A) /\ DraftOf(t, A) /\ LeaseOf(t, A)
<1>1. TypeOK /\ SessionsInv /\ OperationsInv /\ DraftsInv /\ LeasesInv
  BY DEF TabsInv
<1>2. tab[t].left \in Nat /\ tab'[t].left \in Nat
  <2>1. tab'[t].left \in 0..Life
    BY DEF TypeOK, Workspace
  <2>2. QED BY <1>1, <2>1, TabShape, LifeIs
<1>3. SessionOf(t, A)
  <2>1. tab[t].out => tab[t].status = "checking" /\ tab[t].left = 0
    BY <1>1 DEF SessionsInv
  <2>2. tab'[t].out = tab[t].out /\ tab'[t].left <= tab[t].left
        /\ (tab[t].out => tab'[t].status = tab[t].status)
    BY DEF Keeps
  <2>3. QED BY <1>2, <2>1, <2>2 DEF SessionOf
<1>4. DraftOf(t, A)
  <2>1. Draft(t, tab[t])
    BY <1>1, DraftIs
  <2>2. tab[t].key # 0 => /\ attempts[tab[t].key].tab = t /\ tab[t].key \in Keys
                          /\ attempts[tab[t].key].source = tab[t].loaded
    BY <1>1, DraftIs
  <2>3. tab[t].key # 0 => Stays(tab[t].key)
    BY <2>2, TabsAreNotNone DEF Begins
  <2>4. tab'[t].key # 0 => /\ attempts'[tab'[t].key].tab = t
                           /\ attempts'[tab'[t].key].source = tab'[t].loaded
    BY <2>2, <2>3 DEF Stays, Keeps
  <2>5. Draft(t, tab'[t])
    BY <2>1 DEF Draft, Keeps
  <2>6. QED BY <2>4, <2>5 DEF DraftOf, Keeps
<1>5. LeaseOf(t, A)
  <2>1. tab'[t].gen <= issued
    BY <1>1 DEF LeasesInv, Keeps
  <2>2. tab'[t].status = "active" /\ tab'[t].left > 0 /\ session[t].live
           /\ <<tab'[t].gen, tab'[t].loaded>> \notin tab'[t].asked
           => HeldBy(t, tab'[t].gen, tab'[t].left)
    BY HeldStays DEF Keeps
  <2>3. QED BY <2>1, <2>2 DEF LeaseOf, Keeps
<1>6. QED BY <1>3, <1>4, <1>5

LEMMA SameAttempts ==
  ASSUME attempts' = attempts
  PROVE  \A k \in Keys : Stays(k) \/ Begins(k)
BY DEF Stays

(* A tab that edits has loaded its document and is signed in.               *)
LEMMA BusyTab ==
  ASSUME TabsInv, NEW t \in Tabs, tab[t].status # "checking"
  PROVE  tab[t].loaded # 0 /\ ~tab[t].out
BY DEF TabsInv, SessionsInv, DraftsInv

(* The server will answer in this session only, and m is all it is waited for. *)
LEMMA AnsweredIsAwaited ==
  ASSUME TabsInv, NEW m \in net, m.at = "tab"
  PROVE  /\ m.awaited
         /\ m.login = session[m.tab].n /\ ~tab[m.tab].out
         /\ m.says = "authentication_required" => ~session[m.tab].live
BY DEF TabsInv, SessionsInv

LEMMA AloneAsked ==
  ASSUME TabsInv, NEW m \in net, m.awaited
  PROVE  /\ m.act \in Calls => Silent(net \ {m}, m.tab, Calls)
         /\ m.act \in Leasing => Silent(net \ {m}, m.tab, Leasing)
<1>1. m.act \in Calls => Silent(net \ {m}, m.tab, Calls)
  BY DEF TabsInv, DraftsInv, Silent
<1>2. m.act \in Leasing => Silent(net \ {m}, m.tab, Leasing)
  BY DEF TabsInv, LeasesInv, Silent
<1>3. QED BY <1>1, <1>2

LEMMA AsksKept ==
  ASSUME TabsInv, TypeOK', NEW t \in Tabs, Acquire(t) \/ Retry(t) \/ Renew(t)
  PROVE  TabsInv'
<1>1. TypeOK
  BY DEF TabsInv
<1>2. PICK x : LeaseRequest(t, x) /\ net' = net \cup {x}
  BY <1>1, LeaseRequests
<1>3. TabNet(net, {x})
  BY <1>1, <1>2, LeaseRequestNet
<1>4. tab[t].loaded # 0 /\ ~tab[t].out
  <2>1. CASE Acquire(t)
    BY <2>1 DEF Acquire
  <2>2. CASE Retry(t) \/ Renew(t)
    BY <2>2, BusyTab DEF Retry, Renew
  <2>3. QED BY <2>1, <2>2
<1>5. /\ UNCHANGED <<server, session, attempts>> /\ Silent(net, t, Leasing)
      /\ tab' = tab \/ tab' = [tab EXCEPT ![t].status = "checking"]
  BY DEF Acquire, Retry, Renew, Awaits, Silent
<1>6. \A u \in Tabs : Keeps(u)
  <2>1. CASE tab' = tab
    BY <2>1, <1>1, SameKeeps
  <2>2. CASE tab' = [tab EXCEPT ![t].status = "checking"]
    <3>1. ASSUME NEW u \in Tabs, u # t PROVE Keeps(u)
      BY <1>1, <2>2, <3>1, SameKeeps DEF TypeOK
    <3>2. tab'[t] = [tab[t] EXCEPT !.status = "checking"]
      BY <1>1, <2>2 DEF TypeOK
    <3>3. tab[t] \in Workspace /\ tab[t].left \in Nat
      BY <1>1, TabShape
    <3>4. Keeps(t)
      BY <1>4, <3>2, <3>3 DEF Keeps, Workspace
    <3>5. QED BY <3>1, <3>4
  <2>3. QED BY <1>5, <2>1, <2>2
<1>7. \A k \in Keys : Stays(k) \/ Begins(k)
  BY <1>5, SameAttempts
<1>8. \A u \in Tabs : SessionOf(u, net) /\ DraftOf(u, net) /\ LeaseOf(u, net)
  BY <1>6, <1>7, KeptTab
<1>9. Fine(x, net)
  <2>1. x.tab = t /\ x.act \in Leasing /\ x.source = tab[t].loaded
    BY <1>2 DEF LeaseRequest
  <2>2. Requests(x, net)
    BY <1>4, <1>5, <1>6, <2>1 DEF Requests, Keeps
  <2>3. ~tab'[t].out
    BY <1>4, <1>6 DEF Keeps
  <2>4. x.act \notin Calls /\ x.act # "release" /\ x.act # "load"
    BY <2>1, KindsAre
  <2>5. QED BY <2>1, <2>2, <2>3, <2>4 DEF Fine
<1>10. QED BY <1>3, <1>5, <1>7, <1>8, <1>9, TabStepKept

(* The effect runs again, for the document as w has it.                     *)
LEMMA RerunKept ==
  ASSUME TabsInv, TypeOK', NEW t \in Tabs, NEW w \in Workspace, NEW S \in SUBSET net,
         Rerun(t, w, S), UNCHANGED <<server, session, attempts>>,
         ~tab[t].out, ~w.out, w.key = 0, Silent(S, t, Calls),
         w.loaded = w.base, w.loaded <= Current, w.loaded = 0 => w.acked = 0,
         w.acked # 0 => /\ w.base \in 1..Current /\ versions[w.base] # 0
                        /\ attempts[versions[w.base]].tab = t
                        /\ attempts[versions[w.base]].kind = "save"
                        /\ attempts[versions[w.base]].draft = w.acked,
         w.loaded = 0 \/ (tab[t].loaded # 0 /\ tab[t].loaded <= w.loaded)
  PROVE  TabsInv'
<1>1. TypeOK /\ DraftsInv /\ LeasesInv /\ S \in SUBSET Message
  BY DEF TabsInv, TypeOK
<1>2. /\ tab'[t].status = "checking" /\ tab'[t].gen = 0 /\ tab'[t].left = 0
      /\ tab'[t].asked = Asked(t) /\ tab'[t].loaded = w.loaded
      /\ tab'[t].base = w.base /\ tab'[t].acked = w.acked /\ tab'[t].key = w.key
      /\ tab'[t].out = w.out
      /\ \A u \in Tabs : u # t => tab'[u] = tab[u]
  BY <1>1, RerunTyped
<1>3. PICK A, N : /\ TabNet(A, N) /\ Released(t, N)
                  /\ Silent(A, t, Leasing \cup {"release"})
                  /\ \A u, as : Silent(S, u, as) => Silent(A, u, as)
  <2>1. net' = Relinquish(S, t)
    BY DEF Rerun
  <2>2. QED BY <1>1, <2>1, RelinquishCarried
<1>4. \A k \in Keys : Stays(k) \/ Begins(k)
  BY SameAttempts
<1>5. Silent(A, t, Calls) /\ Silent(A, t, Leasing)
  BY <1>3 DEF Silent
<1>6. ASSUME NEW u \in Tabs, u # t
      PROVE  SessionOf(u, A) /\ DraftOf(u, A) /\ LeaseOf(u, A)
  BY <1>1, <1>2, <1>4, <1>6, SameKeeps, KeptTab
<1>7. SessionOf(t, A)
  BY <1>2 DEF SessionOf
<1>8. DraftOf(t, A)
  <2>1. Draft(t, tab'[t])
    BY <1>2 DEF Draft
  <2>2. QED BY <1>2, <1>5, <2>1 DEF DraftOf
<1>s. /\ tab[t].loaded \in Nat /\ tab[t].gen \in Nat /\ issued \in Nat /\ w.loaded \in Nat
      /\ Current \in Nat
  BY <1>1, TabShape, LeaseShape, CurrentShape DEF Workspace
<1>9. LeaseOf(t, A)
  <2>1. tab'[t].gen <= issued
    BY <1>s, <1>2
  <2>2. tab[t].asked \subseteq tab'[t].asked
    BY <1>2 DEF Asked
  <2>3. tab'[t].status # "active"
    BY <1>2
  <2>4. \/ tab'[t].loaded = 0
        \/ tab[t].loaded # 0 /\ tab[t].loaded <= tab'[t].loaded
    BY <1>2
  <2>5. QED BY <1>5, <2>1, <2>2, <2>3, <2>4 DEF LeaseOf
<1>10. ASSUME NEW x \in N PROVE Fine(x, A)
  <2>1. /\ x.act = "release" /\ x.tab = t /\ tab[t].gen # 0 /\ x.id = tab[t].gen
        /\ x.source = tab[t].loaded
    BY <1>3, <1>10 DEF Released
  <2>2. tab[t].gen <= issued /\ tab[t].loaded <= Current
    BY <1>1 DEF LeasesInv, DraftsInv
  <2>3. <<x.id, x.source>> \in tab'[t].asked
    BY <1>2, <2>1 DEF Asked
  <2>4. tab'[t].loaded = 0 \/ x.source <= tab'[t].loaded
    BY <1>2, <2>1
  <2>5. Lets(x, A)
    BY <1>5, <2>1, <2>2, <2>3, <2>4 DEF Lets
  <2>6. x.act \notin Calls /\ x.act \notin Leasing /\ x.act # "load"
    BY <2>1, KindsAre
  <2>7. QED BY <1>2, <2>1, <2>5, <2>6 DEF Fine
<1>11. QED BY <1>3, <1>4, <1>6, <1>7, <1>8, <1>9, <1>10, TabStepKept

(* A 401 of the present session.                                            *)
LEMMA SignedOutKept ==
  ASSUME TabsInv, TypeOK', NEW t \in Tabs, NEW w \in Workspace, SignedOut(t, w),
         UNCHANGED <<server, session, attempts>>, ~session[t].live,
         w.loaded = tab[t].loaded, w.base = tab[t].base, w.acked = tab[t].acked,
         w.asked = tab[t].asked, w.key = tab[t].key \/ w.key = 0
  PROVE  TabsInv'
<1>1. TypeOK /\ DraftsInv /\ LeasesInv
  BY DEF TabsInv
<1>2. /\ tab'[t].status = "checking" /\ tab'[t].gen = 0 /\ tab'[t].left = 0
      /\ tab'[t].asked = w.asked /\ tab'[t].loaded = w.loaded
      /\ tab'[t].base = w.base /\ tab'[t].acked = w.acked /\ tab'[t].key = w.key
      /\ \A u \in Tabs : u # t => tab'[u] = tab[u]
  BY <1>1, SignedOutTyped
<1>3. TabNet(net', {}) /\ Silent(net', t, Acts)
  BY <1>1, SignedOutCarried
<1>4. \A k \in Keys : Stays(k) \/ Begins(k)
  BY SameAttempts
<1>5. Silent(net', t, Calls) /\ Silent(net', t, Leasing)
  BY <1>3, KindsAre DEF Silent
<1>6. ASSUME NEW u \in Tabs, u # t
      PROVE  SessionOf(u, net') /\ DraftOf(u, net') /\ LeaseOf(u, net')
  BY <1>1, <1>2, <1>4, <1>6, SameKeeps, KeptTab
<1>7. SessionOf(t, net')
  BY <1>2, <1>3 DEF SessionOf
<1>8. DraftOf(t, net')
  <2>1. /\ Draft(t, tab[t])
        /\ tab[t].key # 0 => /\ attempts[tab[t].key].tab = t
                             /\ attempts[tab[t].key].source = tab[t].loaded
    BY <1>1, DraftIs
  <2>2. Draft(t, tab'[t])
    BY <1>2, <2>1 DEF Draft
  <2>3. QED BY <1>2, <1>5, <2>1, <2>2 DEF DraftOf
<1>9. LeaseOf(t, net')
  <2>1. tab'[t].gen <= issued
    BY <1>1, <1>2, LeaseShape
  <2>2. QED BY <1>2, <1>5, <2>1 DEF LeaseOf
<1>10. QED BY <1>3, <1>4, <1>6, <1>7, <1>8, <1>9, TabStepKept

LEMMA LeaveKept ==
  ASSUME TabsInv, TypeOK', NEW t \in Tabs, Leave(t)
  PROVE  TabsInv'
<1>1. TypeOK /\ DraftsInv /\ LeasesInv
  BY DEF TabsInv
<1>2. /\ tab[t].loaded # 0 /\ ~tab[t].out /\ UNCHANGED <<server, session, attempts>>
      /\ net' = Relinquish(net, t)
  BY DEF Leave
<1>p. PICK p : p = Paused(tab[t], "lease_lost")
  OBVIOUS
<1>q. /\ p \in Workspace /\ p.left = 0 /\ p.status \in {"paused", "outdated"}
      /\ p.loaded = tab[t].loaded /\ p.base = tab[t].base /\ p.gen = tab[t].gen
      /\ p.acked = tab[t].acked /\ p.key = tab[t].key /\ p.out = tab[t].out
  BY <1>1, <1>p, TabShape, PausedTyped
<1>w. PICK w : w = [p EXCEPT !.asked = Asked(t)]
  OBVIOUS
<1>x. /\ w \in Workspace /\ w.left = 0 /\ w.status # "active"
      /\ w.loaded = tab[t].loaded /\ w.base = tab[t].base /\ w.gen = tab[t].gen
      /\ w.acked = tab[t].acked /\ w.key = tab[t].key /\ w.out = tab[t].out
      /\ w.asked = Asked(t)
  BY <1>1, <1>q, <1>w, AskedTyped DEF Workspace
<1>3. tab'[t] = w /\ \A u \in Tabs : u # t => tab'[u] = tab[u]
  <2>1. tab' = [tab EXCEPT ![t] = w]
    BY <1>p, <1>w DEF Leave
  <2>2. QED BY <1>1, <1>x, <2>1, TabTyped
<1>4. PICK A, N : /\ TabNet(A, N) /\ Released(t, N)
                  /\ Silent(A, t, Leasing \cup {"release"})
  BY <1>1, <1>2, RelinquishCarried
<1>5. \A k \in Keys : Stays(k) \/ Begins(k)
  BY <1>2, SameAttempts
<1>6. \A u \in Tabs : Keeps(u)
  <2>1. ASSUME NEW u \in Tabs, u # t PROVE Keeps(u)
    BY <1>1, <1>3, <2>1, SameKeeps
  <2>2. tab[t].asked \subseteq Asked(t) /\ 0 <= tab[t].left
    BY <1>1, TabShape DEF Asked
  <2>3. Keeps(t)
    BY <1>2, <1>3, <1>x, <2>2 DEF Keeps
  <2>4. QED BY <2>1, <2>3
<1>7. \A u \in Tabs : SessionOf(u, A) /\ DraftOf(u, A) /\ LeaseOf(u, A)
  BY <1>5, <1>6, KeptTab
<1>8. ASSUME NEW x \in N PROVE Fine(x, A)
  <2>1. /\ x.act = "release" /\ x.tab = t /\ tab[t].gen # 0 /\ x.id = tab[t].gen
        /\ x.source = tab[t].loaded
    BY <1>4, <1>8 DEF Released
  <2>2. tab[t].gen <= issued /\ tab[t].loaded <= Current /\ tab[t].loaded \in Nat
    BY <1>1, TabShape DEF LeasesInv, DraftsInv
  <2>3. <<x.id, x.source>> \in tab'[t].asked
    BY <1>3, <1>x, <2>1 DEF Asked
  <2>4. x.source <= tab'[t].loaded
    BY <1>3, <1>x, <2>1, <2>2
  <2>5. Silent(A, t, Leasing)
    BY <1>4 DEF Silent
  <2>6. Lets(x, A)
    BY <2>1, <2>2, <2>3, <2>4, <2>5 DEF Lets
  <2>7. x.act \notin Calls /\ x.act \notin Leasing /\ x.act # "load"
    BY <2>1, KindsAre
  <2>8. QED BY <1>2, <1>3, <1>x, <2>1, <2>6, <2>7 DEF Fine
<1>9. QED BY <1>2, <1>4, <1>5, <1>7, <1>8, TabStepKept

LEMMA ReopenKept ==
  ASSUME TabsInv, TypeOK', NEW t \in Tabs, Reopen(t)
  PROVE  TabsInv'
<1>1. /\ ~tab[t].out /\ Rerun(t, Unloaded, net) /\ UNCHANGED <<server, session, attempts>>
      /\ Silent(net, t, Calls)
  BY DEF Reopen, Awaits, Silent
<1>2. /\ Unloaded.key = 0 /\ ~Unloaded.out /\ Unloaded.loaded = 0 /\ Unloaded.base = 0
      /\ Unloaded.acked = 0
  BY DEF Unloaded
<1>3. TypeOK /\ 0 <= Current
  BY CurrentShape DEF TabsInv
<1>4. QED BY <1>1, <1>2, <1>3, UnloadedTyped, RerunKept

LEMMA LoadKept ==
  ASSUME TabsInv, TypeOK', NEW t \in Tabs, Load(t)
  PROVE  TabsInv'
<1>1. TypeOK /\ DraftsInv /\ LeasesInv /\ SessionsInv
  BY DEF TabsInv
<1>2. /\ tab[t].loaded = 0 /\ ~tab[t].out /\ UNCHANGED <<server, session, attempts>>
      /\ net' = net
  BY DEF Load
<1>3. /\ tab'[t] = [tab[t] EXCEPT !.loaded = Current, !.base = Current]
      /\ \A u \in Tabs : u # t => tab'[u] = tab[u]
  BY <1>1 DEF Load, TypeOK
<1>4. /\ tab'[t].loaded = Current /\ tab'[t].base = Current /\ tab'[t].out = tab[t].out
      /\ tab'[t].status = tab[t].status /\ tab'[t].left = tab[t].left
      /\ tab'[t].acked = tab[t].acked /\ tab'[t].key = tab[t].key
      /\ tab'[t].gen = tab[t].gen /\ tab'[t].asked = tab[t].asked
  BY <1>1, <1>3, TabShape DEF Workspace
<1>5. /\ tab[t].acked = 0 /\ tab[t].key = 0 /\ tab[t].status = "checking"
      /\ Current \in Nat /\ Current # 0
  BY <1>1, <1>2, CurrentShape DEF DraftsInv
<1>6. \A k \in Keys : Stays(k) \/ Begins(k)
  BY <1>2, SameAttempts
<1>7. TabNet(net, {})
  BY <1>1, <1>2, QuietNet
<1>8. ASSUME NEW u \in Tabs, u # t
      PROVE  SessionOf(u, net) /\ DraftOf(u, net) /\ LeaseOf(u, net)
  BY <1>1, <1>3, <1>6, <1>8, SameKeeps, KeptTab
<1>9. Silent(net, t, Leasing)
  BY <1>1, <1>2 DEF Silent, LeasesInv
<1>10. SessionOf(t, net)
  BY <1>2, <1>4 DEF SessionOf
<1>11. DraftOf(t, net)
  BY <1>4, <1>5 DEF DraftOf, Draft
<1>12. LeaseOf(t, net)
  BY <1>1, <1>4, <1>5, <1>9 DEF LeaseOf, LeasesInv
<1>13. QED BY <1>2, <1>6, <1>7, <1>8, <1>10, <1>11, <1>12, TabStepKept

LEMMA EditKept ==
  ASSUME TabsInv, TypeOK', NEW t \in Tabs, Edit(t)
  PROVE  TabsInv'
<1>1. TypeOK
  BY DEF TabsInv
<1>2. UNCHANGED <<server, session, attempts>> /\ net' = net
  BY DEF Edit
<1>3. /\ tab'[t] = [tab[t] EXCEPT !.draft = tab[t].draft + 1]
      /\ \A u \in Tabs : u # t => tab'[u] = tab[u]
  BY <1>1 DEF Edit, TypeOK
<1>4. \A u \in Tabs : Keeps(u)
  <2>1. ASSUME NEW u \in Tabs, u # t PROVE Keeps(u)
    BY <1>1, <1>3, <2>1, SameKeeps
  <2>2. Keeps(t)
    BY <1>1, <1>3, TabShape DEF Keeps, Workspace
  <2>3. QED BY <2>1, <2>2
<1>5. \A k \in Keys : Stays(k) \/ Begins(k)
  BY <1>2, SameAttempts
<1>6. TabNet(net, {})
  BY <1>1, <1>2, QuietNet
<1>7. \A u \in Tabs : SessionOf(u, net) /\ DraftOf(u, net) /\ LeaseOf(u, net)
  BY <1>4, <1>5, KeptTab
<1>8. QED BY <1>2, <1>5, <1>6, <1>7, TabStepKept

LEMMA TryKept ==
  ASSUME TabsInv, TypeOK', NEW t \in Tabs, Save(t) \/ Restore(t)
  PROVE  TabsInv'
<1>1. TypeOK /\ DraftsInv /\ LeasesInv /\ SessionsInv
  BY DEF TabsInv
<1>2. PICK k \in Keys, kind \in Kinds, n \in Nat, x \in Message :
        /\ FirstTry(t, k, kind, n) \/ TryAgain(t, k)
        /\ OpRequest(t, x) /\ x.key = k /\ net' = net \cup {x}
  BY <1>1, OpRequests
<1>3. TabNet(net, {x}) /\ x.tab = t /\ x.act \in Kinds
  BY <1>1, <1>2, OpRequestNet DEF OpRequest
<1>4. /\ ~tab[t].out /\ Silent(net, t, Calls) /\ UNCHANGED <<server, session>>
  BY DEF Save, Restore, Awaits, Silent
<1>5. k # 0 /\ k \in Nat
  BY DEF Keys
<1>6. CASE TryAgain(t, k)
  <2>1. k = tab[t].key /\ attempts' = attempts /\ tab' = tab
    BY <1>6 DEF TryAgain
  <2>2. \A j \in Keys : Stays(j) \/ Begins(j)
    BY <2>1, SameAttempts
  <2>3. \A u \in Tabs : SessionOf(u, net) /\ DraftOf(u, net) /\ LeaseOf(u, net)
    BY <1>1, <2>1, <2>2, SameKeeps, KeptTab
  <2>4. attempts'[k].tab = t
    BY <1>1, <1>5, <2>1, DraftIs
  <2>5. Fine(x, net)
    BY <1>2, <1>3, <1>4, <2>1, <2>4, KindsAre DEF Fine
  <2>6. QED BY <1>3, <1>4, <2>2, <2>3, <2>5, TabStepKept
<1>7. CASE FirstTry(t, k, kind, n)
  <2>1. /\ attempts'[k] = Snapshot(t, kind, n)
        /\ \A j \in Keys : j # k => attempts'[j] = attempts[j]
        /\ tab'[t] = [tab[t] EXCEPT !.key = k]
        /\ \A u \in Tabs : u # t => tab'[u] = tab[u]
        /\ tab[t].key = 0 /\ attempts[k].tab = None /\ CanEdit(t)
    BY <1>1, <1>7, NewAttemptTyped DEF FirstTry
  <2>2. /\ tab'[t].loaded = tab[t].loaded /\ tab'[t].base = tab[t].base
        /\ tab'[t].gen = tab[t].gen /\ tab'[t].acked = tab[t].acked
        /\ tab'[t].key = k /\ tab'[t].out = tab[t].out /\ tab'[t].status = tab[t].status
        /\ tab'[t].asked = tab[t].asked /\ tab'[t].left = tab[t].left
    BY <1>1, <2>1, TabShape DEF Workspace
  <2>3. /\ attempts'[k].tab = t /\ attempts'[k].source = tab[t].loaded
        /\ attempts'[k].base = tab[t].base /\ attempts'[k].ended = FALSE
    BY <2>1 DEF Snapshot
  <2>4. tab[t].loaded = tab[t].base /\ tab[t].loaded # 0
    BY <1>1, <2>1, BusyTab DEF DraftsInv, CanEdit
  <2>5. \A j \in Keys : Stays(j) \/ Begins(j)
    BY <2>1, <2>3, <2>4 DEF Stays, Begins
  <2>6. ASSUME NEW u \in Tabs, u # t
        PROVE  SessionOf(u, net) /\ DraftOf(u, net) /\ LeaseOf(u, net)
    BY <1>1, <2>1, <2>5, <2>6, SameKeeps, KeptTab
  <2>7. SessionOf(t, net)
    BY <1>4, <2>2 DEF SessionOf
  <2>8. DraftOf(t, net)
    <3>1. Draft(t, tab[t])
      BY <1>1, DraftIs
    <3>2. Draft(t, tab'[t])
      BY <2>2, <2>4, <3>1 DEF Draft
    <3>3. QED BY <1>4, <2>2, <2>3, <3>2 DEF DraftOf
  <2>9. LeaseOf(t, net)
    <3>1. tab'[t].gen <= issued
      BY <1>1, <2>2 DEF LeasesInv
    <3>2. tab'[t].left <= tab[t].left
      BY <1>1, <2>2, TabShape
    <3>3. tab'[t].status = "active" /\ tab'[t].left > 0 /\ session[t].live
            /\ <<tab'[t].gen, tab'[t].loaded>> \notin tab'[t].asked
            => HeldBy(t, tab'[t].gen, tab'[t].left)
      BY <2>2, <3>2, HeldStays
    <3>4. QED BY <2>2, <3>1, <3>3 DEF LeaseOf
  <2>10. Fine(x, net)
    BY <1>2, <1>3, <1>4, <2>2, <2>3, KindsAre DEF Fine
  <2>11. \A u \in Tabs : SessionOf(u, net) /\ DraftOf(u, net) /\ LeaseOf(u, net)
    BY <2>6, <2>7, <2>8, <2>9
  <2>12. QED BY <1>3, <1>4, <2>5, <2>10, <2>11, TabStepKept
<1>8. QED BY <1>2, <1>6, <1>7

(* The session of t ends, or its user signs in again.                       *)
LEMMA SessionStepKept ==
  ASSUME TabsInv, TypeOK', NEW t \in Tabs, EndSession(t) \/ SignIn(t)
  PROVE  TabsInv'
<1>1. TypeOK /\ SessionsInv /\ OperationsInv /\ DraftsInv /\ LeasesInv
  BY DEF TabsInv
<1>2. UNCHANGED <<server, attempts, net>> /\ Current' = Current
  BY DEF EndSession, SignIn, server, Current
<1>3. /\ \A e \in Editors : e # t => session'[e] = session[e]
      /\ \/ SignIn(t) /\ session'[t].n = session[t].n + 1 /\ session'[t].live
         \/ EndSession(t) /\ session'[t].n = session[t].n /\ ~session'[t].live
  BY <1>1, SessionTyped
<1>4. \A u \in Tabs : u \in Editors
  BY DEF Editors
<1>5. /\ \A u \in Tabs : u # t => tab'[u] = tab[u]
      /\ EndSession(t) => tab'[t] = tab[t]
      /\ SignIn(t) => tab[t].out /\ tab'[t] = [tab[t] EXCEPT !.out = FALSE]
  BY <1>1 DEF EndSession, SignIn, TypeOK
<1>6. SignIn(t) => tab'[t].out = FALSE
  BY <1>1, <1>5, TabShape DEF Workspace
<1>7. \A u \in Tabs :
        /\ tab'[u].loaded = tab[u].loaded /\ tab'[u].base = tab[u].base
        /\ tab'[u].gen = tab[u].gen /\ tab'[u].acked = tab[u].acked
        /\ tab'[u].key = tab[u].key /\ tab'[u].status = tab[u].status
        /\ tab'[u].asked = tab[u].asked /\ tab'[u].left = tab[u].left
  BY <1>1, <1>3, <1>5, TabShape DEF Workspace
<1>8. ASSUME NEW m \in net, SignIn(t), m.tab = t
      PROVE  ~m.awaited /\ m.at # "tab"
  BY <1>1, <1>5, <1>8 DEF SessionsInv
<1>n. ASSUME NEW u \in Tabs
      PROVE  session[u].n \in Nat /\ session'[u].n \in Nat
  BY <1>1, <1>3, <1>4, <1>n, TabShape
<1>9. SessionsInv'
  <2>1. ASSUME NEW m \in net
        PROVE  /\ m.login <= session'[m.tab].n
               /\ m.awaited => m.login = session'[m.tab].n /\ ~tab'[m.tab].out
               /\ ~m.awaited => m.at \in {"server", "storing"}
               /\ m.at = "tab" /\ m.says = "authentication_required"
                    => ~session'[m.tab].live
    <3>1. m.tab \in Tabs /\ m.login \in Nat /\ m.awaited \in BOOLEAN
      BY <1>1, NetShape
    <3>2. /\ m.login <= session[m.tab].n
          /\ m.awaited => m.login = session[m.tab].n /\ ~tab[m.tab].out
          /\ ~m.awaited => m.at \in {"server", "storing"}
          /\ m.at = "tab" /\ m.says = "authentication_required"
                    => ~session[m.tab].live
      BY <1>1 DEF SessionsInv
    <3>3. CASE m.tab # t
      BY <1>3, <1>4, <1>5, <3>1, <3>2, <3>3
    <3>4. CASE m.tab = t /\ EndSession(t) /\ session'[t].n = session[t].n /\ ~session'[t].live
      BY <1>5, <3>2, <3>4
    <3>5. CASE m.tab = t /\ SignIn(t) /\ session'[t].n = session[t].n + 1
      <4>1. m.login <= session'[m.tab].n
        BY <1>n, <3>1, <3>2, <3>5
      <4>2. ~m.awaited /\ m.at # "tab"
        BY <1>8, <3>5
      <4>3. QED BY <3>2, <4>1, <4>2
    <3>6. QED BY <1>3, <3>3, <3>4, <3>5
  <2>2. ASSUME NEW u \in Tabs, tab'[u].out
        PROVE  ~session'[u].live /\ tab'[u].status = "checking" /\ tab'[u].left = 0
    <3>1. tab[u].out
      BY <1>3, <1>5, <1>6, <2>2
    <3>2. ~session[u].live /\ tab[u].status = "checking" /\ tab[u].left = 0
      BY <1>1, <3>1 DEF SessionsInv
    <3>3. ~session'[u].live
      BY <1>3, <1>4, <1>6, <2>2, <3>2
    <3>4. QED BY <1>7, <3>2, <3>3
  <2>3. QED BY <1>2, <2>1, <2>2 DEF SessionsInv
<1>10. OperationsInv'
  BY <1>1, <1>2 DEF OperationsInv, server
<1>11. DraftsInv'
  <2>1. AcknowledgedIsSaved'
    BY <1>1, <1>2, <1>7 DEF DraftsInv, AcknowledgedIsSaved, server
  <2>2. \A m \in net : m.awaited /\ m.act \in Calls => m.key = tab'[m.tab].key
    BY <1>1, <1>7, NetShape DEF DraftsInv
  <2>3. QED BY <1>1, <1>2, <1>7, <2>1, <2>2 DEF DraftsInv, server
<1>12. LeasesInv'
  <2>1. ASSUME NEW u \in Tabs, session'[u].live, u # t \/ tab[u].out
        PROVE  /\ u # t \/ tab[u].left = 0
               /\ u # t => session[u].live /\ session'[u].n = session[u].n
    BY <1>1, <1>3, <1>4, <2>1 DEF SessionsInv
  <2>2. ASSUME NEW u \in Tabs, CanEdit(u)', session'[u].live,
               <<tab'[u].gen, tab'[u].loaded>> \notin tab'[u].asked
        PROVE  /\ lease.tab = u /\ lease.id = tab'[u].gen
               /\ lease.login = session'[u].n /\ lease.left >= tab'[u].left
    <3>1. CanEdit(u) /\ <<tab[u].gen, tab[u].loaded>> \notin tab[u].asked
      BY <1>7, <2>2 DEF CanEdit
    <3>2. u # t
      BY <1>1, <1>3, <1>5, <2>2, <3>1 DEF SessionsInv, CanEdit
    <3>3. session'[u] = session[u]
      BY <1>3, <1>4, <3>2
    <3>4. /\ lease.tab = u /\ lease.id = tab[u].gen
          /\ lease.login = session[u].n /\ lease.left >= tab[u].left
      BY <1>1, <2>2, <3>1, <3>3 DEF LeasesInv, EditingIsHeld
    <3>5. QED BY <1>7, <3>3, <3>4
  <2>3. EditingIsHeld'
    BY <1>2, <2>2 DEF EditingIsHeld, server
  <2>4. ASSUME NEW m \in net, m.act \in Leasing, m.awaited
        PROVE  /\ tab'[m.tab].loaded # 0 /\ m.source = tab'[m.tab].loaded
               /\ Active(m) => m.id <= issued
               /\ Active(m) /\ m.left > 0 /\ Editing(m.tab, m.id, m.source)'
                    => HeldBy(m.tab, m.id, m.left)'
    <3>1. m.tab \in Tabs
      BY <1>1, NetShape
    <3>2. /\ tab[m.tab].loaded # 0 /\ m.source = tab[m.tab].loaded
          /\ Active(m) => m.id <= issued
          /\ Active(m) /\ m.left > 0 /\ Editing(m.tab, m.id, m.source)
               => HeldBy(m.tab, m.id, m.left)
      BY <1>1, <2>4 DEF LeasesInv
    <3>3. ASSUME Active(m), m.left > 0, Editing(m.tab, m.id, m.source)'
          PROVE  HeldBy(m.tab, m.id, m.left)'
      <4>1. session'[m.tab].live /\ <<m.id, m.source>> \notin tab[m.tab].asked
        BY <1>7, <3>1, <3>3 DEF Editing
      <4>2. ~(SignIn(t) /\ m.tab = t)
        BY <1>8, <2>4
      <4>3. m.tab # t
        BY <1>3, <4>1, <4>2
      <4>4. session'[m.tab] = session[m.tab]
        BY <1>3, <1>4, <3>1, <4>3
      <4>5. Editing(m.tab, m.id, m.source)
        BY <4>1, <4>4 DEF Editing
      <4>6. HeldBy(m.tab, m.id, m.left)
        BY <3>2, <3>3, <4>5
      <4>7. QED BY <1>2, <4>4, <4>6 DEF HeldBy, server
    <3>4. QED BY <1>7, <3>1, <3>2, <3>3
  <2>5. ASSUME NEW m \in net, m.act = "release"
        PROVE  /\ m.id <= issued /\ m.source <= Current
               /\ tab'[m.tab].loaded = 0 \/ m.source <= tab'[m.tab].loaded
               /\ Valid(m)' /\ m.id = issued /\ m.source = Current
                    => <<m.id, m.source>> \in tab'[m.tab].asked
    <3>1. m \in Message /\ m.tab \in Tabs /\ m.login \in Nat
      BY <1>1, NetShape
    <3>2. /\ m.id <= issued /\ m.source <= Current
          /\ tab[m.tab].loaded = 0 \/ m.source <= tab[m.tab].loaded
          /\ Valid(m) /\ m.id = issued /\ m.source = Current
               => <<m.id, m.source>> \in tab[m.tab].asked
      BY <1>1, <2>5 DEF LeasesInv
    <3>3. Valid(m)' => Valid(m)
      <4>1. CASE m.tab # t
        BY <1>3, <1>4, <3>1, <4>1 DEF Valid
      <4>2. CASE m.tab = t /\ ~session'[t].live
        BY <4>2 DEF Valid
      <4>3. CASE m.tab = t /\ session'[t].n = session[t].n + 1
        <5>1. m.login <= session[t].n
          BY <1>1, <4>3 DEF SessionsInv
        <5>2. session'[t].n # m.login
          BY <1>n, <3>1, <4>3, <5>1
        <5>3. QED BY <4>3, <5>2 DEF Valid
      <4>4. QED BY <1>3, <4>1, <4>2, <4>3
    <3>4. QED BY <1>7, <3>1, <3>2, <3>3
  <2>6. \A m \in net : m.act \in Leasing /\ m.awaited =>
               /\ tab'[m.tab].loaded # 0 /\ m.source = tab'[m.tab].loaded
               /\ Active(m)' => m.id <= issued
               /\ Active(m)' /\ m.left > 0 /\ Editing(m.tab, m.id, m.source)'
                    => HeldBy(m.tab, m.id, m.left)'
    BY <2>4 DEF Active
  <2>7. \A m, o \in net : m.act = "release" /\ Active(o)' /\ m.tab = o.tab => m.id <= o.id
    BY <1>1 DEF LeasesInv, Active
  <2>8. \A m, o \in net : m.awaited /\ o.awaited /\ m.tab = o.tab
                         /\ m.act \in Leasing /\ o.act \in Leasing => m = o
    BY <1>1 DEF LeasesInv
  <2>9. /\ lease.tab # None => lease.id = issued /\ lease.source = Current
        /\ \A u \in Tabs : tab'[u].gen <= issued
    BY <1>1, <1>7 DEF LeasesInv
  <2>10. net' = net /\ lease' = lease /\ issued' = issued
    BY <1>2 DEF server
  <2>11. QED BY <1>2, <2>3, <2>5, <2>6, <2>7, <2>8, <2>9, <2>10 DEF LeasesInv
<1>13. QED BY <1>9, <1>10, <1>11, <1>12 DEF TabsInv

LEMMA LeaseAnswerKept ==
  ASSUME TabsInv, TypeOK', NEW m \in net, LeaseAnswer(m)
  PROVE  TabsInv'
<1>1. TypeOK /\ DraftsInv /\ LeasesInv /\ m.tab \in Tabs /\ tab[m.tab] \in Workspace
  BY NetShape, TabShape DEF TabsInv
<1>2. m.at = "tab" /\ m.act \in Leasing /\ UNCHANGED <<server, session, attempts, faults>>
  BY DEF LeaseAnswer
<1>3. m.awaited /\ ~tab[m.tab].out
  BY <1>2, AnsweredIsAwaited
<1>4. CASE m.says = "authentication_required"
  <2>1. ~session[m.tab].live
    BY <1>2, <1>4, AnsweredIsAwaited
  <2>2. SignedOut(m.tab, tab[m.tab])
    BY <1>4 DEF LeaseAnswer
  <2>3. QED BY <1>1, <1>2, <2>1, <2>2, SignedOutKept
<1>5. CASE m.says # "authentication_required"
  <2>1. PICK w : /\ tab' = [tab EXCEPT ![m.tab] = w] /\ net' = net \ {m}
                 /\ \/ /\ m.says = "active" /\ m.left > 0
                       /\ w = Activated(tab[m.tab], m)
                    \/ w = Paused(tab[m.tab], m.says)
    BY <1>5 DEF LeaseAnswer, Activated
  <2>2. w \in Workspace
    BY <1>1, <2>1, ActiveTyped, PausedTyped
  <2>3. tab'[m.tab] = w /\ \A u \in Tabs : u # m.tab => tab'[u] = tab[u]
    BY <1>1, <2>1, <2>2, TabTyped
  <2>4. TabNet(net \ {m}, {})
    BY <1>1, <2>1, QuietNet
  <2>5. Silent(net \ {m}, m.tab, Leasing)
    BY <1>2, <1>3, AloneAsked
  <2>6. \A k \in Keys : Stays(k) \/ Begins(k)
    BY <1>2, SameAttempts
  <2>7. tab[m.tab].loaded # 0 /\ m.source = tab[m.tab].loaded /\ (Active(m) => m.id <= issued)
        /\ (Active(m) /\ m.left > 0 /\ Editing(m.tab, m.id, m.source)
            => HeldBy(m.tab, m.id, m.left))
    BY <1>1, <1>2, <1>3 DEF LeasesInv
  <2>8. ASSUME NEW u \in Tabs, u # m.tab
        PROVE  /\ SessionOf(u, net \ {m}) /\ DraftOf(u, net \ {m})
               /\ LeaseOf(u, net \ {m})
    BY <1>1, <2>3, <2>6, <2>8, SameKeeps, KeptTab
  <2>9. /\ SessionOf(m.tab, net \ {m}) /\ DraftOf(m.tab, net \ {m})
        /\ LeaseOf(m.tab, net \ {m})
    <3>1. CASE w = Paused(tab[m.tab], m.says)
      <4>1. /\ w.left = 0 /\ w.status \in {"paused", "outdated"}
            /\ w.loaded = tab[m.tab].loaded /\ w.base = tab[m.tab].base
            /\ w.gen = tab[m.tab].gen /\ w.acked = tab[m.tab].acked
            /\ w.key = tab[m.tab].key /\ w.out = tab[m.tab].out
            /\ w.asked = tab[m.tab].asked
        BY <1>1, <3>1, PausedTyped
      <4>2. 0 <= tab[m.tab].left
        BY <1>1, TabShape
      <4>3. Keeps(m.tab)
        BY <1>3, <2>3, <2>7, <4>1, <4>2 DEF Keeps
      <4>4. QED BY <1>1, <2>6, <4>3, KeptTab
    <3>2. CASE m.says = "active" /\ m.left > 0 /\ w = Activated(tab[m.tab], m)
      <4>1. /\ w.status = "active" /\ w.gen = m.id /\ w.left = m.left
            /\ w.loaded = tab[m.tab].loaded /\ w.base = tab[m.tab].base
            /\ w.acked = tab[m.tab].acked /\ w.key = tab[m.tab].key
            /\ w.out = tab[m.tab].out
            /\ w.asked = tab[m.tab].asked \cap {<<m.id, tab[m.tab].loaded>>}
        BY <1>1, <3>2, ActiveTyped
      <4>2. SessionOf(m.tab, net \ {m})
        BY <1>3, <2>3, <4>1 DEF SessionOf
      <4>3. DraftOf(m.tab, net \ {m})
        <5>1. /\ Draft(m.tab, tab[m.tab])
              /\ tab[m.tab].key # 0 => /\ attempts[tab[m.tab].key].tab = m.tab
                                       /\ attempts[tab[m.tab].key].source = tab[m.tab].loaded
          BY <1>1, DraftIs
        <5>2. Draft(m.tab, tab'[m.tab])
          BY <2>3, <2>7, <4>1, <5>1 DEF Draft
        <5>3. QED BY <1>2, <2>3, <4>1, <5>1, <5>2 DEF DraftOf
      <4>4. LeaseOf(m.tab, net \ {m})
        <5>1. Active(m)
          BY <1>2, <3>2 DEF Active
        <5>2. tab'[m.tab].gen <= issued
          BY <2>3, <2>7, <4>1, <5>1
        <5>3. ASSUME NEW x \in net, x.act = "release", x.tab = m.tab, Valid(x),
                     x.id = issued, x.source = Current
              PROVE  <<x.id, x.source>> \in tab'[m.tab].asked
          <6>1. /\ <<x.id, x.source>> \in tab[m.tab].asked /\ x.id <= m.id
                /\ x.source <= tab[m.tab].loaded
            BY <1>1, <2>7, <5>1, <5>3 DEF LeasesInv
          <6>2. tab[m.tab].loaded <= Current /\ m.id <= issued
            BY <1>1, <2>7, <5>1 DEF DraftsInv
          <6>3. x.id = m.id /\ x.source = tab[m.tab].loaded
            <7>1. /\ x.id \in Nat /\ m.id \in Nat /\ issued \in Nat /\ Current \in Nat
                  /\ tab[m.tab].loaded \in Nat
              BY <1>1, NetShape, LeaseShape, CurrentShape, TabShape
            <7>2. QED BY <5>3, <6>1, <6>2, <7>1
          <6>4. QED BY <2>3, <4>1, <6>1, <6>3
        <5>4. ASSUME session[m.tab].live,
                     <<tab'[m.tab].gen, tab'[m.tab].loaded>> \notin tab'[m.tab].asked
              PROVE  HeldBy(m.tab, tab'[m.tab].gen, tab'[m.tab].left)
          <6>1. <<m.id, m.source>> \notin tab[m.tab].asked
            BY <2>3, <2>7, <4>1, <5>4
          <6>2. Editing(m.tab, m.id, m.source)
            BY <5>4, <6>1 DEF Editing
          <6>3. HeldBy(m.tab, m.id, m.left)
            BY <2>7, <3>2, <5>1, <6>2
          <6>4. QED BY <2>3, <4>1, <6>3
        <5>5. tab'[m.tab].loaded = tab[m.tab].loaded
          BY <2>3, <4>1
        <5>6. QED BY <2>5, <5>2, <5>3, <5>4, <5>5 DEF LeaseOf
      <4>5. QED BY <4>2, <4>3, <4>4
    <3>3. QED BY <2>1, <3>1, <3>2
  <2>10. \A u \in Tabs : SessionOf(u, net \ {m}) /\ DraftOf(u, net \ {m})
                         /\ LeaseOf(u, net \ {m})
    BY <2>8, <2>9
  <2>11. QED BY <1>2, <2>4, <2>6, <2>10, TabStepKept
<1>6. QED BY <1>4, <1>5

LEMMA GiveUpKept ==
  ASSUME TabsInv, TypeOK', NEW m \in net, GiveUp(m)
  PROVE  TabsInv'
<1>1. TypeOK /\ SessionsInv /\ OperationsInv /\ DraftsInv /\ LeasesInv /\ m.tab \in Tabs
      /\ tab[m.tab] \in Workspace
  BY NetShape, TabShape DEF TabsInv
<1>2. m.awaited /\ UNCHANGED <<server, session, attempts>>
      /\ net' = Ignore(net, m.tab, {m.act})
  BY DEF GiveUp
<1>3. ~tab[m.tab].out
  BY <1>1, <1>2 DEF SessionsInv
<1>4. TabNet(net', {})
  BY <1>1, <1>2, IgnoredCarried DEF TabNet
<1>5. PICK w : /\ tab' = [tab EXCEPT ![m.tab] = w]
               /\ \/ (m.act \in Leasing \/ m.act = "load") /\ \E why : w = Paused(tab[m.tab], why)
                  \/ w = tab[m.tab]
  <2> DEFINE w == CASE m.act \in Leasing -> Paused(tab[m.tab], "internal_error")
                    [] m.act = "load" -> Paused(tab[m.tab], "revision")
                    [] OTHER -> tab[m.tab]
  <2>1. tab' = [tab EXCEPT ![m.tab] = w]
    BY DEF GiveUp
  <2>2. CASE m.act \in Leasing
    <3>1. m.act # "load"
      BY <2>2 DEF Leasing
    <3>2. w = Paused(tab[m.tab], "internal_error")
      BY <2>2, <3>1
    <3>3. QED BY <2>1, <2>2, <3>2
  <2>3. CASE m.act = "load"
    <3>1. m.act \notin Leasing
      BY <2>3 DEF Leasing
    <3>2. w = Paused(tab[m.tab], "revision")
      BY <2>3, <3>1
    <3>3. QED BY <2>1, <2>3, <3>2
  <2>4. CASE m.act \notin Leasing /\ m.act # "load"
    <3>1. w = tab[m.tab]
      BY <2>4
    <3>2. QED BY <2>1, <3>1
  <2>5. QED BY <2>2, <2>3, <2>4
<1>6. w \in Workspace
  BY <1>1, <1>5, PausedTyped
<1>7. tab'[m.tab] = w /\ \A u \in Tabs : u # m.tab => tab'[u] = tab[u]
  BY <1>1, <1>5, <1>6, TabTyped
<1>8. m.act \in Leasing \/ m.act = "load" => tab[m.tab].loaded # 0
  <2>1. m.act \in Leasing => tab[m.tab].loaded # 0
    BY <1>1, <1>2 DEF LeasesInv
  <2>2. m.act = "load" => m.act \in Calls
    BY KindsAre
  <2>3. m.act \in Calls => m.key = tab[m.tab].key /\ m.key # 0
    BY <1>1, <1>2, KeyShape DEF DraftsInv, Keys
  <2>4. tab[m.tab].key # 0 => tab[m.tab].loaded # 0
    BY <1>1 DEF DraftsInv
  <2>5. QED BY <2>1, <2>2, <2>3, <2>4
<1>9. Keeps(m.tab)
  <2>1. CASE w = tab[m.tab]
    BY <1>1, <1>7, <2>1, SameKeeps
  <2>2. CASE (m.act \in Leasing \/ m.act = "load") /\ \E why : w = Paused(tab[m.tab], why)
    <3>1. /\ w.left = 0 /\ w.status \in {"paused", "outdated"}
          /\ w.loaded = tab[m.tab].loaded /\ w.base = tab[m.tab].base
          /\ w.gen = tab[m.tab].gen /\ w.acked = tab[m.tab].acked
          /\ w.key = tab[m.tab].key /\ w.out = tab[m.tab].out
          /\ w.asked = tab[m.tab].asked
      BY <1>1, <2>2, PausedTyped
    <3>2. 0 <= tab[m.tab].left
      BY <1>1, TabShape
    <3>3. QED BY <1>3, <1>7, <1>8, <2>2, <3>1, <3>2 DEF Keeps
  <2>3. QED BY <1>5, <2>1, <2>2
<1>10. \A k \in Keys : Stays(k) \/ Begins(k)
  BY <1>2, SameAttempts
<1>11. \A u \in Tabs : Keeps(u)
  BY <1>1, <1>7, <1>9, SameKeeps
<1>12. \A u \in Tabs : SessionOf(u, net') /\ DraftOf(u, net') /\ LeaseOf(u, net')
  BY <1>10, <1>11, KeptTab
<1>13. QED BY <1>2, <1>4, <1>10, <1>12, TabStepKept

(* What a tab is told was stored follows the version it has loaded.         *)
LEMMA StoredFollows ==
  ASSUME TabsInv, NEW m \in net, m.at = "tab", m.act \in Calls,
         m.says = "stored" \/ m.act = "load"
  PROVE  /\ m.saved \in 1..Current /\ versions[m.saved] = m.key /\ m.key \in Keys
         /\ attempts[m.key].tab = m.tab /\ m.key # 0
         /\ tab[m.tab].loaded # 0 /\ tab[m.tab].loaded <= m.saved
<1>1. TypeOK /\ OperationsInv /\ DraftsInv /\ m.tab \in Tabs /\ m.awaited
  BY NetShape, AnsweredIsAwaited DEF TabsInv
<1>2. m.saved \in 1..Current /\ versions[m.saved] = m.key
  BY <1>1 DEF OperationsInv
<1>3. m.key \in Keys /\ attempts[m.key].tab = m.tab /\ m.key # 0
  BY <1>1, KeyShape DEF Keys
<1>4. attempts[m.key].source = m.saved - 1
  BY <1>1, <1>2, <1>3 DEF OperationsInv
<1>5. m.key = tab[m.tab].key
  BY <1>1 DEF DraftsInv
<1>6. attempts[m.key].source = tab[m.tab].loaded /\ tab[m.tab].loaded # 0
  BY <1>1, <1>3, <1>5 DEF DraftsInv
<1>7. tab[m.tab].loaded \in Nat /\ m.saved \in Nat
  BY <1>1, TabShape, NetShape
<1>8. tab[m.tab].loaded <= m.saved
  BY <1>4, <1>6, <1>7
<1>9. QED BY <1>2, <1>3, <1>6, <1>8

(* An answer ends what t waited for under its key, and not with a version.  *)
LEMMA CloseKept ==
  ASSUME TabsInv, TypeOK', NEW m \in net, m.at = "tab", m.act \in Calls,
         net' = net \ {m}, UNCHANGED <<server, session>>,
         \A k \in Keys : Stays(k) \/ Begins(k),
         NEW p, p = tab[m.tab] \/ \E why : p = Paused(tab[m.tab], why),
         NEW b \in BOOLEAN, NEW w, w = [p EXCEPT !.key = 0, !.conflict = b],
         tab' = [tab EXCEPT ![m.tab] = w]
  PROVE  TabsInv'
<1>1. TypeOK /\ DraftsInv /\ LeasesInv /\ m.tab \in Tabs /\ tab[m.tab] \in Workspace
  BY NetShape, TabShape DEF TabsInv
<1>2. m.awaited /\ ~tab[m.tab].out
  BY AnsweredIsAwaited
<1>3. tab[m.tab].loaded # 0 /\ tab[m.tab].left \in Nat
  <2>1. m.key = tab[m.tab].key /\ m.key \in Keys
    BY <1>1, <1>2, KeyShape DEF DraftsInv, TabsInv
  <2>2. tab[m.tab].key # 0
    BY <2>1 DEF Keys
  <2>3. QED BY <1>1, <2>2, TabShape DEF DraftsInv
<1>4. /\ p \in Workspace /\ p.left <= tab[m.tab].left
      /\ p.status = "active" => tab[m.tab].status = "active"
      /\ p.loaded = tab[m.tab].loaded /\ p.base = tab[m.tab].base
      /\ p.gen = tab[m.tab].gen /\ p.acked = tab[m.tab].acked
      /\ p.out = tab[m.tab].out /\ p.asked = tab[m.tab].asked
  BY <1>1, <1>3, PausedTyped
<1>5. /\ w \in Workspace /\ w.key = 0 /\ w.status = p.status /\ w.left = p.left
      /\ w.loaded = p.loaded /\ w.base = p.base /\ w.gen = p.gen /\ w.acked = p.acked
      /\ w.out = p.out /\ w.asked = p.asked
  <2>1. p \in Workspace
    BY <1>4
  <2>2. QED BY <2>1 DEF Workspace
<1>6. tab'[m.tab] = w /\ \A u \in Tabs : u # m.tab => tab'[u] = tab[u]
  BY <1>1, <1>5, TabTyped
<1>7. TabNet(net \ {m}, {})
  BY <1>1, QuietNet
<1>8. Silent(net \ {m}, m.tab, Calls)
  BY <1>2, AloneAsked
<1>9. ASSUME NEW u \in Tabs, u # m.tab
      PROVE  /\ SessionOf(u, net \ {m}) /\ DraftOf(u, net \ {m})
             /\ LeaseOf(u, net \ {m})
  BY <1>1, <1>6, <1>9, SameKeeps, KeptTab
<1>10. SessionOf(m.tab, net \ {m})
  BY <1>2, <1>4, <1>5, <1>6 DEF SessionOf
<1>11. DraftOf(m.tab, net \ {m})
  <2>1. Draft(m.tab, tab[m.tab])
    BY <1>1, DraftIs
  <2>2. Draft(m.tab, tab'[m.tab])
    BY <1>3, <1>4, <1>5, <1>6, <2>1 DEF Draft
  <2>3. QED BY <1>5, <1>6, <1>8, <2>2 DEF DraftOf
<1>12. LeaseOf(m.tab, net \ {m})
  <2>1. tab'[m.tab].gen <= issued
    BY <1>1, <1>4, <1>5, <1>6 DEF LeasesInv
  <2>2. tab'[m.tab].status = "active" /\ tab'[m.tab].left > 0 /\ session[m.tab].live
          /\ <<tab'[m.tab].gen, tab'[m.tab].loaded>> \notin tab'[m.tab].asked
          => HeldBy(m.tab, tab'[m.tab].gen, tab'[m.tab].left)
    <3>1. /\ tab'[m.tab].gen = tab[m.tab].gen /\ tab'[m.tab].loaded = tab[m.tab].loaded
          /\ tab[m.tab].asked \subseteq tab'[m.tab].asked
          /\ tab'[m.tab].left <= tab[m.tab].left
          /\ tab'[m.tab].status = "active" => tab[m.tab].status = "active"
      BY <1>4, <1>5, <1>6
    <3>2. QED BY <1>1, <3>1, HeldStays
  <2>3. QED BY <1>4, <1>5, <1>6, <2>1, <2>2 DEF LeaseOf
<1>13. \A u \in Tabs : SessionOf(u, net \ {m}) /\ DraftOf(u, net \ {m})
                       /\ LeaseOf(u, net \ {m})
  BY <1>9, <1>10, <1>11, <1>12
<1>14. QED BY <1>7, <1>13, TabStepKept

LEMMA AcknowledgedKept ==
  ASSUME TabsInv, TypeOK', NEW m \in net, m.at = "tab", m.act \in Kinds, Acknowledged(m),
         UNCHANGED <<server, session, faults>>
  PROVE  TabsInv'
<1>1. TypeOK /\ m.tab \in Tabs /\ tab[m.tab] \in Workspace /\ m.act \in Calls
      /\ m \in Message /\ m.current \in Nat /\ m.saved \in Nat
  BY NetShape, TabShape, KindsAre DEF TabsInv
<1>2. m.awaited /\ ~tab[m.tab].out
  BY AnsweredIsAwaited
<1>3. m.says = "stored" /\ m.saved = m.current /\ attempts[m.key].kind = "save"
      /\ attempts' = attempts
  BY DEF Acknowledged
<1>4. /\ m.saved \in 1..Current /\ versions[m.saved] = m.key /\ m.key \in Keys
      /\ attempts[m.key].tab = m.tab /\ m.key # 0
      /\ tab[m.tab].loaded # 0 /\ tab[m.tab].loaded <= m.saved
  BY <1>1, <1>3, StoredFollows
<1>5. attempts[m.key].draft \in Nat
  BY <1>4, <1>1 DEF TypeOK, Attempt
<1>6. PICK w : w = [tab[m.tab] EXCEPT !.loaded = m.current, !.base = m.saved, !.key = 0,
                                      !.acked = attempts[m.key].draft]
  OBVIOUS
<1>7. /\ w \in Workspace /\ w.loaded = m.saved /\ w.base = m.saved /\ w.key = 0
      /\ w.acked = attempts[m.key].draft /\ w.out = tab[m.tab].out
  BY <1>1, <1>3, <1>5, <1>6 DEF Workspace
<1>8. Rerun(m.tab, w, net \ {m})
  BY <1>6 DEF Acknowledged
<1>9. Silent(net \ {m}, m.tab, Calls)
  BY <1>1, <1>2, AloneAsked
<1>10. /\ w.loaded = w.base /\ w.loaded <= Current /\ w.loaded # 0
       /\ tab[m.tab].loaded <= w.loaded
       /\ w.base \in 1..Current /\ versions[w.base] # 0
       /\ attempts[versions[w.base]].tab = m.tab
       /\ attempts[versions[w.base]].kind = "save"
       /\ attempts[versions[w.base]].draft = w.acked
  BY <1>1, <1>3, <1>4, <1>7, CurrentShape
<1>11. net \ {m} \in SUBSET net /\ ~w.out
  BY <1>2, <1>7
<1>12. QED BY <1>1, <1>2, <1>3, <1>4, <1>7, <1>8, <1>9, <1>10, <1>11, RerunKept

LEMMA OpAnswerKept ==
  ASSUME TabsInv, TypeOK', NEW m \in net, OpAnswer(m)
  PROVE  TabsInv'
<1>1. /\ TypeOK /\ OperationsInv /\ m.tab \in Tabs /\ tab[m.tab] \in Workspace
      /\ m.act \in Calls /\ m \in Message /\ tab \in [Tabs -> Workspace]
      /\ m.at = "tab" /\ m.act \in Kinds /\ UNCHANGED <<server, session, faults>>
      /\ UNCHANGED <<server, session>>
  BY NetShape, TabShape, KindsAre DEF TabsInv, TypeOK, OpAnswer
<1>2. m.awaited /\ ~tab[m.tab].out
      /\ (m.says = "authentication_required" => ~session[m.tab].live)
  BY <1>1, AnsweredIsAwaited
<1>3. m.key \in Keys /\ attempts[m.key] \in Attempt
  BY <1>1, KeyShape
<1>4. CASE Acknowledged(m)
  BY <1>1, <1>4, AcknowledgedKept
<1>5. CASE Superseded(m)
  <2>1. PICK p : p = Paused(tab[m.tab], "revision")
    OBVIOUS
  <2>2. PICK w : w = [p EXCEPT !.key = 0, !.conflict = TRUE]
    OBVIOUS
  <2>3. tab' = [tab EXCEPT ![m.tab] = w] /\ net' = net \ {m} /\ attempts' = attempts
    BY <1>1, <1>5, <2>1, <2>2 DEF Superseded
  <2>4. \A k \in Keys : Stays(k) \/ Begins(k)
    BY <2>3, SameAttempts
  <2>5. TRUE \in BOOLEAN
    OBVIOUS
  <2>6. QED BY <1>1, <2>1, <2>2, <2>3, <2>4, <2>5, CloseKept
<1>6. CASE Reload(m)
  <2>1. /\ TabNet(net \ {m}, {ReloadOf(m)})
        /\ ReloadOf(m).tab = m.tab /\ ReloadOf(m).act = "load" /\ ReloadOf(m).key = m.key
        /\ ReloadOf(m).saved = m.saved
    BY <1>1, <1>2, <1>6, ReloadNet
  <2>2. tab' = tab /\ attempts' = attempts /\ m.says = "stored"
    BY <1>6 DEF Reload
  <2>3. \A k \in Keys : Stays(k) \/ Begins(k)
    BY <2>2, SameAttempts
  <2>4. \A u \in Tabs : SessionOf(u, net \ {m}) /\ DraftOf(u, net \ {m})
                        /\ LeaseOf(u, net \ {m})
    BY <1>1, <2>2, <2>3, SameKeeps, KeptTab
  <2>5. Silent(net \ {m}, m.tab, Calls)
    BY <1>1, <1>2, AloneAsked
  <2>6. m.saved \in 1..Current /\ versions[m.saved] = m.key /\ attempts[m.key].tab = m.tab
    BY <1>1, <2>2, StoredFollows
  <2>7. m.key = tab[m.tab].key
    BY <1>1, <1>2 DEF TabsInv, DraftsInv
  <2>8. ReloadOf(m).act \notin Leasing /\ ReloadOf(m).act # "release"
    BY <2>1, KindsAre
  <2>9. Fine(ReloadOf(m), net \ {m})
    BY <1>1, <1>2, <1>3, <2>1, <2>2, <2>5, <2>6, <2>7, <2>8 DEF Fine
  <2>10. QED BY <1>1, <2>1, <2>3, <2>4, <2>9, TabStepKept
<1>7. CASE Refused(m)
  <2>1. PICK p : p = IF m.says \in {"revision", "lease_lost"}
                     THEN Paused(tab[m.tab], m.says) ELSE tab[m.tab]
    OBVIOUS
  <2>2. PICK b \in BOOLEAN : b = (m.says = "revision")
    OBVIOUS
  <2>3. PICK w : w = [p EXCEPT !.key = 0, !.conflict = b]
    OBVIOUS
  <2>4. tab' = [tab EXCEPT ![m.tab] = w] /\ net' = net \ {m}
    BY <1>1, <1>7, <2>1, <2>2, <2>3 DEF Refused
  <2>5. \A k \in Keys : Stays(k) \/ Begins(k)
    <3>1. CASE m.says \in Denials /\ End(m.key)
      <4>1. ops[m.key] = "aborted"
        BY <1>1, <3>1 DEF OperationsInv
      <4>2. /\ \A j \in Keys : j # m.key => attempts'[j] = attempts[j]
            /\ attempts'[m.key] = [attempts[m.key] EXCEPT !.ended = TRUE]
        BY <1>1, <1>3, <3>1, EndTyped
      <4>3. Stays(m.key)
        BY <1>3, <4>1, <4>2 DEF Stays, Attempt
      <4>4. QED BY <4>2, <4>3 DEF Stays
    <3>2. CASE attempts' = attempts
      BY <3>2, SameAttempts
    <3>3. QED BY <1>7, <3>1, <3>2 DEF Refused
  <2>6. p = tab[m.tab] \/ \E why : p = Paused(tab[m.tab], why)
    BY <2>1
  <2>7. QED BY <1>1, <2>2, <2>3, <2>4, <2>5, <2>6, CloseKept
<1>8. CASE RefusedSession(m)
  <2>1. PICK w : w = [tab[m.tab] EXCEPT !.key = 0]
    OBVIOUS
  <2>2. /\ w \in Workspace /\ w.loaded = tab[m.tab].loaded /\ w.base = tab[m.tab].base
        /\ w.acked = tab[m.tab].acked /\ w.asked = tab[m.tab].asked /\ w.key = 0
    BY <1>1, <2>1 DEF Workspace
  <2>3. SignedOut(m.tab, w) /\ attempts' = attempts /\ ~session[m.tab].live
    BY <1>2, <1>8, <2>1 DEF RefusedSession
  <2>4. UNCHANGED <<server, session, attempts>>
    BY <1>1, <2>3
  <2>5. QED BY <1>1, <2>2, <2>3, <2>4, SignedOutKept
<1>9. CASE Uncertain(m)
  <2>1. net' = net \ {m} /\ tab' = tab /\ attempts' = attempts
    BY <1>9 DEF Uncertain
  <2>2. TabNet(net', {})
    BY <1>1, <2>1, QuietNet
  <2>3. \A k \in Keys : Stays(k) \/ Begins(k)
    BY <2>1, SameAttempts
  <2>4. \A u \in Tabs : SessionOf(u, net') /\ DraftOf(u, net') /\ LeaseOf(u, net')
    BY <1>1, <2>1, <2>3, SameKeeps, KeptTab
  <2>5. QED BY <1>1, <2>2, <2>3, <2>4, TabStepKept
<1>10. QED BY <1>4, <1>5, <1>6, <1>7, <1>8, <1>9 DEF OpAnswer

LEMMA LoadAnswerKept ==
  ASSUME TabsInv, TypeOK', NEW m \in net, LoadAnswer(m)
  PROVE  TabsInv'
<1>1. /\ TypeOK /\ m.tab \in Tabs /\ tab[m.tab] \in Workspace
      /\ m.act \in Calls /\ m \in Message /\ tab \in [Tabs -> Workspace]
      /\ m.at = "tab" /\ m.act = "load" /\ UNCHANGED <<server, session, attempts, faults>>
      /\ UNCHANGED <<server, session>> /\ UNCHANGED <<server, session, attempts>>
      /\ m.saved \in Nat
  BY NetShape, TabShape, KindsAre DEF TabsInv, TypeOK, LoadAnswer
<1>2. m.awaited /\ ~tab[m.tab].out
      /\ (m.says = "authentication_required" => ~session[m.tab].live)
  BY <1>1, AnsweredIsAwaited
<1>3. CASE /\ m.says = "current"
           /\ Rerun(m.tab, [tab[m.tab] EXCEPT !.loaded = m.saved, !.base = m.saved,
                              !.draft = 0, !.acked = 0, !.key = 0], net \ {m})
  <2>1. PICK w : w = [tab[m.tab] EXCEPT !.loaded = m.saved, !.base = m.saved,
                              !.draft = 0, !.acked = 0, !.key = 0]
    OBVIOUS
  <2>2. /\ w \in Workspace /\ w.loaded = m.saved /\ w.base = m.saved /\ w.key = 0
        /\ w.acked = 0 /\ w.out = tab[m.tab].out
    BY <1>1, <2>1 DEF Workspace
  <2>3. Rerun(m.tab, w, net \ {m})
    BY <1>3, <2>1
  <2>4. /\ m.saved \in 1..Current /\ tab[m.tab].loaded # 0 /\ tab[m.tab].loaded <= m.saved
    BY <1>1, StoredFollows
  <2>5. Silent(net \ {m}, m.tab, Calls)
    BY <1>1, <1>2, AloneAsked
  <2>6. /\ net \ {m} \in SUBSET net /\ ~w.out /\ w.loaded = w.base /\ w.loaded <= Current
        /\ tab[m.tab].loaded <= w.loaded
    BY <1>1, <1>2, <2>2, <2>4, CurrentShape
  <2>7. QED BY <1>1, <1>2, <2>2, <2>3, <2>4, <2>5, <2>6, RerunKept
<1>4. CASE /\ tab' = [tab EXCEPT ![m.tab] =
                  [Paused(tab[m.tab], "revision") EXCEPT !.key = 0, !.conflict = TRUE]]
           /\ net' = net \ {m}
  <2>1. PICK p : p = Paused(tab[m.tab], "revision")
    OBVIOUS
  <2>2. PICK w : w = [p EXCEPT !.key = 0, !.conflict = TRUE]
    OBVIOUS
  <2>3. tab' = [tab EXCEPT ![m.tab] = w] /\ net' = net \ {m}
    BY <1>4, <2>1, <2>2
  <2>4. \A k \in Keys : Stays(k) \/ Begins(k)
    BY <1>1, SameAttempts
  <2>5. TRUE \in BOOLEAN
    OBVIOUS
  <2>6. QED BY <1>1, <2>1, <2>2, <2>3, <2>4, <2>5, CloseKept
<1>5. CASE m.says = "authentication_required" /\ SignedOut(m.tab, tab[m.tab])
  BY <1>1, <1>2, <1>5, SignedOutKept
<1>6. QED BY <1>3, <1>4, <1>5 DEF LoadAnswer

LEMMA TickKept ==
  ASSUME TabsInv, TypeOK', Tick
  PROVE  TabsInv'
<1>1. TypeOK /\ SessionsInv /\ OperationsInv /\ DraftsInv /\ LeasesInv
  BY DEF TabsInv
<1>2. /\ UNCHANGED <<versions, ops, issued, session, attempts, faults>>
      /\ lease'.tab = lease.tab /\ lease'.login = lease.login
      /\ lease'.id = lease.id /\ lease'.source = lease.source
      /\ lease'.left = Older(lease.left)
      /\ net' = {Aged(y) : y \in net}
      /\ \A t \in Tabs :
              /\ tab'[t].loaded = tab[t].loaded /\ tab'[t].base = tab[t].base
              /\ tab'[t].gen = tab[t].gen /\ tab'[t].acked = tab[t].acked
              /\ tab'[t].key = tab[t].key /\ tab'[t].out = tab[t].out
              /\ tab'[t].asked = tab[t].asked /\ tab'[t].left = Older(tab[t].left)
              /\ tab'[t].status = tab[t].status \/ tab[t].status = "active"
              /\ tab'[t].status = "active" => tab[t].status = "active"
  BY <1>1, TickIs
<1>3. TabNet(net', {})
  BY <1>1, AgedCarried
<1>4. \A k \in Keys : Stays(k) \/ Begins(k)
  BY <1>2, SameAttempts
<1>5. \A t \in Tabs : Keeps(t)
  <2>1. ASSUME NEW t \in Tabs
        PROVE  tab'[t].left <= tab[t].left
    BY <1>1, <1>2, TabShape, OlderIs
  <2>2. ASSUME NEW t \in Tabs, tab[t].out \/ tab[t].loaded = 0
        PROVE  tab[t].status # "active"
    BY <1>1, <2>2 DEF SessionsInv, DraftsInv
  <2>3. QED BY <1>2, <2>1, <2>2 DEF Keeps
<1>6. \A t \in Tabs : SessionOf(t, net') /\ DraftOf(t, net') /\ LeaseOf(t, net')
  BY <1>4, <1>5, KeptTab
<1>7. SessionsInv'
  BY <1>1, <1>2, <1>3, <1>6, SessionsKept
<1>8. OperationsInv'
  BY <1>1, <1>2, <1>3, <1>4, OperationsKept
<1>9. DraftsInv'
  BY <1>1, <1>2, <1>3, <1>4, <1>6, DraftsKept
<1>10. Current' = Current
  BY <1>2 DEF Current
<1>11. ASSUME NEW n \in Nat, n <= lease.left
       PROVE  Older(n) <= lease'.left
  BY <1>1, <1>2, <1>11, LeaseShape DEF Older
<1>12. LeasesInv'
  <2>0. ASSUME NEW y \in net, NEW x, x = Aged(y)
        PROVE  /\ x.tab = y.tab /\ x.act = y.act /\ x.at = y.at /\ x.id = y.id
               /\ x.login = y.login /\ x.source = y.source /\ x.says = y.says
               /\ x.left = Older(y.left) /\ y.left \in Nat /\ x.tab \in Tabs
    BY <1>1, <2>0, AgedIs, NetShape DEF Follows
  <2>a. ASSUME NEW y \in net, NEW x, x = Aged(y), x.awaited PROVE y.awaited
    BY <1>1, <2>a, AgedIs, NetShape
  <2>1. ASSUME NEW x \in net', x.act \in Leasing, x.awaited
        PROVE  /\ tab'[x.tab].loaded # 0 /\ x.source = tab'[x.tab].loaded
               /\ Active(x)' => x.id <= issued'
               /\ Active(x)' /\ x.left > 0 /\ Editing(x.tab, x.id, x.source)'
                    => HeldBy(x.tab, x.id, x.left)'
    <3>1. PICK y \in net : x = Aged(y)
      BY <1>2
    <3>2. y.awaited
      BY <2>1, <2>a, <3>1
    <3>3. /\ x.tab = y.tab /\ x.act = y.act /\ x.at = y.at /\ x.id = y.id
          /\ x.source = y.source /\ x.says = y.says
          /\ x.left = Older(y.left) /\ y.left \in Nat /\ x.tab \in Tabs
      BY <2>0, <3>1
    <3>4. /\ tab[x.tab].loaded # 0 /\ x.source = tab[x.tab].loaded
          /\ Active(y) => x.id <= issued
          /\ Active(y) /\ y.left > 0 /\ Editing(x.tab, x.id, x.source)
               => HeldBy(x.tab, x.id, y.left)
      BY <1>1, <2>1, <3>2, <3>3 DEF LeasesInv
    <3>5. /\ Active(x)' => Active(y)
          /\ Editing(x.tab, x.id, x.source)' => Editing(x.tab, x.id, x.source)
          /\ x.left > 0 => y.left > 0
      BY <1>2, <3>3 DEF Active, Editing, Older
    <3>6. HeldBy(x.tab, x.id, y.left) => HeldBy(x.tab, x.id, x.left)'
      BY <1>1, <1>2, <1>11, <3>3, LeaseShape DEF HeldBy
    <3>7. QED BY <1>2, <3>3, <3>4, <3>5, <3>6
  <2>2. ASSUME NEW x \in net', x.act = "release"
        PROVE  /\ x.id <= issued' /\ x.source <= Current'
               /\ tab'[x.tab].loaded = 0 \/ x.source <= tab'[x.tab].loaded
               /\ Valid(x)' /\ x.id = issued' /\ x.source = Current'
                    => <<x.id, x.source>> \in tab'[x.tab].asked
    <3>1. PICK y \in net : x = Aged(y)
      BY <1>2
    <3>2. /\ x.tab = y.tab /\ x.act = y.act /\ x.id = y.id /\ x.login = y.login
          /\ x.source = y.source /\ x.tab \in Tabs
      BY <2>0, <3>1
    <3>3. Valid(x)' => Valid(y)
      BY <1>2, <3>2 DEF Valid
    <3>4. /\ x.id <= issued /\ x.source <= Current
          /\ tab[x.tab].loaded = 0 \/ x.source <= tab[x.tab].loaded
          /\ Valid(y) /\ x.id = issued /\ x.source = Current
               => <<x.id, x.source>> \in tab[x.tab].asked
      BY <1>1, <2>2, <3>2 DEF LeasesInv
    <3>5. QED BY <1>2, <1>10, <3>2, <3>3, <3>4
  <2>3. ASSUME NEW x \in net', NEW z \in net', x.awaited, z.awaited, x.tab = z.tab,
               x.act \in Leasing, z.act \in Leasing
        PROVE  x = z
    <3>1. PICK y \in net, v \in net : x = Aged(y) /\ z = Aged(v)
      BY <1>2
    <3>2. y.awaited /\ v.awaited
      BY <2>3, <2>a, <3>1
    <3>3. y.tab = v.tab /\ y.act \in Leasing /\ v.act \in Leasing
      BY <2>3, <2>0, <3>1
    <3>4. y = v
      BY <1>1, <3>2, <3>3 DEF LeasesInv
    <3>5. QED BY <3>1, <3>4
  <2>4. ASSUME NEW x \in net', NEW o \in net', x.act = "release", Active(o)', x.tab = o.tab
        PROVE  x.id <= o.id
    <3>1. PICK y \in net, v \in net : x = Aged(y) /\ o = Aged(v)
      BY <1>2
    <3>2. x.tab = y.tab /\ x.act = y.act /\ x.id = y.id
      BY <2>0, <3>1
    <3>3. o.tab = v.tab /\ o.act = v.act /\ o.id = v.id /\ o.at = v.at /\ o.says = v.says
      BY <2>0, <3>1
    <3>4. Active(v)
      BY <2>4, <3>3 DEF Active
    <3>5. y.id <= v.id
      BY <1>1, <2>4, <3>2, <3>3, <3>4 DEF LeasesInv
    <3>6. QED BY <3>2, <3>3, <3>5
  <2>5. EditingIsHeld'
    <3>1. SUFFICES ASSUME NEW t \in Tabs, CanEdit(t)', session'[t].live,
                          <<tab'[t].gen, tab'[t].loaded>> \notin tab'[t].asked
                   PROVE  /\ lease'.tab = t /\ lease'.id = tab'[t].gen
                          /\ lease'.login = session'[t].n /\ lease'.left >= tab'[t].left
      BY DEF EditingIsHeld
    <3>2. tab[t].left \in Nat /\ tab'[t].left = Older(tab[t].left)
      BY <1>1, <1>2, TabShape
    <3>3. CanEdit(t)
      BY <1>2, <3>1, <3>2 DEF CanEdit, Older
    <3>4. /\ lease.tab = t /\ lease.id = tab[t].gen
          /\ lease.login = session[t].n /\ lease.left >= tab[t].left
      BY <1>1, <1>2, <3>1, <3>3 DEF LeasesInv, EditingIsHeld
    <3>5. lease'.left >= tab'[t].left
      BY <1>1, <1>11, <3>2, <3>4, LeaseShape, <1>2 DEF Older
    <3>6. QED BY <1>2, <3>4, <3>5
  <2>6. /\ lease'.tab # None => lease'.id = issued' /\ lease'.source = Current'
        /\ \A t \in Tabs : tab'[t].gen <= issued'
    BY <1>1, <1>2, <1>10 DEF LeasesInv
  <2>7. QED BY <2>1, <2>2, <2>3, <2>4, <2>5, <2>6 DEF LeasesInv
<1>13. QED BY <1>7, <1>8, <1>9, <1>12 DEF TabsInv

-----------------------------------------------------------------------------
(* Part 6.  The steps of the server.                                        *)

Replies ==
  \/ net' \subseteq net
  \/ \E m \in net : \E r :
       /\ net' \subseteq (net \ {m}) \cup {r}
       /\ r \in net' => r \in net \ {m} \/ (r \in Message /\ Responds(m, r))

(* A message the server writes, an answer or the request that it stores.    *)
Written(x) ==
  /\ x.awaited \/ x.at = "storing"
  /\ x.at = "tab" /\ x.says = "authentication_required" => ~session[x.tab].live
  /\ x.act # "release"
  /\ Active(x) => x.id = issued' /\ HeldBy(x.tab, x.id, x.left)'
  /\ x.at = "storing" => /\ x.act \in Kinds /\ ops'[x.key] = "running"
                         /\ \A z \in net : z.at = "storing" => z.key # x.key
  /\ x.at = "stored" => x.act \in Kinds /\ ops'[x.key] = "committed"
  /\ x.at = "tab" /\ x.act \in Kinds /\ x.says \in Denials => ops'[x.key] = "aborted"
  /\ (x.at = "tab" /\ x.says = "stored") \/ x.act = "load" =>
       x.saved \in 1..Current' /\ versions'[x.saved] = x.key

Grows ==
  /\ Current <= Current' /\ \A n \in 1..Current : versions'[n] = versions[n]
  /\ \A n \in (Current + 1)..Current' : versions'[n] # 0 =>
       /\ ops'[versions'[n]] = "committed"
       /\ attempts[versions'[n]].tab # None /\ attempts[versions'[n]].source = n - 1
OpMoves(k) ==
  \/ ops'[k] = ops[k]
  \/ /\ ops[k] \in {"none", "running"}
     /\ ops'[k] = "committed" => \E n \in 1..Current' : versions'[n] = k

(* A tab that holds the lease it edits with goes on holding it.             *)
Respects ==
  \A t \in Tabs, g \in Nat, n \in Nat :
    /\ HeldBy(t, g, n) /\ n > 0 /\ n <= Life /\ session[t].live /\ tab[t].loaded # 0
    /\ <<g, tab[t].loaded>> \notin tab[t].asked
    => HeldBy(t, g, n)'

LEMMA SameGrows ==
  ASSUME TypeOK, versions' = versions
  PROVE  Grows
BY CurrentShape DEF Grows, Current

LEMMA AppendGrows ==
  ASSUME TypeOK, NEW k \in Keys \cup {0}, versions' = Append(versions, k),
         k # 0 => /\ ops'[k] = "committed" /\ attempts[k].tab # None
                  /\ attempts[k].source = Current
  PROVE  Grows /\ Current' = Current + 1 /\ versions'[Current + 1] = k
<1>1. /\ Current' = Current + 1 /\ versions'[Current + 1] = k
      /\ \A n \in 1..Current : versions'[n] = versions[n]
  BY VersionTyped
<1>2. Current \in Nat
  BY CurrentShape
<1>3. \A n \in (Current + 1)..Current' : n = Current + 1 /\ n - 1 = Current
  BY <1>1, <1>2
<1>4. ASSUME NEW n \in (Current + 1)..Current', versions'[n] # 0
      PROVE  /\ ops'[versions'[n]] = "committed"
             /\ attempts[versions'[n]].tab # None /\ attempts[versions'[n]].source = n - 1
  <2>1. n = Current + 1 /\ n - 1 = Current /\ versions'[n] = k
    BY <1>1, <1>3
  <2>2. QED BY <1>4, <2>1
<1>5. Current <= Current'
  BY <1>1, <1>2
<1>6. QED BY <1>1, <1>4, <1>5 DEF Grows

LEMMA NewReplies ==
  ASSUME Replies, NEW x \in net', x \notin net
  PROVE  x \in Message /\ \E m \in net : Responds(m, x) /\ ~(m \in net' /\ m # x)
<1>1. PICK m \in net :
        \E r :
            /\ net' \subseteq (net \ {m}) \cup {r}
            /\ r \in net' => r \in net \ {m} \/ (r \in Message /\ Responds(m, r))
  BY DEF Replies
<1>2. PICK r : /\ net' \subseteq (net \ {m}) \cup {r}
               /\ r \in net' => r \in net \ {m} \/ (r \in Message /\ Responds(m, r))
  BY <1>1
<1>3. x = r
  BY <1>2
<1>4. QED BY <1>2, <1>3

LEMMA OneReply ==
  ASSUME Replies, NEW x \in net', NEW z \in net', x \notin net, z \notin net
  PROVE  x = z
BY DEF Replies

LEMMA InvalidEnds ==
  ASSUME TypeOK, SessionsInv, NEW m \in net, NEW x, Responds(m, x), x.awaited, ~Valid(m)
  PROVE  ~session[x.tab].live
<1>1. m.awaited /\ x.tab = m.tab /\ m \in Message
  BY NetShape DEF Responds
<1>2. m.login = session[m.tab].n
  BY <1>1 DEF SessionsInv
<1>3. QED BY <1>1, <1>2, ValidIs

LEMMA SessionsServed ==
  ASSUME TypeOK, SessionsInv, Replies, UNCHANGED <<session, tab>>,
         \A x \in net' : x \in net \/ Written(x)
  PROVE  SessionsInv'
<1>1. ASSUME NEW x \in net'
      PROVE  /\ x.login <= session[x.tab].n
             /\ x.awaited => x.login = session[x.tab].n /\ ~tab[x.tab].out
             /\ ~x.awaited => x.at \in {"server", "storing"}
             /\ x.at = "tab" /\ x.says = "authentication_required" => ~session[x.tab].live
  <2>1. CASE x \in net
    BY <2>1 DEF SessionsInv
  <2>2. CASE x \notin net
    <3>1. PICK m \in net : Responds(m, x)
      BY <2>2, NewReplies
    <3>2. /\ m.login <= session[x.tab].n
          /\ m.awaited => m.login = session[x.tab].n /\ ~tab[x.tab].out
      BY <3>1 DEF Responds, SessionsInv
    <3>3. m.login = x.login /\ (x.awaited => m.awaited)
      BY <3>1 DEF Responds
    <3>4. QED BY <2>2, <3>2, <3>3 DEF Written
  <2>3. QED BY <2>1, <2>2
<1>2. QED BY <1>1 DEF SessionsInv

LEMMA OperationsServed ==
  ASSUME TypeOK, TypeOK', OperationsInv, Replies, Grows, attempts' = attempts,
         \A x \in net' : x \in net \/ Written(x),
         \A k \in Keys : OpMoves(k),
         \A x \in net' : x \in net /\ x.at = "storing" => ops'[x.key] = "running"
  PROVE  OperationsInv'
<1>0. Current \in Nat /\ Current >= 1 /\ Current' \in Nat
  BY CurrentShape DEF TypeOK, Current
<1>1. ASSUME NEW x \in net'
      PROVE  /\ x.act \in Calls => x.key \in Keys /\ attempts[x.key].tab = x.tab
             /\ x.at = "storing" => x.act \in Kinds /\ ops'[x.key] = "running"
             /\ x.at = "stored" => x.act \in Kinds /\ ops'[x.key] = "committed"
             /\ x.at = "tab" /\ x.act \in Kinds /\ x.says \in Denials => ops'[x.key] = "aborted"
             /\ (x.at = "tab" /\ x.says = "stored") \/ x.act = "load" =>
                  x.saved \in 1..Current' /\ versions'[x.saved] = x.key
  <2>1. CASE x \in net
    <3>1. /\ x.act \in Calls => x.key \in Keys /\ attempts[x.key].tab = x.tab
          /\ x.at = "storing" => x.act \in Kinds /\ ops[x.key] = "running"
          /\ x.at = "stored" => x.act \in Kinds /\ ops[x.key] = "committed"
          /\ x.at = "tab" /\ x.act \in Kinds /\ x.says \in Denials => ops[x.key] = "aborted"
          /\ (x.at = "tab" /\ x.says = "stored") \/ x.act = "load" =>
                  x.saved \in 1..Current /\ versions[x.saved] = x.key
      BY <2>1 DEF OperationsInv
    <3>2. x.act \in Kinds => x.act \in Calls
      BY KindsAre
    <3>3. x.at = "stored" => ops'[x.key] = "committed"
      BY <3>1, <3>2 DEF OpMoves
    <3>4. x.at = "tab" /\ x.act \in Kinds /\ x.says \in Denials => ops'[x.key] = "aborted"
      BY <3>1, <3>2 DEF OpMoves
    <3>5. x.saved \in 1..Current => x.saved \in 1..Current' /\ versions'[x.saved] = versions[x.saved]
      BY <1>0 DEF Grows
    <3>6. QED BY <2>1, <3>1, <3>3, <3>4, <3>5
  <2>2. CASE x \notin net
    <3>1. PICK m \in net : Responds(m, x)
      BY <2>2, NewReplies
    <3>2. x.act = m.act /\ x.key = m.key /\ x.tab = m.tab
      BY <3>1 DEF Responds
    <3>3. x.act \in Calls => x.key \in Keys /\ attempts[x.key].tab = x.tab
      BY <3>2 DEF OperationsInv
    <3>4. QED BY <2>2, <3>3 DEF Written
  <2>3. QED BY <2>1, <2>2
<1>2. ASSUME NEW x \in net', NEW z \in net', x.at = "storing", z.at = "storing",
             x.key = z.key
      PROVE  x = z
  <2>1. CASE x \in net /\ z \in net
    BY <1>2, <2>1 DEF OperationsInv
  <2>2. CASE x \notin net /\ z \in net
    BY <1>2, <2>2 DEF Written
  <2>3. CASE x \in net /\ z \notin net
    BY <1>2, <2>3 DEF Written
  <2>4. CASE x \notin net /\ z \notin net
    BY <2>4, OneReply
  <2>5. QED BY <2>1, <2>2, <2>3, <2>4
<1>3. ASSUME NEW k \in Keys
      PROVE  /\ attempts[k].ended => ops'[k] = "aborted"
             /\ ops'[k] = "committed" => \E n \in 1..Current' : versions'[n] = k
  <2>1. attempts[k].ended => ops[k] = "aborted"
    BY DEF OperationsInv
  <2>2. attempts[k].ended => ops'[k] = "aborted"
    BY <2>1 DEF OpMoves
  <2>3. ops[k] = "committed" => \E n \in 1..Current' : versions'[n] = k
    <3>1. SUFFICES ASSUME ops[k] = "committed" PROVE \E n \in 1..Current' : versions'[n] = k
      OBVIOUS
    <3>2. PICK n \in 1..Current : versions[n] = k
      BY <3>1 DEF OperationsInv
    <3>3. n \in 1..Current' /\ versions'[n] = k
      BY <1>0, <3>2 DEF Grows
    <3>4. QED BY <3>3
  <2>4. QED BY <2>2, <2>3 DEF OpMoves
<1>4. ASSUME NEW n \in 1..Current', versions'[n] # 0
      PROVE  /\ n >= 2 /\ ops'[versions'[n]] = "committed"
             /\ attempts[versions'[n]].tab # None /\ attempts[versions'[n]].source = n - 1
  <2>1. CASE n \in 1..Current
    <3>1. versions'[n] = versions[n]
      BY <2>1 DEF Grows
    <3>2. /\ n >= 2 /\ ops[versions[n]] = "committed"
          /\ attempts[versions[n]].tab # None /\ attempts[versions[n]].source = n - 1
      BY <1>4, <2>1, <3>1 DEF OperationsInv
    <3>3. versions[n] \in Keys
      BY <1>4, <2>1, <3>1 DEF TypeOK, Current
    <3>4. QED BY <3>1, <3>2, <3>3 DEF OpMoves
  <2>2. CASE n \notin 1..Current
    <3>1. n \in (Current + 1)..Current' /\ n >= 2
      BY <1>0, <2>2
    <3>2. QED BY <1>4, <3>1 DEF Grows
  <2>3. QED BY <2>1, <2>2
<1>5. QED BY <1>1, <1>2, <1>3, <1>4 DEF OperationsInv

LEMMA DraftsServed ==
  ASSUME TypeOK, TypeOK', DraftsInv, Replies, Grows, UNCHANGED <<tab, attempts>>
  PROVE  DraftsInv'
<1>0. Current \in Nat /\ Current' \in Nat /\ Current <= Current'
  BY CurrentShape DEF Grows, TypeOK, Current
<1>1. ASSUME NEW t \in Tabs
      PROVE  /\ tab[t].loaded = tab[t].base /\ tab[t].loaded <= Current'
             /\ tab[t].loaded = 0 =>
                  tab[t].acked = 0 /\ tab[t].key = 0 /\ tab[t].status = "checking"
             /\ tab[t].key # 0 => /\ attempts[tab[t].key].tab = t
                                  /\ attempts[tab[t].key].source = tab[t].loaded
             /\ tab[t].acked # 0 => versions'[tab[t].base] # 0
             /\ tab[t].acked # 0 => LET a == attempts[versions'[tab[t].base]] IN
                                     a.tab = t /\ a.kind = "save" /\ a.draft = tab[t].acked
  <2>1. /\ Draft(t, tab[t])
        /\ tab[t].key # 0 => /\ attempts[tab[t].key].tab = t
                             /\ attempts[tab[t].key].source = tab[t].loaded
    BY DraftIs
  <2>2. tab[t].acked # 0 => versions'[tab[t].base] = versions[tab[t].base]
    BY <2>1 DEF Draft, Grows
  <2>3. tab[t].loaded \in Nat
    BY TabShape
  <2>4. QED BY <1>0, <2>1, <2>2, <2>3 DEF Draft
<1>2. ASSUME NEW x \in net', x.awaited, x.act \in Calls
      PROVE  x.key = tab[x.tab].key
  <2>1. CASE x \in net
    BY <1>2, <2>1 DEF DraftsInv
  <2>2. CASE x \notin net
    <3>1. PICK m \in net : Responds(m, x)
      BY <2>2, NewReplies
    <3>2. m.awaited
      BY <1>2, <3>1 DEF Responds
    <3>3. x.act = m.act /\ x.key = m.key /\ x.tab = m.tab
      BY <3>1 DEF Responds
    <3>4. QED BY <1>2, <3>2, <3>3 DEF DraftsInv
  <2>3. QED BY <2>1, <2>2
<1>3. ASSUME NEW x \in net', NEW z \in net', x \notin net, z \in net, x.awaited, z.awaited,
             x.tab = z.tab, x.act \in Calls, z.act \in Calls
      PROVE  FALSE
  <2>1. PICK m \in net : Responds(m, x) /\ ~(m \in net' /\ m # x)
    BY <1>3, NewReplies
  <2>2. m.awaited
    BY <1>3, <2>1 DEF Responds
  <2>3. x.act = m.act /\ x.tab = m.tab
    BY <2>1 DEF Responds
  <2>4. m = z
    BY <1>3, <2>2, <2>3 DEF DraftsInv
  <2>5. QED BY <1>3, <2>1, <2>4
<1>4. ASSUME NEW x \in net', NEW z \in net', x.awaited, z.awaited, x.tab = z.tab,
             x.act \in Calls, z.act \in Calls
      PROVE  x = z
  <2>1. CASE x \in net /\ z \in net
    BY <1>4, <2>1 DEF DraftsInv
  <2>2. CASE x \notin net /\ z \notin net
    BY <2>2, OneReply
  <2>3. QED BY <1>3, <1>4, <2>1, <2>2
<1>5. AcknowledgedIsSaved'
  BY <1>1 DEF AcknowledgedIsSaved
<1>6. \A k \in Keys : attempts[k].source = attempts[k].base
  BY DEF DraftsInv
<1>7. QED BY <1>1, <1>2, <1>4, <1>5, <1>6 DEF DraftsInv

LEMMA LeasesServed ==
  ASSUME TypeOK, TypeOK', DraftsInv, LeasesInv, Replies, Respects,
         UNCHANGED <<session, tab>>, Current <= Current', issued <= issued',
         lease'.tab # None => lease'.id = issued' /\ lease'.source = Current',
         \A x \in net' : x \in net \/ Written(x)
  PROVE  LeasesInv'
<1>0. /\ Current \in Nat /\ Current' \in Nat /\ issued \in Nat /\ issued' \in Nat
  BY CurrentShape, LeaseShape DEF TypeOK, Current
<1>1. ASSUME NEW x \in net', x.act \in Leasing, x.awaited
      PROVE  /\ tab[x.tab].loaded # 0 /\ x.source = tab[x.tab].loaded
             /\ Active(x) => x.id <= issued'
             /\ Active(x) /\ x.left > 0 /\ Editing(x.tab, x.id, x.source)
                  => HeldBy(x.tab, x.id, x.left)'
  <2>1. CASE x \in net
    <3>1. /\ tab[x.tab].loaded # 0 /\ x.source = tab[x.tab].loaded
          /\ Active(x) => x.id <= issued
          /\ Active(x) /\ x.left > 0 /\ Editing(x.tab, x.id, x.source)
               => HeldBy(x.tab, x.id, x.left)
      BY <1>1, <2>1 DEF LeasesInv
    <3>2. x.tab \in Tabs /\ x.id \in Nat /\ x.left \in Nat /\ x.left \in 0..Life
      BY <2>1, NetShape
    <3>3. x.left <= Life
      BY <3>2, LifeIs
    <3>4. Active(x) => x.id <= issued'
      BY <1>0, <3>1, <3>2
    <3>5. Active(x) /\ x.left > 0 /\ Editing(x.tab, x.id, x.source)
                  => HeldBy(x.tab, x.id, x.left)'
      BY <3>1, <3>2, <3>3 DEF Editing, Respects
    <3>6. QED BY <3>1, <3>4, <3>5
  <2>2. CASE x \notin net
    <3>1. PICK m \in net : Responds(m, x)
      BY <2>2, NewReplies
    <3>2. m.awaited
      BY <1>1, <3>1 DEF Responds
    <3>3. x.act = m.act /\ x.source = m.source /\ x.tab = m.tab
      BY <3>1 DEF Responds
    <3>4. tab[x.tab].loaded # 0 /\ x.source = tab[x.tab].loaded
      BY <1>1, <3>2, <3>3 DEF LeasesInv
    <3>5. Active(x) => x.id = issued' /\ HeldBy(x.tab, x.id, x.left)'
      BY <2>2 DEF Written
    <3>6. QED BY <1>0, <3>4, <3>5
  <2>3. QED BY <2>1, <2>2
<1>2. ASSUME NEW x \in net', x.act = "release"
      PROVE  /\ x.id <= issued' /\ x.source <= Current' /\ x.id <= issued
             /\ tab[x.tab].loaded = 0 \/ x.source <= tab[x.tab].loaded
             /\ Valid(x) /\ x.id = issued' /\ x.source = Current'
                  => <<x.id, x.source>> \in tab[x.tab].asked
  <2>1. x \in net
    BY <1>2 DEF Written
  <2>2. /\ x.id <= issued /\ x.source <= Current
        /\ tab[x.tab].loaded = 0 \/ x.source <= tab[x.tab].loaded
        /\ Valid(x) /\ x.id = issued /\ x.source = Current
             => <<x.id, x.source>> \in tab[x.tab].asked
    BY <1>2, <2>1 DEF LeasesInv
  <2>3. x.id \in Nat /\ x.source \in Nat
    BY <2>1, NetShape
  <2>4. /\ x.id <= issued' /\ x.source <= Current'
        /\ x.id = issued' => x.id = issued
        /\ x.source = Current' => x.source = Current
    BY <1>0, <2>2, <2>3
  <2>5. QED BY <2>2, <2>4
<1>3. ASSUME NEW x \in net', NEW z \in net', x \notin net, z \in net, x.awaited, z.awaited,
             x.tab = z.tab, x.act \in Leasing, z.act \in Leasing
      PROVE  FALSE
  <2>1. PICK m \in net : Responds(m, x) /\ ~(m \in net' /\ m # x)
    BY <1>3, NewReplies
  <2>2. m.awaited
    BY <1>3, <2>1 DEF Responds
  <2>3. x.act = m.act /\ x.tab = m.tab
    BY <2>1 DEF Responds
  <2>4. m = z
    BY <1>3, <2>2, <2>3 DEF LeasesInv
  <2>5. QED BY <1>3, <2>1, <2>4
<1>4. ASSUME NEW x \in net', NEW z \in net', x.awaited, z.awaited, x.tab = z.tab,
             x.act \in Leasing, z.act \in Leasing
      PROVE  x = z
  <2>1. CASE x \in net /\ z \in net
    BY <1>4, <2>1 DEF LeasesInv
  <2>2. CASE x \notin net /\ z \notin net
    BY <2>2, OneReply
  <2>3. QED BY <1>3, <1>4, <2>1, <2>2
<1>5. ASSUME NEW x \in net', NEW o \in net', x.act = "release", Active(o), x.tab = o.tab
      PROVE  x.id <= o.id
  <2>1. x \in net /\ x.id <= issued'
    BY <1>2, <1>5 DEF Written
  <2>2. CASE o \in net
    BY <1>5, <2>1, <2>2 DEF LeasesInv
  <2>3. CASE o \notin net
    BY <1>5, <2>1, <2>3 DEF Written
  <2>4. QED BY <2>2, <2>3
<1>6. EditingIsHeld'
  <2>1. SUFFICES ASSUME NEW t \in Tabs, CanEdit(t)', session'[t].live,
                        <<tab'[t].gen, tab'[t].loaded>> \notin tab'[t].asked
                 PROVE  /\ lease'.tab = t /\ lease'.id = tab'[t].gen
                        /\ lease'.login = session'[t].n /\ lease'.left >= tab'[t].left
    BY DEF EditingIsHeld
  <2>2. CanEdit(t) /\ session[t].live /\ <<tab[t].gen, tab[t].loaded>> \notin tab[t].asked
    BY <2>1 DEF CanEdit
  <2>3. HeldBy(t, tab[t].gen, tab[t].left)
    BY <2>2 DEF LeasesInv, EditingIsHeld, HeldBy
  <2>4. tab[t].gen \in Nat /\ tab[t].left \in Nat /\ tab[t].left <= Life /\ tab[t].left > 0
    BY <2>2, TabShape, LifeIs DEF CanEdit
  <2>5. tab[t].loaded # 0
    BY <2>2 DEF DraftsInv, CanEdit
  <2>6. HeldBy(t, tab[t].gen, tab[t].left)'
    BY <2>2, <2>3, <2>4, <2>5 DEF Respects
  <2>7. QED BY <2>6 DEF HeldBy
<1>7. \A t \in Tabs : tab[t].gen <= issued'
  <2>1. \A t \in Tabs : tab[t].gen <= issued /\ tab[t].gen \in Nat
    BY TabShape DEF LeasesInv
  <2>2. QED BY <1>0, <2>1
<1>8. \A x \in net' : x.act \in Leasing /\ x.awaited =>
             /\ tab'[x.tab].loaded # 0 /\ x.source = tab'[x.tab].loaded
             /\ Active(x)' => x.id <= issued'
             /\ Active(x)' /\ x.left > 0 /\ Editing(x.tab, x.id, x.source)'
                  => HeldBy(x.tab, x.id, x.left)'
  BY <1>1 DEF Active, Editing
<1>9. \A x \in net' : x.act = "release" =>
             /\ x.id <= issued' /\ x.source <= Current'
             /\ tab'[x.tab].loaded = 0 \/ x.source <= tab'[x.tab].loaded
             /\ Valid(x)' /\ x.id = issued' /\ x.source = Current'
                  => <<x.id, x.source>> \in tab'[x.tab].asked
  BY <1>2 DEF Valid
<1>10. \A x, o \in net' : x.act = "release" /\ Active(o)' /\ x.tab = o.tab => x.id <= o.id
  BY <1>5 DEF Active
<1>11. QED BY <1>4, <1>6, <1>7, <1>8, <1>9, <1>10 DEF LeasesInv

LEMMA ServerStepKept ==
  ASSUME TabsInv, TypeOK', Replies, Grows, Respects, UNCHANGED <<session, tab, attempts>>,
         issued <= issued', lease'.tab # None => lease'.id = issued' /\ lease'.source = Current',
         \A x \in net' : x \in net \/ Written(x),
         \A k \in Keys : OpMoves(k),
         \A x \in net' : x \in net /\ x.at = "storing" => ops'[x.key] = "running"
  PROVE  TabsInv'
<1>1. SessionsInv'
  BY SessionsServed DEF TabsInv
<1>2. OperationsInv'
  BY OperationsServed DEF TabsInv
<1>3. DraftsInv'
  BY DraftsServed DEF TabsInv
<1>4. LeasesInv'
  BY LeasesServed DEF TabsInv, Grows
<1>5. QED BY <1>1, <1>2, <1>3, <1>4 DEF TabsInv

LEMMA RepliesBy ==
  ASSUME NEW m \in net, \E r : net' \subseteq (net \ {m}) \cup {r},
         \A x \in net' : x \in net \ {m} \/ (x \in Message /\ Responds(m, x))
  PROVE  Replies
BY DEF Replies

LEMMA SameOps ==
  ASSUME TabsInv, ops' = ops
  PROVE  /\ \A k \in Keys : OpMoves(k)
         /\ \A x \in net' : x \in net /\ x.at = "storing" => ops'[x.key] = "running"
BY DEF OpMoves, TabsInv, OperationsInv

LEMMA SameLease ==
  ASSUME TabsInv, UNCHANGED <<lease, issued, session, versions>>
  PROVE  /\ Respects /\ issued <= issued'
         /\ lease'.tab # None => lease'.id = issued' /\ lease'.source = Current'
<1>1. Respects
  BY DEF Respects, HeldBy
<1>2. issued <= issued'
  BY LeaseShape DEF TabsInv
<1>3. lease'.tab # None => lease'.id = issued' /\ lease'.source = Current'
  BY DEF TabsInv, LeasesInv, Current
<1>4. QED BY <1>1, <1>2, <1>3

(* The server answers, and nothing else.                                    *)
LEMMA AnswersKept ==
  ASSUME TabsInv, TypeOK', NEW m \in net,
         Deny(m) \/ Inform(m) \/ Content(m) \/ TurnAway(m) \/ Crash(m)
  PROVE  TabsInv'
<1>1. TypeOK /\ SessionsInv /\ OperationsInv
  BY DEF TabsInv
<1>2. UNCHANGED <<session, tab, attempts>> /\ UNCHANGED <<lease, issued, session, versions>>
      /\ UNCHANGED server /\ ops' = ops /\ versions' = versions
  BY DEF Deny, Inform, Content, TurnAway, Crash, server
<1>3. Current' = Current
  BY <1>2 DEF Current
<1>4. ASSUME NEW x \in net', x \notin net \ {m}
      PROVE  /\ x \in Message /\ Responds(m, x) /\ x.awaited
             /\ x.at = "tab"
  BY <1>1, <1>4, DenyIs, InformIs, ContentIs, FailsIs
<1>5. Replies
  <2>1. \E r : net' \subseteq (net \ {m}) \cup {r}
    BY OneAnswer
  <2>2. QED BY <1>4, <2>1, RepliesBy
<1>6. ASSUME NEW x \in net', x \notin net
      PROVE  Written(x)
  <2>1. /\ x \in Message /\ Responds(m, x) /\ x.awaited /\ x.at = "tab"
    BY <1>4, <1>6
  <2>2. x.act = m.act /\ x.key = m.key
    BY <2>1 DEF Responds
  <2>3. CASE Deny(m)
    <3>1. /\ m.act \in Leasing /\ x.says \in Says \ {"active", "stored"}
          /\ x.says = "authentication_required" => ~Valid(m)
      BY <1>1, <1>6, <2>3, DenyIs
    <3>2. x.act \notin Kinds /\ x.act # "load" /\ x.act # "release"
      BY <2>2, <3>1, KindsAre
    <3>3. x.says = "authentication_required" => ~session[x.tab].live
      BY <1>1, <2>1, <3>1, InvalidEnds
    <3>4. QED BY <2>1, <3>1, <3>2, <3>3 DEF Written, Active
  <2>4. CASE Inform(m)
    <3>1. /\ m.act \in Kinds
          /\ \/ x.says = "authentication_required" /\ ~Valid(m)
             \/ /\ x.says = "stored"
                /\ x.saved \in 1..Current /\ versions[x.saved] = m.key
      BY <1>1, <1>6, <2>4, InformIs
    <3>2. x.act \notin Leasing /\ x.act # "load" /\ x.act # "release"
      BY <2>2, <3>1, KindsAre
    <3>3. x.says = "authentication_required" => ~session[x.tab].live
      BY <1>1, <2>1, <3>1, InvalidEnds
    <3>4. x.says \notin Denials
      BY <3>1 DEF Denials
    <3>5. QED BY <1>2, <1>3, <2>1, <2>2, <3>1, <3>2, <3>3, <3>4 DEF Written, Active
  <2>5. CASE Content(m)
    <3>1. /\ m.act = "load" /\ x.saved = m.saved
          /\ x.says \in {"current", "stale", "authentication_required"}
          /\ x.says = "authentication_required" => ~Valid(m)
      BY <1>1, <1>6, <2>5, ContentIs
    <3>2. x.act \notin Leasing /\ x.act \notin Kinds /\ x.act # "release"
      BY <2>2, <3>1, KindsAre
    <3>3. x.says = "authentication_required" => ~session[x.tab].live
      BY <1>1, <2>1, <3>1, InvalidEnds
    <3>4. x.saved \in 1..Current /\ versions[x.saved] = x.key
      BY <1>1, <2>2, <3>1 DEF OperationsInv
    <3>5. QED BY <1>2, <1>3, <2>1, <3>2, <3>3, <3>4 DEF Written, Active
  <2>6. CASE TurnAway(m) \/ Crash(m)
    <3>1. x.says \in {"upload_busy", "storage_unavailable"}
      BY <1>1, <1>6, <2>6, FailsIs
    <3>2. m.act \in Kinds
      BY <1>1, <2>6 DEF TurnAway, Crash, OperationsInv
    <3>3. x.act \notin Leasing /\ x.act # "load" /\ x.act # "release"
      BY <2>2, <3>2, KindsAre
    <3>4. x.says \notin Denials
      BY <3>1 DEF Denials
    <3>5. QED BY <2>1, <3>1, <3>3, <3>4 DEF Written, Active
  <2>7. QED BY <2>3, <2>4, <2>5, <2>6
<1>7. Grows
  BY <1>1, <1>2, SameGrows
<1>8. /\ Respects /\ issued <= issued'
      /\ lease'.tab # None => lease'.id = issued' /\ lease'.source = Current'
  BY <1>2, SameLease
<1>9. /\ \A k \in Keys : OpMoves(k)
      /\ \A x \in net' : x \in net /\ x.at = "storing" => ops'[x.key] = "running"
  BY <1>2, SameOps
<1>10. QED BY <1>2, <1>5, <1>6, <1>7, <1>8, <1>9, ServerStepKept

LEMMA BeginKept ==
  ASSUME TabsInv, TypeOK', NEW m \in net, Begin(m)
  PROVE  TabsInv'
<1>1. TypeOK /\ SessionsInv /\ OperationsInv
  BY DEF TabsInv
<1>2. /\ UNCHANGED <<versions, lease, issued, session, tab, attempts, faults>>
      /\ m.act \in Kinds /\ m.key \in Keys /\ m.at = "server"
      /\ \/ ops' = ops
         \/ /\ ops[m.key] = "none"
            /\ \E o \in {"running", "aborted"} : ops' = [ops EXCEPT ![m.key] = o]
  BY <1>1, BeginIs
<1>3. ASSUME NEW x \in net', x \notin net \ {m}
      PROVE  /\ x \in Message /\ Responds(m, x)
             /\ \/ /\ x.at = "storing" /\ ops[m.key] = "none" /\ ops'[m.key] = "running"
                \/ /\ x.awaited
                   /\ \/ x.at = "stored" /\ ops[m.key] = "committed"
                      \/ /\ x.at = "tab" /\ x.says # "stored"
                         /\ x.says = "authentication_required" => ~Valid(m)
                         /\ x.says \in Denials => ops'[m.key] = "aborted"
  BY <1>1, <1>3, BeginIs
<1>4. Replies
  <2>1. \E r : net' \subseteq (net \ {m}) \cup {r}
    BY OneAnswer
  <2>2. QED BY <1>3, <2>1, RepliesBy
<1>5. ops \in [Keys -> {"none", "running", "committed", "aborted"}]
  BY <1>1 DEF TypeOK
<1>6. ASSUME NEW k \in Keys
      PROVE  /\ OpMoves(k)
             /\ ops[k] # "none" => ops'[k] = ops[k]
  BY <1>2, <1>5 DEF OpMoves
<1>7. ASSUME NEW x \in net, x.at = "storing"
      PROVE  x.act \in Calls /\ x.key \in Keys /\ ops[x.key] = "running"
             /\ ops'[x.key] = "running"
  <2>1. x.act \in Calls /\ ops[x.key] = "running"
    BY <1>1, <1>7, KindsAre DEF OperationsInv
  <2>2. x.key \in Keys
    BY <1>1, <2>1, KeyShape
  <2>3. QED BY <1>6, <2>1, <2>2
<1>8. ASSUME NEW x \in net', x \notin net
      PROVE  Written(x)
  <2>1. /\ x \in Message /\ Responds(m, x)
    BY <1>3, <1>8
  <2>2. x.act = m.act /\ x.key = m.key
    BY <2>1 DEF Responds
  <2>3. x.act \notin Leasing /\ x.act # "load" /\ x.act # "release" /\ x.act \in Kinds
    BY <1>2, <2>2, KindsAre
  <2>4. CASE x.at = "storing" /\ ops[m.key] = "none" /\ ops'[m.key] = "running"
    <3>1. \A z \in net : z.at = "storing" => z.key # x.key
      BY <1>7, <2>2, <2>4
    <3>2. QED BY <2>2, <2>3, <2>4, <3>1 DEF Written, Active
  <2>5. CASE x.awaited /\ x.at = "stored" /\ ops[m.key] = "committed"
    BY <1>2, <1>6, <2>2, <2>3, <2>5 DEF Written, Active
  <2>6. CASE /\ x.awaited /\ x.at = "tab" /\ x.says # "stored"
             /\ x.says = "authentication_required" => ~Valid(m)
             /\ x.says \in Denials => ops'[m.key] = "aborted"
    <3>1. x.says = "authentication_required" => ~session[x.tab].live
      BY <1>1, <2>1, <2>6, InvalidEnds
    <3>2. QED BY <2>2, <2>3, <2>6, <3>1 DEF Written, Active
  <2>7. QED BY <1>3, <1>8, <2>4, <2>5, <2>6
<1>9. Grows
  BY <1>1, <1>2, SameGrows
<1>10. /\ Respects /\ issued <= issued'
       /\ lease'.tab # None => lease'.id = issued' /\ lease'.source = Current'
  BY <1>2, SameLease
<1>11. QED BY <1>2, <1>4, <1>6, <1>7, <1>8, <1>9, <1>10, ServerStepKept

LEMMA PublishKept ==
  ASSUME TabsInv, TypeOK', NEW m \in net, Publish(m)
  PROVE  TabsInv'
<1>1. TypeOK /\ SessionsInv /\ OperationsInv /\ LeasesInv
  BY DEF TabsInv
<1>2. /\ UNCHANGED <<issued, session, tab, attempts, faults>>
      /\ m.at = "storing" /\ m.act \in Kinds /\ m.key \in Keys /\ ops[m.key] = "running"
  BY <1>1, PublishIs
<1>3. \/ /\ attempts[m.key].source = Current
         /\ versions' = Append(versions, m.key)
         /\ lease' = [lease EXCEPT !.source = Current + 1]
         /\ ops' = [ops EXCEPT ![m.key] = "committed"] /\ lease.tab = m.tab
      \/ ops' = [ops EXCEPT ![m.key] = "aborted"] /\ UNCHANGED <<versions, lease>>
  BY <1>1, PublishIs
<1>4. ASSUME NEW x \in net', x \notin net \ {m}
      PROVE  /\ x \in Message /\ Responds(m, x) /\ x.awaited
             /\ \/ x.at = "stored" /\ ops'[m.key] = "committed"
                \/ /\ x.at = "tab" /\ x.says # "stored" /\ ops'[m.key] = "aborted"
                   /\ x.says = "authentication_required" => ~Valid(m)
  BY <1>1, <1>4, PublishIs
<1>5. Replies
  <2>1. \E r : net' \subseteq (net \ {m}) \cup {r}
    BY OneAnswer
  <2>2. QED BY <1>4, <2>1, RepliesBy
<1>6. ops \in [Keys -> {"none", "running", "committed", "aborted"}] /\ m.act \in Calls
  BY <1>1, <1>2, KindsAre DEF TypeOK
<1>7. attempts[m.key].tab # None /\ m.key # 0
  <2>1. attempts[m.key].tab = m.tab /\ m.tab \in Tabs
    BY <1>1, <1>6, KeyShape, NetShape
  <2>2. QED BY <1>2, <2>1, TabsAreNotNone DEF Keys
<1>8. Grows /\ issued <= issued' /\ Respects
      /\ (lease'.tab # None => lease'.id = issued' /\ lease'.source = Current')
      /\ (ops'[m.key] = "committed" => \E n \in 1..Current' : versions'[n] = m.key)
  <2>1. CASE /\ attempts[m.key].source = Current
             /\ versions' = Append(versions, m.key)
             /\ lease' = [lease EXCEPT !.source = Current + 1]
             /\ ops' = [ops EXCEPT ![m.key] = "committed"] /\ lease.tab = m.tab
    <3>1. ops'[m.key] = "committed"
      BY <1>2, <1>6, <2>1
    <3>2. Grows /\ Current' = Current + 1 /\ versions'[Current + 1] = m.key
      BY <1>1, <1>2, <1>7, <2>1, <3>1, AppendGrows
    <3>3. /\ lease'.tab = lease.tab /\ lease'.login = lease.login /\ lease'.id = lease.id
          /\ lease'.left = lease.left /\ lease'.source = Current + 1
      BY <1>1, <2>1, LeaseShape DEF Lease
    <3>4. Respects
      BY <1>2, <3>3 DEF Respects, HeldBy
    <3>5. lease'.tab # None => lease'.id = issued' /\ lease'.source = Current'
      BY <1>1, <1>2, <3>2, <3>3 DEF LeasesInv
    <3>6. Current + 1 \in 1..Current' /\ issued <= issued'
      BY <1>1, <1>2, <3>2, CurrentShape, LeaseShape
    <3>7. QED BY <3>2, <3>4, <3>5, <3>6
  <2>2. CASE ops' = [ops EXCEPT ![m.key] = "aborted"] /\ UNCHANGED <<versions, lease>>
    <3>1. ops'[m.key] = "aborted"
      BY <1>2, <1>6, <2>2
    <3>2. QED BY <1>1, <1>2, <2>2, <3>1, SameGrows, SameLease
  <2>3. QED BY <1>3, <2>1, <2>2
<1>9. ASSUME NEW k \in Keys
      PROVE  OpMoves(k) /\ (k # m.key => ops'[k] = ops[k])
  <2>1. k # m.key => ops'[k] = ops[k]
    BY <1>2, <1>3, <1>6
  <2>2. QED BY <1>2, <1>8, <2>1 DEF OpMoves
<1>10. ASSUME NEW x \in net', x \in net, x.at = "storing"
       PROVE  ops'[x.key] = "running"
  <2>1. x.act \in Calls /\ ops[x.key] = "running"
    BY <1>1, <1>10, KindsAre DEF OperationsInv
  <2>2. x.key \in Keys
    BY <1>1, <1>10, <2>1, KeyShape
  <2>3. x # m
    <3>1. SUFFICES ASSUME x = m PROVE FALSE
      OBVIOUS
    <3>2. x \notin net \ {m}
      BY <3>1
    <3>3. x.at = "stored" \/ x.at = "tab"
      BY <1>4, <1>10, <3>2
    <3>4. QED BY <1>10, <3>3
  <2>4. x.key # m.key
    BY <1>1, <1>2, <1>10, <2>3 DEF OperationsInv
  <2>5. QED BY <1>9, <2>1, <2>2, <2>4
<1>11. ASSUME NEW x \in net', x \notin net
       PROVE  Written(x)
  <2>1. x \in Message /\ Responds(m, x) /\ x.awaited
    BY <1>4, <1>11
  <2>2. x.act = m.act /\ x.key = m.key
    BY <2>1 DEF Responds
  <2>3. x.act \notin Leasing /\ x.act # "load" /\ x.act # "release" /\ x.act \in Kinds
    BY <1>2, <2>2, KindsAre
  <2>4. CASE x.at = "stored" /\ ops'[m.key] = "committed"
    BY <2>1, <2>2, <2>3, <2>4 DEF Written, Active
  <2>5. CASE /\ x.at = "tab" /\ x.says # "stored" /\ ops'[m.key] = "aborted"
             /\ x.says = "authentication_required" => ~Valid(m)
    <3>1. x.says = "authentication_required" => ~session[x.tab].live
      BY <1>1, <2>1, <2>5, InvalidEnds
    <3>2. QED BY <2>1, <2>2, <2>3, <2>5, <3>1 DEF Written, Active
  <2>6. QED BY <1>4, <1>11, <2>4, <2>5
<1>12. QED BY <1>2, <1>5, <1>8, <1>9, <1>10, <1>11, ServerStepKept

(* Released is the generation in use only when its tab has asked for it.    *)
LEMMA ReleaseKept ==
  ASSUME TabsInv, TypeOK', NEW m \in net, Release(m)
  PROVE  TabsInv'
<1>1. TypeOK /\ SessionsInv /\ OperationsInv /\ DraftsInv /\ LeasesInv
  BY DEF TabsInv
<1>2. /\ m.act = "release" /\ net' = net \ {m}
      /\ UNCHANGED <<versions, ops, issued, session, tab, attempts, faults>>
  BY DEF Release
<1>3. \/ lease' = lease
      \/ /\ lease' = NoLease /\ Valid(m) /\ lease.tab = m.tab
         /\ lease.id = m.id /\ lease.source = m.source
  BY DEF Release, Generation, Same
<1>4. Replies
  BY <1>2 DEF Replies
<1>5. Grows /\ Current' = Current
  BY <1>1, <1>2, SameGrows DEF Current
<1>6. Respects
  <2>1. CASE lease' = lease
    BY <1>2, <2>1 DEF Respects, HeldBy
  <2>2. CASE /\ lease' = NoLease /\ Valid(m) /\ lease.tab = m.tab
             /\ lease.id = m.id /\ lease.source = m.source
    <3>1. SUFFICES ASSUME NEW t \in Tabs, NEW g \in Nat, NEW n \in Nat,
                          HeldBy(t, g, n), tab[t].loaded # 0,
                          <<g, tab[t].loaded>> \notin tab[t].asked
                   PROVE  FALSE
      BY DEF Respects
    <3>2. m.tab = t /\ m.id = g
      BY <2>2, <3>1 DEF HeldBy
    <3>3. m.tab # None
      BY <1>1, NetShape, TabsAreNotNone
    <3>4. m.id = issued /\ m.source = Current
      BY <1>1, <2>2, <3>3 DEF LeasesInv
    <3>5. <<m.id, m.source>> \in tab[t].asked /\ m.source <= tab[t].loaded
      BY <1>1, <1>2, <2>2, <3>1, <3>2, <3>4 DEF LeasesInv
    <3>6. tab[t].loaded <= Current /\ tab[t].loaded \in Nat /\ Current \in Nat
      BY <1>1, TabShape, CurrentShape DEF DraftsInv
    <3>7. m.source = tab[t].loaded
      BY <3>4, <3>5, <3>6
    <3>8. QED BY <3>1, <3>2, <3>5, <3>7
  <2>3. QED BY <1>3, <2>1, <2>2
<1>7. issued <= issued' /\ (lease'.tab # None => lease'.id = issued' /\ lease'.source = Current')
  BY <1>1, <1>2, <1>3, <1>5, LeaseShape, NoLeaseTyped DEF LeasesInv
<1>8. \A x \in net' : x \in net \/ Written(x)
  BY <1>2
<1>9. /\ \A k \in Keys : OpMoves(k)
      /\ \A x \in net' : x \in net /\ x.at = "storing" => ops'[x.key] = "running"
  BY <1>2, SameOps
<1>10. QED BY <1>2, <1>4, <1>5, <1>6, <1>7, <1>8, <1>9, ServerStepKept

(* Nobody's lease is taken while its session lives and it has not run out.  *)
LEMMA TakenFree ==
  ASSUME TypeOK, lease.tab = None \/ ~Live, NEW t \in Tabs, NEW g \in Nat, NEW n \in Nat,
         HeldBy(t, g, n), n > 0, session[t].live
  PROVE  FALSE
<1>1. lease.tab = t /\ lease.login = session[t].n /\ lease.left >= n /\ lease.left \in Nat
  BY LeaseShape DEF HeldBy
<1>2. ~Live
  BY <1>1, TabsAreNotNone
<1>3. session[t] \in [n : Nat, live : BOOLEAN]
  BY DEF TypeOK, Editors
<1>4. session[t] = [n |-> session[t].n, live |-> session[t].live]
  BY <1>3
<1>5. session[t] = [n |-> session[t].n, live |-> TRUE]
  BY <1>3, <1>4
<1>6. lease.left > 0
  BY <1>1
<1>7. QED BY <1>1, <1>2, <1>5, <1>6 DEF Live

LEMMA GrantKept ==
  ASSUME TabsInv, TypeOK', NEW m \in net, Grant(m)
  PROVE  TabsInv'
<1>1. TypeOK /\ SessionsInv /\ OperationsInv /\ DraftsInv /\ LeasesInv
  BY DEF TabsInv
<1>2. /\ Valid(m) /\ m.at = "server" /\ m.act \in Leasing /\ m.source = Current
      /\ UNCHANGED <<versions, ops, session, tab, attempts, faults>>
      /\ lease'.tab = m.tab /\ lease'.login = m.login
      /\ lease'.source = m.source /\ lease'.left = Life /\ issued' \in Nat
      /\ lease'.id \in Nat
  BY <1>1, GrantIs
<1>3. \/ /\ issued' = issued /\ lease'.id = lease.id /\ lease.tab = m.tab
         /\ lease.login = m.login
      \/ /\ issued' = issued + 1 /\ lease'.id = issued'
         /\ lease.tab = None \/ ~Live
              \/ (lease.tab = m.tab /\ lease.login = m.login /\ lease.source # m.source)
  BY <1>1, GrantIs
<1>4. ASSUME NEW x \in net', x \notin net \ {m}
      PROVE  /\ x \in Message /\ Responds(m, x) /\ x.awaited /\ x.at = "tab"
             /\ x.says = "active" /\ x.id = lease'.id
  BY <1>1, <1>4, GrantIs
<1>5. Replies
  <2>1. \E r : net' \subseteq (net \ {m}) \cup {r}
    BY OneAnswer
  <2>2. QED BY <1>4, <2>1, RepliesBy
<1>6. Grows /\ Current' = Current
  BY <1>1, <1>2, SameGrows DEF Current
<1>7. m.tab \in Tabs /\ m.tab # None /\ m.login = session[m.tab].n /\ m \in Message
  BY <1>1, <1>2, NetShape, TabsAreNotNone, ValidIs
<1>8. lease'.id = issued' /\ issued <= issued'
  BY <1>1, <1>3, <1>7, LeaseShape DEF LeasesInv
<1>9. Respects
  <2>1. CASE lease'.id = lease.id /\ lease.tab = m.tab /\ lease.login = m.login
    <3>1. SUFFICES ASSUME NEW t \in Tabs, NEW g \in Nat, NEW n \in Nat,
                          HeldBy(t, g, n), n <= Life
                   PROVE  HeldBy(t, g, n)'
      BY DEF Respects
    <3>2. lease.tab = t /\ lease.id = g /\ lease.login = session[t].n
      BY <3>1 DEF HeldBy
    <3>3. lease'.tab = t /\ lease'.id = g /\ lease'.login = session'[t].n /\ lease'.left >= n
      BY <1>2, <2>1, <3>1, <3>2, LifeIs
    <3>4. QED BY <3>3 DEF HeldBy
  <2>2. CASE lease.tab = None \/ ~Live
    BY <1>1, <2>2, TakenFree DEF Respects
  <2>3. CASE lease.tab = m.tab /\ lease.source # m.source
    BY <1>1, <1>2, <1>7, <2>3 DEF LeasesInv
  <2>4. QED BY <1>3, <2>1, <2>2, <2>3
<1>10. ASSUME NEW x \in net', x \notin net
       PROVE  Written(x)
  <2>1. x \in Message /\ Responds(m, x) /\ x.at = "tab" /\ x.says = "active" /\ x.id = lease'.id
    BY <1>4, <1>10
  <2>2. x.awaited
    BY <1>4, <1>10
  <2>3. x.act = m.act /\ x.tab = m.tab
    BY <2>1 DEF Responds
  <2>4. x.act \notin Kinds /\ x.act # "load" /\ x.act # "release"
    BY <1>2, <2>3, KindsAre DEF Leasing
  <2>5. x.left <= Life
    BY <2>1, LifeIs DEF Message
  <2>6. x.id = issued' /\ HeldBy(x.tab, x.id, x.left)'
    <3>1. lease'.tab = x.tab /\ lease'.id = x.id /\ lease'.login = session'[x.tab].n
      BY <1>2, <1>7, <2>1, <2>3
    <3>2. lease'.left >= x.left
      BY <1>2, <2>1, <2>5, LifeIs, MessageShape
    <3>3. QED BY <1>8, <2>1, <3>1, <3>2 DEF HeldBy
  <2>7. QED BY <2>1, <2>2, <2>4, <2>6 DEF Written
<1>11. /\ \A k \in Keys : OpMoves(k)
       /\ \A x \in net' : x \in net /\ x.at = "storing" => ops'[x.key] = "running"
  BY <1>2, SameOps
<1>12. QED BY <1>2, <1>5, <1>6, <1>8, <1>9, <1>10, <1>11, ServerStepKept

LEMMA RivalKept ==
  ASSUME TabsInv, TypeOK', NEW r \in Rivals,
         RivalTakes(r) \/ RivalSaves(r) \/ RivalReleases(r)
  PROVE  TabsInv'
<1>1. TypeOK /\ SessionsInv /\ OperationsInv /\ DraftsInv /\ LeasesInv
  BY DEF TabsInv
<1>2. net' = net /\ ops' = ops /\ UNCHANGED <<session, tab, attempts>>
  BY DEF RivalTakes, RivalSaves, RivalReleases
<1>3. Replies /\ \A x \in net' : x \in net \/ Written(x)
  BY <1>2 DEF Replies
<1>4. /\ \A k \in Keys : OpMoves(k)
      /\ \A x \in net' : x \in net /\ x.at = "storing" => ops'[x.key] = "running"
  BY <1>2, SameOps
<1>5. \A t \in Tabs : t # r
  BY TabsAssumptions
<1>6. /\ Grows /\ Respects /\ issued <= issued'
      /\ lease'.tab # None => lease'.id = issued' /\ lease'.source = Current'
  <2>1. CASE RivalTakes(r)
    <3>1. /\ lease.tab = None \/ ~Live
          /\ issued' = issued + 1 /\ versions' = versions
          /\ lease'.id = issued + 1 /\ lease'.source = Current
      BY <2>1 DEF RivalTakes
    <3>2. Grows /\ Current' = Current
      BY <1>1, <3>1, SameGrows DEF Current
    <3>3. Respects
      BY <1>1, <3>1, TakenFree DEF Respects
    <3>4. QED BY <1>1, <3>1, <3>2, <3>3, LeaseShape
  <2>2. CASE RivalSaves(r)
    <3>1. /\ lease.tab = r /\ versions' = Append(versions, 0) /\ issued' = issued
          /\ lease' = [lease EXCEPT !.source = Current + 1]
      BY <2>2 DEF RivalSaves
    <3>2. Grows /\ Current' = Current + 1
      BY <1>1, <3>1, AppendGrows
    <3>3. Respects
      BY <1>5, <3>1 DEF Respects, HeldBy
    <3>4. lease'.tab = lease.tab /\ lease'.id = lease.id /\ lease'.source = Current + 1
      BY <1>1, <3>1, LeaseShape DEF Lease
    <3>5. QED BY <1>1, <3>1, <3>2, <3>3, <3>4, LeaseShape DEF LeasesInv
  <2>3. CASE RivalReleases(r)
    <3>1. lease.tab = r /\ lease' = NoLease /\ versions' = versions /\ issued' = issued
      BY <2>3 DEF RivalReleases
    <3>2. Grows
      BY <1>1, <3>1, SameGrows
    <3>3. Respects
      BY <1>5, <3>1 DEF Respects, HeldBy
    <3>4. QED BY <1>1, <3>1, <3>2, <3>3, LeaseShape, NoLeaseTyped
  <2>4. QED BY <2>1, <2>2, <2>3
<1>7. QED BY <1>2, <1>3, <1>4, <1>6, ServerStepKept

LEMMA RecoverKept ==
  ASSUME TabsInv, TypeOK', NEW k \in Keys, Recover(k)
  PROVE  TabsInv'
<1>1. TypeOK /\ OperationsInv
  BY DEF TabsInv
<1>2. /\ net' = net /\ UNCHANGED <<session, tab, attempts>>
      /\ UNCHANGED <<lease, issued, session, versions>>
      /\ ops[k] = "running" /\ \A m \in net : m.key = k => m.at # "storing"
      /\ ops' = [ops EXCEPT ![k] = "aborted"]
  BY DEF Recover
<1>3. Replies /\ \A x \in net' : x \in net \/ Written(x)
  BY <1>2 DEF Replies
<1>4. Grows
  BY <1>1, <1>2, SameGrows
<1>5. /\ Respects /\ issued <= issued'
      /\ lease'.tab # None => lease'.id = issued' /\ lease'.source = Current'
  BY <1>2, SameLease
<1>6. ops \in [Keys -> {"none", "running", "committed", "aborted"}]
  BY <1>1 DEF TypeOK
<1>7. ASSUME NEW j \in Keys
      PROVE  OpMoves(j) /\ (j # k => ops'[j] = ops[j])
  BY <1>2, <1>6 DEF OpMoves
<1>8. ASSUME NEW x \in net', x \in net, x.at = "storing"
      PROVE  ops'[x.key] = "running"
  <2>1. x.act \in Calls /\ ops[x.key] = "running" /\ x.key # k
    BY <1>1, <1>2, <1>8, KindsAre DEF OperationsInv
  <2>2. x.key \in Keys
    BY <1>1, <1>8, <2>1, KeyShape
  <2>3. QED BY <1>7, <2>1, <2>2
<1>9. QED BY <1>2, <1>3, <1>4, <1>5, <1>7, <1>8, ServerStepKept

-----------------------------------------------------------------------------
(* Part 7.  The invariant, and what it implies.                             *)

LEMMA InitTabs == Init => TabsInv
<1> SUFFICES ASSUME Init PROVE TabsInv
  OBVIOUS
<1>1. TypeOK
  BY InitTyped
<1>2. net = {} /\ Current = 1 /\ versions = <<0>>
  BY DEF Init, Current
<1>3. \A t \in Tabs : tab[t] = Unloaded
  BY DEF Init
<1>4. \A k \in Keys : attempts[k] = NoAttempt /\ ops[k] = "none"
  BY DEF Init
<1>5. \A t \in Tabs : /\ tab[t].loaded = 0 /\ tab[t].base = 0 /\ tab[t].acked = 0
                      /\ tab[t].key = 0 /\ tab[t].gen = 0 /\ tab[t].status = "checking"
  <2>1. /\ Unloaded.loaded = 0 /\ Unloaded.base = 0 /\ Unloaded.acked = 0
        /\ Unloaded.key = 0 /\ Unloaded.gen = 0 /\ Unloaded.status = "checking"
    BY DEF Unloaded
  <2>2. QED BY <1>3, <2>1
<1>6. \A t \in Tabs : ~tab[t].out
  <2>1. ~Unloaded.out
    BY DEF Unloaded
  <2>2. QED BY <1>3, <2>1
<1>7. SessionsInv
  BY <1>2, <1>6 DEF SessionsInv
<1>8. OperationsInv
  <2>1. \A k \in Keys : ~attempts[k].ended
    BY <1>4 DEF NoAttempt
  <2>2. \A n \in 1..Current : versions[n] = 0
    BY <1>2
  <2>3. QED BY <1>2, <1>4, <2>1, <2>2 DEF OperationsInv
<1>9. AcknowledgedIsSaved
  BY <1>5 DEF AcknowledgedIsSaved
<1>10. DraftsInv
  <2>1. \A k \in Keys : attempts[k].source = attempts[k].base
    BY <1>4 DEF NoAttempt
  <2>2. QED BY <1>2, <1>5, <1>9, <2>1 DEF DraftsInv
<1>11. EditingIsHeld
  BY <1>5 DEF EditingIsHeld, CanEdit
<1>12. LeasesInv
  <2>1. lease.tab = None /\ issued = 0
    BY NoLeaseTyped DEF Init
  <2>2. QED BY <1>2, <1>5, <1>11, <2>1 DEF LeasesInv
<1>13. QED BY <1>1, <1>7, <1>8, <1>10, <1>12 DEF TabsInv

LEMMA NextKept ==
  ASSUME TabsInv, [Next]_vars
  PROVE  TabsInv'
<1>1. TypeOK /\ OperationsInv
  BY DEF TabsInv
<1>2. CASE UNCHANGED vars
  <2>1. UNCHANGED <<versions, ops, lease, issued, session, tab, attempts, net, faults>>
    BY <1>2 DEF vars
  <2>2. TypeOK' /\ Current' = Current
    BY <1>1, <2>1 DEF TypeOK, Current
  <2>3. Replies /\ Grows /\ (\A x \in net' : x \in net \/ Written(x))
    BY <1>1, <2>1, SameGrows DEF Replies
  <2>4. /\ Respects /\ issued <= issued'
        /\ lease'.tab # None => lease'.id = issued' /\ lease'.source = Current'
    BY <2>1, SameLease
  <2>5. /\ \A k \in Keys : OpMoves(k)
        /\ \A x \in net' : x \in net /\ x.at = "storing" => ops'[x.key] = "running"
    BY <2>1, SameOps
  <2>6. QED BY <2>1, <2>2, <2>3, <2>4, <2>5, ServerStepKept
<1>3. CASE Tick
  BY <1>1, <1>3, TickTyped, TickKept
<1>4. ASSUME NEW t \in Tabs,
             \/ Acquire(t) \/ Retry(t) \/ Renew(t) \/ Leave(t) \/ Load(t) \/ Edit(t)
             \/ Save(t) \/ Restore(t) \/ Reopen(t) \/ EndSession(t) \/ SignIn(t)
      PROVE  TabsInv'
  <2>1. TypeOK'
    BY <1>1, <1>4, TabStepTyped
  <2>2. QED BY <1>4, <2>1, AsksKept, LeaveKept, LoadKept, EditKept, TryKept, ReopenKept,
                 SessionStepKept
<1>5. ASSUME NEW m \in net, LeaseAnswer(m) \/ OpAnswer(m) \/ LoadAnswer(m) \/ GiveUp(m)
      PROVE  TabsInv'
  <2>1. TypeOK'
    BY <1>1, <1>5, HeardTyped
  <2>2. QED BY <1>5, <2>1, LeaseAnswerKept, OpAnswerKept, LoadAnswerKept, GiveUpKept
<1>6. ASSUME NEW m \in net,
             \/ Grant(m) \/ Deny(m) \/ Release(m) \/ Begin(m) \/ Publish(m) \/ Inform(m)
             \/ Content(m) \/ TurnAway(m) \/ Crash(m)
      PROVE  TabsInv'
  <2>1. TypeOK'
    BY <1>1, <1>6, ServerTyped
  <2>2. QED BY <1>6, <2>1, GrantKept, ReleaseKept, BeginKept, PublishKept, AnswersKept
<1>7. ASSUME NEW r \in Rivals, RivalTakes(r) \/ RivalSaves(r) \/ RivalReleases(r)
      PROVE  TabsInv'
  <2>1. TypeOK'
    BY <1>1, <1>7, OthersTyped
  <2>2. QED BY <1>7, <2>1, RivalKept
<1>8. ASSUME NEW k \in Keys, Recover(k)
      PROVE  TabsInv'
  <2>1. TypeOK'
    BY <1>1, <1>8, OthersTyped
  <2>2. QED BY <1>8, <2>1, RecoverKept
<1>9. QED BY <1>2, <1>3, <1>4, <1>5, <1>6, <1>7, <1>8 DEF Next

(* The layers of the invariant hold of every state that a workspace in      *)
(* several tabs (useEditingLease.ts, useDocumentSave.ts, useRestore.ts) and *)
(* the leases and saves of the server (leases.py, saves.py,                 *)
(* revision_commit.py) reach together, whatever the network delays or       *)
(* loses, whoever else edits, and whenever sessions end.                    *)
THEOREM TabsInvariant == Spec => []TabsInv
<1>1. Init => TabsInv
  BY InitTabs
<1>2. TabsInv /\ [Next]_vars => TabsInv'
  BY NextKept
<1>3. QED BY <1>1, <1>2, PTL DEF Spec

(* A tab whose editor is enabled holds the lease the server knows, at least *)
(* until the tab's own deadline: its deadline counts from the request, the  *)
(* server's from the answer (useEditingLease.ts, leases.change).            *)
THEOREM EditingStaysHeld == Spec => []EditingIsHeld
<1>1. TabsInv => EditingIsHeld
  BY DEF TabsInv, LeasesInv
<1>2. QED BY <1>1, TabsInvariant, PTL

(* No save undoes another client's: the source a tab names is the revision  *)
(* its draft was typed on, after a late answer as well, and a revision      *)
(* published for an operation follows the source of that operation          *)
(* (useDocumentSave.ts; holder and commit in revision_commit.py).           *)
THEOREM NoUpdateIsLost == Spec => []NoLostUpdate
<1>1. ASSUME TabsInv
      PROVE  NoLostUpdate
  <2>1. TypeOK /\ OperationsInv /\ DraftsInv
    BY <1>1 DEF TabsInv
  <2>2. \A t \in Tabs : tab[t].loaded = tab[t].base
    BY <2>1 DEF DraftsInv
  <2>3. \A k \in Keys : attempts[k].source = attempts[k].base
    BY <2>1 DEF DraftsInv
  <2>4. \A n \in {v \in 2..Current : versions[v] # 0} : attempts[versions[n]].source = n - 1
    BY <2>1, CurrentShape DEF OperationsInv
  <2>5. QED BY <2>2, <2>3, <2>4 DEF NoLostUpdate
<1>2. QED BY <1>1, TabsInvariant, PTL

(* What a tab calls saved is the state of the draft that the revision it    *)
(* stands on was written from, also when the answer came for a retried      *)
(* request or the user has typed since (useDocumentSave.ts, saved_info in   *)
(* revision_commit.py).                                                     *)
THEOREM AcknowledgementsAreTrue == Spec => []AcknowledgedIsSaved
<1>1. TabsInv => AcknowledgedIsSaved
  BY DEF TabsInv, DraftsInv
<1>2. QED BY <1>1, TabsInvariant, PTL

(* A key whose refusal made the tab forget its attempt is aborted for good; *)
(* no delayed request with it publishes a revision (useDocumentSave.ts,     *)
(* save in saves.py, commit in revision_commit.py).                         *)
THEOREM RefusalsAreTrue == Spec => []RefusedIsNotSaved
<1>1. ASSUME TabsInv
      PROVE  RefusedIsNotSaved
  <2>1. OperationsInv
    BY <1>1 DEF TabsInv
  <2>2. SUFFICES ASSUME NEW k \in Keys, attempts[k].ended
                 PROVE  ops[k] = "aborted" /\ \A n \in 1..Current : versions[n] # k
    BY DEF RefusedIsNotSaved
  <2>3. ops[k] = "aborted" /\ k # 0
    BY <2>1, <2>2 DEF OperationsInv, Keys
  <2>4. ASSUME NEW n \in 1..Current, versions[n] = k
        PROVE  FALSE
    BY <2>1, <2>3, <2>4 DEF OperationsInv
  <2>5. QED BY <2>3, <2>4
<1>2. QED BY <1>1, TabsInvariant, PTL

(* The tab asks its user to sign in only when the server has ended the      *)
(* session it is in, never for a late 401 of an earlier one                 *)
(* (requestBoundary.ts, Authentication.tsx).                                *)
THEOREM AskedOnlyWhenSessionEnded == Spec => []AskedOnlyWhenEnded
<1>1. TabsInv => AskedOnlyWhenEnded
  BY DEF TabsInv, SessionsInv, AskedOnlyWhenEnded
<1>2. QED BY <1>1, TabsInvariant, PTL
================================================================================
