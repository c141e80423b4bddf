-------------------------- MODULE Dashboard_proofs --------------------------
(***************************************************************************)
(* Proofs about Dashboard: an answer is never taken for that of another call, *)
(* and what a page says of the account was so when it was asked for.           *)
(*                                                                          *)
(* Several tabs, requests nobody waits for any more, the owner and WorkOS move *)
(* between the round trips of a page's request.  The invariant ties every       *)
(* awaited request to the truth noted when it was made: accounts never vanish,  *)
(* and while nothing changes, each thing it has read is still so.               *)
(***************************************************************************)
EXTENDS Dashboard, AccountApi_proofs

\* What the page makes of the answers of a GET.
LEMMA ViewIs ==
    /\ View("ok") = "account" /\ View("not-provisioned") = "incomplete"
    /\ View("identity-disabled") = "denied" /\ View("not-allowlisted") = "denied"
    /\ View("no-active-membership") = "denied" /\ View("unauthorized") = "expired"
    /\ View("tenant-not-visible") = "denied"
    /\ View("authentication-not-configured") = "unavailable"
    /\ View("rate-limited") = "unavailable" /\ View("internal-error") = "unavailable"
BY DEF View, Denials, Conflicts

LEMMA ViewType == ASSUME NEW code PROVE View(code) \in Views
BY DEF View, Views

\* Only a GET that met no account leads to the incomplete page.
LEMMA ViewIncomplete ==
    ASSUME NEW code, View(code) = "incomplete" PROVE code = "not-provisioned"
BY DEF View

LEMMA TruthIs ==
    ASSUME NEW s
    PROVE  /\ Truth(s) \in {"incomplete", "account", "denied"}
           /\ Truth(s) = "incomplete" <=> account[s] = None
           /\ Truth(s) = "account" <=>
                 /\ account[s] # None /\ Access(s) # {}
                 /\ {"active", "allowlisted"} \subseteq Holds(s)
BY DEF Truth

\* A step that changes nothing local leaves what is true.
LEMMA CalmIs ==
    ASSUME local' = local, NEW s
    PROVE  /\ account' = account /\ Truth(s)' = Truth(s) /\ Holds(s)' = Holds(s)
           /\ Access(s)' = Access(s)
BY DEF local, Truth, Holds, Access

LEMMA FaultType ==
    ASSUME DashInv, NEW n \in {0, 1}, Fault(n) PROVE faults' \in 0 .. MaxFaults
BY DashAssumption DEF DashInv, DashTypeOK, Fault

LEMMA TurnType ==
    ASSUME DashInv, NEW t \in Tabs, NEW at \in Places, NEW call \in Requests \cup {None},
           NEW view \in Views, Turn(t, at, call, view)
    PROVE  /\ tab' \in [Tabs -> Tab] /\ tab'[t] = [at |-> at, call |-> call, view |-> view]
           /\ \A u \in Tabs \ {t} : tab'[u] = tab[u]
BY DEF DashInv, DashTypeOK, Turn, Tab

-----------------------------------------------------------------------------
\* What is noted of a page's request when it is made, and after that.
LEMMA Watched ==
    ASSUME DashInv, Watch, NEW t \in Tabs
    PROVE  /\ asked'[t] \in [truth : Views, calm : BOOLEAN]
           /\ tab'[t].at = "load" /\ tab'[t].call # None =>
                 IF tab[t].call = None
                 THEN asked'[t] = [truth |-> Truth(session), calm |-> TRUE]
                 ELSE /\ asked'[t].truth = asked[t].truth
                      /\ asked'[t].calm => asked[t].calm /\ local' = local
<1>1. asked[t] \in [truth : Views, calm : BOOLEAN]
  BY DEF DashInv, DashTypeOK
<1>2. asked'[t] = IF tab'[t].at # "load" \/ tab'[t].call = None
                  THEN [truth |-> "none", calm |-> FALSE]
                  ELSE IF tab[t].call = None
                  THEN [truth |-> Truth(session), calm |-> TRUE]
                  ELSE [asked[t] EXCEPT !.calm = @ /\ UNCHANGED local]
  BY DEF Watch
<1>3. Truth(session) \in Views /\ "none" \in Views
  BY TruthIs DEF Views
<1>4. PICK b \in BOOLEAN : b <=> asked[t].calm /\ UNCHANGED local
  OBVIOUS
<1>5. CASE tab'[t].at # "load" \/ tab'[t].call = None
  BY <1>2, <1>3, <1>5
<1>6. CASE ~(tab'[t].at # "load" \/ tab'[t].call = None) /\ tab[t].call = None
  BY <1>2, <1>3, <1>6
<1>7. CASE ~(tab'[t].at # "load" \/ tab'[t].call = None) /\ tab[t].call # None
  <2>1. asked'[t] = [asked[t] EXCEPT !.calm = b]
    BY <1>1, <1>2, <1>4, <1>7
  <2>2. QED
    BY <1>1, <1>4, <1>7, <2>1
<1>8. QED
  BY <1>5, <1>6, <1>7

LEMMA TypeNext ==
    ASSUME DashInv, Watch, UNCHANGED <<met, quiet>>, Kept', req' \in [Requests -> Request],
           session' \in Subjects \cup {None}, tab' \in [Tabs -> Tab],
           faults' \in 0 .. MaxFaults
    PROVE  DashTypeOK'
<1>1. TypeOK'
  BY DEF DashInv, DashTypeOK, TypeOK, Kept
<1>2. asked' \in [Tabs -> [truth : Views, calm : BOOLEAN]]
  <2>1. \A t \in Tabs : asked'[t] \in [truth : Views, calm : BOOLEAN]
    BY Watched
  <2>2. asked' = [t \in Tabs |-> asked'[t]]
    BY DEF Watch
  <2>3. QED
    BY <2>1, <2>2
<1>3. QED
  BY <1>1, <1>2 DEF DashTypeOK

\* The informed page of the next state, with its request and its subject named.
LEMMA InformedNext ==
    ASSUME NEW t \in Tabs, NEW c, NEW q, NEW s, c = tab'[t].call, q = req'[c], s = q.subject,
           tab'[t].at = "load" /\ c # None =>
              /\ q.wanted = None
              /\ asked'[t].truth # "incomplete" => account'[s] # None
              /\ q.pc = "done" /\ q.code = "not-provisioned" => asked'[t].truth = "incomplete"
              /\ asked'[t].calm =>
                    /\ asked'[t].truth = Truth(s)'
                    /\ q.pc = "allowlist" =>
                          q.email = account'[s].email /\ "active" \in Holds(s)'
                    /\ q.pc = "memberships" => {"active", "allowlisted"} \subseteq Holds(s)'
                    /\ q.pc = "readTenant" =>
                          Truth(s)' = "account" /\ q.tenant \in Access(s)'
                    /\ q.pc = "done" => View(q.code) \in {Truth(s)', "expired", "unavailable"}
    PROVE  Informed(t)'
<1>1. /\ Truth(req[tab[t].call].subject)' = Truth(s)'
      /\ Holds(req[tab[t].call].subject)' = Holds(s)'
      /\ Access(req[tab[t].call].subject)' = Access(s)'
  BY DEF Truth, Holds, Access
<1>2. View(req[tab[t].call].code)' = View(q.code)
  BY DEF View
<1>3. QED
  BY <1>1, <1>2 DEF Informed

\* A page whose request does not move stays informed.
LEMMA StaysInformed ==
    ASSUME DashInv, Watch, Lasting, NEW t \in Tabs, tab'[t] = tab[t],
           tab[t].call # None => req'[tab[t].call] = req[tab[t].call]
    PROVE  Informed(t)'
<1>1. PICK c, q, s : c = tab[t].call /\ q = req[c] /\ s = q.subject
  OBVIOUS
<1>2. CASE tab[t].at = "load" /\ c # None
  <2>1. s \in Subjects /\ q = req'[c]
    BY <1>1, <1>2 DEF DashInv, CallsAreOwn
  <2>2. /\ q.wanted = None
        /\ asked[t].truth # "incomplete" => account[s] # None
        /\ q.pc = "done" /\ q.code = "not-provisioned" => asked[t].truth = "incomplete"
        /\ asked[t].calm =>
              /\ asked[t].truth = Truth(s)
              /\ q.pc = "allowlist" => q.email = account[s].email /\ "active" \in Holds(s)
              /\ q.pc = "memberships" => {"active", "allowlisted"} \subseteq Holds(s)
              /\ q.pc = "readTenant" => Truth(s) = "account" /\ q.tenant \in Access(s)
              /\ q.pc = "done" => View(q.code) \in {Truth(s), "expired", "unavailable"}
    BY <1>1, <1>2 DEF DashInv, Informed
  <2>3. /\ asked'[t].truth = asked[t].truth
        /\ asked'[t].calm => asked[t].calm /\ local' = local
    BY <1>1, <1>2, Watched
  <2>4. local' = local =>
           /\ account' = account /\ Truth(s)' = Truth(s) /\ Holds(s)' = Holds(s)
           /\ Access(s)' = Access(s)
    BY CalmIs
  <2>5. account[s] # None => account'[s] # None
    BY <2>1 DEF Lasting
  <2>6. QED
    BY <1>1, <2>1, <2>2, <2>3, <2>4, <2>5, InformedNext
<1>3. CASE ~(tab[t].at = "load" /\ c # None)
  BY <1>1, <1>3 DEF Informed
<1>4. QED
  BY <1>2, <1>3

LEMMA StaysSound ==
    ASSUME DashInv, Lasting, NEW r \in Requests,
           req'[r] = req[r] \/ req'[r] = NewRequest("get", None, None)
    PROVE  Sound(r)'
<1>1. CASE req'[r] = req[r]
  BY <1>1 DEF DashInv, Sound, Lasting, Open, Reading
<1>2. CASE req'[r] = NewRequest("get", None, None)
  <2>1. req'[r].pc = "idle"
    BY <1>2 DEF NewRequest
  <2>2. QED
    BY <2>1 DEF Sound, Open, Reading
<1>3. QED
  BY <1>1, <1>2

-----------------------------------------------------------------------------
\* The calls of the tabs after one tab has turned and requests have moved that no other
\* tab waits for.
LEMMA OwnNext ==
    ASSUME DashInv, NEW t \in Tabs, \A u \in Tabs \ {t} : tab'[u] = tab[u],
           \A u \in Tabs \ {t} : tab[u].call # None => req'[tab[u].call] = req[tab[u].call],
           tab'[t].call # None =>
              /\ tab'[t].at \in {"callback", "retry", "load"}
              /\ req'[tab'[t].call].pc # "idle" /\ req'[tab'[t].call].subject \in Subjects
              /\ req'[tab'[t].call].kind = IF tab'[t].at = "load" THEN "get" ELSE "post"
              /\ \A u \in Tabs \ {t} : tab[u].call # tab'[t].call
    PROVE  CallsAreOwn'
BY DEF DashInv, CallsAreOwn

\* A tab turns away from its call, or has none: a request that is over may be freed.
LEMMA LeaveInv ==
    ASSUME DashInv, Watch, UNCHANGED <<local, upstream, met, quiet>>,
           NEW t \in Tabs, NEW at \in Places, NEW view \in Views, Turn(t, at, None, view),
           session' \in Subjects \cup {None}, faults' \in 0 .. MaxFaults,
           \/ req' = req
           \/ /\ tab[t].call # None
              /\ Become(tab[t].call, NewRequest("get", None, None))
    PROVE  DashInv'
<1> DEFINE new == NewRequest("get", None, None)
<1>1. TypeOK /\ DashTypeOK /\ CallsAreOwn
  BY DEF DashInv, DashTypeOK
<1>2. new \in Request
  BY DEF NewRequest, Request, PC, Code
<1>3. tab[t].call \in Requests \cup {None}
  BY <1>1 DEF DashTypeOK, Tab
<1> HIDE DEF new
<1>4. /\ req' \in [Requests -> Request]
      /\ \A r \in Requests : req'[r] = req[r] \/ (req'[r] = new /\ r = tab[t].call)
  <2>1. CASE req' = req
    BY <1>1, <2>1 DEF TypeOK
  <2>2. CASE tab[t].call # None /\ Become(tab[t].call, new)
    BY <1>1, <1>2, <1>3, <2>2, BecomeType
  <2>3. QED
    BY <2>1, <2>2 DEF new
<1>5. /\ tab' \in [Tabs -> Tab] /\ tab'[t] = [at |-> at, call |-> None, view |-> view]
      /\ \A u \in Tabs \ {t} : tab'[u] = tab[u]
  BY TurnType
<1>6. Kept' /\ Lasting
  BY <1>1, StutterKeeps
<1>7. DashTypeOK'
  BY <1>4, <1>5, <1>6, TypeNext
<1>8. \A u \in Tabs \ {t} : tab[u].call # None => req'[tab[u].call] = req[tab[u].call]
  BY <1>1, <1>4 DEF CallsAreOwn, DashTypeOK, Tab
<1>9. CallsAreOwn'
  BY <1>5, <1>8, OwnNext
<1>10. \A r \in Requests : Sound(r)'
  BY <1>4, <1>6, StaysSound DEF new
<1>11. \A u \in Tabs \ {t} : Informed(u)'
  BY <1>5, <1>6, <1>8, StaysInformed
<1>12. Informed(t)'
  BY <1>5 DEF Informed
<1>13. QED
  BY <1>7, <1>9, <1>10, <1>11, <1>12 DEF DashInv

\* A tab has a call made for it.  A page's request is fresh: it is known to be true that
\* the account is as noted, and nothing has been read.
LEMMA StartedInv ==
    ASSUME DashInv, Watch, UNCHANGED <<met, quiet>>, NEW t \in Tabs,
           NEW at \in {"callback", "retry", "load"}, NEW s \in Subjects, NEW r \in Requests,
           Start(r, s, IF at = "load" THEN "get" ELSE "post", None), Turn(t, at, r, "none"),
           session' \in Subjects \cup {None}, faults' \in 0 .. MaxFaults,
           at = "load" => s = session /\ tab[t].call = None
    PROVE  DashInv'
<1> DEFINE kind == IF at = "load" THEN "get" ELSE "post"
           b == NewRequest(kind, s, None)
           Fine(q) == /\ q \in Request /\ q.kind = kind /\ q.subject = s /\ q.wanted = None
                      /\ q.pc \in {"done", "findUser", "profile"}
                      /\ q.pc = "findUser" => kind = "get"
                      /\ q.pc = "profile" => kind = "post"
                      /\ q.pc = "done" => q.code \in {"unauthorized", "rate-limited",
                                                     "authentication-not-configured"}
<1>1. TypeOK /\ DashTypeOK /\ CallsAreOwn
  BY DEF DashInv, DashTypeOK
<1>2. /\ b \in Request /\ b.kind = kind /\ b.subject = s /\ b.wanted = None
  BY DEF NewRequest, Request, PC, Code
<1> HIDE DEF b
<1>3. PICK q : Become(r, q) /\ Fine(q)
  <2>1. ASSUME NEW code \in {"unauthorized", "rate-limited", "authentication-not-configured"}
        PROVE  Fine([b EXCEPT !.pc = "done", !.code = code, !.wanted = None])
    BY <1>2 DEF Request, PC, Code
  <2>2. kind = "get" => Fine([b EXCEPT !.pc = "findUser"])
    BY <1>2 DEF Request, PC, Code
  <2>3. kind = "post" => Fine([b EXCEPT !.pc = "profile"])
    BY <1>2 DEF Request, PC, Code
  <2> HIDE DEF Fine
  <2>4. QED
    BY <2>1, <2>2, <2>3 DEF Start, b
<1>4. req[r].pc = "idle" /\ UNCHANGED <<local, upstream>>
  BY DEF Start
<1>5. /\ req' \in [Requests -> Request] /\ req'[r] = q
      /\ \A p \in Requests \ {r} : req'[p] = req[p]
  BY <1>1, <1>3, BecomeType
<1>6. /\ tab' \in [Tabs -> Tab] /\ tab'[t] = [at |-> at, call |-> r, view |-> "none"]
      /\ \A u \in Tabs \ {t} : tab'[u] = tab[u]
  <2>1. at \in Places /\ r \in Requests \cup {None} /\ "none" \in Views
    BY DEF Places, Views
  <2>2. QED
    BY <2>1, TurnType
<1>7. Kept' /\ Lasting
  BY <1>1, <1>4, StutterKeeps
<1>8. DashTypeOK'
  BY <1>5, <1>6, <1>7, TypeNext
<1>9. r # None
  BY DashAssumption
<1>10. \A u \in Tabs \ {t} :
         /\ tab[u].call # r
         /\ tab[u].call # None => req'[tab[u].call] = req[tab[u].call]
  BY <1>1, <1>4, <1>5, <1>9 DEF CallsAreOwn, DashTypeOK, Tab
<1>11. CallsAreOwn'
  BY <1>3, <1>5, <1>6, <1>10, OwnNext
<1>12. Sound(r)'
  BY <1>3, <1>5 DEF Sound, Open, Reading
<1>13. \A p \in Requests \ {r} : Sound(p)'
  BY <1>5, <1>7, StaysSound
<1>14. \A u \in Tabs \ {t} : Informed(u)'
  BY <1>6, <1>7, <1>10, StaysInformed
<1>15. Informed(t)'
  <2>1. CASE at = "load"
    <3>1. asked'[t] = [truth |-> Truth(s), calm |-> TRUE]
      <4>1. tab'[t].at = "load" /\ tab'[t].call # None /\ tab[t].call = None
        BY <1>6, <1>9, <2>1
      <4>2. Truth(session) = Truth(s)
        BY <2>1
      <4>3. QED
        BY <4>1, <4>2, Watched
    <3>2. account' = account /\ Truth(s)' = Truth(s) /\ Holds(s)' = Holds(s)
      BY <1>4, CalmIs
    <3>3. q.pc \in {"done", "findUser"} /\ q.wanted = None /\ q.subject = s
      BY <1>3, <2>1
    <3>4. q.pc = "done" =>
             q.code # "not-provisioned" /\ View(q.code) \in {"expired", "unavailable"}
      BY <1>3, ViewIs
    <3>5. Truth(s) # "incomplete" => account[s] # None
      BY TruthIs
    <3>6. QED
      BY <1>5, <1>6, <3>1, <3>2, <3>3, <3>4, <3>5, InformedNext
  <2>2. CASE at # "load"
    BY <1>6, <2>2 DEF Informed
  <2>3. QED
    BY <2>1, <2>2
<1>16. QED
  BY <1>8, <1>11, <1>12, <1>13, <1>14, <1>15 DEF DashInv

-----------------------------------------------------------------------------
\* A step of the backend on a request: it keeps whose request it is and what was asked
\* for, and establishes what the request needs at its next round trip.
Advance(r, q) ==
    /\ q \in Request /\ Become(r, q)
    /\ q.pc # "idle" /\ q.subject = req[r].subject /\ q.kind = req[r].kind
    /\ q.wanted \in {None, req[r].wanted}
    /\ Kept' /\ Lasting
    /\ q.pc \in {"profile", "lookup", "decide", "reread"} => q.kind = "post"
    /\ q.pc \in {"lookup", "decide", "reread"} => q.email \in Emails
    /\ q.pc \in Reading \ {"findUser"} => account'[q.subject] # None

LEMMA AnswerStep ==
    ASSUME DashInv, NEW r \in Requests, NEW code \in Code, Answer(r, code),
           UNCHANGED <<local, upstream>>
    PROVE  \E q : Advance(r, q) /\ q.pc = "done" /\ q.code = code
<1> DEFINE q == [req[r] EXCEPT !.pc = "done", !.code = code, !.wanted = None,
                             !.email = None, !.known = FALSE]
<1>1. TypeOK
  BY DEF DashInv, DashTypeOK
<1>2. /\ q \in Request /\ q.pc = "done" /\ q.code = code /\ q.subject = req[r].subject
      /\ q.kind = req[r].kind /\ q.wanted = None
  BY <1>1 DEF TypeOK, Request, PC
<1>3. Become(r, q)
  BY DEF Answer
<1>4. Kept' /\ Lasting
  BY <1>1, StutterKeeps
<1> HIDE DEF q
<1>5. Advance(r, q)
  BY <1>2, <1>3, <1>4 DEF Advance, Reading
<1>6. QED
  BY <1>2, <1>5

\* The steps of provisioning.
LEMMA ProvisionStep ==
    ASSUME DashInv, NEW r \in Requests,
           FetchProfile(r) \/ Lookup(r) \/ Decide(r) \/ Reread(r)
    PROVE  req[r].kind = "post" /\ \E q : Advance(r, q)
<1>1. /\ TypeOK /\ req[r] \in Request /\ req[r].subject \in Subjects /\ req[r].kind = "post"
      /\ req[r].pc \in {"lookup", "decide", "reread"} => req[r].email \in Emails
      /\ req[r].pc \in {"profile", "lookup", "decide", "reread"}
  <2>1. req[r].pc \in {"profile", "lookup", "decide", "reread"}
    BY DEF FetchProfile, Lookup, Decide, Reread
  <2>2. QED
    BY <2>1 DEF DashInv, DashTypeOK, TypeOK, Sound, Open, Reading
<1> SUFFICES \E q : Advance(r, q)
  BY <1>1
<1>2. ASSUME NEW code \in Code, Answer(r, code), UNCHANGED <<local, upstream>>
      PROVE  \E q : Advance(r, q)
  BY <1>2, AnswerStep
<1>3. ASSUME NEW q, q \in Request, Become(r, q), Kept', Lasting,
             q.subject = req[r].subject, q.kind = req[r].kind, q.wanted = req[r].wanted,
             q.pc \in {"lookup", "decide", "reread", "findUser"},
             q.pc \in {"lookup", "decide", "reread"} => q.email \in Emails
      PROVE  \E p : Advance(r, p)
  <2>1. Advance(r, q)
    BY <1>1, <1>3 DEF Advance, Reading
  <2>2. QED
    BY <2>1
<1>4. CASE FetchProfile(r)
  <2> DEFINE e == upstream[req[r].subject]
             q == [req[r] EXCEPT !.pc = "lookup", !.email = e]
  <2>1. UNCHANGED <<local, upstream>> /\ e \in Emails \cup {None}
    BY <1>1, <1>4 DEF FetchProfile, TypeOK
  <2>2. Kept' /\ Lasting
    BY <1>1, <2>1, StutterKeeps
  <2>3. CASE e # None /\ Become(r, q)
    <3>1. /\ q \in Request /\ q.pc = "lookup" /\ q.email \in Emails
          /\ q.subject = req[r].subject /\ q.kind = req[r].kind /\ q.wanted = req[r].wanted
      BY <1>1, <2>1, <2>3 DEF Request, PC
    <3>2. Become(r, q)
      BY <2>3
    <3> HIDE DEF q
    <3>3. QED
      BY <1>3, <2>2, <3>1, <3>2
  <2>4. CASE Answer(r, "workos-unusable") \/ Answer(r, "email-not-verified")
    BY <1>2, <2>1, <2>4 DEF Code
  <2>5. QED
    BY <1>4, <2>3, <2>4 DEF FetchProfile
<1>5. CASE Lookup(r)
  <2> DEFINE known == account[req[r].subject] # None
             q == [req[r] EXCEPT !.pc = "decide", !.known = known]
  <2>1. UNCHANGED <<local, upstream>> /\ req[r].email \in Emails
    BY <1>1, <1>5 DEF Lookup
  <2>2. Kept' /\ Lasting
    BY <1>1, <2>1, StutterKeeps
  <2>3. CASE Become(r, q)
    <3>1. known \in BOOLEAN
      OBVIOUS
    <3>2. /\ q \in Request /\ q.pc = "decide" /\ q.email \in Emails
          /\ q.subject = req[r].subject /\ q.kind = req[r].kind /\ q.wanted = req[r].wanted
      BY <1>1, <2>1, <3>1 DEF Request, PC
    <3>3. Become(r, q)
      BY <2>3
    <3> HIDE DEF q
    <3>4. QED
      BY <1>3, <2>2, <3>2, <3>3
  <2>4. CASE Answer(r, "not-allowlisted")
    BY <1>2, <2>1, <2>4 DEF Code
  <2>5. QED
    BY <1>5, <2>3, <2>4 DEF Lookup
<1>6. CASE Decide(r) \/ Reread(r)
  <2> DEFINE q == [req[r] EXCEPT !.pc = "findUser", !.email = None, !.known = FALSE]
             q2 == [req[r] EXCEPT !.pc = "reread"]
  <2>1. UNCHANGED <<allowlist, teams, upstream>> /\ req[r].email \in Emails
    BY <1>1, <1>6 DEF Decide, Reread
  <2>2. ASSUME NEW code \in Code, Answer(r, code), UNCHANGED identity
        PROVE  \E p : Advance(r, p)
    BY <1>2, <2>1, <2>2 DEF identity, local
  <2>3. CASE Id!SignIn(req[r].subject, req[r].email) /\ Go(r, "findUser")
    <3>1. Kept' /\ Lasting
      BY <1>1, <2>1, <2>3, SignInKeeps
    <3>2. /\ q \in Request /\ q.pc = "findUser"
          /\ q.subject = req[r].subject /\ q.kind = req[r].kind /\ q.wanted = req[r].wanted
      BY <1>1 DEF Request, PC
    <3>3. Become(r, q)
      BY <2>3 DEF Go
    <3> HIDE DEF q
    <3>4. QED
      BY <1>3, <3>1, <3>2, <3>3
  <2>4. CASE Become(r, q2) /\ UNCHANGED identity
    <3>1. Kept' /\ Lasting
      BY <1>1, <2>1, <2>4, StutterKeeps DEF identity, local
    <3>2. /\ q2 \in Request /\ q2.pc = "reread" /\ q2.email \in Emails
          /\ q2.subject = req[r].subject /\ q2.kind = req[r].kind
          /\ q2.wanted = req[r].wanted
      BY <1>1, <2>1 DEF Request, PC
    <3>3. Become(r, q2)
      BY <2>4
    <3> HIDE DEF q2
    <3>4. QED
      BY <1>3, <3>1, <3>2, <3>3
  <2>5. CASE Provision(r)
    BY <2>2, <2>3, <2>5 DEF Provision, Code
  <2>6. CASE Decide(r)
    BY <2>2, <2>4, <2>5, <2>6 DEF Decide, Code
  <2>7. CASE Reread(r)
    BY <2>2, <2>5, <2>7 DEF Reread, Code
  <2>8. QED
    BY <1>6, <2>6, <2>7
<1>7. QED
  BY <1>4, <1>5, <1>6

\* What the request of a page has read is so, and so is what it is answered.
Read(r, q) ==
    LET s == req[r].subject
        at == req[r].pc
    IN
    /\ local' = local
    /\ q.pc = "allowlist" => q.email = account[s].email /\ "active" \in Holds(s)
    /\ q.pc = "memberships" => at = "allowlist" /\ req[r].email \in allowlist
    /\ q.pc = "readTenant" => at = "memberships" /\ q.tenant \in Access(s)
    /\ q.pc = "done" =>
          \/ q.code = "internal-error"
          \/ at = "readTenant" /\ q.code = "ok"
          \/ /\ at = "readTenant" /\ q.code = "tenant-not-visible"
             /\ req[r].tenant \in Teams \ teams[s]
          \/ at = "findUser" /\ q.code = "not-provisioned" /\ account[s] = None
          \/ /\ at = "findUser" /\ q.code = "identity-disabled"
             /\ account[s] # None /\ "active" \notin Holds(s)
          \/ at = "allowlist" /\ q.code = "not-allowlisted" /\ req[r].email \notin allowlist
          \/ at = "memberships" /\ q.code = "no-active-membership" /\ Access(s) = {}
Asked(r) == req[r].kind = "get" /\ req[r].wanted = None

LEMMA ReadStep ==
    ASSUME DashInv, NEW r \in Requests,
           \/ FindUser(r) \/ CheckAllowlist(r) \/ ListMemberships(r) \/ ReadTenant(r)
           \/ DatabaseFails(r)
    PROVE  \E q : Advance(r, q) /\ (Asked(r) => Read(r, q))
<1> DEFINE s == req[r].subject
<1>1. /\ TypeOK /\ req[r] \in Request /\ s \in Subjects /\ UNCHANGED <<local, upstream>>
      /\ req[r].pc \in Reading \ {"findUser"} => account[s] # None
      /\ Asked(r) => req[r].pc \notin {"profile", "lookup", "decide", "reread"}
      /\ local' = local /\ account' = account
  BY DEF DashInv, DashTypeOK, TypeOK, Sound, Open, Reading, Asked, FindUser, CheckAllowlist,
         ListMemberships, ReadTenant, DatabaseFails, local
<1>2. Kept' /\ Lasting
  BY <1>1, StutterKeeps
<1> HIDE DEF s
<1>3. ASSUME NEW code \in Code, Answer(r, code),
             \A q : q.pc = "done" /\ q.code = code /\ Asked(r) => Read(r, q)
      PROVE  \E q : Advance(r, q) /\ (Asked(r) => Read(r, q))
  <2>1. PICK q : Advance(r, q) /\ q.pc = "done" /\ q.code = code
    BY <1>1, <1>3, AnswerStep
  <2>2. QED
    BY <1>3, <2>1
<1>4. ASSUME NEW q, q \in Request, Become(r, q),
             q.subject = req[r].subject, q.kind = req[r].kind, q.wanted = req[r].wanted,
             q.pc \in Reading \ {"findUser"} => account[s] # None,
             q.pc \in Reading \/ q.pc = "done", Asked(r) => Read(r, q)
      PROVE  \E p : Advance(r, p) /\ (Asked(r) => Read(r, p))
  <2>1. Advance(r, q)
    BY <1>1, <1>2, <1>4 DEF Advance, Reading, s
  <2>2. QED
    BY <1>4, <2>1
<1>5. CASE FindUser(r)
  <2> DEFINE a == account[s]
             q == [req[r] EXCEPT !.pc = "allowlist", !.email = a.email]
  <2>1. CASE a # None /\ a.user = "active" /\ Become(r, q)
    <3>1. a.email \in Emails
      BY <1>1, <2>1 DEF TypeOK, Id!TypeOK, Id!Account
    <3>2. /\ q \in Request /\ q.pc = "allowlist" /\ q.email = account[s].email
          /\ q.subject = req[r].subject /\ q.kind = req[r].kind /\ q.wanted = req[r].wanted
      BY <1>1, <3>1 DEF Request, PC
    <3>3. Become(r, q)
      BY <2>1
    <3>4. "active" \in Holds(s) /\ account[s] # None
      BY <2>1, HoldsIs
    <3> HIDE DEF q
    <3>5. Read(r, q)
      BY <1>1, <3>2, <3>4 DEF Read, s
    <3>6. QED
      BY <1>4, <3>2, <3>3, <3>4, <3>5 DEF Reading
  <2>2. CASE a = None /\ Answer(r, "not-provisioned")
    <3>1. \A p : p.pc = "done" /\ p.code = "not-provisioned" => Read(r, p)
      BY <1>1, <1>5, <2>2 DEF Read, FindUser, s
    <3>2. QED
      BY <1>3, <2>2, <3>1 DEF Code
  <2>3. CASE a # None /\ a.user # "active" /\ Answer(r, "identity-disabled")
    <3>1. "active" \notin Holds(s)
      BY <2>3, HoldsIs
    <3>2. \A p : p.pc = "done" /\ p.code = "identity-disabled" => Read(r, p)
      BY <1>1, <1>5, <2>3, <3>1 DEF Read, FindUser, s
    <3>3. QED
      BY <1>3, <2>3, <3>2 DEF Code
  <2>4. QED
    BY <1>5, <2>1, <2>2, <2>3 DEF FindUser, s
<1>6. CASE CheckAllowlist(r)
  <2> DEFINE q == [req[r] EXCEPT !.pc = "memberships", !.email = None, !.known = FALSE]
  <2>1. req[r].pc = "allowlist"
    BY <1>6 DEF CheckAllowlist
  <2>2. CASE req[r].email \in allowlist /\ Become(r, q)
    <3>1. /\ q \in Request /\ q.pc = "memberships"
          /\ q.subject = req[r].subject /\ q.kind = req[r].kind /\ q.wanted = req[r].wanted
      BY <1>1 DEF Request, PC
    <3>2. Become(r, q)
      BY <2>2
    <3> HIDE DEF q
    <3>3. Read(r, q)
      BY <1>1, <2>1, <2>2, <3>1 DEF Read
    <3>4. QED
      BY <1>1, <1>4, <2>1, <3>1, <3>2, <3>3 DEF Reading
  <2>3. CASE req[r].email \notin allowlist /\ Answer(r, "not-allowlisted")
    <3>1. \A p : p.pc = "done" /\ p.code = "not-allowlisted" => Read(r, p)
      BY <1>1, <2>1, <2>3 DEF Read
    <3>2. QED
      BY <1>3, <2>3, <3>1 DEF Code
  <2>4. QED
    BY <1>6, <2>2, <2>3 DEF CheckAllowlist, Go
<1>7. CASE ListMemberships(r)
  <2>1. req[r].pc = "memberships"
    BY <1>7 DEF ListMemberships
  <2>2. ASSUME NEW t \in Access(s), req[r].kind = "get",
               Become(r, [req[r] EXCEPT !.pc = "readTenant", !.tenant = t])
        PROVE  \E q : Advance(r, q) /\ (Asked(r) => Read(r, q))
    <3> DEFINE q == [req[r] EXCEPT !.pc = "readTenant", !.tenant = t]
    <3>1. t \in Tenants
      BY HoldsIs
    <3>2. /\ q \in Request /\ q.pc = "readTenant" /\ q.tenant = t
          /\ q.subject = req[r].subject /\ q.kind = req[r].kind /\ q.wanted = req[r].wanted
      BY <1>1, <3>1 DEF Request, PC
    <3>3. Become(r, q)
      BY <2>2
    <3> HIDE DEF q
    <3>4. Read(r, q)
      BY <1>1, <2>1, <2>2, <3>2 DEF Read, s
    <3>5. QED
      BY <1>1, <1>4, <2>1, <3>2, <3>3, <3>4 DEF Reading
  <2>3. ASSUME NEW t \in Access(s), req[r].kind = "post",
               Become(r, [req[r] EXCEPT !.pc = "done", !.code = "ok", !.tenant = t])
        PROVE  \E q : Advance(r, q) /\ (Asked(r) => Read(r, q))
    <3> DEFINE q == [req[r] EXCEPT !.pc = "done", !.code = "ok", !.tenant = t]
    <3>1. t \in Tenants
      BY HoldsIs
    <3>2. /\ q \in Request /\ q.pc = "done"
          /\ q.subject = req[r].subject /\ q.kind = req[r].kind /\ q.wanted = req[r].wanted
      BY <1>1, <3>1 DEF Request, PC, Code
    <3>3. Become(r, q)
      BY <2>3
    <3> HIDE DEF q
    <3>4. ~Asked(r)
      BY <2>3 DEF Asked
    <3>5. QED
      BY <1>4, <3>2, <3>3, <3>4 DEF Reading
  <2>4. CASE Access(s) = {} /\ Answer(r, "no-active-membership")
    <3>1. \A p : p.pc = "done" /\ p.code = "no-active-membership" => Read(r, p)
      BY <1>1, <2>1, <2>4 DEF Read, s
    <3>2. QED
      BY <1>3, <2>4, <3>1 DEF Code
  <2>5. CASE req[r].wanted # None /\ Answer(r, "tenant-not-permitted")
    <3>1. ~Asked(r)
      BY <2>5 DEF Asked
    <3>2. QED
      BY <1>3, <2>5, <3>1 DEF Code
  <2>6. QED
    BY <1>7, <2>2, <2>3, <2>4, <2>5 DEF ListMemberships, s
<1>8. CASE ReadTenant(r)
  <2>1. \A p : p.pc = "done" /\ p.code = "ok" => Read(r, p)
    BY <1>1, <1>8 DEF Read, ReadTenant
  <2>2. CASE req[r].tenant \in Teams \ teams[s] /\ Answer(r, "tenant-not-visible")
    <3>1. \A p : p.pc = "done" /\ p.code = "tenant-not-visible" => Read(r, p)
      BY <1>1, <1>8, <2>2 DEF Read, ReadTenant, s
    <3>2. QED
      BY <1>3, <2>2, <3>1 DEF Code
  <2>3. CASE Answer(r, "ok")
    BY <1>3, <2>1, <2>3 DEF Code
  <2>4. QED
    BY <1>8, <2>2, <2>3 DEF ReadTenant, s
<1>9. CASE DatabaseFails(r)
  <2>1. CASE req[r].pc \in {"lookup", "decide", "reread"} /\ Answer(r, "provisioning-unavailable")
    <3>1. ~Asked(r)
      BY <1>1, <2>1
    <3>2. QED
      BY <1>3, <2>1, <3>1 DEF Code
  <2>2. CASE Answer(r, "internal-error")
    <3>1. \A p : p.pc = "done" /\ p.code = "internal-error" => Read(r, p)
      BY <1>1 DEF Read
    <3>2. QED
      BY <1>3, <2>2, <3>1 DEF Code
  <2>3. QED
    BY <1>9, <2>1, <2>2 DEF DatabaseFails
<1>10. QED
  BY <1>5, <1>6, <1>7, <1>8, <1>9

LEMMA BackendInv ==
    ASSUME DashInv, Watch, UNCHANGED <<met, quiet, session, tab>>, NEW r \in Requests,
           Handle(r) \/ DatabaseFails(r), faults' \in 0 .. MaxFaults
    PROVE  DashInv'
<1>1. PICK q : Advance(r, q) /\ (Asked(r) => Read(r, q))
  <2>1. CASE FetchProfile(r) \/ Lookup(r) \/ Decide(r) \/ Reread(r)
    BY <2>1, ProvisionStep DEF Asked
  <2>2. CASE \/ FindUser(r) \/ CheckAllowlist(r) \/ ListMemberships(r) \/ ReadTenant(r)
             \/ DatabaseFails(r)
    BY <2>2, ReadStep
  <2>3. QED
    BY <2>1, <2>2 DEF Handle
<1>2. /\ q \in Request /\ Become(r, q) /\ Kept' /\ Lasting
      /\ q.pc # "idle" /\ q.subject = req[r].subject /\ q.kind = req[r].kind
      /\ q.wanted \in {None, req[r].wanted}
  BY <1>1 DEF Advance
<1>3. TypeOK /\ DashTypeOK /\ CallsAreOwn
  BY DEF DashInv, DashTypeOK
<1>4. /\ req' \in [Requests -> Request] /\ req'[r] = q
      /\ \A p \in Requests \ {r} : req'[p] = req[p]
  BY <1>2, <1>3, BecomeType
<1>5. DashTypeOK'
  BY <1>2, <1>3, <1>4, TypeNext DEF DashTypeOK
<1>6. CallsAreOwn'
  <2>1. \A t \in Tabs : tab[t].call \in Requests \cup {None}
    BY <1>3 DEF DashTypeOK, Tab
  <2>2. \A p \in Requests : /\ req[p].pc # "idle" => req'[p].pc # "idle"
                            /\ req'[p].subject = req[p].subject /\ req'[p].kind = req[p].kind
    BY <1>2, <1>4
  <2>3. QED
    BY <1>3, <2>1, <2>2 DEF CallsAreOwn
<1>7. Sound(r)'
  <2>1. q.pc \in Open => q.subject \in Subjects
    <3>1. req[r].pc \in Open
      BY DEF Handle, DatabaseFails, FetchProfile, Lookup, Decide, Reread, FindUser,
             CheckAllowlist, ListMemberships, ReadTenant, Open, Reading
    <3>2. QED
      BY <1>2, <3>1 DEF DashInv, Sound
  <2>2. QED
    BY <1>1, <1>4, <2>1 DEF Sound, Advance, Open, Reading
<1>8. \A p \in Requests \ {r} : Sound(p)'
  BY <1>2, <1>4, StaysSound
<1>9. ASSUME NEW t \in Tabs PROVE Informed(t)'
  <2>1. CASE tab[t].call # r
    <3>1. tab[t].call \in Requests \cup {None} /\ tab'[t] = tab[t]
      BY <1>3 DEF DashTypeOK, Tab
    <3>2. QED
      BY <1>2, <1>4, <2>1, <3>1, StaysInformed
  <2>2. CASE tab[t].at # "load"
    BY <2>2 DEF Informed
  <2>3. CASE tab[t].at = "load" /\ tab[t].call = r
    <3>1. PICK s : s = req[r].subject
      OBVIOUS
    <3>2. r # None
      BY DashAssumption
    <3>3. /\ s \in Subjects /\ req[r].kind = "get"
      BY <2>3, <3>1, <3>2 DEF DashInv, CallsAreOwn
    <3>4. /\ req[r].wanted = None
          /\ asked[t].truth # "incomplete" => account[s] # None
          /\ asked[t].calm =>
                /\ asked[t].truth = Truth(s)
                /\ req[r].pc = "allowlist" =>
                      req[r].email = account[s].email /\ "active" \in Holds(s)
                /\ req[r].pc = "memberships" => {"active", "allowlisted"} \subseteq Holds(s)
                /\ req[r].pc = "readTenant" =>
                      Truth(s) = "account" /\ req[r].tenant \in Access(s)
      BY <2>3, <3>1, <3>2 DEF DashInv, Informed
    <3>5. Read(r, q) /\ Sound(r)
      BY <1>1, <3>3, <3>4 DEF Asked, DashInv
    <3>6. /\ asked'[t].truth = asked[t].truth /\ (asked'[t].calm => asked[t].calm)
      BY <2>3, <3>2, Watched
    <3>7. /\ account' = account /\ Truth(s)' = Truth(s) /\ Holds(s)' = Holds(s)
          /\ Access(s)' = Access(s)
      BY <3>5, CalmIs DEF Read
    <3>8. req[r].pc \in Reading \ {"findUser"} => account[s] # None
      BY <3>1, <3>5 DEF Sound
    <3>9. q.pc = "done" /\ q.code = "not-provisioned" => asked[t].truth = "incomplete"
      BY <3>1, <3>4, <3>5 DEF Read
    <3>10. ASSUME asked[t].calm
           PROVE  /\ q.pc = "allowlist" => q.email = account[s].email /\ "active" \in Holds(s)
                  /\ q.pc = "memberships" => {"active", "allowlisted"} \subseteq Holds(s)
                  /\ q.pc = "readTenant" => Truth(s) = "account" /\ q.tenant \in Access(s)
                  /\ q.pc = "done" => View(q.code) \in {Truth(s), "expired", "unavailable"}
      <4>1. q.pc = "allowlist" => q.email = account[s].email /\ "active" \in Holds(s)
        BY <3>1, <3>5 DEF Read
      <4>2. q.pc = "memberships" => {"active", "allowlisted"} \subseteq Holds(s)
        BY <3>1, <3>4, <3>5, <3>8, <3>10, HoldsIs DEF Read, Reading
      <4>3. q.pc = "readTenant" => Truth(s) = "account" /\ q.tenant \in Access(s)
        BY <3>1, <3>4, <3>5, <3>8, <3>10, TruthIs DEF Read, Reading
      <4>4. ASSUME q.pc = "done"
            PROVE  View(q.code) \in {Truth(s), "expired", "unavailable"}
        <5>1. CASE q.code = "internal-error"
          BY <5>1, ViewIs
        <5>2. CASE req[r].pc = "readTenant" /\ q.code = "ok"
          BY <3>4, <3>10, <5>2, ViewIs
        <5>3. CASE q.code = "not-provisioned" /\ account[s] = None
          BY <5>3, ViewIs, TruthIs
        <5>4. CASE /\ q.code = "identity-disabled"
                   /\ account[s] # None /\ "active" \notin Holds(s)
          <6>1. Truth(s) = "denied"
            BY <5>4, TruthIs
          <6>2. QED
            BY <5>4, <6>1, ViewIs
        <5>5. CASE /\ req[r].pc = "allowlist" /\ q.code = "not-allowlisted"
                   /\ req[r].email \notin allowlist
          <6>1. account[s] # None /\ "allowlisted" \notin Holds(s)
            BY <3>4, <3>8, <3>10, <5>5, HoldsIs DEF Reading
          <6>2. Truth(s) = "denied"
            BY <6>1, TruthIs
          <6>3. QED
            BY <5>5, <6>2, ViewIs
        <5>6. CASE /\ req[r].pc = "memberships" /\ q.code = "no-active-membership"
                   /\ Access(s) = {}
          <6>1. Truth(s) = "denied"
            BY <3>8, <5>6, TruthIs DEF Reading
          <6>2. QED
            BY <5>6, <6>1, ViewIs
        <5>7. ~(req[r].pc = "readTenant" /\ req[r].tenant \in Teams \ teams[s])
          BY <3>3, <3>4, <3>10, ApiAssumption DEF Access
        <5>8. QED
          BY <3>1, <3>5, <4>4, <5>1, <5>2, <5>3, <5>4, <5>5, <5>6, <5>7 DEF Read
      <4>5. QED
        BY <4>1, <4>2, <4>3, <4>4
    <3>11. q.wanted = None /\ q.subject = s /\ tab'[t].call = r
      BY <1>2, <2>3, <3>1, <3>4
    <3>12. QED
      BY <1>4, <3>4, <3>6, <3>7, <3>9, <3>10, <3>11, InformedNext
  <2>4. QED
    BY <2>1, <2>2, <2>3
<1>10. QED
  BY <1>5, <1>6, <1>7, <1>8, <1>9 DEF DashInv

\* Nothing moves but what requests read, or a request that nobody waits for is freed.
LEMMA ElsewhereInv ==
    ASSUME DashInv, Watch, UNCHANGED <<met, quiet, tab>>, Kept', Lasting,
           session' \in Subjects \cup {None}, faults' \in 0 .. MaxFaults,
           \/ req' = req
           \/ \E r \in Requests : /\ \A t \in Tabs : tab[t].call # r
                                  /\ Become(r, NewRequest("get", None, None))
    PROVE  DashInv'
<1> DEFINE new == NewRequest("get", None, None)
<1>1. TypeOK /\ DashTypeOK /\ CallsAreOwn
  BY DEF DashInv, DashTypeOK
<1>2. new \in Request
  BY DEF NewRequest, Request, PC, Code
<1> HIDE DEF new
<1>3. /\ req' \in [Requests -> Request]
      /\ \A p \in Requests : \/ req'[p] = req[p]
                             \/ req'[p] = new /\ \A t \in Tabs : tab[t].call # p
  <2>1. CASE req' = req
    BY <1>1, <2>1 DEF TypeOK
  <2>2. ASSUME NEW r \in Requests, \A t \in Tabs : tab[t].call # r, Become(r, new)
        PROVE  <1>3!1 /\ <1>3!2
    BY <1>1, <1>2, <2>2, BecomeType
  <2>3. QED
    BY <2>1, <2>2 DEF new
<1>4. \A t \in Tabs : tab[t].call # None => req'[tab[t].call] = req[tab[t].call]
  BY <1>1, <1>3 DEF DashTypeOK, Tab
<1>5. DashTypeOK'
  BY <1>1, <1>3, TypeNext DEF DashTypeOK
<1>6. CallsAreOwn'
  BY <1>1, <1>4 DEF CallsAreOwn
<1>7. \A p \in Requests : Sound(p)'
  BY <1>3, StaysSound DEF new
<1>8. \A t \in Tabs : Informed(t)'
  BY <1>4, StaysInformed
<1>9. QED
  BY <1>5, <1>6, <1>7, <1>8 DEF DashInv

-----------------------------------------------------------------------------
LEMMA CallInv ==
    ASSUME DashInv, Watch, UNCHANGED <<met, quiet>>, NEW t \in Tabs,
           NEW at \in {"callback", "retry", "load"}, NEW s \in Subjects,
           Call(t, at, IF at = "load" THEN "get" ELSE "post", s),
           session' \in Subjects \cup {None},
           at = "load" => s = session /\ tab[t].call = None
    PROVE  DashInv'
<1> DEFINE kind == IF at = "load" THEN "get" ELSE "post"
<1>1. ASSUME NEW r \in Requests, Start(r, s, kind, None),
             Fault(IF req'[r].pc = "done" THEN 1 ELSE 0), Turn(t, at, r, "none")
      PROVE  DashInv'
  <2>1. faults' \in 0 .. MaxFaults
    BY <1>1, FaultType
  <2>2. QED
    BY <1>1, <2>1, StartedInv
<1>2. ASSUME Idle, Fault(1), GiveUp(t, at) PROVE DashInv'
  <2>1. faults' \in 0 .. MaxFaults
    BY <1>2, FaultType
  <2>2. UNCHANGED <<local, upstream>> /\ req' = req
    BY <1>2 DEF Idle
  <2>3. CASE Turn(t, "page", None, "unavailable")
    BY <2>1, <2>2, <2>3, LeaveInv DEF Places, Views
  <2>4. CASE Turn(t, "load", None, "none")
    BY <2>1, <2>2, <2>4, LeaveInv DEF Places, Views
  <2>5. QED
    BY <1>2, <2>3, <2>4 DEF GiveUp
<1>3. QED
  BY <1>1, <1>2 DEF Call

LEMMA AnsweredInv ==
    ASSUME DashInv, Watch, UNCHANGED <<met, quiet, session>>, NEW t \in Tabs,
           NEW at \in Places, NEW view \in Views, Turn(t, at, None, view), Answered(t)
    PROVE  DashInv'
<1>1. session' \in Subjects \cup {None} /\ faults' \in 0 .. MaxFaults
  BY DEF DashInv, DashTypeOK, Answered
<1>2. QED
  BY <1>1, LeaveInv DEF Answered

LEMMA VisitInv ==
    ASSUME DashInv, NEW t \in Tabs, Step(Visit(t)) PROVE DashInv'
<1>1. Visit(t) /\ Watch /\ UNCHANGED <<met, quiet>>
  BY DEF Step
<1>2. session \in Subjects \cup {None} /\ faults \in 0 .. MaxFaults
  BY DEF DashInv, DashTypeOK
<1>3. ASSUME NEW s \in Subjects, SignIn(t, s) PROVE DashInv'
  BY <1>1, <1>3, CallInv DEF SignIn
<1>4. CASE Posted(t)
  BY <1>1, <1>4, AnsweredInv DEF Posted, Places, Views
<1>5. CASE Load(t)
  <2>1. CASE session # None
    BY <1>1, <1>2, <1>5, <2>1, CallInv DEF Load
  <2>2. CASE session = None
    <3>1. Turn(t, "page", None, "sign-in") /\ Idle /\ UNCHANGED <<faults, session>>
      BY <1>5, <2>2 DEF Load
    <3>2. QED
      BY <1>1, <1>2, <3>1, LeaveInv DEF Idle, Places, Views
  <2>3. QED
    BY <2>1, <2>2
<1>6. CASE Render(t)
  BY <1>1, <1>6, AnsweredInv, ViewType DEF Render, Places
<1>7. CASE Retry(t)
  BY <1>1, <1>2, <1>7, CallInv DEF Retry
<1>8. CASE SignOut(t) \/ Reload(t)
  <2>1. /\ Turn(t, "home", None, "none") \/ Turn(t, "load", None, "none")
        /\ UNCHANGED <<local, upstream>> /\ req' = req /\ faults' = faults
        /\ session' \in {None, session}
    BY <1>8 DEF SignOut, Reload, Idle
  <2>2. QED
    BY <1>1, <1>2, <2>1, LeaveInv DEF Places, Views
<1>9. CASE Lose(t)
  <2>1. /\ Turn(t, "page", None, "unavailable") \/ Turn(t, "load", None, "none")
        /\ UNCHANGED <<local, upstream>> /\ req' = req /\ Fault(1) /\ session' = session
    BY <1>9 DEF Lose, GiveUp, Idle
  <2>2. faults' \in 0 .. MaxFaults
    BY <2>1, FaultType
  <2>3. QED
    BY <1>1, <1>2, <2>1, <2>2, LeaveInv DEF Places, Views
<1>10. QED
  BY <1>1, <1>3, <1>4, <1>5, <1>6, <1>7, <1>8, <1>9 DEF Visit

LEMMA DashInitInv == ASSUME DashInit PROVE DashInv
<1>1. NewRequest("get", None, None) \in Request
      /\ NewRequest("get", None, None).pc = "idle"
  BY DEF NewRequest, Request, PC, Code
<1>2. TypeOK
  BY InitInv DEF DashInit, Inv
<1>3. DashTypeOK
  BY <1>2, DashAssumption DEF DashInit, DashTypeOK, Tab, Places, Views
<1>4. CallsAreOwn /\ \A t \in Tabs : Informed(t)
  BY DEF DashInit, CallsAreOwn, Informed
<1>5. \A r \in Requests : Sound(r)
  BY <1>1 DEF DashInit, Init, Sound, Open, Reading
<1>6. QED
  BY <1>3, <1>4, <1>5 DEF DashInv

LEMMA DashStutterInv == ASSUME DashInv, UNCHANGED dashVars PROVE DashInv'
<1>1. DashTypeOK' /\ CallsAreOwn'
  BY DEF DashInv, DashTypeOK, CallsAreOwn, dashVars, vars, local, TypeOK, Id!TypeOK
<1>2. \A r \in Requests : Sound(r)'
  BY DEF DashInv, Sound, dashVars, vars, local
<1>3. ASSUME NEW t \in Tabs PROVE Informed(t)'
  <2>1. PICK c, q, s : c = tab[t].call /\ q = req[c] /\ s = q.subject
    OBVIOUS
  <2>2. local' = local /\ tab' = tab /\ req' = req /\ asked' = asked
    BY DEF dashVars, vars
  <2>3. /\ account' = account /\ Truth(s)' = Truth(s) /\ Holds(s)' = Holds(s)
        /\ Access(s)' = Access(s)
    BY <2>2, CalmIs
  <2>4. QED
    BY <2>1, <2>2, <2>3, InformedNext DEF DashInv, Informed
<1>4. QED
  BY <1>1, <1>2, <1>3 DEF DashInv

LEMMA DashNextInv == ASSUME DashInv, [DashNext]_dashVars PROVE DashInv'
<1>1. /\ TypeOK /\ session \in Subjects \cup {None} /\ faults \in 0 .. MaxFaults
  BY DEF DashInv, DashTypeOK
<1>2. ASSUME NEW r \in Requests, Step(Backend(r)) \/ Step(Breaks(r)) PROVE DashInv'
  <2>1. /\ Handle(r) \/ DatabaseFails(r)
        /\ Watch /\ UNCHANGED <<met, quiet, session, tab>>
        /\ Fault(0) \/ Fault(1)
    BY <1>2 DEF Step, Backend, Breaks
  <2>2. faults' \in 0 .. MaxFaults
    BY <2>1, FaultType
  <2>3. QED
    BY <2>1, <2>2, BackendInv
<1>3. ASSUME NEW r \in Requests, Step(Drop(r)) PROVE DashInv'
  <2>1. /\ Watch /\ UNCHANGED <<met, quiet, tab>> /\ session' = session /\ faults' = faults
        /\ UNCHANGED <<local, upstream>>
        /\ \A t \in Tabs : tab[t].call # r
        /\ Become(r, NewRequest("get", None, None))
    BY <1>3 DEF Step, Drop
  <2>2. Kept' /\ Lasting
    BY <1>1, <2>1, StutterKeeps
  <2>3. QED
    BY <1>1, <2>1, <2>2, ElsewhereInv
<1>4. CASE Step(Expire)
  <2>1. /\ Watch /\ UNCHANGED <<met, quiet, tab>> /\ req' = req /\ session' = None
        /\ UNCHANGED <<local, upstream>> /\ Fault(1)
    BY <1>4 DEF Step, Expire, Idle
  <2>2. Kept' /\ Lasting /\ faults' \in 0 .. MaxFaults
    BY <1>1, <2>1, StutterKeeps, FaultType
  <2>3. QED
    BY <2>1, <2>2, ElsewhereInv
<1>5. CASE Step(Outside)
  <2>1. /\ Watch /\ UNCHANGED <<met, quiet, tab>> /\ session' = session /\ faults' = faults
        /\ OwnerNext
    BY <1>5 DEF Step, Outside
  <2>2. Kept' /\ Lasting
    BY <1>1, <2>1, OwnerKeeps
  <2>3. req' = req
    BY <2>1 DEF OwnerNext, Owner, AllowlistAdd, AllowlistRemove, BindSubject, SetStatus,
                SetReservedStatus, SetTeam, ChangeProfile
  <2>4. QED
    BY <1>1, <2>1, <2>2, <2>3, ElsewhereInv
<1>6. QED
  BY <1>2, <1>3, <1>4, <1>5, VisitInv, DashStutterInv DEF DashNext

\* Whatever tabs, lost answers, abandoned requests and the owner do between its round
\* trips, an awaited call is the tab's own and what it has read fits what was true.
THEOREM DashInvariance == DashSpec => []DashInv
<1>1. DashInit => DashInv
  BY DashInitInv
<1>2. DashInv /\ [DashNext]_dashVars => DashInv'
  BY DashNextInv
<1>3. QED
  BY <1>1, <1>2, PTL DEF DashSpec

\* The page never calls a set-up incomplete that was complete when it was asked for, and
\* says nothing of the account that was not so if nothing changed meanwhile.
THEOREM TruePage == DashSpec => PageIsTrue
<1> DEFINE P == \A t \in Tabs : Rendered(t) =>
                  LET view == tab'[t].view IN
                  /\ view = "incomplete" => asked[t].truth = "incomplete"
                  /\ asked[t].calm /\ view \notin {"expired", "unavailable"} =>
                        view = asked[t].truth
<1>1. DashInv /\ [DashNext]_dashVars => P
  <2>1. SUFFICES ASSUME DashInv, [DashNext]_dashVars, NEW t \in Tabs, Rendered(t),
                        NEW view, view = tab'[t].view
        PROVE  /\ view = "incomplete" => asked[t].truth = "incomplete"
               /\ asked[t].calm /\ view \notin {"expired", "unavailable"} =>
                     view = asked[t].truth
    OBVIOUS
  <2>2. /\ tab[t].at = "load" /\ tab[t].call # None /\ tab'[t].at = "page"
        /\ tab \in [Tabs -> Tab]
    BY <2>1 DEF Rendered, DashInv, DashTypeOK
  <2>3. tab' # tab
    BY <2>2
  <2>4. PICK u \in Tabs : Visit(u)
    BY <2>1, <2>3 DEF DashNext, Step, Backend, Breaks, Drop, Expire, Outside, dashVars
  <2>5. ASSUME NEW at, NEW call, NEW v, Turn(u, at, call, v)
        PROVE  u = t /\ at = "page" /\ v = view
    BY <2>1, <2>2, <2>5 DEF Turn
  <2>6. CASE Render(u)
    <3>1. Turn(u, "page", None, View(req[tab[u].call].code)) /\ req[tab[u].call].pc = "done"
      BY <2>6 DEF Render, Answered
    <3>2. u = t /\ view = View(req[tab[t].call].code) /\ req[tab[t].call].pc = "done"
      BY <2>5, <3>1
    <3>3. asked[t].calm => /\ asked[t].truth = Truth(req[tab[t].call].subject)
                           /\ view \in {asked[t].truth, "expired", "unavailable"}
      BY <2>1, <2>2, <3>2 DEF DashInv, Informed
    <3>4. view = "incomplete" => asked[t].truth = "incomplete"
      BY <2>1, <2>2, <3>2, ViewIncomplete DEF DashInv, Informed
    <3>5. QED
      BY <3>3, <3>4
  <2>7. CASE Lose(u) \/ Load(u)
    <3>1. CASE Lose(u)
      BY <2>2, <2>5, <3>1 DEF Lose, GiveUp
    <3>2. CASE Load(u)
      <4>1. tab[u].call = None
        BY <3>2 DEF Load
      <4>2. u # t
        BY <2>2, <4>1
      <4>3. \E at, call, v : Turn(u, at, call, v)
        BY <3>2 DEF Load, Call, GiveUp
      <4>4. QED
        BY <2>5, <4>2, <4>3
    <3>3. QED
      BY <2>7, <3>1, <3>2
  <2>8. CASE Posted(u) \/ SignOut(u) \/ Reload(u)
    BY <2>5, <2>8 DEF Posted, SignOut, Reload
  <2>9. CASE Retry(u) \/ \E s \in Subjects : SignIn(u, s)
    <3>1. tab[u].at # "load"
      BY <2>9 DEF Retry, SignIn
    <3>2. \E at, call, v : Turn(u, at, call, v)
      BY <2>9 DEF Retry, SignIn, Call, GiveUp
    <3>3. QED
      BY <2>2, <2>5, <3>1, <3>2
  <2>10. QED
    BY <2>4, <2>6, <2>7, <2>8, <2>9 DEF Visit
<1>2. DashSpec => [][P]_dashVars
  BY <1>1, DashInvariance, PTL DEF DashSpec
<1>3. QED
  BY <1>2 DEF PageIsTrue

\* Behind the browser, too, the accounts change only by atomic sign-ins and the owner's
\* operations: not even the calls it has given up do anything else to them.
LEMMA DashImplementsIdentity == DashSpec => Id!Spec
<1>1. DashInit => Id!Init
  BY DEF DashInit, Init
<1>2. DashInv /\ [DashNext]_dashVars => [Id!Next]_Id!vars
  <2>1. SUFFICES ASSUME DashInv, [DashNext]_dashVars PROVE [Id!Next]_Id!vars
    OBVIOUS
  <2>2. ASSUME NEW t \in Tabs, Visit(t) PROVE UNCHANGED local
    BY <2>2 DEF Visit, SignIn, Posted, Load, Render, Retry, SignOut, Reload, Lose, Call, Start,
                Answered, Idle
  <2>3. ASSUME NEW r \in Requests, Step(Backend(r)) \/ Step(Breaks(r)) \/ Step(Drop(r))
        PROVE  Handle(r) \/ DatabaseFails(r) \/ UNCHANGED local
    BY <2>3 DEF Step, Backend, Breaks, Drop
  <2>4. Step(Expire) \/ Step(Outside) \/ UNCHANGED dashVars => OwnerNext \/ UNCHANGED local
    BY DEF Step, Expire, Outside, Idle, dashVars, vars
  <2>5. \A t \in Tabs : Step(Visit(t)) => UNCHANGED local
    BY <2>2 DEF Step
  <2>6. \A r \in Requests : req[r].pc \in {"decide", "reread"} =>
           req[r].subject \in Subjects /\ req[r].email \in Emails
    BY <2>1 DEF DashInv, Sound, Open
  <2>7. QED
    BY <2>1, <2>3, <2>4, <2>5, <2>6, IdentityStep DEF DashNext
<1>3. QED
  BY <1>1, <1>2, DashInvariance, PTL DEF DashSpec, Id!Spec

\* So whatever tabs, retries and lost answers do, no two accounts share an address.
THEOREM DashNeverMerges == DashSpec => []Id!OneAccountPerAddress
<1>1. Id!NoneIsNew
  BY NoneIsNothing DEF Id!NoneIsNew
<1>2. QED
  BY <1>1, DashImplementsIdentity, AddressesAreExclusive, PTL

=============================================================================
