------------------------------ MODULE Dashboard ------------------------------
(***************************************************************************)
(* The dashboard (apps/dashboard) in front of the account API: one browser,  *)
(* whose tabs share a sealed session cookie, signs in, is provisioned by the  *)
(* callback, loads /account and may finish a set-up that failed.             *)
(*                                                                          *)
(* The calls are the requests of AccountApi, round trip by round trip, beside *)
(* the owner's operations.  A call that fails or whose answer is lost is only *)
(* logged by the dashboard while the backend may carry it out.  The           *)
(* configuration is taken to pass authConfigProblem.                         *)
(***************************************************************************)
EXTENDS AccountApi

CONSTANTS
    Tabs,       \* open tabs of the browser
    MaxFaults   \* failures of any kind in a run

VARIABLES
    session,    \* the subject the session cookie is sealed for, or None
    tab,        \* what each tab shows, and the call made for it
    faults,     \* failures so far
    asked       \* history: what was true when a tab's page was requested

dashVars == <<vars, session, tab, faults, asked>>

Views == {"none", "sign-in", "account", "incomplete", "denied", "conflict",
          "expired", "unavailable"}
Places == {"home", "callback", "retry", "load", "page"}
Tab == [at : Places, call : Requests \cup {None}, view : Views]

ASSUME DashAssumption == None \notin Requests /\ MaxFaults \in Nat

\* The status a route answers with, by the detail that goes with it.
Denials == {"email-not-verified", "not-provisioned", "identity-disabled",
            "not-allowlisted", "no-active-membership", "tenant-not-permitted",
            "tenant-not-visible"}
Conflicts == {"email-already-bound", "external-subject-conflict",
              "subject-binding-required"}

\* AccountPage: one view for each answer the page tells apart.
View_StatusOnly(code) ==
    CASE code = "ok"               -> "account"
      [] code \in Denials          -> "denied"
      [] code \in Conflicts        -> "conflict"
      [] code = "unauthorized"     -> "expired"
      [] OTHER                     -> "unavailable"
View(code) ==
    CASE code = "ok"               -> "account"
      [] code = "not-provisioned"  -> "incomplete"
      [] code \in Denials \ {"not-provisioned"} -> "denied"
      [] code \in Conflicts        -> "conflict"
      [] code = "unauthorized"     -> "expired"
      [] OTHER                     -> "unavailable"

\* The view that is true of a subject's account.
Truth(s) ==
    IF account[s] = None THEN "incomplete"
    ELSE IF {"active", "allowlisted"} \subseteq Holds(s) /\ Access(s) # {}
    THEN "account" ELSE "denied"

DashInit ==
    /\ Init
    /\ session = None
    /\ tab = [t \in Tabs |-> [at |-> "home", call |-> None, view |-> "none"]]
    /\ faults = 0
    /\ asked = [t \in Tabs |-> [truth |-> "none", calm |-> FALSE]]

Turn(t, at, call, view) ==
    tab' = [tab EXCEPT ![t] = [at |-> at, call |-> call, view |-> view]]
Fault(n) == n <= MaxFaults - faults /\ faults' = faults + n
Idle == UNCHANGED <<local, upstream, req>>

\* A fetch throws: the page shows no account, the callback and the retry go on.
GiveUp(t, at) ==
    IF at = "load" THEN Turn(t, "page", None, "unavailable")
                   ELSE Turn(t, "load", None, "none")

\* A tab has a call made with the bearer token of subject s.  It may not reach the
\* backend, the token may be refused, or the subject be over its rate.
Call(t, at, kind, s) ==
    \/ \E r \in Requests :
          /\ Start(r, s, kind, None)
          /\ Fault(IF req'[r].pc = "done" THEN 1 ELSE 0)
          /\ Turn(t, at, r, "none")
    \/ Idle /\ Fault(1) /\ GiveUp(t, at)

\* The answer of a tab's call has arrived: the request is over.
Answered(t) ==
    /\ tab[t].call # None
    /\ req[tab[t].call].pc = "done"
    /\ Become(tab[t].call, NewRequest("get", None, None))
    /\ UNCHANGED <<local, upstream, faults>>

-----------------------------------------------------------------------------
\* /auth/sign-in and the exchange at WorkOS, ended by the callback: the session is
\* sealed first, then the account provisioned.
SignIn(t, s) ==
    /\ tab[t].at \in {"home", "page"}
    /\ session' = s
    /\ Call(t, "callback", "post", s)

\* The callback and the retry log a refusal and go on to /account all the same.
Posted_Stays(t) ==
    /\ tab[t].at \in {"callback", "retry"}
    /\ IF tab[t].at = "retry" THEN Turn(t, "page", None, "incomplete")
                              ELSE Turn(t, "load", None, "none")
    /\ Answered(t)
    /\ UNCHANGED session
Posted(t) ==
    /\ tab[t].at \in {"callback", "retry"}
    /\ Turn(t, "load", None, "none")
    /\ Answered(t)
    /\ UNCHANGED session

\* AccountPage reads the session, then the account with its token.
Load(t) ==
    /\ tab[t].at = "load" /\ tab[t].call = None
    /\ IF session = None
         THEN Turn(t, "page", None, "sign-in") /\ Idle /\ UNCHANGED faults
         ELSE Call(t, "load", "get", session)
    /\ UNCHANGED session

Render(t) ==
    /\ tab[t].at = "load"
    /\ Answered(t)
    /\ Turn(t, "page", None, View(req[tab[t].call].code))
    /\ UNCHANGED session

\* "Finish setup", for whoever is signed in now.  Without a session the handler
\* returns before it revalidates, and the page stays as it is.
Retry(t) ==
    /\ tab[t].at = "page" /\ tab[t].view = "incomplete"
    /\ session # None
    /\ Call(t, "retry", "post", session)
    /\ UNCHANGED session

SignOut(t) ==
    /\ tab[t].at = "page" /\ tab[t].view # "sign-in"
    /\ session' = None
    /\ Turn(t, "home", None, "none")
    /\ Idle /\ UNCHANGED faults

\* The user opens or reloads /account.
Reload(t) ==
    /\ tab[t].at \in {"home", "page"}
    /\ Turn(t, "load", None, "none")
    /\ Idle /\ UNCHANGED <<session, faults>>

\* The answer is lost, and the request goes on with nobody waiting for it.
Lose(t) ==
    /\ tab[t].call # None
    /\ Fault(1)
    /\ GiveUp(t, tab[t].at)
    /\ Idle /\ UNCHANGED session

\* The session ends at WorkOS, or can no longer be refreshed.
Expire ==
    /\ session # None
    /\ session' = None
    /\ Fault(1)
    /\ Idle /\ UNCHANGED tab

-----------------------------------------------------------------------------
\* The backend.  An unusable answer of WorkOS and a failing database are faults; an
\* answer nobody waits for is dropped.
Backend(r) ==
    /\ Handle(r)
    /\ Fault(IF Answers(r, "workos-unusable") THEN 1 ELSE 0)
    /\ UNCHANGED <<session, tab>>
Breaks(r) ==
    /\ DatabaseFails(r)
    /\ Fault(1)
    /\ UNCHANGED <<session, tab>>
Drop(r) ==
    /\ req[r].pc = "done"
    /\ \A t \in Tabs : tab[t].call # r
    /\ Become(r, NewRequest("get", None, None))
    /\ UNCHANGED <<local, upstream, session, tab, faults>>
Outside == OwnerNext /\ UNCHANGED <<session, tab, faults>>

\* What was true when the page was requested, and whether it is unchanged since.
Watch ==
    asked' = [t \in Tabs |->
        IF tab'[t].at # "load" \/ tab'[t].call = None
          THEN [truth |-> "none", calm |-> FALSE]
        ELSE IF tab[t].call = None
          THEN [truth |-> Truth(session), calm |-> TRUE]
        ELSE [asked[t] EXCEPT !.calm = @ /\ UNCHANGED local]]

\* The histories of AccountApi serve its own properties and are not kept here.
Step(A) == A /\ Watch /\ UNCHANGED <<met, quiet>>

Visit(t) ==
    \/ \E s \in Subjects : SignIn(t, s)
    \/ Posted(t) \/ Load(t) \/ Render(t) \/ Retry(t) \/ SignOut(t) \/ Reload(t) \/ Lose(t)
DashNext ==
    \/ \E t \in Tabs : Step(Visit(t))
    \/ \E r \in Requests : Step(Backend(r)) \/ Step(Breaks(r)) \/ Step(Drop(r))
    \/ Step(Expire) \/ Step(Outside)

DashSpec == DashInit /\ [][DashNext]_dashVars

\* Accepted requests are served and answers arrive, as for AccountApi.  The user
\* comes back to /account again and again, and presses the button it offers; the
\* requests of the model stand for as many connections as it takes, so a tab that
\* finds one free again and again gets one.
DashFairness ==
    /\ \A r \in Requests :
          WF_dashVars(Step(Backend(r))) /\ WF_dashVars(Step(Drop(r)))
    /\ \A t \in Tabs :
          /\ WF_dashVars(Step(Posted(t) \/ Render(t)))
          /\ SF_dashVars(Step(Load(t)))
          /\ SF_dashVars(Step(Retry(t)))
          /\ WF_dashVars(Step(Reload(t)))
FairDashSpec == DashSpec /\ DashFairness

-----------------------------------------------------------------------------
DashTypeOK ==
    /\ TypeOK
    /\ session \in Subjects \cup {None}
    /\ tab \in [Tabs -> Tab]
    /\ faults \in 0..MaxFaults
    /\ asked \in [Tabs -> [truth : Views, calm : BOOLEAN]]

\* The inductive invariant that the page's truth rests on.  The requests of the model
\* are used again and again, where every fetch has a promise of its own: a tab waits
\* for a request that was made for it and is under way.
CallsAreOwn ==
    \A t \in Tabs :
        LET r == tab[t].call IN
        r # None =>
            /\ tab[t].at \in {"callback", "retry", "load"}
            /\ req[r].pc # "idle" /\ req[r].subject \in Subjects
            /\ req[r].kind = IF tab[t].at = "load" THEN "get" ELSE "post"
            /\ \A u \in Tabs \ {t} : tab[u].call # r

\* What a request has established, whether anybody still waits for it or not: an account
\* that was read never vanishes.
Sound(r) ==
    LET q == req[r] IN
    /\ q.pc \in Open => q.subject \in Subjects
    /\ q.pc \in Open \ Reading => q.kind = "post"
    /\ q.pc \in {"lookup", "decide", "reread"} => q.email \in Emails
    /\ q.pc \in Reading \ {"findUser"} => account[q.subject] # None

\* What a page that waits for its answer may still be told.  As long as nothing changes,
\* what its request has read is so and leads to the view that was true when it was asked.
Informed(t) ==
    LET q == req[tab[t].call]
        s == req[tab[t].call].subject
    IN
    tab[t].at = "load" /\ tab[t].call # None =>
        /\ q.wanted = None
        /\ asked[t].truth # "incomplete" => account[s] # None
        /\ q.pc = "done" /\ q.code = "not-provisioned" => asked[t].truth = "incomplete"
        /\ asked[t].calm =>
              /\ asked[t].truth = Truth(s)
              /\ q.pc = "allowlist" => q.email = account[s].email /\ "active" \in Holds(s)
              /\ q.pc = "memberships" => {"active", "allowlisted"} \subseteq Holds(s)
              /\ q.pc = "readTenant" => Truth(s) = "account" /\ q.tenant \in Access(s)
              /\ q.pc = "done" => View(q.code) \in {Truth(s), "expired", "unavailable"}

DashInv ==
    /\ DashTypeOK /\ CallsAreOwn
    /\ \A r \in Requests : Sound(r)
    /\ \A t \in Tabs : Informed(t)

\* /account "renders the real state" (callback/route.ts) whatever became of the
\* callback or of a retry: a page shows the set-up as incomplete only if there was
\* no account when it was asked for; and if nothing changed meanwhile, what it says
\* of the account (that it is there, denied or not created) is so.
Rendered(t) == tab[t].at = "load" /\ tab[t].call # None /\ tab'[t].at = "page"
PageIsTrue ==
    [][\A t \in Tabs : Rendered(t) =>
          LET view == tab'[t].view IN
          /\ view = "incomplete" => asked[t].truth = "incomplete"
          /\ asked[t].calm /\ view \notin {"expired", "unavailable"} =>
                view = asked[t].truth]_dashVars

\* One failed attempt does not strand an account at not-provisioned (page.tsx): a
\* user who stays signed in and may have an account, who keeps opening the page and
\* pressing "Finish setup", gets it, in every tab, once failures stop.
Welcome(s) ==
    /\ session = s
    /\ upstream[s] \in allowlist
    /\ Id!Available(upstream[s], s)
    /\ Truth(s) # "denied"
SetupEnds ==
    \A s \in Subjects, t \in Tabs :
        <>[]Welcome(s) => []<>(tab[t].at = "page" /\ tab[t].view = "account")

(***************************************************************************)
(* What the repository says of the page.                                    *)
(***************************************************************************)

\* README.md, checks on a running deployment: signing in as a user that was never
\* allowlisted, "/account" shows "Access denied (not-allowlisted)".
DeniedIsTold ==
    [][\A t \in Tabs : Rendered(t) =>
          LET s == req[tab[t].call].subject IN
          (approved = {} /\ upstream[s] # None) => tab'[t].view = "denied"]_dashVars
=============================================================================
