----------------------------- MODULE AccountApi -----------------------------
(***************************************************************************)
(* The account routes of the API (backend/api/account.py): GET /account and  *)
(* POST /account/provision as the round trips they make.                     *)
(*                                                                          *)
(* No request holds a transaction across what it decides: the profile comes  *)
(* from WorkOS, every SELECT has a snapshot of its own, and both routes use  *)
(* two transactions.  Whatever a step has read may be stale at the next one. *)
(* The effect of provisioning is the atomic sign-in of IdentitySpec, which    *)
(* Provisioning implements; the tenant of a subject stands for its personal   *)
(* tenant.                                                                   *)
(***************************************************************************)
EXTENDS Naturals, FiniteSets

CONSTANTS
    Requests,   \* HTTP requests, each made at most once
    Subjects,   \* verified WorkOS subjects, and their personal tenants
    Teams,      \* other tenants
    Emails,     \* normalized addresses
    OwnerOps,   \* the out-of-band operations that happen in a run
    MaxDisabled, \* bound: rows the owner keeps disabled at one time
    None

VARIABLES
    account,    \* the account of a subject, or None
    reserved,   \* the unbound account of an address, or None
    approved,   \* addresses that were ever on the allowlist
    allowlist,  \* public.signup_allowlist
    teams,      \* the teams in which a subject has an active membership
    upstream,   \* the verified address WorkOS has for a subject, or None
    req,        \* the requests
    met,        \* history: what has held for its subject while a request reads
    quiet       \* history: nothing has changed since a POST began or, once it has
                \* provisioned, since then

identity == <<account, reserved, approved>>
local == <<account, reserved, approved, allowlist, teams>>
vars == <<local, upstream, req, met, quiet>>

Id == INSTANCE IdentitySpec

Tenants == Subjects \cup Teams
Conditions == {"active", "allowlisted"} \cup Tenants

PC == {"idle", "profile", "lookup", "decide", "reread", "findUser", "allowlist",
       "memberships", "readTenant", "done"}
Reading == {"findUser", "allowlist", "memberships", "readTenant"}
Open == Reading \cup {"profile", "lookup", "decide", "reread"}
Code == {"none", "ok", "unauthorized", "authentication-not-configured",
         "rate-limited", "workos-unusable", "tenant-not-visible",
         "email-not-verified", "not-provisioned", "identity-disabled",
         "not-allowlisted", "no-active-membership", "tenant-not-permitted",
         "email-already-bound", "external-subject-conflict",
         "subject-binding-required", "provisioning-unavailable", "internal-error"}
Request == [pc : PC, kind : {"get", "post"}, subject : Subjects \cup {None},
            wanted : Tenants \cup {None}, email : Emails \cup {None},
            known : BOOLEAN, tenant : Tenants \cup {None}, code : Code]
NewRequest(kind, s, t) ==
    [pc |-> "idle", kind |-> kind, subject |-> s, wanted |-> t,
     email |-> None, known |-> FALSE, tenant |-> None, code |-> "none"]

ASSUME ApiAssumption ==
    /\ None \notin Tenants \cup Emails \cup Id!Status \cup Id!Account
    /\ Subjects \cap Teams = {}
    /\ {"active", "allowlisted"} \cap Tenants = {}

-----------------------------------------------------------------------------
\* app.list_memberships: tenants where user, tenant and membership are active.
Access(s) ==
    {t \in Tenants :
        /\ account[s] # None /\ account[s].user = "active"
        /\ \/ t \in teams[s]
           \/ t = s /\ account[s].tenant = "active" /\ account[s].membership = "active"}

\* ORDER BY (kind = 'personal') DESC, name: the personal tenant if it is listed.
First(s, t) == IF s \in Access(s) THEN t = s ELSE t \in Access(s)

\* What holds for a subject now, of the conditions access depends on.
Holds(s) ==
    {x \in Conditions :
        \/ x = "active" /\ account[s] # None /\ account[s].user = "active"
        \/ x = "allowlisted" /\ account[s] # None /\ account[s].email \in allowlist
        \/ x \in Access(s)}

Init ==
    /\ Id!Init
    /\ allowlist = approved
    /\ teams = [s \in Subjects |-> {}]
    /\ upstream \in [Subjects -> Emails \cup {None}]
    /\ req = [r \in Requests |-> NewRequest("get", None, None)]
    /\ met = [r \in Requests |-> {}]
    /\ quiet = [r \in Requests |-> FALSE]

Become(r, q) == req' = [req EXCEPT ![r] = q]
\* What a request has read is forgotten where the handler is done with it.
Go(r, next) == Become(r, [req[r] EXCEPT !.pc = next, !.email = None, !.known = FALSE])
Answer(r, code) == Become(r, [req[r] EXCEPT !.pc = "done", !.code = code,
                                            !.wanted = None, !.email = None,
                                            !.known = FALSE])

-----------------------------------------------------------------------------
\* require_subject: the token is verified, then the subject's attempts counted.
Start(r, s, kind, t) ==
    /\ req[r].pc = "idle"
    /\ kind = "post" => t = None
    /\ LET q == NewRequest(kind, s, t) IN
       \/ \E code \in {"unauthorized", "authentication-not-configured", "rate-limited"} :
             Become(r, [q EXCEPT !.pc = "done", !.code = code, !.wanted = None])
       \/ kind = "get" /\ Become(r, [q EXCEPT !.pc = "findUser"])
       \/ kind = "post" /\ Become(r, [q EXCEPT !.pc = "profile"])
    /\ UNCHANGED <<local, upstream>>

\* _verified_profile: an upstream failure is neither a denial nor a success.
FetchProfile_Waits(r) ==
    /\ req[r].pc = "profile"
    /\ upstream[req[r].subject] # None
    /\ Become(r, [req[r] EXCEPT !.pc = "lookup", !.email = upstream[req[r].subject]])
    /\ UNCHANGED <<local, upstream>>
FetchProfile(r) ==
    /\ req[r].pc = "profile"
    /\ LET e == upstream[req[r].subject] IN
       \/ Answer(r, "workos-unusable")
       \/ e = None /\ Answer(r, "email-not-verified")
       \/ e # None /\ Become(r, [req[r] EXCEPT !.pc = "lookup", !.email = e])
    /\ UNCHANGED <<local, upstream>>

\* Provisioning up to its lookup by subject; a row that is found stays locked.
Lookup(r) ==
    /\ req[r].pc = "lookup"
    /\ \/ req[r].email \notin allowlist /\ Answer(r, "not-allowlisted")
       \/ /\ req[r].email \in allowlist
          /\ Become(r, [req[r] EXCEPT !.pc = "decide",
                                      !.known = account[req[r].subject] # None])
    /\ UNCHANGED <<local, upstream>>

\* An account, of a subject already, has the address.
Taken(e) == \E t \in Subjects : account[t] # None /\ account[t].email = e

\* The function has its row: the status checks, the upserts and the commit.
Provision(r) ==
    LET e == req[r].email
        s == req[r].subject
    IN
    \/ /\ Id!Available(e, s) /\ Id!Blocked(s)
       /\ Answer(r, "identity-disabled") /\ UNCHANGED identity
    \/ Id!SignIn(s, e) /\ Go(r, "findUser")

\* A known subject moves to the address unless somebody has it.  A subject that was
\* unknown at the lookup is refused any row found under the address; when the row
\* appears only at the insert, the insert is skipped and the row read again; and
\* the insert fails when the subject itself has appeared, elsewhere.
Decide_AnswersDirectly(r) ==
    /\ req[r].pc = "decide"
    /\ UNCHANGED <<allowlist, teams, upstream>>
    /\ Id!SignIn(req[r].subject, req[r].email)
    /\ Become(r, [req[r] EXCEPT !.pc = "memberships"])
Decide(r) ==
    /\ req[r].pc = "decide"
    /\ UNCHANGED <<allowlist, teams, upstream>>
    /\ LET e == req[r].email
           s == req[r].subject
           known == req[r].known
       IN
       \/ /\ known /\ ~Id!Available(e, s)
          /\ Answer(r, "email-already-bound") /\ UNCHANGED identity
       \/ known /\ Provision(r)
       \/ /\ ~known /\ reserved[e] # None
          /\ Answer(r, "subject-binding-required") /\ UNCHANGED identity
       \/ /\ ~known /\ Taken(e)
          /\ \/ Answer(r, "external-subject-conflict")
             \/ Become(r, [req[r] EXCEPT !.pc = "reread"])
          /\ UNCHANGED identity
       \/ /\ ~known /\ account[s] # None /\ ~Taken(e) /\ reserved[e] = None
          /\ Answer(r, "provisioning-unavailable") /\ UNCHANGED identity
       \/ ~known /\ account[s] = None /\ Provision(r)

\* The row that was in the way is read again: the subject's own converges, and one
\* that has moved away meanwhile reads as a row without a subject.
Reread(r) ==
    /\ req[r].pc = "reread"
    /\ UNCHANGED <<allowlist, teams, upstream>>
    /\ LET e == req[r].email
           s == req[r].subject
       IN
       \/ account[s] # None /\ account[s].email = e /\ Provision(r)
       \/ /\ \E t \in Subjects \ {s} : account[t] # None /\ account[t].email = e
          /\ Answer(r, "external-subject-conflict") /\ UNCHANGED identity
       \/ /\ ~Taken(e)
          /\ Answer(r, "subject-binding-required") /\ UNCHANGED identity

\* authorize_local_access, of a GET and again after provisioning.
FindUser(r) ==
    /\ req[r].pc = "findUser"
    /\ LET a == account[req[r].subject] IN
       \/ a = None /\ Answer(r, "not-provisioned")
       \/ a # None /\ a.user # "active" /\ Answer(r, "identity-disabled")
       \/ /\ a # None /\ a.user = "active"
          /\ Become(r, [req[r] EXCEPT !.pc = "allowlist", !.email = a.email])
    /\ UNCHANGED <<local, upstream>>

CheckAllowlist_SignupGate(r) ==
    /\ req[r].pc = "allowlist"
    /\ \/ req[r].email \notin approved /\ Answer(r, "not-allowlisted")
       \/ req[r].email \in approved /\ Go(r, "memberships")
    /\ UNCHANGED <<local, upstream>>
CheckAllowlist(r) ==
    /\ req[r].pc = "allowlist"
    /\ \/ req[r].email \notin allowlist /\ Answer(r, "not-allowlisted")
       \/ req[r].email \in allowlist /\ Go(r, "memberships")
    /\ UNCHANGED <<local, upstream>>

\* A GET may ask for one of the tenants and is never given another; provisioning
\* answers with the personal tenant, or failing that the first one listed.
ListMemberships_Fallback(r) ==
    /\ req[r].pc = "memberships"
    /\ LET s == req[r].subject
           wanted == req[r].wanted
       IN
       \/ Access(s) = {} /\ Answer(r, "no-active-membership")
       \/ \E t \in Tenants :
          /\ Access(s) # {}
          /\ IF wanted \in Tenants THEN t = wanted ELSE First(s, t)
          /\ IF req[r].kind = "get"
               THEN Become(r, [req[r] EXCEPT !.pc = "readTenant", !.tenant = t])
               ELSE Become(r, [req[r] EXCEPT !.pc = "done", !.code = "ok", !.tenant = t])
    /\ UNCHANGED <<local, upstream>>
ListMemberships(r) ==
    /\ req[r].pc = "memberships"
    /\ LET s == req[r].subject
           wanted == req[r].wanted
       IN
       \/ Access(s) = {} /\ Answer(r, "no-active-membership")
       \/ /\ Access(s) # {} /\ wanted # None /\ wanted \notin Access(s)
          /\ Answer(r, "tenant-not-permitted")
       \/ \E t \in Access(s) :
          /\ IF wanted # None THEN t = wanted ELSE First(s, t)
          /\ \/ /\ req[r].kind = "get"
                /\ Become(r, [req[r] EXCEPT !.pc = "readTenant", !.tenant = t])
             \/ /\ req[r].kind = "post"
                /\ Become(r, [req[r] EXCEPT !.pc = "done", !.code = "ok", !.tenant = t])
    /\ UNCHANGED <<local, upstream>>

\* read_account: the tenant is read in a second transaction, whatever its status;
\* a team may have been deleted, and its memberships with it.
ReadTenant(r) ==
    /\ req[r].pc = "readTenant"
    /\ \/ Answer(r, "ok")
       \/ /\ req[r].tenant \in Teams \ teams[req[r].subject]
          /\ Answer(r, "tenant-not-visible")
    /\ UNCHANGED <<local, upstream>>

\* A statement fails unexpectedly.  Only the provisioning transaction is guarded.
DatabaseFails(r) ==
    /\ \/ /\ req[r].pc \in {"lookup", "decide", "reread"}
          /\ Answer(r, "provisioning-unavailable")
       \/ /\ req[r].pc \in {"findUser", "allowlist", "memberships", "readTenant"}
          /\ Answer(r, "internal-error")
    /\ UNCHANGED <<local, upstream>>

Handle(r) ==
    \/ FetchProfile(r) \/ Lookup(r) \/ Decide(r) \/ Reread(r)
    \/ FindUser(r) \/ CheckAllowlist(r) \/ ListMemberships(r) \/ ReadTenant(r)

-----------------------------------------------------------------------------
\* The migration owner, and WorkOS.
Owner(op) == op \in OwnerOps /\ UNCHANGED req

AllowlistAdd(e) ==
    /\ Owner("allowlist")
    /\ e \notin allowlist
    /\ allowlist' = allowlist \cup {e}
    /\ Id!Approve(e)
    /\ UNCHANGED <<teams, upstream>>
AllowlistRemove(e) ==
    /\ Owner("allowlist")
    /\ e \in allowlist
    /\ allowlist' = allowlist \ {e}
    /\ UNCHANGED <<identity, teams, upstream>>
BindSubject(s, e) ==
    /\ Owner("bind")
    /\ Id!Bind(s, e)
    /\ UNCHANGED <<allowlist, teams, upstream>>
\* Bound of the model: the owner re-enables before disabling one row too many.
Disabled(a) == {f \in {"user", "tenant", "membership"} : a # None /\ a[f] = "disabled"}
CanSet(st) ==
    st = "disabled" =>
        Cardinality(UNION {{s} \X Disabled(account[s]) : s \in Subjects})
        + Cardinality(UNION {{e} \X Disabled(reserved[e]) : e \in Emails}) < MaxDisabled

SetStatus(s, st) ==
    /\ Owner("status") /\ CanSet(st)
    /\ Id!SetStatus(s, st)
    /\ UNCHANGED <<allowlist, teams, upstream>>
SetReservedStatus(e, st) ==
    /\ Owner("reserved") /\ CanSet(st)
    /\ Id!SetReservedStatus(e, st)
    /\ UNCHANGED <<allowlist, teams, upstream>>
SetTeam(s, t) ==
    /\ Owner("team")
    /\ account[s] # None
    /\ teams' = [teams EXCEPT ![s] = IF t \in @ THEN @ \ {t} ELSE @ \cup {t}]
    /\ UNCHANGED <<identity, allowlist, upstream>>
ChangeProfile(s, e) ==
    /\ Owner("profile")
    /\ upstream[s] # e
    /\ upstream' = [upstream EXCEPT ![s] = e]
    /\ UNCHANGED local

OwnerNext ==
    \/ \E e \in Emails : AllowlistAdd(e) \/ AllowlistRemove(e)
    \/ \E s \in Subjects, e \in Emails : BindSubject(s, e)
    \/ \E s \in Subjects, st \in Id!Status : SetStatus(s, st)
    \/ \E e \in Emails, st \in Id!Status : SetReservedStatus(e, st)
    \/ \E s \in Subjects, t \in Teams : SetTeam(s, t)
    \/ \E s \in Subjects, e \in Emails \cup {None} : ChangeProfile(s, e)

\* The provisioning of r commits.
Provisions(r) == req[r].pc \in {"decide", "reread"} /\ req'[r].pc \in Reading

\* The history variables follow every step.  An account that moves was allowed to
\* its new address by the sign-in that moves it.
Moves(s) == account[s] # None /\ account'[s].email # account[s].email
Observe ==
    /\ met' = [r \in Requests |->
          IF req'[r].pc \notin Reading THEN {}
          ELSE met[r] \cup Holds(req[r].subject)'
                      \cup {x \in {"allowlisted"} : Moves(req'[r].subject)}]
    /\ quiet' = [r \in Requests |->
          /\ req'[r].pc # "done" /\ req'[r].kind = "post"
          /\ \/ req[r].pc = "idle" /\ req'[r].pc # "idle"
             \/ Provisions(r)
             \/ quiet[r] /\ UNCHANGED local]

Next ==
    /\ \/ \E r \in Requests, s \in Subjects, kind \in {"get", "post"},
             t \in Tenants \cup {None} : Start(r, s, kind, t)
       \/ \E r \in Requests : Handle(r) \/ DatabaseFails(r)
       \/ OwnerNext
    /\ Observe

Spec == Init /\ [][Next]_vars

-----------------------------------------------------------------------------
TypeOK ==
    /\ Id!TypeOK
    /\ allowlist \subseteq approved
    /\ teams \in [Subjects -> SUBSET Teams]
    /\ upstream \in [Subjects -> Emails \cup {None}]
    /\ req \in [Requests -> Request]
    /\ met \in [Requests -> SUBSET Conditions]
    /\ quiet \in [Requests -> BOOLEAN]

\* What a request has established at each point, although what it read may have
\* changed since: met remembers everything that has held while it reads, and as long
\* as it is quiet what it has read is still so.
RequestOK(r) ==
    LET q == req[r]
        s == req[r].subject
    IN
    /\ q.pc \in Open => s \in Subjects
    /\ q.pc \in Reading => Holds(s) \subseteq met[r]
    /\ q.pc \in Open \ Reading => q.kind = "post"
    /\ q.kind = "post" => q.wanted = None
    /\ q.pc \in {"lookup", "decide", "reread"} => q.email \in Emails
    /\ q.pc \in Reading \ {"findUser"} => account[s] # None /\ "active" \in met[r]
    /\ q.pc = "allowlist" => q.email = account[s].email \/ "allowlisted" \in met[r]
    /\ q.pc \in {"memberships", "readTenant"} => "allowlisted" \in met[r]
    /\ q.pc = "readTenant" => /\ q.kind = "get" /\ q.tenant \in met[r]
                              /\ q.wanted \in {None, q.tenant}
    /\ quiet[r] /\ q.pc = "allowlist" =>
          q.email = account[s].email /\ "active" \in Holds(s)
    /\ quiet[r] /\ q.pc = "memberships" => {"active", "allowlisted"} \subseteq Holds(s)

Inv == TypeOK /\ \A r \in Requests : RequestOK(r)

Answers(r, code) == req[r].pc # "done" /\ req'[r].pc = "done" /\ req'[r].code = code

\* Revocation takes effect on the very next request (authorize_local_access): a GET
\* is answered with a tenant only if, since it began, the user was active, its address
\* was allowlisted (or changed by a sign-in) and the tenant was accessible to it; a
\* POST only if that was so since its provisioning committed.  A tenant that was asked
\* for is the one that is answered.  (What a POST may do before it answers, to an
\* account whose stored address was revoked, is RemovalBites.)
RevocationIsEffective ==
    [][\A r \in Requests : Answers(r, "ok") =>
          /\ {"active", "allowlisted", req'[r].tenant} \subseteq met[r]
          /\ req[r].wanted \in {None, req'[r].tenant}]_vars

\* docs/authentication.md: removing the stored address from the allowlist bites on the
\* next request, "whatever WorkOS now believes the address to be".  So a request during
\* which nothing changes should not give another address to an account whose stored
\* one is off the allowlist.
RemovalBites ==
    [][\A r \in Requests :
          quiet[r] /\ Provisions(r) /\ Moves(req[r].subject) =>
              account[req[r].subject].email \in allowlist]_vars

\* "POST /api/account/provision can never report access that a subsequent GET
\* would deny": if nothing has changed since it provisioned, a GET would succeed.
PostImpliesGet ==
    [][\A r \in Requests : Answers(r, "ok") /\ req[r].kind = "post" /\ quiet[r] =>
          \E t \in Tenants : {"active", "allowlisted", t} \subseteq Holds(req[r].subject)]_vars

\* Every request that began is answered, under the fairness of Dashboard: there is no
\* outcome of WorkOS, of the database or of another request without an answer.
RequestsAreAnswered ==
    \A r \in Requests : req[r].pc # "idle" ~> req[r].pc = "done"
=============================================================================
