---------------------------- MODULE Provisioning ----------------------------
(***************************************************************************)
(* app.provision_personal_identity (migration 0004) as concurrent           *)
(* transactions execute it on PostgreSQL at READ COMMITTED.                  *)
(*                                                                          *)
(* A call is one invocation of the function inside one transaction, as       *)
(* POST /account/provision makes it.  Every SQL statement of the function    *)
(* body takes a snapshot of its own, so every statement is an action; what   *)
(* the transaction wrote stays private (txn[c]) until Commit publishes it.   *)
(* Row locks last until the transaction ends and are read off the            *)
(* transactions that hold them: txn[c].held is the user row that call c      *)
(* has locked FOR UPDATE or inserted.                                        *)
(*                                                                          *)
(* tenants[u] and members[u] are the personal tenant owned by u and the      *)
(* owner's membership in it: uq_tenants_personal_owner and                   *)
(* uq_memberships_user_id_tenant_id make the owner their key.                *)
(***************************************************************************)
EXTENDS Naturals, FiniteSets

CONSTANTS
    Calls,      \* invocations, each made at most once
    UserIds,    \* primary keys gen_random_uuid() may draw
    LegacyIds,  \* those of rows from before 0004 that carry no subject
    Emails,     \* normalized addresses
    Subjects,   \* verified external subjects
    OwnerOps,   \* the out-of-band operations the owner performs in a run
    MaxDisabled, \* bound: rows the owner keeps disabled at one time
    None        \* SQL NULL, and "no row"

VARIABLES
    users,      \* public.users, committed: the row of an id, or None
    tenants,    \* status of the personal tenant of an owner, or None
    members,    \* status of the owner's membership in it, or None
    allowlist,  \* public.signup_allowlist
    approved,   \* history: every address that was ever on the allowlist
    pc,         \* the statement a call executes next
    args,       \* p_email and p_external_id of a call
    txn,        \* what a transaction holds and has written so far
    result      \* how a call ended

vars == <<users, tenants, members, allowlist, approved, pc, args, txn, result>>
committed == <<users, tenants, members>>

Status == {"active", "disabled"}
UserRow == [email : Emails, subject : Subjects \cup {None}, status : Status]
Account == [email : Emails, user : Status,
            tenant : Status \cup {None}, membership : Status \cup {None}]
Draft == [id : UserIds, row : UserRow]
Txn == [target : UserIds \cup {None}, held : UserIds \cup {None},
        status : Status, draft : Draft \cup {None}, created : BOOLEAN,
        joined : BOOLEAN]
NoTxn == [target |-> None, held |-> None, status |-> "active",
          draft |-> None, created |-> FALSE, joined |-> FALSE]

Running == {"bySubject", "emailFree", "move", "byEmail", "lockByEmail",
            "insert", "reread", "lockReread", "tenant", "membership", "commit"}
PC == Running \cup {"idle", "done"}

Outcome == {"none", "ok", "invalid", "signup_not_allowed", "identity_disabled",
            "subject_conflict", "email_conflict", "binding_required",
            "unique_violation", "aborted"}
Result == [outcome : Outcome, row : UserIds \cup {None}, created : BOOLEAN]
Ended(code, u, new) == [outcome |-> code, row |-> u, created |-> new]

ASSUME ProvisioningAssumption ==
    /\ LegacyIds \subseteq UserIds
    /\ None \notin Calls \cup UserIds \cup Emails \cup Subjects \cup Status
    /\ None \notin UserRow \cup Draft \cup Account

-----------------------------------------------------------------------------
(***************************************************************************)
(* Row locks and unique indexes.                                            *)
(***************************************************************************)

\* The row whose unique column has the given value, over committed rows.
WithEmail(e) == {u \in UserIds : users[u] # None /\ users[u].email = e}
WithSubject(s) == {u \in UserIds : users[u] # None /\ users[u].subject = s}

\* No open transaction has locked (or inserted) the row.
RowFree_NoRowLock(u) == TRUE
RowFree(u) == \A d \in Calls : txn[d].held # u

\* An open transaction has written a version of a row that carries the key, or
\* is replacing one that does: an insert of the key waits for it to end.
EmailBusy(e) ==
    \E d \in Calls :
        LET w == txn[d].draft IN
        /\ w # None
        /\ \/ w.row.email = e
           \/ users[w.id] # None /\ users[w.id].email = e
SubjectBusy(s) ==
    \E d \in Calls : txn[d].draft # None /\ txn[d].draft.row.subject = s

-----------------------------------------------------------------------------
\* Rows without a subject predate migration 0004.  The migration owner inserted
\* them bare, or the function of 0002 or 0003, called without a subject, made them
\* with their personal tenant and membership after finding the address on the
\* allowlist.  (Withdrawing, binding and disabling are steps of the owner below.)
Init ==
    /\ users \in {t \in [UserIds -> UserRow \cup {None}] :
            /\ \A u \in UserIds \ LegacyIds : t[u] = None
            /\ \A u \in LegacyIds : t[u] # None =>
                   t[u].subject = None /\ t[u].status = "active"
            /\ \A u, v \in LegacyIds :
                   t[u] # None /\ t[v] # None /\ t[u].email = t[v].email
                       => u = v}
    /\ allowlist \in SUBSET Emails
    /\ approved = allowlist
    /\ tenants \in [UserIds -> {"active", None}]
    /\ \A u \in UserIds : tenants[u] # None =>
          users[u] # None /\ users[u].email \in allowlist
    /\ members = tenants
    /\ pc = [c \in Calls |-> "idle"]
    /\ args = [c \in Calls |-> [email |-> None, subject |-> None]]
    /\ txn = [c \in Calls |-> NoTxn]
    /\ result = [c \in Calls |-> Ended("none", None, FALSE)]

\* RAISE EXCEPTION (or a failed connection): the transaction rolls back and its
\* locks are released.  u is the row the decision was about, if there was one.
Raise_Autocommit(c, code, u) ==
    /\ pc' = [pc EXCEPT ![c] = "done"]
    /\ txn' = [txn EXCEPT ![c] = NoTxn]
    /\ result' = [result EXCEPT ![c] = Ended(code, u, FALSE)]
    /\ users' = IF txn[c].draft = None THEN users
                ELSE [users EXCEPT ![txn[c].held] = txn[c].draft.row]
    /\ UNCHANGED <<tenants, members, allowlist, approved, args>>
Raise_KeepsLocks(c, code, u) ==
    /\ pc' = [pc EXCEPT ![c] = "done"]
    /\ result' = [result EXCEPT ![c] = Ended(code, u, FALSE)]
    /\ UNCHANGED <<committed, allowlist, approved, args, txn>>
Raise(c, code, u) ==
    /\ pc' = [pc EXCEPT ![c] = "done"]
    /\ txn' = [txn EXCEPT ![c] = NoTxn]
    /\ result' = [result EXCEPT ![c] = Ended(code, u, FALSE)]
    /\ UNCHANGED <<committed, allowlist, approved, args>>

\* The transaction goes on with statement next and the given private state.
Go(c, next, t) ==
    /\ pc' = [pc EXCEPT ![c] = next]
    /\ txn' = [txn EXCEPT ![c] = t]
    /\ UNCHANGED <<committed, allowlist, approved, args, result>>

-----------------------------------------------------------------------------
(***************************************************************************)
(* The statements of the function, in order.                                *)
(***************************************************************************)

\* The arguments are validated and the address is checked against the
\* allowlist, on every call and before anything else.
Begin(c, e, s) ==
    /\ pc[c] = "idle"
    /\ args' = [args EXCEPT ![c] = [email |-> e, subject |-> s]]
    /\ \/ /\ e = None \/ s = None
          /\ pc' = [pc EXCEPT ![c] = "done"]
          /\ result' = [result EXCEPT ![c] = Ended("invalid", None, FALSE)]
       \/ /\ e # None /\ s # None
          /\ e \notin allowlist
          /\ pc' = [pc EXCEPT ![c] = "done"]
          /\ result' = [result EXCEPT ![c] = Ended("signup_not_allowed", None, FALSE)]
       \/ /\ e # None /\ s # None
          /\ e \in allowlist
          /\ pc' = [pc EXCEPT ![c] = "bySubject"]
          /\ UNCHANGED result
    /\ UNCHANGED <<committed, allowlist, approved, txn>>

\* (1) SELECT ... WHERE external_id = v_subject FOR UPDATE.  A row that is
\* locked is waited for; its subject cannot have changed meanwhile.
SelectBySubject(c) ==
    /\ pc[c] = "bySubject"
    /\ \/ /\ WithSubject(args[c].subject) = {}
          /\ Go(c, "byEmail", txn[c])
       \/ \E u \in WithSubject(args[c].subject) :
          /\ RowFree(u)
          /\ Go(c, IF users[u].email = args[c].email THEN "tenant" ELSE "emailFree",
                [txn[c] EXCEPT !.target = None, !.held = u,
                               !.status = users[u].status])

\* The address of a known subject changed upstream: IF EXISTS (another row with
\* it) fail closed, otherwise UPDATE.  Another transaction may insert the
\* address between the two; the unique index then refuses the UPDATE.
EmailFree(c) ==
    /\ pc[c] = "emailFree"
    /\ LET others == WithEmail(args[c].email) \ {txn[c].held} IN
       \/ others = {} /\ Go(c, "move", txn[c])
       \/ \E u \in others : Raise(c, "email_conflict", u)

MoveEmail_NoUniqueCheck(c) ==
    /\ pc[c] = "move"
    /\ LET u == txn[c].held IN
       Go(c, "tenant", [txn[c] EXCEPT !.draft =
            [id |-> u, row |-> [users[u] EXCEPT !.email = args[c].email]]])
MoveEmail(c) ==
    /\ pc[c] = "move"
    /\ ~EmailBusy(args[c].email)
    /\ LET u == txn[c].held
           others == WithEmail(args[c].email) \ {u}
       IN
       \/ /\ others = {}
          /\ Go(c, "tenant", [txn[c] EXCEPT !.draft =
                [id |-> u, row |-> [users[u] EXCEPT !.email = args[c].email]]])
       \/ \E v \in others : Raise(c, "unique_violation", v)

\* (2) SELECT ... WHERE email_normalized = v_email FOR UPDATE.  The snapshot
\* names the row, the lock may have to be waited for, and the row is dropped
\* from the result when its newest version no longer has the address.
SelectByEmail(c) ==
    /\ pc[c] = "byEmail"
    /\ \/ /\ WithEmail(args[c].email) = {}
          /\ Go(c, "insert", txn[c])
       \/ \E u \in WithEmail(args[c].email) :
          Go(c, "lockByEmail", [txn[c] EXCEPT !.target = u])

\* A row found under the address is never handed over: whatever subject it
\* carries, the call fails.
LockByEmail_Claim(c) ==
    /\ pc[c] = "lockByEmail"
    /\ LET u == txn[c].target IN
       /\ RowFree(u)
       /\ IF users[u].email = args[c].email
            THEN Go(c, "tenant", [txn[c] EXCEPT !.target = None, !.held = u,
                                      !.status = users[u].status])
            ELSE Go(c, "insert", [txn[c] EXCEPT !.target = None])
LockByEmail(c) ==
    /\ pc[c] = "lockByEmail"
    /\ LET u == txn[c].target IN
       /\ RowFree(u)
       /\ \/ /\ users[u].email # args[c].email
             /\ Go(c, "insert", [txn[c] EXCEPT !.target = None])
          \/ /\ users[u].email = args[c].email
             /\ users[u].subject = None
             /\ Raise(c, "binding_required", u)
          \/ /\ users[u].email = args[c].email
             /\ users[u].subject # None
             /\ Raise(c, "subject_conflict", u)

\* INSERT ... ON CONFLICT (email_normalized) DO NOTHING.  It waits for every open
\* transaction that writes the address or the subject; a clash on the subject's
\* index is no arbiter and fails the statement.
InsertUser(c) ==
    /\ pc[c] = "insert"
    /\ LET e == args[c].email
           s == args[c].subject
       IN
       /\ ~EmailBusy(e)
       /\ \/ /\ WithEmail(e) # {}
             /\ Go(c, "reread", txn[c])
          \/ /\ WithEmail(e) = {}
             /\ ~SubjectBusy(s)
             /\ \E u \in WithSubject(s) : Raise(c, "unique_violation", u)
          \/ /\ WithEmail(e) = {}
             /\ ~SubjectBusy(s)
             /\ WithSubject(s) = {}
             /\ \E u \in UserIds \ LegacyIds :
                /\ users[u] = None
                /\ RowFree(u)
                /\ Go(c, "tenant",
                      [txn[c] EXCEPT !.held = u, !.status = "active",
                         !.draft = [id |-> u, row |-> [email |-> e, subject |-> s,
                                                       status |-> "active"]]])

\* A concurrent caller inserted first: re-read by address FOR UPDATE and apply
\* the same rule, except that the caller's own subject converges.  No row reads
\* as a row without a subject: v_found is NULL either way.
Reread(c) ==
    /\ pc[c] = "reread"
    /\ \/ /\ WithEmail(args[c].email) = {}
          /\ Raise(c, "binding_required", None)
       \/ \E u \in WithEmail(args[c].email) :
          Go(c, "lockReread", [txn[c] EXCEPT !.target = u])

LockReread_AnySubject(c) ==
    /\ pc[c] = "lockReread"
    /\ LET u == txn[c].target IN
       /\ RowFree(u)
       /\ Go(c, "tenant", [txn[c] EXCEPT !.target = None, !.held = u,
                                         !.status = users[u].status])
LockReread(c) ==
    /\ pc[c] = "lockReread"
    /\ LET u == txn[c].target
           matches == users[u].email = args[c].email
       IN
       /\ RowFree(u)
       /\ \/ ~matches /\ Raise(c, "binding_required", None)
          \/ /\ matches /\ users[u].subject = None
             /\ Raise(c, "binding_required", u)
          \/ /\ matches /\ users[u].subject \notin {None, args[c].subject}
             /\ Raise(c, "subject_conflict", u)
          \/ /\ matches /\ users[u].subject = args[c].subject
             /\ Go(c, "tenant", [txn[c] EXCEPT !.target = None, !.held = u,
                                               !.status = users[u].status])

\* The status read with the user row is checked, then the personal tenant is
\* upserted: inserted when the owner has none, otherwise locked by the UPDATE.
UpsertTenant(c) ==
    /\ pc[c] = "tenant"
    /\ \/ /\ txn[c].status # "active"
          /\ Raise(c, "identity_disabled", txn[c].held)
       \/ /\ txn[c].status = "active"
          /\ Go(c, "membership",
                [txn[c] EXCEPT !.created = tenants[txn[c].held] = None])

\* A disabled tenant is not re-enabled by signing in again; then the membership
\* is upserted in the same way.
UpsertMembership(c) ==
    /\ pc[c] = "membership"
    /\ LET u == txn[c].held IN
       \/ /\ tenants[u] = "disabled"
          /\ Raise(c, "identity_disabled", u)
       \/ /\ tenants[u] # "disabled"
          /\ Go(c, "commit", [txn[c] EXCEPT !.joined = members[u] = None])

\* The membership's status is checked, the function returns and the caller's
\* transaction commits: everything it wrote becomes visible at once.
Publish(c) ==
    LET u == txn[c].held
        w == txn[c].draft
    IN  /\ users' = IF w = None THEN users ELSE [users EXCEPT ![u] = w.row]
        /\ tenants' = IF txn[c].created THEN [tenants EXCEPT ![u] = "active"]
                                        ELSE tenants
        /\ members' = IF txn[c].joined THEN [members EXCEPT ![u] = "active"]
                                       ELSE members
Commit_LostMembership(c) ==
    /\ pc[c] = "commit"
    /\ LET u == txn[c].held IN
       /\ Publish(c) /\ UNCHANGED <<allowlist, approved, args>>
       /\ pc' = [pc EXCEPT ![c] = "done"]
       /\ txn' = [txn EXCEPT ![c] = NoTxn]
       /\ result' = [result EXCEPT ![c] = Ended("ok", u, txn[c].created)]
Commit(c) ==
    /\ pc[c] = "commit"
    /\ LET u == txn[c].held IN
       \/ /\ members[u] = "disabled"
          /\ Raise(c, "identity_disabled", u)
       \/ /\ members[u] # "disabled"
          /\ Publish(c)
          /\ pc' = [pc EXCEPT ![c] = "done"]
          /\ txn' = [txn EXCEPT ![c] = NoTxn]
          /\ result' = [result EXCEPT ![c] = Ended("ok", u, txn[c].created)]
          /\ UNCHANGED <<allowlist, approved, args>>

\* The connection or the caller dies: the transaction leaves nothing behind.
Abort(c) ==
    /\ pc[c] \in Running
    /\ Raise(c, "aborted", None)

Step(c) ==
    \/ SelectBySubject(c) \/ EmailFree(c) \/ MoveEmail(c)
    \/ SelectByEmail(c) \/ LockByEmail(c) \/ InsertUser(c)
    \/ Reread(c) \/ LockReread(c)
    \/ UpsertTenant(c) \/ UpsertMembership(c) \/ Commit(c)

-----------------------------------------------------------------------------
(***************************************************************************)
(* Out-of-band operations of the migration owner: single transactions that   *)
(* wait for the row locks of open calls.                                     *)
(***************************************************************************)
Owner(op) == op \in OwnerOps /\ UNCHANGED <<pc, args, txn, result>>

\* infra/allowlist-add.sql, and the DELETE that revokes an address.
AllowlistAdd(e) ==
    /\ Owner("allowlist")
    /\ e \notin allowlist
    /\ allowlist' = allowlist \cup {e}
    /\ approved' = approved \cup {e}
    /\ UNCHANGED committed
AllowlistRemove(e) ==
    /\ Owner("allowlist")
    /\ e \in allowlist
    /\ allowlist' = allowlist \ {e}
    /\ UNCHANGED <<committed, approved>>

\* infra/bind-subject.sql: only a row without a subject, only a subject without
\* a row; an insert of the subject still in flight is waited for.
BindSubject(u, s) ==
    /\ Owner("bind")
    /\ users[u] # None
    /\ RowFree(u)
    /\ users[u].subject = None
    /\ WithSubject(s) = {} /\ ~SubjectBusy(s)
    /\ users' = [users EXCEPT ![u].subject = s]
    /\ UNCHANGED <<tenants, members, allowlist, approved>>

\* Bound of the model: the owner re-enables before disabling one row too many.
CanSet(st) ==
    st = "disabled" =>
        Cardinality({u \in UserIds : users[u] # None /\ users[u].status = "disabled"})
        + Cardinality({u \in UserIds : tenants[u] = "disabled"})
        + Cardinality({u \in UserIds : members[u] = "disabled"}) < MaxDisabled

SetUserStatus(u, st) ==
    /\ Owner("user") /\ CanSet(st)
    /\ users[u] # None /\ users[u].status # st
    /\ RowFree(u)
    /\ users' = [users EXCEPT ![u].status = st]
    /\ UNCHANGED <<tenants, members, allowlist, approved>>

\* The upserts of a call lock the tenant and the membership row until it ends.
SetTenantStatus(u, st) ==
    /\ Owner("tenant") /\ CanSet(st)
    /\ tenants[u] \notin {None, st}
    /\ \A d \in Calls : txn[d].held = u => pc[d] \notin {"membership", "commit"}
    /\ tenants' = [tenants EXCEPT ![u] = st]
    /\ UNCHANGED <<users, members, allowlist, approved>>
SetMembershipStatus(u, st) ==
    /\ Owner("membership") /\ CanSet(st)
    /\ members[u] \notin {None, st}
    /\ \A d \in Calls : txn[d].held = u => pc[d] # "commit"
    /\ members' = [members EXCEPT ![u] = st]
    /\ UNCHANGED <<users, tenants, allowlist, approved>>

OwnerNext ==
    \/ \E e \in Emails : AllowlistAdd(e) \/ AllowlistRemove(e)
    \/ \E u \in UserIds, s \in Subjects : BindSubject(u, s)
    \/ \E u \in UserIds, st \in Status :
          SetUserStatus(u, st) \/ SetTenantStatus(u, st) \/ SetMembershipStatus(u, st)

Next ==
    \/ \E c \in Calls, e \in Emails \cup {None}, s \in Subjects \cup {None} :
          Begin(c, e, s)
    \/ \E c \in Calls : Step(c) \/ Abort(c)
    \/ OwnerNext

Spec == Init /\ [][Next]_vars

\* PostgreSQL keeps executing the statements of an open transaction.
Fairness == \A c \in Calls : WF_vars(Step(c))
FairSpec == Spec /\ Fairness

-----------------------------------------------------------------------------
(***************************************************************************)
(* Properties.                                                              *)
(***************************************************************************)

TypeOK ==
    /\ users \in [UserIds -> UserRow \cup {None}]
    /\ tenants \in [UserIds -> Status \cup {None}]
    /\ members \in [UserIds -> Status \cup {None}]
    /\ allowlist \subseteq Emails /\ approved \subseteq Emails
    /\ pc \in [Calls -> PC]
    /\ args \in [Calls -> [email : Emails \cup {None},
                           subject : Subjects \cup {None}]]
    /\ txn \in [Calls -> Txn]
    /\ result \in [Calls -> Result]

\* The rows the index uq_users_email_normalized and uq_users_external_id will
\* hold once every open transaction commits are keyed by address and subject:
\* no interleaving of the checks and writes of several calls and the owner
\* prepares two rows with one key (migration 0002, users).
Version(u) == {users[u]} \cup {w.row : w \in {txn[d].draft : d \in
                  {d \in Calls : txn[d].draft # None /\ txn[d].draft.id = u}}}
OneRowPerIdentity ==
    \A u, v \in UserIds : u # v =>
        \A r \in Version(u) \ {None}, q \in Version(v) \ {None} :
            /\ r.email # q.email
            /\ r.subject # None => r.subject # q.subject

\* The function is all or nothing (service.py, "no orphan user, tenant or
\* membership is left behind"): a row it created has a subject, its personal
\* tenant and its membership; and no row, older ones included, ever has a tenant
\* without the owner's membership or the reverse, nor a tenant without a user.
CompleteAccounts ==
    \A u \in UserIds :
        /\ users[u] # None /\ u \notin LegacyIds =>
              tenants[u] # None /\ users[u].subject # None
        /\ tenants[u] # None <=> members[u] # None
        /\ tenants[u] # None => users[u] # None

\* Two successful calls resolve to the same row exactly when they presented the
\* same subject: retries converge on one account and no caller is ever handed
\* an account of another subject, whatever addresses they presented.
RowsFollowSubjects ==
    \A c, d \in Calls :
        result[c].outcome = "ok" /\ result[d].outcome = "ok" =>
            (result[c].row = result[d].row <=> args[c].subject = args[d].subject)

\* Of all the calls that resolved to an account at most one reports created.
CreatedOnce ==
    \A c, d \in Calls :
        result[c].created /\ result[d].created /\ c # d =>
            result[c].row # result[d].row

\* An account's address was approved by the owner at some time: a change of the
\* address upstream never moves it to one that was never on the allowlist.
ApprovedAddresses ==
    \A u \in UserIds : tenants[u] # None => users[u].email \in approved

\* A call that reports success leaves, in the state it commits to, an active row
\* that carries the address and subject it presented, with its tenant and
\* membership active, though each was checked statements earlier.
SuccessIsCurrent ==
    [][\A c \in Calls : result'[c] # result[c] /\ result'[c].outcome = "ok" =>
          LET u == result'[c].row IN
          /\ users'[u] = [email |-> args[c].email, subject |-> args[c].subject,
                          status |-> "active"]
          /\ tenants'[u] = "active" /\ members'[u] = "active"]_vars

\* Only the owner re-enables: the step that ends a call never turns a disabled
\* row active, not even by writing back a row version it read before.
NeverReenabled ==
    [][result' # result =>
          \A u \in UserIds :
             /\ users[u] # None /\ users[u].status = "disabled"
                    => users'[u] = users[u]
             /\ tenants[u] = "disabled" => tenants'[u] = "disabled"
             /\ members[u] = "disabled" => members'[u] = "disabled"]_vars

\* A subject, once bound, stays; and the address of a bound row changes only in
\* the step that ends a successful call presenting that very subject.
IdentityIsStable ==
    [][\A u \in UserIds : users[u] # None /\ users[u].subject # None =>
          /\ users'[u] # None /\ users'[u].subject = users[u].subject
          /\ users'[u].email # users[u].email =>
                \E c \in Calls : /\ result'[c] # result[c]
                                 /\ result'[c].outcome = "ok"
                                 /\ args[c].subject = users[u].subject]_vars

\* The inductive invariant.  Row locks are exclusive, and while a call holds its
\* row nobody else changes what the call has read of it: the status checked at
\* the tenant statement, the absent tenant, the absent membership are still so
\* when it commits.
Holding == {"emailFree", "move", "tenant", "membership", "commit"}
Written == {"tenant", "membership", "commit"}

LocksExclusive ==
    \A c, d \in Calls : c # d /\ txn[c].held # None => txn[c].held # txn[d].held

CallOK(c) ==
    LET t == txn[c]
        u == txn[c].held
    IN
    /\ pc[c] \in Running => /\ args[c].email \in approved
                            /\ args[c].subject # None
    /\ u # None <=> pc[c] \in Holding
    /\ pc[c] \in {"lockByEmail", "lockReread"} =>
          t.target # None /\ users[t.target] # None
    /\ t.draft # None => t.draft.id = u /\ pc[c] \in Written
    /\ u # None /\ users[u] # None =>
          users[u].subject = args[c].subject /\ users[u].status = t.status
    /\ u # None /\ users[u] = None =>
          t.draft # None /\ tenants[u] = None /\ u \notin LegacyIds
    /\ pc[c] \in Written /\ t.draft = None => users[u].email = args[c].email
    /\ t.draft # None => t.draft.row = [email |-> args[c].email,
                                        subject |-> args[c].subject,
                                        status |-> t.status]
    /\ pc[c] \in {"membership", "commit"} =>
          t.status = "active" /\ (t.created <=> tenants[u] = None)
    /\ pc[c] = "commit" =>
          tenants[u] # "disabled" /\ (t.joined <=> members[u] = None)

ResultOK(c) ==
    LET r == result[c] IN
    /\ r.outcome = "ok" => /\ pc[c] = "done"
                           /\ r.row # None /\ tenants[r.row] # None
                           /\ args[c].subject # None
                           /\ users[r.row].subject = args[c].subject
    /\ r.created => r.outcome = "ok"

\* Keys of the committed rows, and of the rows in flight against both.
KeysOK ==
    /\ \A u, v \in UserIds : u # v /\ users[u] # None /\ users[v] # None =>
          /\ users[u].email # users[v].email
          /\ users[u].subject # None => users[u].subject # users[v].subject
    /\ \A c \in Calls, v \in UserIds :
          txn[c].draft # None /\ users[v] # None /\ v # txn[c].draft.id =>
             /\ txn[c].draft.row.email # users[v].email
             /\ txn[c].draft.row.subject # users[v].subject
    /\ \A c, d \in Calls :
          c # d /\ txn[c].draft # None /\ txn[d].draft # None =>
             /\ txn[c].draft.row.email # txn[d].draft.row.email
             /\ txn[c].draft.row.subject # txn[d].draft.row.subject

\* Both at once: what is committed is whole and was approved, through every failure,
\* refusal and change by the owner.
AccountsOK == CompleteAccounts /\ ApprovedAddresses /\ allowlist \subseteq approved

Inv ==
    /\ TypeOK
    /\ LocksExclusive
    /\ KeysOK
    /\ AccountsOK
    /\ \A c \in Calls : CallOK(c) /\ ResultOK(c)

\* Every call that began is answered: no wait for a row lock or for a unique
\* index lasts forever, so calls and owner operations never deadlock.
CallsReturn == \A c \in Calls : pc[c] \in Running ~> pc[c] = "done"

(***************************************************************************)
(* The atomic sign-in of IdentitySpec: a subject's account is the row that   *)
(* carries the subject with its tenant and membership.                       *)
(***************************************************************************)
Whole(u) == [email |-> users[u].email, user |-> users[u].status,
             tenant |-> tenants[u], membership |-> members[u]]
AccountOf(s) ==
    IF WithSubject(s) = {} THEN None
    ELSE Whole(CHOOSE u \in WithSubject(s) : TRUE)
ReservedFor(e) ==
    LET unbound == {u \in WithEmail(e) : users[u].subject = None}
    IN IF unbound = {} THEN None ELSE Whole(CHOOSE u \in unbound : TRUE)

Identity == INSTANCE IdentitySpec
    WITH account <- [s \in Subjects |-> AccountOf(s)],
         reserved <- [e \in Emails |-> ReservedFor(e)]

\* Concurrent calls and owner operations are serializable: what they commit is
\* what atomic sign-ins, one per successful call, would have made of it.
ImplementsIdentity == Identity!Spec

(***************************************************************************)
(* What the repository says of the outcomes.                                *)
(***************************************************************************)

\* Migration 0004 line 136 and the docstrings of service.py and account.py:
\* a concurrent insert for the SAME subject converges, so VS001 means that the
\* address belongs to a different subject.
ConflictIsForeign ==
    \A c \in Calls : result[c].outcome = "subject_conflict" =>
        users[result[c].row].subject # args[c].subject
=============================================================================
