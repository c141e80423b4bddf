----------------------------- MODULE Migrations -----------------------------
(***************************************************************************)
(* The revisions under migrations/versions, what each leaves installed and     *)
(* granted, and provisioning calls that run beside them.                      *)
(*                                                                          *)
(* Every command is one transaction.  A call runs the function that was        *)
(* installed when it began, even if a revision replaces it before it commits.  *)
(* What a call does is taken as one step: Provisioning has its statements.     *)
(*                                                                          *)
(* A role has every privilege on what it owns, so what the runtime role may do *)
(* depends on who owns the database and the tables as well as on the grants.   *)
(***************************************************************************)
EXTENDS Naturals

CONSTANTS Ids, Emails, Subjects, Calls, None

VARIABLES
    revision,   \* alembic_version: 1 .. 4
    roles,      \* which of vespers_app and vespers_owner exist
    owner,      \* the owner of the database: "app", "owner" or another role, "admin"
    tables,     \* the owner of the tables of 0002, or "none" where there are none
    member,     \* how vespers_app is a member of vespers_owner
    elsewhere,  \* vespers_app owns another database, too
    defaults,   \* what vespers_app is granted on a new table of the owner
    grants,     \* what vespers_app is granted on the tables of 0002
    provision,  \* the revision whose provision_personal_identity is installed, or 0
    acl,        \* who may execute a function
    users,      \* users with their personal tenant and membership
    call        \* provisioning calls

ownership == <<roles, owner, tables, member, elsewhere>>
catalog == <<revision, ownership, defaults, grants, provision, acl>>
vars == <<catalog, users, call>>

Tables == {"users", "tenants", "memberships", "signup_allowlist"}
DML == {"select", "insert", "update", "delete"}
\* The columns name and updated_at of tenants only.
Narrow == [users |-> {"select"}, memberships |-> {"select"},
           tenants |-> {"select", "update_name"}, signup_allowlist |-> {}]
NoGrants == [t \in Tables |-> {}]

Membership == {"no", "direct", "indirect"}

\* normalize_email, current_tenant_id, signup_allowed, find_user and
\* resolve_membership are installed and granted together.
Functions == {"bootstrap", "provision", "list_memberships"}

Row == [email : Emails, subject : Subjects \cup {None},
        user : {"active", "disabled"}, personal : {"active", "disabled"}]
Idle(i) == [running |-> FALSE, version |-> 0, subject |-> None, email |-> None, id |-> i]

ASSUME MigrationsAssumption ==
    None \notin Ids \cup Emails \cup Subjects \cup Row

\* init-db.sql as it is and as it was (with default privileges); a database of another
\* owner; a volume older than the owner role; and one whose roles were set up by hand.
Init ==
    /\ revision = 1
    /\ \/ /\ roles = {"app", "owner"} /\ owner = "owner" /\ member = "no"
          /\ elsewhere = FALSE /\ defaults \in {{}, DML}
       \/ /\ roles = {"app"} /\ owner = "admin" /\ member = "no"
          /\ elsewhere = FALSE /\ defaults = {}
       \/ /\ roles = {"app"} /\ owner = "app" /\ member = "no"
          /\ elsewhere \in BOOLEAN /\ defaults = {}
       \/ /\ roles = {"app", "owner"} /\ owner = "app" /\ member \in Membership
          /\ elsewhere \in BOOLEAN /\ defaults = {}
    /\ tables = "none"
    /\ grants = NoGrants
    /\ provision = 0
    /\ acl = [f \in Functions |-> {}]
    /\ users = [i \in Ids |-> None]
    /\ call = [c \in Calls |-> Idle(None)]

-----------------------------------------------------------------------------
\* CREATE FUNCTION grants PUBLIC; the revision revokes that and grants the runtime.
NewFunction_NoGrant == {}
NewFunction == {"app"}

\* VESPERS_MIGRATION_DATABASE_URL names the owner role, which is not there, or may not
\* create anything, while the runtime role owns the database.
CanMigrate_AsRuntime == TRUE
CanMigrate == owner # "app"

Upgrade2Grants_NoRevoke(t) == defaults \cup Narrow[t]
Upgrade2Grants(t) == Narrow[t]
Upgrade2 ==
    /\ CanMigrate /\ revision = 1
    /\ revision' = 2 /\ provision' = 2
    /\ tables' = owner
    /\ grants' = [t \in Tables |-> Upgrade2Grants(t)]
    /\ acl' = [acl EXCEPT !["bootstrap"] = NewFunction, !["provision"] = NewFunction]
    /\ UNCHANGED <<roles, owner, member, elsewhere, defaults, users, call>>
Downgrade2 ==
    /\ CanMigrate /\ revision = 2
    /\ revision' = 1 /\ provision' = 0
    /\ tables' = "none"
    /\ grants' = NoGrants
    /\ acl' = [acl EXCEPT !["bootstrap"] = {}, !["provision"] = {}]
    /\ users' = [i \in Ids |-> None]
    /\ UNCHANGED <<roles, owner, member, elsewhere, defaults, call>>

\* The default privileges are those of the owner role, where there is one.  CREATE OR
\* REPLACE keeps the privileges of the function it replaces.
DefaultsRevoked == IF "owner" \in roles THEN {} ELSE defaults
Upgrade3 ==
    /\ CanMigrate /\ revision = 2
    /\ revision' = 3 /\ provision' = 3
    /\ acl' = [acl EXCEPT !["list_memberships"] = NewFunction]
    /\ defaults' = DefaultsRevoked
    /\ UNCHANGED <<ownership, grants, users, call>>
Downgrade3 ==
    /\ CanMigrate /\ revision = 3
    /\ revision' = 2 /\ provision' = 2
    /\ acl' = [acl EXCEPT !["list_memberships"] = {}]
    /\ defaults' = IF "owner" \in roles THEN defaults \cup DML ELSE defaults
    /\ UNCHANGED <<ownership, grants, users, call>>

\* DROP FUNCTION, then CREATE: the privileges have to be given again.
Upgrade4 ==
    /\ CanMigrate /\ revision = 3
    /\ revision' = 4 /\ provision' = 4
    /\ acl' = [acl EXCEPT !["provision"] = NewFunction]
    /\ UNCHANGED <<ownership, defaults, grants, users, call>>
Downgrade4 ==
    /\ CanMigrate /\ revision = 4
    /\ revision' = 3 /\ provision' = 3
    /\ acl' = [acl EXCEPT !["provision"] = NewFunction]
    /\ UNCHANGED <<ownership, defaults, grants, users, call>>

\* transition-dev-owner.sql hands what vespers_app owns to vespers_owner.  It refuses
\* another database than the development one, a runtime role that owns more than it,
\* tables of 0002, on all of which it would grant DML, and a membership that is left
\* when it has revoked the direct one.
Refused_AnyTables == owner = "admin" \/ elsewhere \/ member = "indirect"
Refused_AnyMember == owner = "admin" \/ elsewhere \/ tables # "none"
Refused == owner = "admin" \/ elsewhere \/ tables # "none" \/ member = "indirect"
Transition ==
    /\ ~Refused
    /\ roles' = roles \cup {"owner"}
    /\ owner' = "owner"
    /\ tables' = IF tables = "app" THEN "owner" ELSE tables
    /\ member' = IF member = "direct" THEN "no" ELSE member
    /\ grants' = [t \in Tables |-> IF tables = "none" THEN {} ELSE DML]
    /\ UNCHANGED <<revision, elsewhere, defaults, provision, acl, users, call>>

\* What the script refuses of the roles is reviewed, and put right, by hand.
ReviewRoles ==
    /\ elsewhere \/ member = "indirect"
    /\ elsewhere' = FALSE
    /\ member' = IF member = "indirect" THEN "no" ELSE member
    /\ UNCHANGED <<revision, roles, owner, tables, defaults, grants, provision, acl,
                   users, call>>

-----------------------------------------------------------------------------
\* provision_personal_identity.  Each definition gives the row a call ends with, under
\* its id, or nothing where it raises.
At(e) == {i \in Ids : users[i] # None /\ users[i].email = e}
Holder(s) == {i \in Ids : users[i] # None /\ s # None /\ users[i].subject = s}
Account(i, row) == [id |-> i, row |-> row]

Moved(s, e) == {Account(i, [users[i] EXCEPT !.email = e]) : i \in Holder(s)}
Bound(I, s) ==
    {Account(i, [users[i] EXCEPT !.subject = IF @ = None THEN s ELSE @]) : i \in I}
Created(s, e) ==
    {Account(i, [email |-> e, subject |-> s, user |-> "active", personal |-> "active"]) :
        i \in {j \in Ids : users[j] = None /\ At(e) = {}}}

\* 0002: one INSERT ... ON CONFLICT (email) DO UPDATE.
Provision2(s, e) == Bound(At(e), s) \cup Created(s, e)

\* 0003: by subject; else by address, where a row is bound to its first subject, is
\* returned to a caller without one, and is refused to any other.
Provision3_AnyAtEmail(s, e) ==
    IF Holder(s) # {} THEN Moved(s, e) ELSE Bound(At(e), s) \cup Created(s, e)
Provision3(s, e) ==
    IF Holder(s) # {} THEN Moved(s, e)
    ELSE Bound({i \in At(e) : s = None \/ users[i].subject = None}, s) \cup Created(s, e)

\* 0004: a subject is required, and no row is handed over by its address.
Provision4_SubjectOptional(s, e) == IF Holder(s) # {} THEN Moved(s, e) ELSE Created(s, e)
Provision4(s, e) ==
    IF s = None THEN {} ELSE IF Holder(s) # {} THEN Moved(s, e) ELSE Created(s, e)

Resolved(version, s, e) ==
    CASE version = 2 -> Provision2(s, e)
      [] version = 3 -> Provision3(s, e)
      [] version = 4 -> Provision4(s, e)

\* The unique keys, which raise, and the statuses each version looks at.
KeysHold_EmailOnly(a) == At(a.row.email) \subseteq {a.id}
KeysHold(a) == At(a.row.email) \cup Holder(a.row.subject) \subseteq {a.id}
Usable(version, a) ==
    a.row.user = "active" /\ (version = 4 => a.row.personal = "active")

Begin(c, s, e) ==
    /\ ~call[c].running
    /\ provision # 0 /\ acl["provision"] # {}
    /\ call' = [call EXCEPT ![c] =
          [running |-> TRUE, version |-> provision, subject |-> s, email |-> e, id |-> None]]
    /\ UNCHANGED <<catalog, users>>
Succeed(c) ==
    /\ call[c].running /\ revision >= 2
    /\ \E a \in Resolved(call[c].version, call[c].subject, call[c].email) :
          /\ KeysHold(a) /\ Usable(call[c].version, a)
          /\ users' = [users EXCEPT ![a.id] = a.row]
          /\ call' = [call EXCEPT ![c] = Idle(a.id)]
    /\ UNCHANGED catalog
\* Refused, not allowlisted, or lost with its connection: nothing is left.
Fail(c) ==
    /\ call[c].running
    /\ call' = [call EXCEPT ![c] = Idle(None)]
    /\ UNCHANGED <<catalog, users>>

Disable(i) ==
    /\ users[i] # None
    /\ \/ users' = [users EXCEPT ![i].user = "disabled"]
       \/ users' = [users EXCEPT ![i].personal = "disabled"]
    /\ UNCHANGED <<catalog, call>>

Next ==
    \/ Upgrade2 \/ Upgrade3 \/ Upgrade4
    \/ Downgrade2 \/ Downgrade3 \/ Downgrade4 \/ Transition \/ ReviewRoles
    \/ \E c \in Calls :
          \/ \E s \in Subjects \cup {None}, e \in Emails : Begin(c, s, e)
          \/ Succeed(c) \/ Fail(c)
    \/ \E i \in Ids : Disable(i)

Spec == Init /\ [][Next]_vars

-----------------------------------------------------------------------------
Running ==
    [running : {TRUE}, version : 2 .. 4, subject : Subjects \cup {None}, email : Emails,
     id : {None}]
Call == Running \cup {Idle(i) : i \in Ids \cup {None}}

TypeOK ==
    /\ revision \in 1 .. 4
    /\ roles \in {{"app", "owner"}, {"app"}}
    /\ owner \in {"app", "owner", "admin"}
    /\ tables \in {"none", "app", "owner", "admin"}
    /\ member \in Membership
    /\ elsewhere \in BOOLEAN
    /\ defaults \in {{}, DML}
    /\ grants \in [Tables -> SUBSET (DML \cup {"update_name"})]
    /\ provision \in {0, 2, 3, 4}
    /\ acl \in [Functions -> SUBSET {"public", "app"}]
    /\ users \in [Ids -> Row \cup {None}]
    /\ call \in [Calls -> Call]

\* One row for an address and one for a subject, across the versions that look rows up
\* by the one or by the other.
OneRowEach ==
    \A i, j \in Ids :
        (/\ users[i] # None /\ users[j] # None
         /\ \/ users[i].email = users[j].email
            \/ users[i].subject # None /\ users[i].subject = users[j].subject) => i = j

Inv == TypeOK /\ OneRowEach

\* Whatever sequence of upgrades, downgrades and owner transitions led to a revision, and
\* whichever roles and owners the database began with, the runtime role holds exactly the
\* privileges 0002 grants (docs/local-verification.md, "Migration 0002 narrows this"): it
\* owns neither the tables nor the database and is no member of the role that does, and
\* from 0003 on a new table gives it nothing.
RuntimeIsNarrow ==
    /\ revision >= 2 =>
          /\ \A t \in Tables : grants[t] = Narrow[t]
          /\ "app" \notin {tables, owner} /\ member = "no"
    /\ revision >= 3 => defaults = {}

\* The functions installed and who may call them depend on the revision and not on
\* the way to it: DROP and CREATE in 0004 must not lose the runtime's EXECUTE, and
\* must not leave PUBLIC's.
SurfaceFollowsRevision ==
    /\ provision = IF revision = 1 THEN 0 ELSE revision
    /\ \A f \in Functions : acl[f] =
          IF revision >= (IF f = "list_memberships" THEN 3 ELSE 2) THEN {"app"} ELSE {}

\* docs/tenant-foundations.md:178: external_id "is written once and never overwritten",
\* by any version of the function, whatever revision it is installed or in flight at.
SubjectIsWrittenOnce ==
    [][\A i \in Ids : users[i] # None /\ users'[i] # None /\ users[i].subject # None =>
          users'[i].subject = users[i].subject]_vars

\* 0003's correction: a subject that is answered with an account is answered with its
\* own, even if the address belonged to somebody else under an earlier revision.
CallersGetTheirOwn ==
    [][\A c \in Calls :
          (call[c].running /\ call[c].version >= 3 /\ call[c].subject # None
             /\ call'[c].id # None) =>
          users'[call'[c].id].subject = call[c].subject]_vars

\* 0004's correction: once no call of an earlier version is in flight, accounts without
\* a subject are neither created nor claimed by provisioning, including those that a
\* downgrade let be created.
Bare(row) == row # None /\ row.subject = None
SubjectlessPathIsClosed ==
    [][(revision = 4 /\ \A c \in Calls : call[c].running => call[c].version = 4) =>
          \A i \in Ids : Bare(users'[i]) <=> Bare(users[i])]_vars
=============================================================================
