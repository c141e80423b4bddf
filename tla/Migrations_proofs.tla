------------------------- MODULE Migrations_proofs -------------------------
(***************************************************************************)
(* Theorems about Migrations, for any number of rows, addresses, subjects and  *)
(* calls.  The catalog and the rows do not disturb each other, so the lemmas   *)
(* treat them apart: Catalog for the revisions, Rows for the calls.           *)
(***************************************************************************)
EXTENDS Migrations, TLAPS

Surface == RuntimeIsNarrow /\ SurfaceFollowsRevision

Ups == Upgrade2 \/ Upgrade3 \/ Upgrade4
Owns == Transition \/ ReviewRoles
Downs == Downgrade2 \/ Downgrade3 \/ Downgrade4
Call_(c) == (\E s \in Subjects \cup {None}, e \in Emails : Begin(c, s, e)) \/ Succeed(c) \/ Fail(c)

\* Every step is of one of these kinds.
LEMMA Steps ==
    Next <=> Ups \/ Downs \/ Owns \/ (\E c \in Calls : Call_(c)) \/ (\E i \in Ids : Disable(i))
BY DEF Next, Ups, Downs, Owns, Call_

CatalogType ==
    /\ revision \in 1 .. 4
    /\ roles \in {{"app", "owner"}, {"app"}}
    /\ owner \in {"app", "owner", "admin"}
    /\ tables \in {"none", "app", "owner", "admin"}
    /\ member \in Membership
    /\ elsewhere \in BOOLEAN
    /\ defaults \in {{}, DML}
    /\ grants \in [Tables -> SUBSET (DML \cup {"update_name"})]
    /\ provision \in {0, 2, 3, 4}
    /\ acl \in [Functions -> SUBSET {"public", "app"}]

\* Whoever can migrate is not the runtime role, which is no member of it either, and
\* what a revision creates is the migrator's.  There are default privileges only where there is
\* the owner role they are given for.
RolesOK ==
    /\ tables # "none" <=> revision >= 2
    /\ tables \in {"none", owner}
    /\ tables # "none" => owner # "app"
    /\ owner # "app" => member = "no"
    /\ defaults # {} => "owner" \in roles

CatalogInv == CatalogType /\ RolesOK /\ Surface

\* The literal sets differ where the definitions need it.
LEMMA Constants ==
    /\ Narrow \in [Tables -> SUBSET (DML \cup {"update_name"})]
    /\ NoGrants \in [Tables -> SUBSET (DML \cup {"update_name"})]
    /\ \A t \in Tables : Narrow[t] \in SUBSET (DML \cup {"update_name"})
    /\ Narrow = [t \in Tables |-> Narrow[t]]
BY DEF Narrow, NoGrants, Tables, DML

LEMMA CatalogInit == Init => CatalogInv
<1> SUFFICES ASSUME Init PROVE CatalogInv
  OBVIOUS
<1>1. CatalogType
  <2>1. defaults \in {{}, DML} /\ roles \in {{"app", "owner"}, {"app"}}
    BY DEF Init
  <2>2. acl \in [Functions -> SUBSET {"public", "app"}]
    BY DEF Init
  <2>3. grants \in [Tables -> SUBSET (DML \cup {"update_name"})]
    BY Constants DEF Init
  <2>4. revision \in 1 .. 4 /\ provision \in {0, 2, 3, 4}
    BY DEF Init
  <2>5. /\ owner \in {"app", "owner", "admin"} /\ tables \in {"none", "app", "owner", "admin"}
        /\ member \in Membership /\ elsewhere \in BOOLEAN
    BY DEF Init, Membership
  <2> QED
    BY <2>1, <2>2, <2>3, <2>4, <2>5 DEF CatalogType
<1>2. RolesOK
  BY DEF Init, RolesOK
<1>3. Surface
  BY DEF Init, Surface, RuntimeIsNarrow, SurfaceFollowsRevision
<1> QED
  BY <1>1, <1>2, <1>3 DEF CatalogInv

LEMMA UpsKeepCatalog == CatalogInv /\ Ups => CatalogInv'
<1> SUFFICES ASSUME CatalogInv, Ups PROVE CatalogInv'
  OBVIOUS
<1> USE DEF CatalogInv, CatalogType, RolesOK, Surface, RuntimeIsNarrow, SurfaceFollowsRevision
<1>1. CASE Upgrade2
  <2>1. grants' = Narrow
    BY <1>1, Constants DEF Upgrade2, Upgrade2Grants
  <2>2. owner # "app" /\ tables' = owner
    BY <1>1 DEF Upgrade2, CanMigrate
  <2> QED
    BY <1>1, <2>1, <2>2, Constants DEF Upgrade2, NewFunction, Functions
<1>2. CASE Upgrade3
  <2>1. defaults' = {}
    BY <1>2 DEF Upgrade3, DefaultsRevoked
  <2> QED
    BY <1>2, <2>1 DEF Upgrade3, NewFunction, Functions, ownership
<1>3. CASE Upgrade4
  BY <1>3 DEF Upgrade4, NewFunction, Functions, ownership
<1> QED
  BY <1>1, <1>2, <1>3 DEF Ups

LEMMA DownsKeepCatalog == CatalogInv /\ Downs => CatalogInv'
<1> SUFFICES ASSUME CatalogInv, Downs PROVE CatalogInv'
  OBVIOUS
<1> USE DEF CatalogInv, CatalogType, RolesOK, Surface, RuntimeIsNarrow, SurfaceFollowsRevision
<1>1. CASE Downgrade2
  BY <1>1, Constants DEF Downgrade2, CanMigrate, Functions
<1>2. CASE Downgrade3
  <2>1. defaults' \in {{}, DML} /\ (defaults' # {} => "owner" \in roles)
    BY <1>2 DEF Downgrade3
  <2> QED
    BY <1>2, <2>1 DEF Downgrade3, Functions, ownership
<1>3. CASE Downgrade4
  BY <1>3 DEF Downgrade4, NewFunction, Functions, ownership
<1> QED
  BY <1>1, <1>2, <1>3 DEF Downs

\* The transition script runs before any table of 0002 exists, and no review of the
\* roles makes the runtime role a member of the owner role.
LEMMA OwnsKeepCatalog == CatalogInv /\ Owns => CatalogInv'
<1> SUFFICES ASSUME CatalogInv, Owns PROVE CatalogInv'
  OBVIOUS
<1> USE DEF CatalogInv, CatalogType, RolesOK, Surface, RuntimeIsNarrow, SurfaceFollowsRevision
<1>1. CASE Transition
  <2>1. revision = 1 /\ revision' = 1 /\ tables = "none" /\ tables' = "none"
    BY <1>1 DEF Transition, Refused
  <2>2. roles' = {"app", "owner"} /\ owner' = "owner" /\ elsewhere' = elsewhere
    BY <1>1 DEF Transition
  <2>3. member' = "no"
    BY <1>1 DEF Transition, Refused, Membership
  <2>4. grants' \in [Tables -> SUBSET (DML \cup {"update_name"})]
    BY <1>1 DEF Transition
  <2> QED
    BY <1>1, <2>1, <2>2, <2>3, <2>4 DEF Transition, Membership
<1>2. CASE ReviewRoles
  BY <1>2 DEF ReviewRoles, Membership
<1> QED
  BY <1>1, <1>2 DEF Owns

LEMMA OthersKeepCatalog ==
    ASSUME CatalogInv, UNCHANGED catalog PROVE CatalogInv'
BY DEF catalog, ownership, CatalogInv, CatalogType, RolesOK, Surface, RuntimeIsNarrow,
       SurfaceFollowsRevision

LEMMA CallsLeaveCatalog ==
    ((\E c \in Calls : Call_(c)) \/ (\E i \in Ids : Disable(i)) \/ UNCHANGED vars)
        => UNCHANGED catalog
BY DEF Call_, Begin, Succeed, Fail, Disable, vars, catalog

LEMMA CatalogStep == CatalogInv /\ [Next]_vars => CatalogInv'
<1> SUFFICES ASSUME CatalogInv, [Next]_vars PROVE CatalogInv'
  OBVIOUS
<1>1. CASE Ups
  BY <1>1, UpsKeepCatalog
<1>2. CASE Downs
  BY <1>2, DownsKeepCatalog
<1>3. CASE Owns
  BY <1>3, OwnsKeepCatalog
<1>4. CASE (\E c \in Calls : Call_(c)) \/ (\E i \in Ids : Disable(i)) \/ UNCHANGED vars
  BY <1>4, CallsLeaveCatalog, OthersKeepCatalog
<1> QED
  BY <1>1, <1>2, <1>3, <1>4, Steps

-----------------------------------------------------------------------------
\* Rows and calls.
RowsType == users \in [Ids -> Row \cup {None}] /\ call \in [Calls -> Call]
RowsInv == RowsType /\ OneRowEach

LEMMA RowsInit == Init => RowsInv
BY DEF Init, RowsInv, RowsType, OneRowEach, Call

\* Whatever a call resolves to is a row of the table's type.
LEMMA ResolvedType ==
    ASSUME RowsType, NEW version \in 2 .. 4, NEW s \in Subjects \cup {None}, NEW e \in Emails,
           NEW a \in Resolved(version, s, e)
    PROVE  a = Account(a.id, a.row) /\ a.id \in Ids /\ a.row \in Row
<1>1. \/ a \in Moved(s, e) \/ a \in Created(s, e)
      \/ \E I \in SUBSET At(e) : a \in Bound(I, s)
  <2>1. CASE version = 2
    BY <2>1 DEF Resolved, Provision2
  <2>2. CASE version = 3
    BY <2>2 DEF Resolved, Provision3
  <2>3. CASE version = 4
    BY <2>3 DEF Resolved, Provision4
  <2> QED
    BY <2>1, <2>2, <2>3
<1>2. CASE a \in Moved(s, e)
  BY <1>2 DEF Moved, Holder, Account, RowsType, Row
<1>3. CASE a \in Created(s, e)
  BY <1>3 DEF Created, Account, Row
<1>4. CASE \E I \in SUBSET At(e) : a \in Bound(I, s)
  <2>1. PICK i \in At(e) :
           a = Account(i, [users[i] EXCEPT !.subject = IF @ = None THEN s ELSE @])
    BY <1>4 DEF Bound
  <2> QED
    BY <2>1 DEF At, Account, RowsType, Row
<1> QED
  BY <1>1, <1>2, <1>3, <1>4

LEMMA RunningCall ==
    ASSUME RowsType, NEW c \in Calls, call[c].running PROVE call[c] \in Running
<1>1. call[c] \in Running \/ \E i \in Ids \cup {None} : call[c] = Idle(i)
  BY DEF RowsType, Call
<1>2. \A i \in Ids \cup {None} : ~Idle(i).running
  BY DEF Idle
<1> QED
  BY <1>1, <1>2

LEMMA SucceedKeepsRows ==
    ASSUME RowsInv, NEW c \in Calls, Succeed(c) PROVE RowsInv'
<1>1. /\ call[c].version \in 2 .. 4 /\ call[c].email \in Emails
      /\ call[c].subject \in Subjects \cup {None}
  BY RunningCall DEF Succeed, RowsInv, Running
<1>2. PICK a \in Resolved(call[c].version, call[c].subject, call[c].email) :
         /\ KeysHold(a) /\ users' = [users EXCEPT ![a.id] = a.row]
         /\ call' = [call EXCEPT ![c] = Idle(a.id)]
  BY DEF Succeed
<1>3. a.id \in Ids /\ a.row \in Row
  BY <1>1, <1>2, ResolvedType DEF RowsInv
<1>4. RowsType'
  BY <1>2, <1>3 DEF RowsInv, RowsType, Call
<1>5. OneRowEach'
  <2> SUFFICES ASSUME NEW i \in Ids, NEW j \in Ids, users'[i] # None, users'[j] # None,
                      \/ users'[i].email = users'[j].email
                      \/ users'[i].subject # None /\ users'[i].subject = users'[j].subject
               PROVE  i = j
    BY DEF OneRowEach
  <2> DEFINE Clash(r, q) == r.email = q.email \/ (r.subject # None /\ r.subject = q.subject)
  <2>1. \A k \in Ids : k # a.id => users'[k] = users[k]
    BY <1>2, <1>3 DEF RowsInv, RowsType
  <2>2. users'[a.id] = a.row
    BY <1>2, <1>3 DEF RowsInv, RowsType
  <2>3. ASSUME NEW k \in Ids, users[k] # None, Clash(users[k], a.row) PROVE k = a.id
    <3>1. k \in At(a.row.email) \/ k \in Holder(a.row.subject)
      BY <2>3 DEF At, Holder
    <3> QED
      BY <1>2, <3>1 DEF KeysHold
  <2>4. Clash(users'[i], users'[j])
    OBVIOUS
  <2>5. CASE i # a.id /\ j # a.id
    BY <2>1, <2>4, <2>5 DEF RowsInv, OneRowEach
  <2>6. ASSUME i = a.id, j # a.id PROVE FALSE
    <3>1. Clash(users[j], a.row)
      BY <2>1, <2>2, <2>4, <2>6
    <3> QED
      BY <2>1, <2>3, <2>6, <3>1
  <2>7. ASSUME j = a.id, i # a.id PROVE FALSE
    <3>1. Clash(users[i], a.row)
      BY <2>1, <2>2, <2>4, <2>7
    <3> QED
      BY <2>1, <2>3, <2>7, <3>1
  <2> QED
    BY <2>5, <2>6, <2>7
<1> QED
  BY <1>4, <1>5 DEF RowsInv

LEMMA RowsStep == RowsInv /\ CatalogInv /\ [Next]_vars => RowsInv'
<1> SUFFICES ASSUME RowsInv, CatalogInv, [Next]_vars PROVE RowsInv'
  OBVIOUS
<1> USE DEF RowsInv, RowsType, OneRowEach
<1>1. ASSUME NEW c \in Calls, NEW s \in Subjects \cup {None}, NEW e \in Emails, Begin(c, s, e)
      PROVE  RowsInv'
  <2>1. provision \in 2 .. 4
    BY <1>1 DEF Begin, CatalogInv, CatalogType
  <2> QED
    <3>1. call'[c] \in Running
      BY <1>1, <2>1 DEF Begin, Running
    <3>2. call' \in [Calls -> Call]
      BY <1>1, <3>1 DEF Begin, Call
    <3> QED
      BY <1>1, <3>2 DEF Begin
<1>2. ASSUME NEW c \in Calls, Succeed(c) PROVE RowsInv'
  BY <1>2, SucceedKeepsRows
<1>3. ASSUME NEW c \in Calls, Fail(c) PROVE RowsInv'
  BY <1>3 DEF Fail, Call
<1>4. ASSUME NEW i \in Ids, Disable(i) PROVE RowsInv'
  <2>1. users[i] \in Row
    BY <1>4 DEF Disable
  <2>2. users' \in [Ids -> Row \cup {None}]
    BY <1>4, <2>1 DEF Disable, Row
  <2>3. \A j \in Ids : /\ users'[j] = None <=> users[j] = None
                       /\ users[j] # None => /\ users'[j].email = users[j].email
                                             /\ users'[j].subject = users[j].subject
    BY <1>4, <2>1, MigrationsAssumption DEF Disable, Row
  <2>4. OneRowEach'
    BY <2>3 DEF OneRowEach
  <2> QED
    BY <1>4, <2>2, <2>4 DEF Disable
<1>5. CASE Downgrade2
  BY <1>5 DEF Downgrade2
<1>6. CASE UNCHANGED <<users, call>>
  BY <1>6
<1>7. Ups \/ Owns \/ Downgrade3 \/ Downgrade4 \/ UNCHANGED vars => UNCHANGED <<users, call>>
  BY DEF Ups, Owns, Transition, ReviewRoles, Upgrade2, Upgrade3, Upgrade4, Downgrade3,
           Downgrade4, vars
<1> QED
  BY <1>1, <1>2, <1>3, <1>4, <1>5, <1>6, <1>7, Steps DEF Call_, Downs

-----------------------------------------------------------------------------
\* Types and unique keys hold through all revisions.
THEOREM Invariance == Spec => [](Inv /\ CatalogInv)
<1>1. Init => RowsInv /\ CatalogInv
  BY RowsInit, CatalogInit
<1>2. RowsInv /\ CatalogInv /\ [Next]_vars => (RowsInv /\ CatalogInv)'
  BY RowsStep, CatalogStep
<1>3. RowsInv /\ CatalogInv => Inv /\ CatalogInv
  BY DEF RowsInv, RowsType, CatalogInv, CatalogType, Inv, TypeOK
<1> QED
  BY <1>1, <1>2, <1>3, PTL DEF Spec

\* The privileges of the runtime role are those of 0002, and it owns nothing of it, whatever
\* way led to a revision and whatever roles and owners the database began with.
THEOREM NarrowForever == Spec => []RuntimeIsNarrow
<1>1. CatalogInv => RuntimeIsNarrow
  BY DEF CatalogInv, Surface
<1> QED
  BY <1>1, Invariance, PTL

\* The installed functions and their callers depend on the revision alone.
THEOREM PathIndependence == Spec => []SurfaceFollowsRevision
<1>1. CatalogInv => SurfaceFollowsRevision
  BY DEF CatalogInv, Surface
<1> QED
  BY <1>1, Invariance, PTL

\* A binding is written once, by any version of the function.
THEOREM WrittenOnce == Spec => SubjectIsWrittenOnce
<1> DEFINE Once == \A i \in Ids : users[i] # None /\ users'[i] # None /\ users[i].subject # None =>
                      users'[i].subject = users[i].subject
<1>1. Inv /\ [Next]_vars => Once
  <2> SUFFICES ASSUME Inv, [Next]_vars,
                      NEW i \in Ids, users[i] # None, users'[i] # None, users[i].subject # None
               PROVE  users'[i].subject = users[i].subject
    OBVIOUS
  <2>0. RowsType
    BY DEF Inv, TypeOK, RowsType
  <2>1. ASSUME NEW c \in Calls, Succeed(c) PROVE users'[i].subject = users[i].subject
    <3>1. /\ call[c].version \in 2 .. 4
          /\ call[c].subject \in Subjects \cup {None} /\ call[c].email \in Emails
      BY <2>0, <2>1, RunningCall DEF Succeed, Running
    <3>2. PICK a \in Resolved(call[c].version, call[c].subject, call[c].email) :
             users' = [users EXCEPT ![a.id] = a.row]
      BY <2>1 DEF Succeed
    <3>3. a.id \in Ids
      BY <2>0, <3>1, <3>2, ResolvedType
    <3>4. CASE a.id # i
      BY <2>0, <3>2, <3>3, <3>4 DEF RowsType
    <3>5. CASE a.id = i
      <4> DEFINE s == call[c].subject
                 e == call[c].email
      <4>1. users'[i] = a.row
        BY <2>0, <3>2, <3>5 DEF RowsType
      <4>2. CASE a \in Moved(s, e)
        BY <2>0, <3>5, <4>1, <4>2 DEF Moved, Account, RowsType, Row
      <4>3. CASE a \in Created(s, e)
        BY <3>5, <4>3 DEF Created, Account
      <4>4. CASE \E I \in SUBSET At(e) : a \in Bound(I, s)
        BY <2>0, <3>5, <4>1, <4>4 DEF Bound, At, Account, RowsType, Row
      <4>5. \/ a \in Moved(s, e) \/ a \in Created(s, e)
            \/ \E I \in SUBSET At(e) : a \in Bound(I, s)
        <5>1. CASE call[c].version = 2
          BY <3>2, <5>1 DEF Resolved, Provision2
        <5>2. CASE call[c].version = 3
          BY <3>2, <5>2 DEF Resolved, Provision3
        <5>3. CASE call[c].version = 4
          BY <3>2, <5>3 DEF Resolved, Provision4
        <5> QED
          BY <3>1, <5>1, <5>2, <5>3
      <4> QED
        BY <4>2, <4>3, <4>4, <4>5
    <3> QED
      BY <3>4, <3>5
  <2>2. ASSUME NEW j \in Ids, Disable(j) PROVE users'[i].subject = users[i].subject
    BY <2>0, <2>2 DEF Disable, RowsType, Row
  <2>3. CASE Downgrade2
    BY <2>3 DEF Downgrade2
  <2>4. CASE UNCHANGED users
    BY <2>4
  <2>5. ASSUME NEW c \in Calls, Call_(c), ~Succeed(c) PROVE UNCHANGED users
    BY <2>5 DEF Call_, Begin, Fail
  <2>6. Ups \/ Owns \/ Downgrade3 \/ Downgrade4 \/ UNCHANGED vars => UNCHANGED users
    BY DEF Ups, Owns, Transition, ReviewRoles, Upgrade2, Upgrade3, Upgrade4, Downgrade3,
           Downgrade4, vars
  <2> QED
    BY <2>1, <2>2, <2>3, <2>4, <2>5, <2>6, Steps DEF Downs
<1> QED
  BY <1>1, Invariance, PTL DEF Spec, SubjectIsWrittenOnce

-----------------------------------------------------------------------------
\* 0003 on: an account a subject is answered with carries that subject.
LEMMA ResolvedIsOwn ==
    ASSUME RowsType, NEW version \in {3, 4}, NEW s \in Subjects, NEW e \in Emails, s # None,
           NEW a \in Resolved(version, s, e)
    PROVE  a.row.subject = s
<1>1. CASE a \in Moved(s, e)
  BY <1>1 DEF Moved, Holder, Account, RowsType, Row
<1>2. CASE a \in Created(s, e)
  BY <1>2 DEF Created, Account
<1>3. CASE a \in Bound({i \in At(e) : s = None \/ users[i].subject = None}, s)
  BY <1>3 DEF Bound, At, Account, RowsType, Row
<1> QED
  BY <1>1, <1>2, <1>3 DEF Resolved, Provision3, Provision4

\* From 0003 on a call that names its subject is answered with that subject's account.
THEOREM OwnAccount == Spec => CallersGetTheirOwn
<1> DEFINE Own ==
      \A c \in Calls :
          (call[c].running /\ call[c].version >= 3 /\ call[c].subject # None
             /\ call'[c].id # None) =>
          users'[call'[c].id].subject = call[c].subject
<1>1. Inv /\ [Next]_vars => Own
  <2> SUFFICES ASSUME Inv, [Next]_vars, NEW c \in Calls, call[c].running, call[c].version >= 3,
                      call[c].subject # None, call'[c].id # None
               PROVE  users'[call'[c].id].subject = call[c].subject
    OBVIOUS
  <2>0. RowsType
    BY DEF Inv, TypeOK, RowsType
  <2>1. call[c] \in Running
    BY <2>0, RunningCall
  <2>9. \A i \in Ids \cup {None} : Idle(i).id = i
    BY DEF Idle
  <2>2. CASE Succeed(c)
    <3>1. PICK a \in Resolved(call[c].version, call[c].subject, call[c].email) :
             users' = [users EXCEPT ![a.id] = a.row] /\ call' = [call EXCEPT ![c] = Idle(a.id)]
      BY <2>2 DEF Succeed
    <3>0. call[c].version \in 2 .. 4 /\ call[c].subject \in Subjects /\ call[c].email \in Emails
      BY <2>1 DEF Running
    <3>2. call[c].version \in {3, 4}
      BY <3>0
    <3>3. a.id \in Ids /\ a.row.subject = call[c].subject
      BY <2>0, <3>0, <3>1, <3>2, ResolvedType, ResolvedIsOwn
    <3>4. call'[c] = Idle(a.id) /\ users'[a.id] = a.row
      BY <2>0, <3>1, <3>3 DEF RowsType
    <3>5. call'[c].id = a.id
      BY <2>9, <3>3, <3>4
    <3> QED
      BY <3>3, <3>4, <3>5
  <2>3. CASE Fail(c)
    BY <2>0, <2>3 DEF Fail, Idle, RowsType
  <2>4. CASE call'[c] = call[c]
    BY <2>1, <2>4 DEF Running
  <2>5. ASSUME NEW d \in Calls, d # c, Call_(d) PROVE call'[c] = call[c]
    BY <2>0, <2>5 DEF Call_, Begin, Succeed, Fail, RowsType
  <2>6. ~(\E s \in Subjects \cup {None}, e \in Emails : Begin(c, s, e))
    BY DEF Begin
  <2>7. Ups \/ Downs \/ Owns \/ (\E i \in Ids : Disable(i)) \/ UNCHANGED vars
           => call' = call
    BY DEF Ups, Downs, Owns, Transition, ReviewRoles, Upgrade2, Upgrade3, Upgrade4,
           Downgrade2, Downgrade3, Downgrade4, Disable, vars
  <2> QED
    BY <2>2, <2>3, <2>4, <2>5, <2>6, <2>7, Steps DEF Call_
<1> QED
  BY <1>1, Invariance, PTL DEF Spec, CallersGetTheirOwn

\* With no call of an earlier version in flight, 0004 neither makes nor claims a row
\* without a subject.
THEOREM Closed == Spec => SubjectlessPathIsClosed
<1> DEFINE Shut ==
      (revision = 4 /\ \A c \in Calls : call[c].running => call[c].version = 4) =>
          \A i \in Ids : Bare(users'[i]) <=> Bare(users[i])
<1>1. Inv /\ [Next]_vars => Shut
  <2> SUFFICES ASSUME Inv, [Next]_vars, revision = 4, NEW i \in Ids,
                      \A c \in Calls : call[c].running => call[c].version = 4
               PROVE  Bare(users'[i]) <=> Bare(users[i])
    OBVIOUS
  <2>0. RowsType
    BY DEF Inv, TypeOK, RowsType
  <2>1. ASSUME NEW c \in Calls, Succeed(c) PROVE Bare(users'[i]) <=> Bare(users[i])
    <3> DEFINE s == call[c].subject
               e == call[c].email
    <3>1. call[c] \in Running /\ call[c].version = 4
      BY <2>0, <2>1, RunningCall DEF Succeed
    <3>2. s \in Subjects \cup {None} /\ e \in Emails
      BY <3>1 DEF Running
    <3>3. PICK a \in Provision4(s, e) : users' = [users EXCEPT ![a.id] = a.row]
      <4>1. Resolved(call[c].version, s, e) = Provision4(s, e)
        BY <3>1 DEF Resolved
      <4> QED
        BY <2>1, <4>1 DEF Succeed
    <3>4. s # None /\ (a \in Moved(s, e) \/ a \in Created(s, e))
      BY <3>3 DEF Provision4
    <3>5. a.id \in Ids /\ a.row \in Row
      BY <2>0, <3>1, <3>2, <3>3, ResolvedType DEF Resolved
    <3>6. a.row.subject = s
      <4>1. CASE a \in Moved(s, e)
        BY <2>0, <4>1 DEF Moved, Holder, Account, RowsType, Row
      <4>2. CASE a \in Created(s, e)
        BY <4>2 DEF Created, Account
      <4> QED
        BY <3>4, <4>1, <4>2
    <3>7. ~Bare(users[a.id])
      <4>1. CASE a \in Moved(s, e)
        BY <3>4, <4>1 DEF Moved, Holder, Account, Bare
      <4>2. CASE a \in Created(s, e)
        BY <4>2 DEF Created, Account, Bare
      <4> QED
        BY <3>4, <4>1, <4>2
    <3>8. users'[i] = IF i = a.id THEN a.row ELSE users[i]
      BY <2>0, <3>3, <3>5 DEF RowsType
    <3>9. ~Bare(a.row)
      BY <3>4, <3>6 DEF Bare
    <3> QED
      BY <3>7, <3>8, <3>9
  <2>2. ASSUME NEW j \in Ids, Disable(j) PROVE Bare(users'[i]) <=> Bare(users[i])
    <3>1. users[j] \in Row
      BY <2>0, <2>2 DEF Disable, RowsType
    <3>2. users'[i] # None <=> users[i] # None
      BY <2>0, <2>2, <3>1, MigrationsAssumption DEF Disable, RowsType, Row
    <3>3. users[i] # None => users'[i].subject = users[i].subject
      BY <2>0, <2>2 DEF Disable, RowsType, Row
    <3> QED
      BY <3>2, <3>3 DEF Bare
  <2>3. ASSUME NEW c \in Calls, Call_(c), ~Succeed(c) PROVE UNCHANGED users
    BY <2>3 DEF Call_, Begin, Fail
  <2>4. Ups \/ Downs \/ Owns \/ UNCHANGED vars => UNCHANGED users
    BY DEF Ups, Downs, Owns, Transition, ReviewRoles, Upgrade2, Upgrade3, Upgrade4,
           Downgrade2, Downgrade3, Downgrade4, vars
  <2> QED
    BY <2>1, <2>2, <2>3, <2>4, Steps
<1> QED
  BY <1>1, Invariance, PTL DEF Spec, SubjectlessPathIsClosed
=============================================================================
