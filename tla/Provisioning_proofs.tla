------------------------ MODULE Provisioning_proofs ------------------------
(***************************************************************************)
(* Inv is an inductive invariant of Provisioning, for any number of calls,   *)
(* rows, addresses and subjects, and what follows from it.                   *)
(*                                                                          *)
(* Most actions either end a call without a trace (Raise) or let it go on    *)
(* with another private state (Go); one lemma for each says what such a step *)
(* must show.                                                               *)
(***************************************************************************)
EXTENDS Provisioning, TLAPS

LEMMA NoneIsNothing ==
    /\ None \notin Calls /\ None \notin UserIds /\ None \notin Emails
    /\ None \notin Subjects /\ None \notin Status
    /\ None \notin UserRow /\ None \notin Draft
    /\ LegacyIds \subseteq UserIds
BY ProvisioningAssumption

LEMMA NoTxnType == NoTxn \in Txn
BY DEF NoTxn, Txn, Status

LEMMA InitInv == Init => Inv
<1> SUFFICES ASSUME Init PROVE Inv
  OBVIOUS
<1> USE DEF Init
<1>1. TypeOK
  <2>1. txn \in [Calls -> Txn]
    BY NoTxnType
  <2>2. result \in [Calls -> Result]
    BY DEF Result, Ended, Outcome
  <2>3. /\ users \in [UserIds -> UserRow \cup {None}]
        /\ tenants \in [UserIds -> Status \cup {None}]
        /\ members \in [UserIds -> Status \cup {None}]
    BY DEF Status
  <2>4. QED
    BY <2>1, <2>2, <2>3 DEF TypeOK, PC
<1>2. \A c \in Calls : txn[c].held = None /\ txn[c].draft = None
  BY DEF NoTxn
<1>3. LocksExclusive
  BY <1>2 DEF LocksExclusive
<1>4. \A u \in UserIds : users[u] # None => u \in LegacyIds /\ users[u].subject = None
  BY NoneIsNothing
<1>5. KeysOK
  BY <1>2, <1>4 DEF KeysOK
<1>6. AccountsOK
  BY <1>4, NoneIsNothing DEF AccountsOK, CompleteAccounts, ApprovedAddresses
<1>7. ASSUME NEW c \in Calls PROVE CallOK(c) /\ ResultOK(c)
  BY <1>2, <1>7 DEF CallOK, ResultOK, Running, Holding, Written, Ended
<1>8. QED
  BY <1>1, <1>3, <1>5, <1>6, <1>7 DEF Inv
-----------------------------------------------------------------------------
\* A step in which call c rolls back preserves the invariant.
LEMMA RaiseInv ==
    ASSUME Inv, NEW c \in Calls, pc[c] \in Running,
           NEW code \in Outcome \ {"ok"}, NEW u \in UserIds \cup {None},
           Raise(c, code, u)
    PROVE  Inv'
<1> USE DEF Raise, committed
<1>1. /\ pc' = [pc EXCEPT ![c] = "done"]
      /\ txn' = [txn EXCEPT ![c] = NoTxn]
      /\ result' = [result EXCEPT ![c] = Ended(code, u, FALSE)]
      /\ users' = users /\ tenants' = tenants /\ members' = members
      /\ allowlist' = allowlist /\ approved' = approved /\ args' = args
  OBVIOUS
<1>2. TypeOK'
  BY <1>1, NoTxnType DEF Inv, TypeOK, PC, Result, Ended
<1>3. \A d \in Calls : txn'[d] = IF d = c THEN NoTxn ELSE txn[d]
  BY <1>1 DEF Inv, TypeOK
<1>4. NoTxn.held = None /\ NoTxn.draft = None
  BY DEF NoTxn
<1>5. LocksExclusive'
  BY <1>3, <1>4 DEF Inv, LocksExclusive
<1>6. KeysOK'
  BY <1>1, <1>3, <1>4 DEF Inv, KeysOK
<1>7. AccountsOK'
  BY <1>1 DEF Inv, AccountsOK, CompleteAccounts, ApprovedAddresses
<1>8. ASSUME NEW d \in Calls PROVE CallOK(d)' /\ ResultOK(d)'
  <2>1. CASE d = c
    <3>1. pc'[d] = "done" /\ txn'[d] = NoTxn /\ result'[d] = Ended(code, u, FALSE)
      BY <1>1, <2>1 DEF Inv, TypeOK
    <3>2. QED
      BY <3>1, <1>4 DEF CallOK, ResultOK, Running, Holding, Written, Ended
  <2>2. CASE d # c
    <3>1. pc'[d] = pc[d] /\ txn'[d] = txn[d] /\ result'[d] = result[d]
      BY <1>1, <2>2 DEF Inv, TypeOK
    <3>2. CallOK(d) /\ ResultOK(d)
      BY DEF Inv
    <3>3. CallOK(d)'
      BY <3>1, <3>2, <1>1 DEF CallOK
    <3>4. ResultOK(d)'
      BY <3>1, <3>2, <1>1 DEF ResultOK
    <3>5. QED
      BY <3>3, <3>4
  <2>3. QED
    BY <2>1, <2>2
<1>9. QED
  BY <1>2, <1>5, <1>6, <1>7, <1>8 DEF Inv

\* A step in which call c goes on preserves the invariant if the row it holds is
\* nobody else's, what it writes clashes with no row committed or in flight, and
\* it knows what it should know.
LEMMA GoInv ==
    ASSUME Inv, NEW c \in Calls, pc[c] \in Running,
           NEW next \in Running, NEW t \in Txn, Go(c, next, t),
           t.held # None => \A d \in Calls \ {c} : txn[d].held # t.held,
           t.draft # None =>
             \A v \in UserIds : users[v] # None /\ v # t.draft.id =>
                t.draft.row.email # users[v].email /\ t.draft.row.subject # users[v].subject,
           t.draft # None =>
             \A d \in Calls \ {c} : txn[d].draft # None =>
                /\ t.draft.row.email # txn[d].draft.row.email
                /\ t.draft.row.subject # txn[d].draft.row.subject,
           CallOK(c)'
    PROVE  Inv'
<1>1. /\ pc' = [pc EXCEPT ![c] = next]
      /\ txn' = [txn EXCEPT ![c] = t]
      /\ users' = users /\ tenants' = tenants /\ members' = members
      /\ allowlist' = allowlist /\ approved' = approved
      /\ args' = args /\ result' = result
  BY DEF Go, committed
<1>2. TypeOK'
  BY <1>1 DEF Inv, TypeOK, PC
<1>3. \A d \in Calls : txn'[d] = IF d = c THEN t ELSE txn[d]
  BY <1>1 DEF Inv, TypeOK
<1>5. LocksExclusive'
  BY <1>3 DEF Inv, LocksExclusive
<1>6. KeysOK'
  BY <1>1, <1>3 DEF Inv, KeysOK
<1>7. AccountsOK'
  BY <1>1 DEF Inv, AccountsOK, CompleteAccounts, ApprovedAddresses
<1>8. ASSUME NEW d \in Calls PROVE CallOK(d)' /\ ResultOK(d)'
  <2>1. ResultOK(d)'
    <3>1. pc'[d] = pc[d] \/ (d = c /\ pc[d] # "done")
      BY <1>1 DEF Inv, TypeOK, Running
    <3>2. ResultOK(d)
      BY DEF Inv
    <3>3. QED
      BY <3>1, <3>2, <1>1 DEF ResultOK
  <2>2. CASE d = c
    BY <2>1, <2>2
  <2>3. CASE d # c
    <3>1. pc'[d] = pc[d] /\ txn'[d] = txn[d]
      BY <1>1, <2>3 DEF Inv, TypeOK
    <3>2. CallOK(d)
      BY DEF Inv
    <3>3. CallOK(d)'
      BY <3>1, <3>2, <1>1 DEF CallOK
    <3>4. QED
      BY <3>3, <2>1
  <2>4. QED
    BY <2>2, <2>3
<1>9. QED
  BY <1>2, <1>5, <1>6, <1>7, <1>8 DEF Inv
LEMMA GoFacts ==
    ASSUME Inv, NEW c \in Calls, NEW next, NEW t, Go(c, next, t)
    PROVE  /\ pc'[c] = next /\ txn'[c] = t
           /\ users' = users /\ tenants' = tenants /\ members' = members
           /\ approved' = approved /\ args' = args
BY DEF Go, committed, Inv, TypeOK

\* A step in which call c keeps its row and writes no row version.
LEMMA GoSame ==
    ASSUME Inv, NEW c \in Calls, pc[c] \in Running,
           NEW next \in Running, NEW t \in Txn, Go(c, next, t),
           t.held = txn[c].held, t.draft = txn[c].draft, CallOK(c)'
    PROVE  Inv'
<1>1. t.held # None => \A d \in Calls \ {c} : txn[d].held # t.held
  BY DEF Inv, LocksExclusive
<1>2. t.draft # None =>
        \A v \in UserIds : users[v] # None /\ v # t.draft.id =>
           t.draft.row.email # users[v].email /\ t.draft.row.subject # users[v].subject
  BY DEF Inv, KeysOK
<1>3. t.draft # None =>
        \A d \in Calls \ {c} : txn[d].draft # None =>
           /\ t.draft.row.email # txn[d].draft.row.email
           /\ t.draft.row.subject # txn[d].draft.row.subject
  BY DEF Inv, KeysOK
<1>4. QED
  BY <1>1, <1>2, <1>3, GoInv

\* A step in which call c takes the lock of a free committed row with its subject.
LEMMA GoTake ==
    ASSUME Inv, NEW c \in Calls, NEW u \in UserIds, NEW next \in {"tenant", "emailFree"},
           pc[c] \in {"bySubject", "lockReread"}, RowFree(u), users[u] # None,
           users[u].subject = args[c].subject,
           next = "tenant" => users[u].email = args[c].email,
           Go(c, next, [txn[c] EXCEPT !.target = None, !.held = u, !.status = users[u].status])
    PROVE  Inv'
<1> DEFINE t == [txn[c] EXCEPT !.target = None, !.held = u, !.status = users[u].status]
<1>1. txn[c] \in Txn /\ users[u] \in UserRow
  BY DEF Inv, TypeOK
<1>2. txn[c].draft = None /\ pc[c] \in Running /\ next \in Running
  BY DEF Inv, CallOK, Running, Written
<1>3. t \in Txn /\ t.held = u /\ t.draft = None /\ t.status = users[u].status
  BY <1>1, <1>2 DEF Txn, UserRow
<1>4. \A d \in Calls \ {c} : txn[d].held # t.held
  BY <1>3 DEF RowFree
<1>5. CallOK(c)'
  <2>1. CallOK(c)
    BY DEF Inv
  <2> HIDE DEF t
  <2>2. /\ pc'[c] = next /\ txn'[c] = t
        /\ users' = users /\ tenants' = tenants /\ members' = members
        /\ approved' = approved /\ args' = args
    BY GoFacts DEF t
  <2>3. QED
    BY <2>1, <2>2, <1>2, <1>3, NoneIsNothing DEF CallOK, Holding, Written, Running
<1> HIDE DEF t
<1>6. Go(c, next, t)
  BY DEF t
<1>7. QED
  BY <1>2, <1>3, <1>4, <1>5, <1>6, GoInv
-----------------------------------------------------------------------------
LEMMA BeginInv ==
    ASSUME Inv, NEW c \in Calls, NEW e \in Emails \cup {None},
           NEW s \in Subjects \cup {None}, Begin(c, e, s)
    PROVE  Inv'
<1>1. PICK next \in {"bySubject", "done"}, r \in Result :
        /\ pc' = [pc EXCEPT ![c] = next]
        /\ result' = [result EXCEPT ![c] = r]
        /\ r.outcome # "ok" /\ r.created = FALSE
        /\ next = "bySubject" => e # None /\ s # None /\ e \in allowlist
  <2>1. ASSUME NEW code \in {"invalid", "signup_not_allowed"}
        PROVE  /\ Ended(code, None, FALSE) \in Result
               /\ Ended(code, None, FALSE).outcome # "ok"
               /\ Ended(code, None, FALSE).created = FALSE
    BY DEF Ended, Result, Outcome
  <2>2. /\ result[c] \in Result /\ result[c].outcome # "ok"
        /\ result[c].created = FALSE
        /\ result = [result EXCEPT ![c] = result[c]]
    BY DEF Inv, TypeOK, ResultOK, Begin, Result
  <2>3. QED
    BY <2>1, <2>2 DEF Begin
<1>2. /\ pc[c] = "idle" /\ txn' = txn
      /\ args' = [args EXCEPT ![c] = [email |-> e, subject |-> s]]
      /\ users' = users /\ tenants' = tenants /\ members' = members
      /\ allowlist' = allowlist /\ approved' = approved
  BY DEF Begin, committed
<1>3. TypeOK'
  BY <1>1, <1>2 DEF Inv, TypeOK, PC, Running
<1>4. LocksExclusive' /\ KeysOK' /\ AccountsOK'
  BY <1>2 DEF Inv, LocksExclusive, KeysOK, AccountsOK, CompleteAccounts, ApprovedAddresses
<1>5. ASSUME NEW d \in Calls PROVE CallOK(d)' /\ ResultOK(d)'
  <2>1. CallOK(d) /\ ResultOK(d)
    BY DEF Inv
  <2>2. CASE d = c
    <3>1. pc'[c] = next /\ result'[c] = r /\ args'[c].email = e /\ args'[c].subject = s
      BY <1>1, <1>2 DEF Inv, TypeOK
    <3>2. txn[c].held = None /\ txn[c].draft = None
      BY <1>2, <2>1, <2>2 DEF CallOK, Holding, Written
    <3>3. next = "bySubject" => e \in approved
      BY <1>1 DEF Inv, AccountsOK
    <3>4. ResultOK(c)'
      BY <1>1, <3>1 DEF ResultOK
    <3>5. next \in Running => next = "bySubject"
      BY DEF Running
    <3>6. next \notin Holding \cup Written \cup {"lockByEmail", "lockReread"}
      BY DEF Holding, Written
    <3>7. CallOK(c)'
      BY <1>1, <1>2, <3>1, <3>2, <3>3, <3>5, <3>6 DEF CallOK, Written
    <3>8. QED
      BY <2>2, <3>4, <3>7
  <2>3. CASE d # c
    <3>1. pc'[d] = pc[d] /\ result'[d] = result[d] /\ args'[d] = args[d] /\ txn'[d] = txn[d]
      BY <1>1, <1>2, <2>3 DEF Inv, TypeOK
    <3>2. QED
      BY <2>1, <3>1, <1>2 DEF CallOK, ResultOK
  <2>4. QED
    BY <2>2, <2>3
<1>6. QED
  BY <1>3, <1>4, <1>5 DEF Inv
\* The statements that only look, or only fail, or take an existing row.
LEMMA SelectBySubjectInv ==
    ASSUME Inv, NEW c \in Calls, SelectBySubject(c) PROVE Inv'
<1>1. pc[c] = "bySubject" /\ pc[c] \in Running /\ txn[c] \in Txn /\ CallOK(c)
  BY DEF SelectBySubject, Inv, TypeOK, Running
<1>2. CASE Go(c, "byEmail", txn[c])
  <2>1. CallOK(c)'
    BY <1>1, <1>2, GoFacts DEF CallOK, Running, Holding, Written
  <2>2. QED
    BY <1>1, <1>2, <2>1, GoSame DEF Running
<1>3. ASSUME NEW u \in WithSubject(args[c].subject), RowFree(u),
             Go(c, IF users[u].email = args[c].email THEN "tenant" ELSE "emailFree",
                [txn[c] EXCEPT !.target = None, !.held = u, !.status = users[u].status])
      PROVE  Inv'
  <2>1. u \in UserIds /\ users[u] # None /\ users[u].subject = args[c].subject
    BY <1>3 DEF WithSubject
  <2>2. CASE users[u].email = args[c].email
    BY <1>1, <1>3, <2>1, <2>2, GoTake
  <2>3. CASE users[u].email # args[c].email
    BY <1>1, <1>3, <2>1, <2>3, GoTake
  <2>4. QED
    BY <2>2, <2>3
<1>4. QED
  BY <1>2, <1>3 DEF SelectBySubject

LEMMA EmailFreeInv ==
    ASSUME Inv, NEW c \in Calls, EmailFree(c) PROVE Inv'
<1>1. pc[c] = "emailFree" /\ pc[c] \in Running /\ txn[c] \in Txn /\ CallOK(c)
  BY DEF EmailFree, Inv, TypeOK, Running
<1>2. CASE Go(c, "move", txn[c])
  <2>1. CallOK(c)'
    BY <1>1, <1>2, GoFacts DEF CallOK, Running, Holding, Written
  <2>2. QED
    BY <1>1, <1>2, <2>1, GoSame DEF Running
<1>3. ASSUME NEW u \in UserIds, Raise(c, "email_conflict", u) PROVE Inv'
  BY <1>1, <1>3, RaiseInv DEF Outcome
<1>4. QED
  BY <1>2, <1>3 DEF EmailFree, WithEmail

LEMMA SelectByEmailInv ==
    ASSUME Inv, NEW c \in Calls, SelectByEmail(c) PROVE Inv'
<1>1. pc[c] = "byEmail" /\ pc[c] \in Running /\ txn[c] \in Txn /\ CallOK(c)
  BY DEF SelectByEmail, Inv, TypeOK, Running
<1>2. CASE Go(c, "insert", txn[c])
  <2>1. CallOK(c)'
    BY <1>1, <1>2, GoFacts DEF CallOK, Running, Holding, Written
  <2>2. QED
    BY <1>1, <1>2, <2>1, GoSame DEF Running
<1>3. ASSUME NEW u \in UserIds, users[u] # None,
             Go(c, "lockByEmail", [txn[c] EXCEPT !.target = u])
      PROVE  Inv'
  <2> DEFINE t == [txn[c] EXCEPT !.target = u]
  <2>1. /\ t \in Txn /\ t.held = txn[c].held /\ t.draft = txn[c].draft
        /\ t.target = u /\ t.target # None
    BY <1>1, NoneIsNothing DEF Txn
  <2> HIDE DEF t
  <2>2. Go(c, "lockByEmail", t)
    BY <1>3 DEF t
  <2>3. CallOK(c)'
    BY <1>1, <1>3, <2>1, <2>2, GoFacts DEF CallOK, Running, Holding, Written
  <2>4. QED
    BY <1>1, <2>1, <2>2, <2>3, GoSame DEF Running
<1>4. QED
  BY <1>2, <1>3 DEF SelectByEmail, WithEmail

LEMMA LockByEmailInv ==
    ASSUME Inv, NEW c \in Calls, LockByEmail(c) PROVE Inv'
<1>1. pc[c] = "lockByEmail" /\ pc[c] \in Running /\ txn[c] \in Txn /\ CallOK(c)
  BY DEF LockByEmail, Inv, TypeOK, Running
<1>2. CASE Go(c, "insert", [txn[c] EXCEPT !.target = None])
  <2> DEFINE t == [txn[c] EXCEPT !.target = None]
  <2>1. t \in Txn /\ t.held = txn[c].held /\ t.draft = txn[c].draft
    BY <1>1 DEF Txn
  <2> HIDE DEF t
  <2>2. Go(c, "insert", t)
    BY <1>2 DEF t
  <2>3. CallOK(c)'
    BY <1>1, <2>1, <2>2, GoFacts DEF CallOK, Running, Holding, Written
  <2>4. QED
    BY <1>1, <2>1, <2>2, <2>3, GoSame DEF Running
<1>3. ASSUME NEW code \in {"binding_required", "subject_conflict"},
             Raise(c, code, txn[c].target)
      PROVE  Inv'
  BY <1>1, <1>3, RaiseInv DEF Outcome, Txn
<1>4. QED
  BY <1>2, <1>3 DEF LockByEmail

LEMMA RereadInv ==
    ASSUME Inv, NEW c \in Calls, Reread(c) PROVE Inv'
<1>1. pc[c] = "reread" /\ pc[c] \in Running /\ txn[c] \in Txn /\ CallOK(c)
  BY DEF Reread, Inv, TypeOK, Running
<1>2. CASE Raise(c, "binding_required", None)
  BY <1>1, <1>2, RaiseInv DEF Outcome
<1>3. ASSUME NEW u \in UserIds, users[u] # None,
             Go(c, "lockReread", [txn[c] EXCEPT !.target = u])
      PROVE  Inv'
  <2> DEFINE t == [txn[c] EXCEPT !.target = u]
  <2>1. /\ t \in Txn /\ t.held = txn[c].held /\ t.draft = txn[c].draft
        /\ t.target = u /\ t.target # None
    BY <1>1, NoneIsNothing DEF Txn
  <2> HIDE DEF t
  <2>2. Go(c, "lockReread", t)
    BY <1>3 DEF t
  <2>3. CallOK(c)'
    BY <1>1, <1>3, <2>1, <2>2, GoFacts DEF CallOK, Running, Holding, Written
  <2>4. QED
    BY <1>1, <2>1, <2>2, <2>3, GoSame DEF Running
<1>4. QED
  BY <1>2, <1>3 DEF Reread, WithEmail

LEMMA LockRereadInv ==
    ASSUME Inv, NEW c \in Calls, LockReread(c) PROVE Inv'
<1> DEFINE u == txn[c].target
<1>1. /\ pc[c] = "lockReread" /\ pc[c] \in Running /\ txn[c] \in Txn /\ CallOK(c)
      /\ RowFree(u)
  BY DEF LockReread, Inv, TypeOK, Running
<1>2. u \in UserIds /\ users[u] # None
  BY <1>1 DEF CallOK, Txn
<1>3. ASSUME NEW code \in {"binding_required", "subject_conflict"},
             NEW v \in {None, u}, Raise(c, code, v)
      PROVE  Inv'
  BY <1>1, <1>2, <1>3, RaiseInv DEF Outcome
<1>4. CASE /\ users[u].email = args[c].email
           /\ users[u].subject = args[c].subject
           /\ Go(c, "tenant", [txn[c] EXCEPT !.target = None, !.held = u,
                                             !.status = users[u].status])
  BY <1>1, <1>2, <1>4, GoTake
<1>5. QED
  BY <1>3, <1>4 DEF LockReread
-----------------------------------------------------------------------------
\* The two statements that write a row version: the waits and the unique checks
\* leave no other row, committed or in flight, with either of its keys.
LEMMA MoveEmailInv ==
    ASSUME Inv, NEW c \in Calls, MoveEmail(c) PROVE Inv'
<1> DEFINE u == txn[c].held
           row == [users[u] EXCEPT !.email = args[c].email]
           t == [txn[c] EXCEPT !.draft = [id |-> u, row |-> row]]
<1>1. /\ pc[c] = "move" /\ pc[c] \in Running /\ txn[c] \in Txn /\ CallOK(c)
      /\ ~EmailBusy(args[c].email)
  BY DEF MoveEmail, Inv, TypeOK, Running
<1>2. /\ u \in UserIds /\ u # None /\ txn[c].draft = None /\ users[u] # None
      /\ users[u].subject = args[c].subject /\ users[u].status = txn[c].status
      /\ args[c].subject # None
  BY <1>1, NoneIsNothing DEF CallOK, Txn, Holding, Written
<1>3. /\ args[c].email \in Emails /\ users[u] \in UserRow
      /\ row \in UserRow /\ row = [email |-> args[c].email, subject |-> args[c].subject,
                                   status |-> txn[c].status]
  BY <1>1, <1>2 DEF Inv, TypeOK, CallOK, UserRow
<1>4. /\ t \in Txn /\ t.held = u /\ t.draft # None /\ t.draft.id = u
      /\ t.draft.row = row /\ t.status = txn[c].status
  BY <1>1, <1>2, <1>3, NoneIsNothing DEF Txn, Draft
<1>5. ASSUME NEW v \in WithEmail(args[c].email) \ {u}, Raise(c, "unique_violation", v)
      PROVE  Inv'
  BY <1>1, <1>5, RaiseInv DEF Outcome, WithEmail
<1>6. ASSUME WithEmail(args[c].email) \ {u} = {}, Go(c, "tenant", t)
      PROVE  Inv'
  <2>1. \A d \in Calls \ {c} : txn[d].held # t.held
    BY <1>2, <1>4 DEF Inv, LocksExclusive
  <2>2. \A v \in UserIds : users[v] # None /\ v # t.draft.id =>
           t.draft.row.email # users[v].email /\ t.draft.row.subject # users[v].subject
    BY <1>2, <1>3, <1>4, <1>6 DEF WithEmail, Inv, KeysOK
  <2>3. \A d \in Calls \ {c} : txn[d].draft # None =>
           /\ t.draft.row.email # txn[d].draft.row.email
           /\ t.draft.row.subject # txn[d].draft.row.subject
    <3>1. SUFFICES ASSUME NEW d \in Calls \ {c}, txn[d].draft # None
                   PROVE  /\ args[c].email # txn[d].draft.row.email
                          /\ args[c].subject # txn[d].draft.row.subject
      BY <1>3, <1>4
    <3>2. args[c].email # txn[d].draft.row.email
      BY <1>1, <3>1 DEF EmailBusy
    <3>3. txn[d].draft.id = txn[d].held /\ txn[d].held # u
      BY <1>4, <2>1, <3>1 DEF Inv, CallOK
    <3>4. users[u].subject # txn[d].draft.row.subject
      BY <1>2, <3>1, <3>3 DEF Inv, KeysOK
    <3>5. QED
      BY <1>2, <3>2, <3>4
  <2>4. CallOK(c)'
    <3> HIDE DEF t
    <3>1. /\ pc'[c] = "tenant" /\ txn'[c] = t
          /\ users' = users /\ tenants' = tenants /\ members' = members
          /\ approved' = approved /\ args' = args
      BY <1>6, GoFacts
    <3> HIDE DEF u, row
    <3>2. QED
      BY <1>1, <1>2, <1>3, <1>4, <3>1 DEF CallOK, Running, Holding, Written
  <2>5. QED
    BY <1>1, <1>4, <1>6, <2>1, <2>2, <2>3, <2>4, GoInv DEF Running
<1>7. QED
  BY <1>5, <1>6 DEF MoveEmail

LEMMA InsertUserInv ==
    ASSUME Inv, NEW c \in Calls, InsertUser(c) PROVE Inv'
<1> DEFINE e == args[c].email
           s == args[c].subject
<1>1. /\ pc[c] = "insert" /\ pc[c] \in Running /\ txn[c] \in Txn /\ CallOK(c)
      /\ ~EmailBusy(e)
  BY DEF InsertUser, Inv, TypeOK, Running
<1>2. /\ txn[c].draft = None /\ e \in Emails /\ s \in Subjects /\ s # None
  BY <1>1, NoneIsNothing DEF CallOK, Inv, TypeOK, Holding, Written
<1>3. CASE Go(c, "reread", txn[c])
  <2>1. CallOK(c)'
    BY <1>1, <1>3, GoFacts DEF CallOK, Running, Holding, Written
  <2>2. QED
    BY <1>1, <1>3, <2>1, GoSame DEF Running
<1>4. ASSUME NEW u \in WithSubject(s), Raise(c, "unique_violation", u) PROVE Inv'
  BY <1>1, <1>4, RaiseInv DEF Outcome, WithSubject
<1>5. ASSUME WithEmail(e) = {}, ~SubjectBusy(s), WithSubject(s) = {},
             NEW u \in UserIds \ LegacyIds, users[u] = None, RowFree(u),
             Go(c, "tenant",
                [txn[c] EXCEPT !.held = u, !.status = "active",
                   !.draft = [id |-> u, row |-> [email |-> e, subject |-> s,
                                                 status |-> "active"]]])
      PROVE  Inv'
  <2> DEFINE row == [email |-> e, subject |-> s, status |-> "active"]
             t == [txn[c] EXCEPT !.held = u, !.status = "active",
                                 !.draft = [id |-> u, row |-> row]]
  <2>1. row \in UserRow /\ [id |-> u, row |-> row] \in Draft
    BY <1>2 DEF UserRow, Draft, Status
  <2>2. /\ t \in Txn /\ t.held = u /\ t.draft # None /\ t.draft.id = u
        /\ t.draft.row = row /\ t.status = "active"
    BY <1>1, <2>1, NoneIsNothing DEF Txn, Status
  <2>3. \A d \in Calls \ {c} : txn[d].held # t.held
    BY <1>5, <2>2 DEF RowFree
  <2>4. \A v \in UserIds : users[v] # None /\ v # t.draft.id =>
           t.draft.row.email # users[v].email /\ t.draft.row.subject # users[v].subject
    BY <1>5, <2>2 DEF WithEmail, WithSubject
  <2>5. \A d \in Calls \ {c} : txn[d].draft # None =>
           /\ t.draft.row.email # txn[d].draft.row.email
           /\ t.draft.row.subject # txn[d].draft.row.subject
    BY <1>1, <1>5, <2>2 DEF EmailBusy, SubjectBusy
  <2> HIDE DEF row
  <2>6. row.email = e /\ row.subject = s /\ row.status = "active"
    BY DEF row
  <2>7. tenants[u] = None
    BY <1>5 DEF Inv, AccountsOK, CompleteAccounts
  <2> HIDE DEF t
  <2>8. Go(c, "tenant", t)
    BY <1>5 DEF t, row
  <2>9. CallOK(c)'
    <3>1. /\ pc'[c] = "tenant" /\ txn'[c] = t
          /\ users' = users /\ tenants' = tenants /\ members' = members
          /\ approved' = approved /\ args' = args
      BY <2>8, GoFacts
    <3>2. row = [email |-> e, subject |-> s, status |-> "active"]
      BY DEF row
    <3>3. u # None
      BY NoneIsNothing
    <3>4. QED
      BY <1>1, <1>2, <1>5, <2>2, <2>6, <2>7, <3>1, <3>2, <3>3
      DEF CallOK, Running, Holding, Written
  <2>10. QED
    BY <1>1, <2>2, <2>3, <2>4, <2>5, <2>8, <2>9, GoInv DEF Running
<1>6. QED
  BY <1>3, <1>4, <1>5 DEF InsertUser

LEMMA UpsertTenantInv ==
    ASSUME Inv, NEW c \in Calls, UpsertTenant(c) PROVE Inv'
<1> DEFINE u == txn[c].held
           t == [txn[c] EXCEPT !.created = tenants[u] = None]
<1>1. /\ pc[c] = "tenant" /\ pc[c] \in Running /\ txn[c] \in Txn /\ CallOK(c)
      /\ u \in UserIds
  BY DEF UpsertTenant, Inv, TypeOK, Running, CallOK, Txn, Holding
<1>2. CASE Raise(c, "identity_disabled", u)
  BY <1>1, <1>2, RaiseInv DEF Outcome
<1>3. CASE txn[c].status = "active" /\ Go(c, "membership", t)
  <2>1. /\ t \in Txn /\ t.held = u /\ t.draft = txn[c].draft /\ t.target = txn[c].target
        /\ t.status = txn[c].status /\ (t.created <=> tenants[u] = None)
    BY <1>1 DEF Txn
  <2> HIDE DEF t
  <2>2. CallOK(c)'
    BY <1>1, <1>3, <2>1, GoFacts DEF CallOK, Running, Holding, Written
  <2>3. QED
    BY <1>1, <1>3, <2>1, <2>2, GoSame DEF Running
<1>4. QED
  BY <1>2, <1>3 DEF UpsertTenant

LEMMA UpsertMembershipInv ==
    ASSUME Inv, NEW c \in Calls, UpsertMembership(c) PROVE Inv'
<1> DEFINE u == txn[c].held
           t == [txn[c] EXCEPT !.joined = members[u] = None]
<1>1. /\ pc[c] = "membership" /\ pc[c] \in Running /\ txn[c] \in Txn /\ CallOK(c)
      /\ u \in UserIds
  BY DEF UpsertMembership, Inv, TypeOK, Running, CallOK, Txn, Holding
<1>2. CASE Raise(c, "identity_disabled", u)
  BY <1>1, <1>2, RaiseInv DEF Outcome
<1>3. CASE tenants[u] # "disabled" /\ Go(c, "commit", t)
  <2>1. /\ t \in Txn /\ t.held = u /\ t.draft = txn[c].draft /\ t.target = txn[c].target
        /\ t.status = txn[c].status /\ t.created = txn[c].created
        /\ (t.joined <=> members[u] = None)
    BY <1>1 DEF Txn
  <2> HIDE DEF t
  <2>2. CallOK(c)'
    BY <1>1, <1>3, <2>1, GoFacts DEF CallOK, Running, Holding, Written
  <2>3. QED
    BY <1>1, <1>3, <2>1, <2>2, GoSame DEF Running
<1>4. QED
  BY <1>2, <1>3 DEF UpsertMembership
-----------------------------------------------------------------------------
\* What the commit of a successful call publishes: its row carries exactly what it
\* presented and is active, as are its tenant and membership; no other row moves.
LEMMA CommitFacts ==
    ASSUME Inv, NEW c \in Calls, pc[c] = "commit", members[txn[c].held] # "disabled",
           Publish(c)
    PROVE  LET u == txn[c].held IN
           /\ u \in UserIds
           /\ users' = [users EXCEPT ![u] = [email |-> args[c].email,
                            subject |-> args[c].subject, status |-> "active"]]
           /\ tenants' = [tenants EXCEPT ![u] = "active"]
           /\ members' = [members EXCEPT ![u] = "active"]
           /\ args[c].email \in Emails /\ args[c].email \in approved
           /\ args[c].subject \in Subjects /\ args[c].subject # None
<1> DEFINE u == txn[c].held
           w == txn[c].draft
<1>1. CallOK(c) /\ txn[c] \in Txn /\ TypeOK
  BY DEF Inv, TypeOK
<1>2. /\ u \in UserIds /\ u # None
      /\ args[c].email \in approved /\ args[c].email \in Emails
      /\ args[c].subject # None /\ args[c].subject \in Subjects
      /\ txn[c].status = "active" /\ (txn[c].created <=> tenants[u] = None)
      /\ tenants[u] # "disabled" /\ (txn[c].joined <=> members[u] = None)
  BY <1>1 DEF CallOK, Holding, Running, Txn, TypeOK
<1>3. tenants' = [tenants EXCEPT ![u] = "active"]
  BY <1>1, <1>2 DEF Publish, TypeOK, Status
<1>4. members' = [members EXCEPT ![u] = "active"]
  BY <1>1, <1>2 DEF Publish, TypeOK, Status
<1>5. users' = [users EXCEPT ![u] = [email |-> args[c].email,
                  subject |-> args[c].subject, status |-> "active"]]
  <2>1. CASE w # None
    BY <2>1, <1>1, <1>2 DEF Publish, CallOK
  <2>2. CASE w = None
    <3>1. /\ users[u] # None /\ users[u].email = args[c].email
          /\ users[u].subject = args[c].subject /\ users[u].status = "active"
      BY <1>1, <1>2, <2>2 DEF CallOK, Written
    <3>2. users[u] \in UserRow
      BY <1>1, <1>2, <3>1 DEF TypeOK
    <3>3. users[u] = [email |-> args[c].email, subject |-> args[c].subject,
                      status |-> "active"]
      BY <3>1, <3>2 DEF UserRow
    <3>4. users' = users
      BY <2>2 DEF Publish
    <3>5. QED
      BY <1>1, <3>3, <3>4 DEF TypeOK
  <2>3. QED
    BY <2>1, <2>2
<1>6. QED
  BY <1>2, <1>3, <1>4, <1>5

LEMMA CommitInv ==
    ASSUME Inv, NEW c \in Calls, Commit(c) PROVE Inv'
<1> DEFINE u == txn[c].held
<1>1. pc[c] = "commit" /\ pc[c] \in Running /\ CallOK(c)
  BY DEF Commit, Inv, Running
<1>2. CASE Raise(c, "identity_disabled", u)
  <2>1. u \in UserIds \cup {None}
    BY DEF Inv, TypeOK, Txn
  <2>2. QED
    BY <1>1, <1>2, <2>1, RaiseInv DEF Outcome
<1>3. ASSUME members[txn[c].held] # "disabled", Publish(c),
             pc' = [pc EXCEPT ![c] = "done"],
             txn' = [txn EXCEPT ![c] = NoTxn],
             result' = [result EXCEPT ![c] = Ended("ok", u, txn[c].created)],
             allowlist' = allowlist, approved' = approved, args' = args
      PROVE  Inv'
  <2> DEFINE row == [email |-> args[c].email, subject |-> args[c].subject,
                     status |-> "active"]
  <2>1. /\ u \in UserIds
        /\ users' = [users EXCEPT ![u] = row]
        /\ tenants' = [tenants EXCEPT ![u] = "active"]
        /\ members' = [members EXCEPT ![u] = "active"]
        /\ args[c].email \in Emails /\ args[c].email \in approved
        /\ args[c].subject \in Subjects /\ args[c].subject # None
    BY <1>1, <1>3, CommitFacts
  <2>2. row \in UserRow /\ row # None
    BY <2>1, NoneIsNothing DEF UserRow, Status
  <2>2a. row.email = args[c].email /\ row.subject = args[c].subject
    OBVIOUS
  <2> HIDE DEF row
  <2>3. Ended("ok", u, txn[c].created) \in Result
    BY <2>1 DEF Ended, Result, Outcome, Inv, TypeOK, Txn
  <2>4. TypeOK'
    BY <1>3, <2>1, <2>2, <2>3, NoTxnType DEF Inv, TypeOK, PC, Status
  <2>5. /\ \A d \in Calls : txn'[d] = IF d = c THEN NoTxn ELSE txn[d]
        /\ \A v \in UserIds : users'[v] = IF v = u THEN row ELSE users[v]
        /\ \A v \in UserIds : tenants'[v] = IF v = u THEN "active" ELSE tenants[v]
        /\ \A v \in UserIds : members'[v] = IF v = u THEN "active" ELSE members[v]
    BY <1>3, <2>1 DEF Inv, TypeOK
  <2>6. NoTxn.held = None /\ NoTxn.draft = None
    BY DEF NoTxn
  <2>7. LocksExclusive'
    BY <2>5, <2>6 DEF Inv, LocksExclusive
  <2>8. \A d \in Calls \ {c} : txn[d].held # u /\ (txn[d].draft # None => txn[d].draft.id # u)
    <3>1. u # None
      BY <2>1, NoneIsNothing
    <3>2. SUFFICES ASSUME NEW d \in Calls \ {c}
                   PROVE  txn[d].held # u /\ (txn[d].draft # None => txn[d].draft.id # u)
      OBVIOUS
    <3>3. txn[d].held # u
      BY <3>1 DEF Inv, LocksExclusive
    <3>4. CallOK(d)
      BY DEF Inv
    <3>5. QED
      BY <3>3, <3>4 DEF CallOK
  <2>9. \A v \in UserIds \ {u} : users[v] # None =>
           users[v].email # row.email /\ users[v].subject # row.subject
    <3>1. CASE txn[c].draft # None
      <4>1. txn[c].draft.id = u /\ txn[c].draft.row.email = row.email
              /\ txn[c].draft.row.subject = row.subject
        BY <1>1, <3>1, <2>2a DEF CallOK
      <4>2. QED
        BY <3>1, <4>1 DEF Inv, KeysOK
    <3>2. CASE txn[c].draft = None
      <4>1. /\ users[u] # None /\ users[u].email = row.email /\ users[u].subject = row.subject
        BY <1>1, <2>1, <3>2, <2>2a, NoneIsNothing DEF CallOK, Written
      <4>2. QED
        BY <2>1, <2>2a, <4>1 DEF Inv, KeysOK
    <3>3. QED
      BY <3>1, <3>2
  <2>10. \A d \in Calls \ {c} : txn[d].draft # None =>
           txn[d].draft.row.email # row.email /\ txn[d].draft.row.subject # row.subject
    <3>1. CASE txn[c].draft # None
      <4>1. txn[c].draft.row.email = row.email /\ txn[c].draft.row.subject = row.subject
        BY <1>1, <3>1, <2>2a DEF CallOK
      <4>2. QED
        BY <3>1, <4>1 DEF Inv, KeysOK
    <3>2. CASE txn[c].draft = None
      <4>1. /\ users[u] # None /\ users[u].email = row.email /\ users[u].subject = row.subject
        BY <1>1, <2>1, <3>2, <2>2a, NoneIsNothing DEF CallOK, Written
      <4>2. QED
        BY <2>1, <2>8, <4>1 DEF Inv, KeysOK
    <3>3. QED
      BY <3>1, <3>2
  <2>11. KeysOK'
    <3>1. \A v, x \in UserIds : v # x /\ users'[v] # None /\ users'[x] # None =>
             /\ users'[v].email # users'[x].email
             /\ users'[v].subject # None => users'[v].subject # users'[x].subject
      BY <2>1, <2>2a, <2>5, <2>9 DEF Inv, KeysOK
    <3>2. \A d \in Calls, v \in UserIds :
             txn'[d].draft # None /\ users'[v] # None /\ v # txn'[d].draft.id =>
               /\ txn'[d].draft.row.email # users'[v].email
               /\ txn'[d].draft.row.subject # users'[v].subject
      BY <2>5, <2>6, <2>10 DEF Inv, KeysOK
    <3>3. \A d, f \in Calls :
             d # f /\ txn'[d].draft # None /\ txn'[f].draft # None =>
               /\ txn'[d].draft.row.email # txn'[f].draft.row.email
               /\ txn'[d].draft.row.subject # txn'[f].draft.row.subject
      BY <2>5, <2>6 DEF Inv, KeysOK
    <3>4. QED
      BY <3>1, <3>2, <3>3 DEF KeysOK
  <2>12. AccountsOK'
    BY <1>3, <2>1, <2>2, <2>2a, <2>5, NoneIsNothing
    DEF Inv, AccountsOK, CompleteAccounts, ApprovedAddresses, Status
  <2>13. ASSUME NEW d \in Calls PROVE CallOK(d)' /\ ResultOK(d)'
    <3>1. CallOK(d) /\ ResultOK(d) /\ CompleteAccounts /\ txn[d] \in Txn /\ result[d] \in Result
      BY DEF Inv, AccountsOK, TypeOK
    <3>2. CASE d = c
      <4>1. pc'[c] = "done" /\ txn'[c] = NoTxn /\ result'[c] = Ended("ok", u, txn[c].created)
        BY <1>3 DEF Inv, TypeOK
      <4>2. CallOK(c)'
        BY <4>1, <2>6 DEF CallOK, Running, Holding, Written
      <4>3. ResultOK(c)'
        BY <4>1, <1>3, <2>1, <2>2a, <2>5, NoneIsNothing DEF ResultOK, Ended, Status
      <4>4. QED
        BY <3>2, <4>2, <4>3
    <3>3. CASE d # c
      <4>1. /\ pc'[d] = pc[d] /\ txn'[d] = txn[d] /\ result'[d] = result[d]
            /\ txn[d].held # u
        BY <1>3, <2>8, <3>3 DEF Inv, TypeOK
      <4>2. CallOK(d)'
        <5>1. txn[d].target # None => txn[d].target \in UserIds
          BY <3>1 DEF Txn
        <5>2. txn[d].held # None => /\ users'[txn[d].held] = users[txn[d].held]
                                   /\ tenants'[txn[d].held] = tenants[txn[d].held]
                                   /\ members'[txn[d].held] = members[txn[d].held]
          BY <2>5, <3>1, <4>1 DEF Txn
        <5>3. txn[d].target # None /\ users[txn[d].target] # None => users'[txn[d].target] # None
          BY <2>2, <2>5, <5>1
        <5>4. pc[d] \in Written => txn[d].held # None
          BY <3>1 DEF CallOK, Written, Holding
        <5>5. pc[d] \in {"membership", "commit"} => txn[d].held # None
          BY <5>4 DEF Written
        <5>6. QED
          BY <1>3, <3>1, <4>1, <5>2, <5>3, <5>4, <5>5 DEF CallOK
      <4>3. ResultOK(d)'
        <5>1. result[d].outcome = "ok" => /\ result[d].row \in UserIds
                                         /\ users[result[d].row] # None
          BY <3>1 DEF ResultOK, CompleteAccounts, Result
        <5>2. users[u] # None => users[u].subject = row.subject
          BY <1>1, <2>1, <2>2a, NoneIsNothing DEF CallOK
        <5>3. QED
          BY <1>3, <2>5, <3>1, <4>1, <5>1, <5>2, NoneIsNothing DEF ResultOK, Status
      <4>4. QED
        BY <4>2, <4>3
    <3>4. QED
      BY <3>2, <3>3
  <2>14. QED
    BY <2>4, <2>7, <2>11, <2>12, <2>13 DEF Inv
<1>4. QED
  BY <1>2, <1>3 DEF Commit, committed
-----------------------------------------------------------------------------
\* The owner's operations touch no row that an open call holds.
LEMMA OwnerFacts ==
    ASSUME Inv, NEW op, Owner(op)
    PROVE  /\ pc' = pc /\ args' = args /\ txn' = txn /\ result' = result
           /\ LocksExclusive'
           /\ \A d \in Calls : /\ pc'[d] = pc[d] /\ args'[d] = args[d]
                                /\ txn'[d] = txn[d] /\ result'[d] = result[d]
                                /\ txn[d] \in Txn /\ result[d] \in Result
                                /\ CallOK(d) /\ ResultOK(d)
BY DEF Owner, Inv, LocksExclusive, TypeOK

LEMMA AllowlistInv ==
    ASSUME Inv, NEW e \in Emails, AllowlistAdd(e) \/ AllowlistRemove(e) PROVE Inv'
<1>1. /\ Owner("allowlist") /\ users' = users /\ tenants' = tenants /\ members' = members
      /\ approved \subseteq approved' /\ allowlist' \subseteq approved'
      /\ approved' \subseteq Emails
  BY DEF AllowlistAdd, AllowlistRemove, committed, Inv, AccountsOK, TypeOK
<1>2. pc' = pc /\ args' = args /\ txn' = txn /\ result' = result /\ LocksExclusive'
  BY <1>1, OwnerFacts
<1>3. TypeOK'
  BY <1>1, <1>2 DEF Inv, TypeOK
<1>4. KeysOK'
  BY <1>1, <1>2 DEF Inv, KeysOK
<1>5. AccountsOK'
  BY <1>1 DEF Inv, AccountsOK, CompleteAccounts, ApprovedAddresses
<1>6. ASSUME NEW d \in Calls PROVE CallOK(d)' /\ ResultOK(d)'
  <2>1. CallOK(d) /\ ResultOK(d)
    BY DEF Inv
  <2>2. QED
    BY <1>1, <1>2, <2>1 DEF CallOK, ResultOK
<1>7. QED
  BY <1>2, <1>3, <1>4, <1>5, <1>6 DEF Inv

LEMMA BindSubjectInv ==
    ASSUME Inv, NEW u \in UserIds, NEW s \in Subjects, BindSubject(u, s) PROVE Inv'
<1>1. /\ Owner("bind") /\ users' = [users EXCEPT ![u].subject = s]
      /\ tenants' = tenants /\ members' = members
      /\ allowlist' = allowlist /\ approved' = approved
      /\ users[u] # None /\ users[u].subject = None /\ RowFree(u)
      /\ WithSubject(s) = {} /\ ~SubjectBusy(s)
  BY DEF BindSubject
<1> DEFINE row == [users[u] EXCEPT !.subject = s]
<1>2. /\ users[u] \in UserRow /\ row \in UserRow /\ row # None
      /\ row.email = users[u].email /\ row.subject = s /\ s # None
  BY <1>1, NoneIsNothing DEF Inv, TypeOK, UserRow
<1>3. users' = [users EXCEPT ![u] = row]
  BY <1>1
<1> HIDE DEF row
<1>4. /\ pc' = pc /\ args' = args /\ txn' = txn /\ result' = result /\ LocksExclusive'
      /\ \A d \in Calls : txn[d].held # u
  BY <1>1, OwnerFacts DEF RowFree
<1>5. \A v \in UserIds : users'[v] = IF v = u THEN row ELSE users[v]
  BY <1>3 DEF Inv, TypeOK
<1>6. TypeOK'
  BY <1>1, <1>2, <1>3, <1>4 DEF Inv, TypeOK
<1>7. KeysOK'
  BY <1>1, <1>2, <1>4, <1>5 DEF Inv, KeysOK, WithSubject, SubjectBusy
<1>8. AccountsOK'
  BY <1>1, <1>2, <1>5 DEF Inv, AccountsOK, CompleteAccounts, ApprovedAddresses
<1>9. ASSUME NEW d \in Calls PROVE CallOK(d)' /\ ResultOK(d)'
  <2>1. CallOK(d) /\ ResultOK(d) /\ txn[d] \in Txn /\ result[d] \in Result /\ CompleteAccounts
    BY DEF Inv, AccountsOK, TypeOK
  <2>2. CallOK(d)'
    <3>1. txn[d].held # None => users'[txn[d].held] = users[txn[d].held]
      BY <1>4, <1>5, <2>1 DEF Txn
    <3>2. txn[d].target # None /\ users[txn[d].target] # None => users'[txn[d].target] # None
      BY <1>2, <1>5, <2>1 DEF Txn
    <3>3. pc[d] \in Written => txn[d].held # None
      BY <2>1 DEF CallOK, Written, Holding
    <3>4. QED
      BY <1>1, <1>4, <2>1, <3>1, <3>2, <3>3 DEF CallOK
  <2>3. ResultOK(d)'
    <3>1. result[d].outcome = "ok" => result[d].row \in UserIds /\ result[d].row # u
      BY <1>1, <2>1 DEF ResultOK, CompleteAccounts, Result
    <3>2. QED
      BY <1>1, <1>4, <1>5, <2>1, <3>1 DEF ResultOK
  <2>4. QED
    BY <2>2, <2>3
<1>10. QED
  BY <1>4, <1>6, <1>7, <1>8, <1>9 DEF Inv

LEMMA SetUserStatusInv ==
    ASSUME Inv, NEW u \in UserIds, NEW st \in Status, SetUserStatus(u, st) PROVE Inv'
<1>1. /\ Owner("user") /\ users' = [users EXCEPT ![u].status = st]
      /\ tenants' = tenants /\ members' = members
      /\ allowlist' = allowlist /\ approved' = approved
      /\ users[u] # None /\ RowFree(u)
  BY DEF SetUserStatus
<1> DEFINE row == [users[u] EXCEPT !.status = st]
<1>2. /\ users[u] \in UserRow /\ row \in UserRow /\ row # None
      /\ row.email = users[u].email /\ row.subject = users[u].subject
  BY <1>1, NoneIsNothing DEF Inv, TypeOK, UserRow
<1>3. users' = [users EXCEPT ![u] = row]
  BY <1>1
<1> HIDE DEF row
<1>4. /\ pc' = pc /\ args' = args /\ txn' = txn /\ result' = result /\ LocksExclusive'
      /\ \A d \in Calls : txn[d].held # u
  BY <1>1, OwnerFacts DEF RowFree
<1>5. \A v \in UserIds : users'[v] = IF v = u THEN row ELSE users[v]
  BY <1>3 DEF Inv, TypeOK
<1>6. TypeOK'
  BY <1>1, <1>2, <1>3, <1>4 DEF Inv, TypeOK
<1>7. KeysOK'
  BY <1>1, <1>2, <1>4, <1>5 DEF Inv, KeysOK
<1>8. AccountsOK'
  BY <1>1, <1>2, <1>5 DEF Inv, AccountsOK, CompleteAccounts, ApprovedAddresses
<1>9. ASSUME NEW d \in Calls PROVE CallOK(d)' /\ ResultOK(d)'
  <2>1. CallOK(d) /\ ResultOK(d) /\ txn[d] \in Txn /\ result[d] \in Result
    BY DEF Inv, TypeOK
  <2>2. CallOK(d)'
    <3>1. txn[d].held # None => users'[txn[d].held] = users[txn[d].held]
      BY <1>4, <1>5, <2>1 DEF Txn
    <3>2. txn[d].target # None /\ users[txn[d].target] # None => users'[txn[d].target] # None
      BY <1>2, <1>5, <2>1 DEF Txn
    <3>3. pc[d] \in Written => txn[d].held # None
      BY <2>1 DEF CallOK, Written, Holding
    <3>4. QED
      BY <1>1, <1>4, <2>1, <3>1, <3>2, <3>3 DEF CallOK
  <2>3. ResultOK(d)'
    <3>1. result[d].outcome = "ok" => result[d].row \in UserIds
      BY <2>1 DEF ResultOK, Result
    <3>2. QED
      BY <1>1, <1>2, <1>4, <1>5, <2>1, <3>1 DEF ResultOK
  <2>4. QED
    BY <2>2, <2>3
<1>10. QED
  BY <1>4, <1>6, <1>7, <1>8, <1>9 DEF Inv

\* A call that has passed the tenant (membership) statement keeps that row from
\* the owner; one that has not has no opinion of an existing row yet.
LEMMA SetTenantStatusInv ==
    ASSUME Inv, NEW u \in UserIds, NEW st \in Status, SetTenantStatus(u, st) PROVE Inv'
<1>1. /\ Owner("tenant") /\ tenants' = [tenants EXCEPT ![u] = st]
      /\ users' = users /\ members' = members
      /\ allowlist' = allowlist /\ approved' = approved
      /\ tenants[u] # None
      /\ \A d \in Calls : txn[d].held = u => pc[d] \notin {"membership", "commit"}
  BY DEF SetTenantStatus
<1>2. pc' = pc /\ args' = args /\ txn' = txn /\ result' = result /\ LocksExclusive'
  BY <1>1, OwnerFacts
<1>3. \A v \in UserIds : tenants'[v] = IF v = u THEN st ELSE tenants[v]
  BY <1>1 DEF Inv, TypeOK
<1>4. st # None
  BY NoneIsNothing
<1>5. TypeOK'
  BY <1>1, <1>2 DEF Inv, TypeOK
<1>6. KeysOK'
  BY <1>1, <1>2 DEF Inv, KeysOK
<1>7. AccountsOK'
  BY <1>1, <1>3, <1>4 DEF Inv, AccountsOK, CompleteAccounts, ApprovedAddresses
<1>8. ASSUME NEW d \in Calls PROVE CallOK(d)' /\ ResultOK(d)'
  <2>1. CallOK(d) /\ ResultOK(d) /\ txn[d] \in Txn /\ result[d] \in Result
    BY DEF Inv, TypeOK
  <2>2. CallOK(d)'
    <3>1. CASE txn[d].held = u
      BY <1>1, <1>2, <2>1, <3>1 DEF CallOK
    <3>2. CASE txn[d].held # u
      <4>1. txn[d].held # None => tenants'[txn[d].held] = tenants[txn[d].held]
        BY <1>3, <2>1, <3>2 DEF Txn
      <4>2. pc[d] \in {"membership", "commit"} => txn[d].held # None
        BY <2>1 DEF CallOK, Holding
      <4>3. QED
        BY <1>1, <1>2, <2>1, <4>1, <4>2 DEF CallOK
    <3>3. QED
      BY <3>1, <3>2
  <2>3. ResultOK(d)'
    BY <1>1, <1>2, <1>3, <1>4, <2>1 DEF ResultOK, Result
  <2>4. QED
    BY <2>2, <2>3
<1>9. QED
  BY <1>2, <1>5, <1>6, <1>7, <1>8 DEF Inv

LEMMA SetMembershipStatusInv ==
    ASSUME Inv, NEW u \in UserIds, NEW st \in Status, SetMembershipStatus(u, st) PROVE Inv'
<1>1. /\ Owner("membership") /\ members' = [members EXCEPT ![u] = st]
      /\ users' = users /\ tenants' = tenants
      /\ allowlist' = allowlist /\ approved' = approved
      /\ members[u] # None
      /\ \A d \in Calls : txn[d].held = u => pc[d] # "commit"
  BY DEF SetMembershipStatus
<1>2. pc' = pc /\ args' = args /\ txn' = txn /\ result' = result /\ LocksExclusive'
  BY <1>1, OwnerFacts
<1>3. \A v \in UserIds : members'[v] = IF v = u THEN st ELSE members[v]
  BY <1>1 DEF Inv, TypeOK
<1>4. st # None
  BY NoneIsNothing
<1>5. TypeOK'
  BY <1>1, <1>2 DEF Inv, TypeOK
<1>6. KeysOK'
  BY <1>1, <1>2 DEF Inv, KeysOK
<1>7. AccountsOK'
  BY <1>1, <1>3, <1>4 DEF Inv, AccountsOK, CompleteAccounts, ApprovedAddresses
<1>8. ASSUME NEW d \in Calls PROVE CallOK(d)' /\ ResultOK(d)'
  <2>1. CallOK(d) /\ ResultOK(d) /\ txn[d] \in Txn
    BY DEF Inv, TypeOK
  <2>2. CallOK(d)'
    <3>1. CASE txn[d].held = u
      BY <1>1, <1>2, <2>1, <3>1 DEF CallOK
    <3>2. CASE txn[d].held # u
      <4>1. txn[d].held # None => members'[txn[d].held] = members[txn[d].held]
        BY <1>3, <2>1, <3>2 DEF Txn
      <4>2. pc[d] = "commit" => txn[d].held # None
        BY <2>1 DEF CallOK, Holding
      <4>3. QED
        BY <1>1, <1>2, <2>1, <4>1, <4>2 DEF CallOK
    <3>3. QED
      BY <3>1, <3>2
  <2>3. ResultOK(d)'
    BY <1>1, <1>2, <2>1 DEF ResultOK
  <2>4. QED
    BY <2>2, <2>3
<1>9. QED
  BY <1>2, <1>5, <1>6, <1>7, <1>8 DEF Inv
-----------------------------------------------------------------------------
LEMMA StepInv == Inv /\ [Next]_vars => Inv'
<1> SUFFICES ASSUME Inv, [Next]_vars PROVE Inv'
  OBVIOUS
<1>1. ASSUME NEW c \in Calls, NEW e \in Emails \cup {None}, NEW s \in Subjects \cup {None},
             Begin(c, e, s)
      PROVE  Inv'
  BY <1>1, BeginInv
<1>2. ASSUME NEW c \in Calls, Step(c) PROVE Inv'
  BY <1>2, SelectBySubjectInv, EmailFreeInv, MoveEmailInv, SelectByEmailInv,
     LockByEmailInv, InsertUserInv, RereadInv, LockRereadInv, UpsertTenantInv,
     UpsertMembershipInv, CommitInv DEF Step
<1>3. ASSUME NEW c \in Calls, Abort(c) PROVE Inv'
  BY <1>3, RaiseInv DEF Abort, Outcome
<1>4. CASE OwnerNext
  BY <1>4, AllowlistInv, BindSubjectInv, SetUserStatusInv, SetTenantStatusInv,
     SetMembershipStatusInv DEF OwnerNext
<1>5. CASE UNCHANGED vars
  BY <1>5 DEF vars, Inv, TypeOK, LocksExclusive, KeysOK, AccountsOK, CompleteAccounts,
              ApprovedAddresses, CallOK, ResultOK
<1>6. QED
  BY <1>1, <1>2, <1>3, <1>4, <1>5 DEF Next

\* Inv holds in every state of every execution: the row locks and unique indexes
\* that provision_personal_identity relies on protect everything it has read, from
\* the statement that reads it to the commit.
THEOREM Invariance == Spec => []Inv
<1>1. QED
  BY InitInv, StepInv, PTL DEF Spec

\* Every variable keeps its type.
THEOREM TypeCorrect == Spec => []TypeOK
<1>1. Inv => TypeOK
  BY DEF Inv
<1>2. QED
  BY <1>1, Invariance, PTL
-----------------------------------------------------------------------------
\* At most one row, committed or in flight, ever carries an address or a subject.
THEOREM IdentityKeys == Spec => []OneRowPerIdentity
<1>1. Inv => OneRowPerIdentity
  <2> SUFFICES ASSUME Inv, NEW u \in UserIds, NEW v \in UserIds, u # v,
                      NEW r \in Version(u) \ {None}, NEW q \in Version(v) \ {None}
               PROVE  /\ r.email # q.email
                      /\ r.subject # None => r.subject # q.subject
    BY DEF OneRowPerIdentity
  <2>1. KeysOK
    BY DEF Inv
  <2>2. r = users[u] \/ \E c \in Calls : /\ txn[c].draft # None /\ txn[c].draft.id = u
                                         /\ r = txn[c].draft.row
    BY DEF Version
  <2>3. q = users[v] \/ \E c \in Calls : /\ txn[c].draft # None /\ txn[c].draft.id = v
                                         /\ q = txn[c].draft.row
    BY DEF Version
  <2>4. CASE r = users[u] /\ q = users[v]
    BY <2>1, <2>4 DEF KeysOK
  <2>5. ASSUME r = users[u], NEW c \in Calls, txn[c].draft # None,
               txn[c].draft.id = v, q = txn[c].draft.row
        PROVE  r.email # q.email /\ r.subject # q.subject
    BY <2>1, <2>5 DEF KeysOK
  <2>6. ASSUME q = users[v], NEW c \in Calls, txn[c].draft # None,
               txn[c].draft.id = u, r = txn[c].draft.row
        PROVE  r.email # q.email /\ r.subject # q.subject
    BY <2>1, <2>6 DEF KeysOK
  <2>7. ASSUME NEW c \in Calls, txn[c].draft # None, txn[c].draft.id = u, r = txn[c].draft.row,
               NEW d \in Calls, txn[d].draft # None, txn[d].draft.id = v, q = txn[d].draft.row
        PROVE  r.email # q.email /\ r.subject # q.subject
    BY <2>1, <2>7 DEF KeysOK
  <2>8. QED
    BY <2>2, <2>3, <2>4, <2>5, <2>6, <2>7
<1>2. QED
  BY <1>1, Invariance, PTL

\* Accounts are created complete and only for a subject, whatever fails half-way, and
\* none has a tenant at an address the owner has not approved.
THEOREM WholeAccounts == Spec => []AccountsOK
<1>1. Inv => AccountsOK
  BY DEF Inv
<1>2. QED
  BY <1>1, Invariance, PTL

\* Successful calls share a row exactly when they share a subject.
THEOREM Isolation == Spec => []RowsFollowSubjects
<1>1. Inv => RowsFollowSubjects
  <2> SUFFICES ASSUME Inv, NEW c \in Calls, NEW d \in Calls,
                      result[c].outcome = "ok", result[d].outcome = "ok"
               PROVE  result[c].row = result[d].row <=> args[c].subject = args[d].subject
    BY DEF RowsFollowSubjects
  <2>1. ASSUME NEW x \in {c, d}
        PROVE  /\ result[x].row \in UserIds /\ users[result[x].row] # None
               /\ users[result[x].row].subject = args[x].subject /\ args[x].subject # None
    <3>1. ResultOK(x) /\ result[x] \in Result /\ CompleteAccounts
      BY DEF Inv, AccountsOK, TypeOK
    <3>2. QED
      BY <3>1 DEF ResultOK, Result, CompleteAccounts
  <2>2. QED
    BY <2>1 DEF Inv, KeysOK
<1>2. QED
  BY <1>1, Invariance, PTL

\* Only Commit makes a call succeed.
LEMMA OnlyCommit ==
    ASSUME Inv, [Next]_vars, NEW c \in Calls, result'[c] # result[c],
           result'[c].outcome = "ok"
    PROVE  /\ pc[c] = "commit" /\ members[txn[c].held] # "disabled" /\ Publish(c)
           /\ result' = [result EXCEPT ![c] = Ended("ok", txn[c].held, txn[c].created)]
           /\ args' = args
<1>1. ASSUME NEW d \in Calls, NEW code \in Outcome \ {"ok"}, NEW u,
             result' = [result EXCEPT ![d] = Ended(code, u, FALSE)]
      PROVE  FALSE
  <2>1. result'[c] = result[c] \/ result'[c] = Ended(code, u, FALSE)
    BY <1>1 DEF Inv, TypeOK
  <2>2. QED
    BY <2>1 DEF Ended
<1>2. result' # result
  OBVIOUS
<1>3. ~OwnerNext /\ ~(UNCHANGED vars)
  BY <1>2 DEF OwnerNext, AllowlistAdd, AllowlistRemove, BindSubject, SetUserStatus,
              SetTenantStatus, SetMembershipStatus, Owner, vars
<1>4. ASSUME NEW d \in Calls, NEW e, NEW s, Begin(d, e, s) PROVE FALSE
  BY <1>1, <1>2, <1>4 DEF Begin, Outcome
<1>5. ASSUME NEW d \in Calls, NEW next, NEW t, Go(d, next, t) PROVE FALSE
  BY <1>2, <1>5 DEF Go
<1>6. ASSUME NEW d \in Calls, NEW code \in Outcome \ {"ok"}, NEW u, Raise(d, code, u)
      PROVE FALSE
  BY <1>1, <1>6 DEF Raise
<1>7. PICK d \in Calls : Step(d) \/ Abort(d)
  BY <1>3, <1>4 DEF Next
<1>8. ~Abort(d)
  BY <1>6 DEF Abort, Outcome
<1>9. /\ ~SelectBySubject(d) /\ ~EmailFree(d) /\ ~MoveEmail(d) /\ ~SelectByEmail(d)
      /\ ~LockByEmail(d) /\ ~InsertUser(d) /\ ~Reread(d) /\ ~LockReread(d)
      /\ ~UpsertTenant(d) /\ ~UpsertMembership(d)
  BY <1>5, <1>6 DEF SelectBySubject, EmailFree, MoveEmail, SelectByEmail, LockByEmail,
     InsertUser, Reread, LockReread, UpsertTenant, UpsertMembership, Outcome
<1>10. Commit(d)
  BY <1>7, <1>8, <1>9 DEF Step
<1>11. ~Raise(d, "identity_disabled", txn[d].held)
  BY <1>6 DEF Outcome
<1>12. d = c
  BY <1>10, <1>11 DEF Commit, Inv, TypeOK
<1>13. QED
  BY <1>10, <1>11, <1>12 DEF Commit

\* A step changes no committed row, or the owner makes it, or it ends a call that
\* succeeds.
LEMMA WhoWrites ==
    ASSUME Inv, [Next]_vars
    PROVE  \/ users' = users /\ tenants' = tenants /\ members' = members
              /\ approved' = approved
           \/ OwnerNext
           \/ \E c \in Calls :
                /\ pc[c] = "commit" /\ members[txn[c].held] # "disabled" /\ Publish(c)
                /\ result' = [result EXCEPT ![c] = Ended("ok", txn[c].held, txn[c].created)]
                /\ approved' = approved
<1> DEFINE Quiet == users' = users /\ tenants' = tenants /\ members' = members
                    /\ approved' = approved
<1>1. ASSUME NEW d \in Calls, NEW e, NEW s, Begin(d, e, s) PROVE Quiet
  BY <1>1 DEF Begin, committed
<1>2. ASSUME NEW d, NEW next, NEW t, Go(d, next, t) PROVE Quiet
  BY <1>2 DEF Go, committed
<1>3. ASSUME NEW d, NEW code, NEW u, Raise(d, code, u) PROVE Quiet
  BY <1>3 DEF Raise, committed
<1>4. ASSUME UNCHANGED vars PROVE Quiet
  BY <1>4 DEF vars
<1> HIDE DEF Quiet
<1>5. ASSUME NEW d \in Calls, \/ SelectBySubject(d) \/ EmailFree(d) \/ MoveEmail(d)
                               \/ SelectByEmail(d) \/ LockByEmail(d) \/ InsertUser(d)
                               \/ Reread(d) \/ LockReread(d) \/ UpsertTenant(d)
                               \/ UpsertMembership(d) \/ Abort(d)
      PROVE  Quiet
  BY <1>2, <1>3, <1>5 DEF SelectBySubject, EmailFree, MoveEmail, SelectByEmail, LockByEmail,
     InsertUser, Reread, LockReread, UpsertTenant, UpsertMembership, Abort
<1>6. ASSUME NEW d \in Calls, Commit(d)
      PROVE  \/ Quiet
             \/ /\ pc[d] = "commit" /\ members[txn[d].held] # "disabled" /\ Publish(d)
                /\ result' = [result EXCEPT ![d] = Ended("ok", txn[d].held, txn[d].created)]
                /\ approved' = approved
  BY <1>3, <1>6 DEF Commit
<1>7. QED
  BY <1>1, <1>4, <1>5, <1>6 DEF Next, Step, Quiet

\* At most one call reports that it created an account.
THEOREM Creation == Spec => []CreatedOnce
<1>1. Init => CreatedOnce
  BY DEF Init, CreatedOnce, Ended
<1>2. Inv /\ CreatedOnce /\ [Next]_vars => CreatedOnce'
  <2> SUFFICES ASSUME Inv, CreatedOnce, [Next]_vars, NEW c \in Calls, NEW d \in Calls,
                      result'[c].created, result'[d].created, c # d,
                      result'[c].row = result'[d].row
               PROVE  FALSE
    BY DEF CreatedOnce
  <2>1. Inv'
    BY StepInv
  <2>2. result'[c].outcome = "ok" /\ result'[d].outcome = "ok"
    BY <2>1 DEF Inv, ResultOK
  <2>3. ASSUME NEW x \in Calls, NEW y \in Calls, x # y, result'[x] # result[x],
               result'[x].outcome = "ok", result'[x].created, result'[y].created,
               result'[x].row = result'[y].row
        PROVE  FALSE
    <3>1. /\ pc[x] = "commit"
          /\ result' = [result EXCEPT ![x] = Ended("ok", txn[x].held, txn[x].created)]
      BY <2>3, OnlyCommit
    <3>2. /\ result'[x] = Ended("ok", txn[x].held, txn[x].created)
          /\ result'[y] = result[y]
      BY <2>3, <3>1 DEF Inv, TypeOK
    <3>3. txn[x].created /\ result[y].row = txn[x].held
      BY <2>3, <3>2 DEF Ended
    <3>4. CallOK(x) /\ ResultOK(y)
      BY DEF Inv
    <3>5. tenants[txn[x].held] = None
      BY <3>1, <3>3, <3>4 DEF CallOK
    <3>6. tenants[result[y].row] # None
      BY <2>3, <3>2, <3>4 DEF ResultOK
    <3>7. QED
      BY <3>3, <3>5, <3>6
  <2>4. result'[c] = result[c] /\ result'[d] = result[d]
    BY <2>2, <2>3
  <2>5. QED
    BY <2>4 DEF CreatedOnce
<1>3. QED
  BY <1>1, <1>2, Invariance, PTL DEF Spec

\* What a call reports as success is so when it commits.
THEOREM Currency == Spec => SuccessIsCurrent
<1>1. ASSUME Inv, [Next]_vars, NEW c \in Calls, result'[c] # result[c],
             result'[c].outcome = "ok"
      PROVE  LET u == result'[c].row IN
             /\ users'[u] = [email |-> args[c].email, subject |-> args[c].subject,
                             status |-> "active"]
             /\ tenants'[u] = "active" /\ members'[u] = "active"
  <2> DEFINE u == txn[c].held
  <2>1. /\ pc[c] = "commit" /\ members[u] # "disabled" /\ Publish(c)
        /\ result' = [result EXCEPT ![c] = Ended("ok", u, txn[c].created)]
    BY <1>1, OnlyCommit
  <2>2. result'[c].row = u
    BY <1>1, <2>1 DEF Inv, TypeOK, Ended
  <2>3. /\ u \in UserIds
        /\ users' = [users EXCEPT ![u] = [email |-> args[c].email,
                         subject |-> args[c].subject, status |-> "active"]]
        /\ tenants' = [tenants EXCEPT ![u] = "active"]
        /\ members' = [members EXCEPT ![u] = "active"]
    BY <1>1, <2>1, CommitFacts
  <2>4. QED
    BY <1>1, <2>2, <2>3 DEF Inv, TypeOK
<1>2. Inv /\ [Next]_vars =>
        [\A c \in Calls : result'[c] # result[c] /\ result'[c].outcome = "ok" =>
            LET u == result'[c].row IN
            /\ users'[u] = [email |-> args[c].email, subject |-> args[c].subject,
                            status |-> "active"]
            /\ tenants'[u] = "active" /\ members'[u] = "active"]_vars
  BY <1>1
<1>3. QED
  BY <1>2, Invariance, PTL DEF Spec, SuccessIsCurrent

\* No call re-enables anything.
THEOREM Disablement == Spec => NeverReenabled
<1>1. ASSUME Inv, [Next]_vars, result' # result, NEW u \in UserIds
      PROVE  /\ users[u] # None /\ users[u].status = "disabled" => users'[u] = users[u]
             /\ tenants[u] = "disabled" => tenants'[u] = "disabled"
             /\ members[u] = "disabled" => members'[u] = "disabled"
  <2>1. CASE users' = users /\ tenants' = tenants /\ members' = members
    BY <2>1
  <2>2. ~OwnerNext
    BY <1>1 DEF OwnerNext, AllowlistAdd, AllowlistRemove, BindSubject, SetUserStatus,
                SetTenantStatus, SetMembershipStatus, Owner
  <2>3. ASSUME NEW c \in Calls, pc[c] = "commit", members[txn[c].held] # "disabled",
               Publish(c)
        PROVE  /\ users[u] # None /\ users[u].status = "disabled" => users'[u] = users[u]
               /\ tenants[u] = "disabled" => tenants'[u] = "disabled"
               /\ members[u] = "disabled" => members'[u] = "disabled"
    <3> DEFINE h == txn[c].held
    <3>1. /\ h \in UserIds /\ h # None
          /\ \E row : users' = [users EXCEPT ![h] = row]
          /\ tenants' = [tenants EXCEPT ![h] = "active"]
          /\ members' = [members EXCEPT ![h] = "active"]
      BY <1>1, <2>3, CommitFacts, NoneIsNothing
    <3>2. CallOK(c)
      BY <1>1 DEF Inv
    <3>3. /\ users[h] # None => users[h].status # "disabled"
          /\ tenants[h] # "disabled"
      BY <2>3, <3>1, <3>2 DEF CallOK
    <3>4. QED
      BY <1>1, <2>3, <3>1, <3>3 DEF Inv, TypeOK
  <2>4. QED
    BY <1>1, <2>1, <2>2, <2>3, WhoWrites
<1>2. Inv /\ [Next]_vars =>
        [result' # result =>
          \A u \in UserIds :
             /\ users[u] # None /\ users[u].status = "disabled"
                    => users'[u] = users[u]
             /\ tenants[u] = "disabled" => tenants'[u] = "disabled"
             /\ members[u] = "disabled" => members'[u] = "disabled"]_vars
  BY <1>1
<1>3. QED
  BY <1>2, Invariance, PTL DEF Spec, NeverReenabled

\* A bound subject is never replaced, and only its own call moves its address.
THEOREM Stability == Spec => IdentityIsStable
<1>1. ASSUME Inv, [Next]_vars, NEW u \in UserIds, users[u] # None, users[u].subject # None
      PROVE  /\ users'[u] # None /\ users'[u].subject = users[u].subject
             /\ users'[u].email # users[u].email =>
                   \E c \in Calls : /\ result'[c] # result[c]
                                    /\ result'[c].outcome = "ok"
                                    /\ args[c].subject = users[u].subject
  <2>1. CASE users' = users
    BY <1>1, <2>1
  <2>2. CASE OwnerNext
    <3>1. CASE users' = users
      BY <1>1, <3>1
    <3>2. ASSUME NEW v \in UserIds, NEW s \in Subjects, BindSubject(v, s)
          PROVE  users'[u] = users[u]
      BY <1>1, <3>2 DEF BindSubject, Inv, TypeOK
    <3>3. ASSUME NEW v \in UserIds, NEW st \in Status, SetUserStatus(v, st)
          PROVE  /\ users'[u] # None /\ users'[u].subject = users[u].subject
                 /\ users'[u].email = users[u].email
      <4> DEFINE row == [users[u] EXCEPT !.status = st]
      <4>1. row \in UserRow /\ row.subject = users[u].subject /\ row.email = users[u].email
        BY <1>1, NoneIsNothing DEF Inv, TypeOK, UserRow
      <4>2. users'[u] = row \/ users'[u] = users[u]
        BY <1>1, <3>3 DEF SetUserStatus, Inv, TypeOK
      <4>3. QED
        BY <1>1, <4>1, <4>2, NoneIsNothing
    <3>4. QED
      BY <1>1, <2>2, <3>1, <3>2, <3>3 DEF OwnerNext, AllowlistAdd, AllowlistRemove,
         SetTenantStatus, SetMembershipStatus, committed
  <2>3. ASSUME NEW c \in Calls, pc[c] = "commit", members[txn[c].held] # "disabled",
               Publish(c),
               result' = [result EXCEPT ![c] = Ended("ok", txn[c].held, txn[c].created)]
        PROVE  /\ users'[u] # None /\ users'[u].subject = users[u].subject
               /\ users'[u].email # users[u].email =>
                     \E d \in Calls : /\ result'[d] # result[d]
                                      /\ result'[d].outcome = "ok"
                                      /\ args[d].subject = users[u].subject
    <3> DEFINE h == txn[c].held
               row == [email |-> args[c].email, subject |-> args[c].subject,
                       status |-> "active"]
    <3>1. /\ h \in UserIds /\ h # None /\ users' = [users EXCEPT ![h] = row]
          /\ row \in UserRow
      BY <1>1, <2>3, CommitFacts, NoneIsNothing DEF UserRow, Status
    <3>2. row # None /\ row.subject = args[c].subject
      BY <3>1, NoneIsNothing
    <3> HIDE DEF row
    <3>3. CASE u # h
      BY <1>1, <3>1, <3>3 DEF Inv, TypeOK
    <3>4. CASE u = h
      <4>1. CallOK(c) /\ ResultOK(c)
        BY <1>1 DEF Inv
      <4>2. users[u].subject = args[c].subject /\ result[c].outcome # "ok"
        BY <1>1, <2>3, <3>1, <3>4, <4>1 DEF CallOK, ResultOK
      <4>3. users'[u] = row
        BY <1>1, <3>1, <3>4 DEF Inv, TypeOK
      <4>4. result'[c].outcome = "ok"
        BY <1>1, <2>3 DEF Inv, TypeOK, Ended
      <4>5. QED
        BY <3>2, <4>2, <4>3, <4>4
    <3>5. QED
      BY <3>3, <3>4
  <2>4. QED
    BY <1>1, <2>1, <2>2, <2>3, WhoWrites
<1>2. Inv /\ [Next]_vars =>
        [\A u \in UserIds : users[u] # None /\ users[u].subject # None =>
          /\ users'[u] # None /\ users'[u].subject = users[u].subject
          /\ users'[u].email # users[u].email =>
                \E c \in Calls : /\ result'[c] # result[c]
                                 /\ result'[c].outcome = "ok"
                                 /\ args[c].subject = users[u].subject]_vars
  BY <1>1
<1>3. QED
  BY <1>2, Invariance, PTL DEF Spec, IdentityIsStable

-----------------------------------------------------------------------------
(***************************************************************************)
(* Provisioning implements IdentitySpec: every committed effect of the        *)
(* concurrent transactions is an atomic sign-in, an operation of the owner,   *)
(* or nothing.                                                               *)
(***************************************************************************)
LEMMA TheOnly == ASSUME NEW S, NEW u, S = {u} PROVE (CHOOSE v \in S : TRUE) = u
OBVIOUS

Unbound(e) == {u \in WithEmail(e) : users[u].subject = None}

accountBar == [s \in Subjects |-> AccountOf(s)]
reservedBar == [e \in Emails |-> ReservedFor(e)]

LEMMA WholeIsNotNone ==
    ASSUME NEW u \in UserIds, users[u] \in UserRow, tenants[u] \in Status \cup {None},
           members[u] \in Status \cup {None}
    PROVE  Whole(u) # None
<1>1. Whole(u) \in Account
  BY DEF Whole, Account, UserRow
<1>2. QED
  BY <1>1, ProvisioningAssumption

\* The account of a subject is that of the one row that carries it; likewise for
\* an address with a row that no subject owns.  In a state and in the next one.
LEMMA AccountIs ==
    ASSUME KeysOK, NEW u \in UserIds, NEW s \in Subjects, users[u] # None,
           users[u].subject = s, s # None
    PROVE  AccountOf(s) = Whole(u)
<1>1. WithSubject(s) = {u}
  BY DEF WithSubject, KeysOK
<1>2. QED
  BY <1>1, TheOnly DEF AccountOf
LEMMA AccountIsNext ==
    ASSUME KeysOK', NEW u \in UserIds, NEW s \in Subjects, users'[u] # None,
           users'[u].subject = s, s # None
    PROVE  AccountOf(s)' = Whole(u)'
<1>1. WithSubject(s)' = {u}
  BY DEF WithSubject, KeysOK
<1>2. QED
  BY <1>1, TheOnly DEF AccountOf
LEMMA ReservedIs ==
    ASSUME KeysOK, NEW u \in UserIds, NEW e \in Emails, users[u] # None,
           users[u].email = e, users[u].subject = None
    PROVE  ReservedFor(e) = Whole(u)
<1>1. Unbound(e) = {u}
  BY DEF Unbound, WithEmail, KeysOK
<1>2. QED
  BY <1>1, TheOnly DEF ReservedFor, Unbound
LEMMA ReservedIsNext ==
    ASSUME KeysOK', NEW u \in UserIds, NEW e \in Emails, users'[u] # None,
           users'[u].email = e, users'[u].subject = None
    PROVE  ReservedFor(e)' = Whole(u)'
<1>1. Unbound(e)' = {u}
  BY DEF Unbound, WithEmail, KeysOK
<1>2. QED
  BY <1>1, TheOnly DEF ReservedFor, Unbound

\* Subjects and addresses whose rows do not change keep their account.
LEMMA AccountSame ==
    ASSUME NEW s, WithSubject(s)' = WithSubject(s),
           \A v \in WithSubject(s) : Whole(v)' = Whole(v)
    PROVE  AccountOf(s)' = AccountOf(s)
<1>1. CASE WithSubject(s) = {}
  BY <1>1 DEF AccountOf
<1>2. CASE WithSubject(s) # {}
  <2>1. (CHOOSE v \in WithSubject(s) : TRUE) \in WithSubject(s)
    BY <1>2
  <2>2. AccountOf(s) = Whole(CHOOSE v \in WithSubject(s) : TRUE)
    BY <1>2 DEF AccountOf
  <2>3. AccountOf(s)' = Whole(CHOOSE v \in WithSubject(s) : TRUE)'
    BY <1>2 DEF AccountOf
  <2>4. QED
    BY <2>1, <2>2, <2>3
<1>3. QED
  BY <1>1, <1>2
LEMMA ReservedSame ==
    ASSUME NEW e, Unbound(e)' = Unbound(e),
           \A v \in Unbound(e) : Whole(v)' = Whole(v)
    PROVE  ReservedFor(e)' = ReservedFor(e)
<1>1. CASE Unbound(e) = {}
  BY <1>1 DEF ReservedFor, Unbound
<1>2. CASE Unbound(e) # {}
  <2>1. (CHOOSE v \in Unbound(e) : TRUE) \in Unbound(e)
    BY <1>2
  <2>2. ReservedFor(e) = Whole(CHOOSE v \in Unbound(e) : TRUE)
    BY <1>2 DEF ReservedFor, Unbound
  <2>3. ReservedFor(e)' = Whole(CHOOSE v \in Unbound(e) : TRUE)'
    BY <1>2 DEF ReservedFor, Unbound
  <2>4. QED
    BY <2>1, <2>2, <2>3
<1>3. QED
  BY <1>1, <1>2

LEMMA AllSame ==
    ASSUME users' = users, tenants' = tenants, members' = members
    PROVE  accountBar' = accountBar /\ reservedBar' = reservedBar
BY DEF accountBar, reservedBar, AccountOf, ReservedFor, Whole, WithSubject, WithEmail
-----------------------------------------------------------------------------
\* The commit of a successful call is the atomic sign-in of its subject.
LEMMA CommitIsSignIn ==
    ASSUME Inv, Inv', NEW c \in Calls, pc[c] = "commit",
           members[txn[c].held] # "disabled", Publish(c), approved' = approved,
           NEW u, u = txn[c].held, NEW e, e = args[c].email,
           NEW s, s = args[c].subject
    PROVE  /\ s \in Subjects /\ e \in Emails
           /\ Identity!SignIn(s, e)
<1> DEFINE row == [email |-> e, subject |-> s, status |-> "active"]
<1>1. /\ u \in UserIds
      /\ users' = [users EXCEPT ![u] = row]
      /\ tenants' = [tenants EXCEPT ![u] = "active"]
      /\ members' = [members EXCEPT ![u] = "active"]
      /\ e \in Emails /\ e \in approved /\ s \in Subjects /\ s # None
  BY CommitFacts
<1>2. row \in UserRow /\ row.email = e /\ row.subject = s /\ row.status = "active"
  BY <1>1 DEF UserRow, Status
<1> HIDE DEF row
<1>3. /\ \A v \in UserIds : users'[v] = IF v = u THEN row ELSE users[v]
      /\ \A v \in UserIds : tenants'[v] = IF v = u THEN "active" ELSE tenants[v]
      /\ \A v \in UserIds : members'[v] = IF v = u THEN "active" ELSE members[v]
  BY <1>1 DEF Inv, TypeOK
<1>4. row # None
  BY <1>2, NoneIsNothing
<1>5. CallOK(c) /\ KeysOK /\ KeysOK'
  BY DEF Inv
<1>6. users[u] # None => users[u].subject = s /\ users[u].status = "active"
  BY <1>1, <1>5, NoneIsNothing DEF CallOK
<1>7. users[u] = None => WithSubject(s) = {}
  <2>1. SUFFICES ASSUME users[u] = None, NEW v \in UserIds, users[v] # None,
                        users[v].subject = s
                 PROVE  FALSE
    BY DEF WithSubject
  <2>2. txn[c].draft # None /\ txn[c].draft.id = u /\ txn[c].draft.row.subject = s
    BY <1>1, <1>5, <2>1, NoneIsNothing DEF CallOK
  <2>3. QED
    BY <1>5, <2>1, <2>2 DEF KeysOK
<1>8. AccountOf(s)' = [email |-> e, user |-> "active", tenant |-> "active",
                       membership |-> "active"]
  <2>1. AccountOf(s)' = Whole(u)'
    BY <1>1, <1>2, <1>3, <1>4, <1>5, AccountIsNext
  <2>2. QED
    BY <1>1, <1>2, <1>3, <2>1 DEF Whole
<1>9. ASSUME NEW t \in Subjects, t # s PROVE AccountOf(t)' = AccountOf(t)
  <2>1. \A v \in WithSubject(t) : v # u /\ v \in UserIds
    BY <1>6, <1>9 DEF WithSubject
  <2>2. WithSubject(t)' = WithSubject(t)
    BY <1>2, <1>3, <1>4, <1>6, <1>9 DEF WithSubject
  <2>3. \A v \in WithSubject(t) : Whole(v)' = Whole(v)
    BY <1>3, <2>1 DEF Whole
  <2>4. QED
    BY <2>2, <2>3, AccountSame
<1>10. accountBar' = [accountBar EXCEPT ![s] = [email |-> e, user |-> "active",
                          tenant |-> "active", membership |-> "active"]]
  BY <1>1, <1>8, <1>9 DEF accountBar
<1>11. ASSUME NEW f \in Emails PROVE ReservedFor(f)' = ReservedFor(f)
  <2>1. Unbound(f)' = Unbound(f)
    BY <1>1, <1>2, <1>3, <1>4, <1>6 DEF Unbound, WithEmail
  <2>2. \A v \in Unbound(f) : v # u /\ v \in UserIds
    BY <1>1, <1>6 DEF Unbound, WithEmail
  <2>3. \A v \in Unbound(f) : Whole(v)' = Whole(v)
    BY <1>3, <2>2 DEF Whole
  <2>4. QED
    BY <2>1, <2>3, ReservedSame
<1>12. reservedBar' = reservedBar
  BY <1>11 DEF reservedBar
<1>13. \A v \in UserIds \ {u} : users[v] # None => users[v].email # e
  BY <1>1, <1>2, <1>3, <1>4, <1>5 DEF KeysOK
<1>14. reservedBar[e] = None
  <2>1. Unbound(e) = {}
    BY <1>1, <1>6, <1>13 DEF Unbound, WithEmail
  <2>2. QED
    BY <1>1, <2>1 DEF reservedBar, ReservedFor, Unbound
<1>15. ASSUME NEW t \in Subjects \ {s}, accountBar[t] # None
       PROVE  accountBar[t].email # e
  <2>1. AccountOf(t) # None
    BY <1>15 DEF accountBar
  <2>2. PICK v \in UserIds : users[v] # None /\ users[v].subject = t
    BY <2>1 DEF AccountOf, WithSubject
  <2>3. AccountOf(t) = Whole(v)
    BY <1>5, <2>2, AccountIs, NoneIsNothing
  <2>4. v # u
    BY <1>6, <2>2
  <2>5. QED
    BY <1>13, <2>2, <2>3, <2>4 DEF accountBar, Whole
<1>16. ~Identity!Blocked(s)
  <2>1. CASE users[u] = None
    BY <1>1, <1>7, <2>1 DEF Identity!Blocked, AccountOf
  <2>2. CASE users[u] # None
    <3>1. AccountOf(s) = Whole(u)
      BY <1>1, <1>5, <1>6, <2>2, AccountIs
    <3>2. tenants[u] # "disabled" /\ members[u] # "disabled"
      BY <1>5 DEF CallOK
    <3>3. QED
      BY <1>1, <1>6, <2>2, <3>1, <3>2 DEF Identity!Blocked, Whole
  <2>3. QED
    BY <2>1, <2>2
<1>17. Identity!Available(e, s)
  BY <1>14, <1>15 DEF Identity!Available, accountBar, reservedBar
<1>18. QED
  BY <1>1, <1>10, <1>12, <1>16, <1>17 DEF Identity!SignIn, accountBar, reservedBar

LEMMA BindIsBind ==
    ASSUME Inv, Inv', NEW u \in UserIds, NEW s \in Subjects, BindSubject(u, s),
           NEW e, e = users[u].email
    PROVE  e \in Emails /\ Identity!Bind(s, e)
<1> DEFINE row == [users[u] EXCEPT !.subject = s]
<1>1. /\ users' = [users EXCEPT ![u] = row]
      /\ tenants' = tenants /\ members' = members /\ approved' = approved
      /\ users[u] # None /\ users[u].subject = None /\ WithSubject(s) = {}
      /\ s # None
  BY NoneIsNothing DEF BindSubject
<1>2. /\ users[u] \in UserRow /\ e \in Emails /\ row # None
      /\ row.email = e /\ row.subject = s /\ row.status = users[u].status
  BY <1>1, NoneIsNothing DEF Inv, TypeOK, UserRow
<1> HIDE DEF row
<1>3. \A v \in UserIds : users'[v] = IF v = u THEN row ELSE users[v]
  BY <1>1 DEF Inv, TypeOK
<1>4. KeysOK /\ KeysOK' /\ CompleteAccounts
  BY DEF Inv, AccountsOK
<1>5. Whole(u) # None
  BY <1>2, WholeIsNotNone DEF Inv, TypeOK
<1>6. AccountOf(s) = None /\ ReservedFor(e) = Whole(u)
  <2>1. ReservedFor(e) = Whole(u)
    BY <1>1, <1>2, <1>4, ReservedIs
  <2>2. QED
    BY <1>1, <2>1 DEF AccountOf
<1>7. AccountOf(s)' = Whole(u)
  <2>1. AccountOf(s)' = Whole(u)'
    BY <1>1, <1>2, <1>3, <1>4, AccountIsNext
  <2>2. QED
    BY <1>1, <1>2, <1>3, <2>1 DEF Whole
<1>8. ASSUME NEW t \in Subjects, t # s PROVE AccountOf(t)' = AccountOf(t)
  <2>1. \A v \in WithSubject(t) : v # u /\ v \in UserIds
    BY <1>1, <1>8, NoneIsNothing DEF WithSubject
  <2>2. WithSubject(t)' = WithSubject(t)
    BY <1>1, <1>2, <1>3, <1>8, NoneIsNothing DEF WithSubject
  <2>3. \A v \in WithSubject(t) : Whole(v)' = Whole(v)
    BY <1>1, <1>3, <2>1 DEF Whole
  <2>4. QED
    BY <2>2, <2>3, AccountSame
<1>9. ReservedFor(e)' = None
  <2>1. Unbound(e)' = {}
    BY <1>1, <1>2, <1>3, <1>4 DEF Unbound, WithEmail, KeysOK
  <2>2. QED
    BY <2>1 DEF ReservedFor, Unbound
<1>10. ASSUME NEW f \in Emails, f # e PROVE ReservedFor(f)' = ReservedFor(f)
  <2>1. Unbound(f)' = Unbound(f)
    BY <1>1, <1>2, <1>3, <1>10 DEF Unbound, WithEmail
  <2>2. \A v \in Unbound(f) : v # u /\ v \in UserIds
    BY <1>10 DEF Unbound, WithEmail
  <2>3. \A v \in Unbound(f) : Whole(v)' = Whole(v)
    BY <1>1, <1>3, <2>2 DEF Whole
  <2>4. QED
    BY <2>1, <2>3, ReservedSame
<1>11. accountBar' = [accountBar EXCEPT ![s] = Whole(u)]
  BY <1>7, <1>8 DEF accountBar
<1>12. reservedBar' = [reservedBar EXCEPT ![e] = None]
  BY <1>2, <1>9, <1>10 DEF reservedBar
<1>13. accountBar[s] = None /\ reservedBar[e] = Whole(u)
  BY <1>2, <1>6 DEF accountBar, reservedBar
<1>14. QED
  BY <1>1, <1>2, <1>5, <1>11, <1>12, <1>13
     DEF Identity!Bind, accountBar, reservedBar

\* A row whose status, tenant or membership changes, and nothing else, changes the
\* account of its subject, or the unbound account of its address.
LEMMA RowUpdate ==
    ASSUME Inv, Inv', NEW u \in UserIds, users[u] # None, users'[u] # None,
           users'[u].email = users[u].email, users'[u].subject = users[u].subject,
           \A v \in UserIds \ {u} : /\ users'[v] = users[v] /\ tenants'[v] = tenants[v]
                                     /\ members'[v] = members[v],
           NEW s, s = users[u].subject, NEW e, e = users[u].email
    PROVE  /\ e \in Emails /\ s \in Subjects \cup {None}
           /\ s # None => /\ accountBar' = [accountBar EXCEPT ![s] = Whole(u)']
                          /\ accountBar[s] = Whole(u)
                          /\ reservedBar' = reservedBar
           /\ s = None => /\ accountBar' = accountBar
                          /\ reservedBar' = [reservedBar EXCEPT ![e] = Whole(u)']
                          /\ reservedBar[e] = Whole(u)
<1>1. KeysOK /\ KeysOK' /\ users[u] \in UserRow
  BY DEF Inv, TypeOK
<1>2. e \in Emails /\ s \in Subjects \cup {None}
  BY <1>1 DEF UserRow
<1>3. ASSUME NEW t \in Subjects, t # s PROVE AccountOf(t)' = AccountOf(t)
  <2>1. WithSubject(t)' = WithSubject(t)
    BY <1>3 DEF WithSubject
  <2>2. \A v \in WithSubject(t) : v # u /\ v \in UserIds
    BY <1>3 DEF WithSubject
  <2>3. \A v \in WithSubject(t) : Whole(v)' = Whole(v)
    BY <2>2 DEF Whole
  <2>4. QED
    BY <2>1, <2>3, AccountSame
<1>4. ASSUME NEW f \in Emails, s # None \/ f # e PROVE ReservedFor(f)' = ReservedFor(f)
  <2>1. Unbound(f)' = Unbound(f)
    BY <1>4 DEF Unbound, WithEmail
  <2>2. \A v \in Unbound(f) : v # u /\ v \in UserIds
    BY <1>4 DEF Unbound, WithEmail
  <2>3. \A v \in Unbound(f) : Whole(v)' = Whole(v)
    BY <2>2 DEF Whole
  <2>4. QED
    BY <2>1, <2>3, ReservedSame
<1>5. ASSUME s # None
      PROVE  /\ accountBar' = [accountBar EXCEPT ![s] = Whole(u)']
             /\ accountBar[s] = Whole(u)
             /\ reservedBar' = reservedBar
  <2>1. s \in Subjects /\ AccountOf(s) = Whole(u) /\ AccountOf(s)' = Whole(u)'
    BY <1>1, <1>2, <1>5, AccountIs, AccountIsNext
  <2>2. QED
    BY <1>3, <1>4, <1>5, <2>1 DEF accountBar, reservedBar
<1>6. ASSUME s = None
      PROVE  /\ accountBar' = accountBar
             /\ reservedBar' = [reservedBar EXCEPT ![e] = Whole(u)']
             /\ reservedBar[e] = Whole(u)
  <2>1. ReservedFor(e) = Whole(u) /\ ReservedFor(e)' = Whole(u)'
    BY <1>1, <1>2, <1>6, ReservedIs, ReservedIsNext
  <2>2. \A t \in Subjects : AccountOf(t)' = AccountOf(t)
    BY <1>3, <1>6, NoneIsNothing
  <2>3. QED
    BY <1>2, <1>4, <2>1, <2>2 DEF accountBar, reservedBar
<1>7. QED
  BY <1>2, <1>5, <1>6

\* The owner's status changes are status changes of the account.
LEMMA StatusIsStatus ==
    ASSUME Inv, Inv', NEW u \in UserIds, NEW st \in Status,
           SetUserStatus(u, st) \/ SetTenantStatus(u, st) \/ SetMembershipStatus(u, st)
    PROVE  \/ \E s \in Subjects : Identity!SetStatus(s, st)
           \/ \E e \in Emails : Identity!SetReservedStatus(e, st)
<1>1. /\ users \in [UserIds -> UserRow \cup {None}]
      /\ tenants \in [UserIds -> Status \cup {None}]
      /\ members \in [UserIds -> Status \cup {None}]
      /\ CompleteAccounts
  BY DEF Inv, TypeOK, AccountsOK
<1>2. users[u] # None
  BY <1>1 DEF SetUserStatus, SetTenantStatus, SetMembershipStatus, CompleteAccounts
<1>3. PICK s, e : s = users[u].subject /\ e = users[u].email
  OBVIOUS
<1>4. users[u] \in UserRow
  BY <1>1, <1>2
<1>5. approved' = approved
  BY DEF SetUserStatus, SetTenantStatus, SetMembershipStatus
<1>6. /\ users'[u] # None /\ users'[u].email = e /\ users'[u].subject = s
      /\ \A v \in UserIds \ {u} : /\ users'[v] = users[v] /\ tenants'[v] = tenants[v]
                                 /\ members'[v] = members[v]
      /\ \/ Whole(u)' = [Whole(u) EXCEPT !.user = st]
         \/ tenants[u] # None /\ Whole(u)' = [Whole(u) EXCEPT !.tenant = st]
         \/ members[u] # None /\ Whole(u)' = [Whole(u) EXCEPT !.membership = st]
  <2>1. CASE SetUserStatus(u, st)
    <3>1. users' = [users EXCEPT ![u] = [users[u] EXCEPT !.status = st]]
          /\ tenants' = tenants /\ members' = members
      BY <2>1 DEF SetUserStatus
    <3>2. users'[u] = [users[u] EXCEPT !.status = st]
          /\ \A v \in UserIds \ {u} : users'[v] = users[v]
      BY <1>1, <3>1
    <3>3. users'[u] # None /\ users'[u].email = e /\ users'[u].subject = s
          /\ users'[u].status = st
      BY <1>3, <1>4, <3>2, NoneIsNothing DEF UserRow
    <3>4. Whole(u)' = [Whole(u) EXCEPT !.user = st]
      BY <1>3, <3>1, <3>3 DEF Whole
    <3>5. QED
      BY <3>1, <3>2, <3>3, <3>4
  <2>2. CASE SetTenantStatus(u, st)
    BY <1>1, <1>2, <1>3, <2>2 DEF SetTenantStatus, Whole
  <2>3. CASE SetMembershipStatus(u, st)
    BY <1>1, <1>2, <1>3, <2>3 DEF SetMembershipStatus, Whole
  <2>4. QED
    BY <2>1, <2>2, <2>3
<1>7. /\ e \in Emails /\ s \in Subjects \cup {None}
      /\ s # None => /\ accountBar' = [accountBar EXCEPT ![s] = Whole(u)']
                     /\ accountBar[s] = Whole(u)
                     /\ reservedBar' = reservedBar
      /\ s = None => /\ accountBar' = accountBar
                     /\ reservedBar' = [reservedBar EXCEPT ![e] = Whole(u)']
                     /\ reservedBar[e] = Whole(u)
  BY <1>2, <1>3, <1>6, RowUpdate
<1>8. Whole(u) # None
  BY <1>1, <1>4, WholeIsNotNone
<1>9. Whole(u).tenant = tenants[u] /\ Whole(u).membership = members[u]
  BY DEF Whole
<1>10. CASE s # None
  <2>1. \/ accountBar' = [accountBar EXCEPT ![s].user = st]
        \/ tenants[u] # None /\ accountBar' = [accountBar EXCEPT ![s].tenant = st]
        \/ members[u] # None /\ accountBar' = [accountBar EXCEPT ![s].membership = st]
    BY <1>6, <1>7, <1>10
  <2>2. Identity!SetStatus(s, st)
    BY <1>5, <1>7, <1>8, <1>9, <1>10, <2>1
       DEF Identity!SetStatus, accountBar, reservedBar
  <2>3. QED
    BY <1>7, <1>10, <2>2
<1>11. CASE s = None
  <2>1. \/ reservedBar' = [reservedBar EXCEPT ![e].user = st]
        \/ tenants[u] # None /\ reservedBar' = [reservedBar EXCEPT ![e].tenant = st]
        \/ members[u] # None /\ reservedBar' = [reservedBar EXCEPT ![e].membership = st]
    BY <1>6, <1>7, <1>11
  <2>2. Identity!SetReservedStatus(e, st)
    BY <1>5, <1>7, <1>8, <1>9, <1>11, <2>1
       DEF Identity!SetReservedStatus, accountBar, reservedBar
  <2>3. QED
    BY <1>7, <2>2
<1>12. QED
  BY <1>10, <1>11
-----------------------------------------------------------------------------
LEMMA InitIsInit == Init => Identity!Init
<1> SUFFICES ASSUME Init PROVE Identity!Init
  OBVIOUS
<1>1. Inv
  BY InitInv
<1>2. \A s \in Subjects : WithSubject(s) = {}
  BY NoneIsNothing DEF Init, WithSubject
<1>3. ASSUME NEW e \in Emails PROVE ReservedFor(e) \in Identity!Unbound(e) \cup {None}
  <2>1. CASE Unbound(e) = {}
    BY <2>1 DEF ReservedFor, Unbound
  <2>2. CASE Unbound(e) # {}
    <3>1. PICK u \in UserIds : users[u] # None /\ users[u].email = e
                               /\ users[u].subject = None
      BY <2>2 DEF Unbound, WithEmail
    <3>2. ReservedFor(e) = Whole(u)
      BY <1>1, <3>1, ReservedIs DEF Inv
    <3>3. /\ users[u].status = "active" /\ members[u] = tenants[u]
          /\ tenants[u] # None => tenants[u] = "active" /\ e \in approved
      BY <3>1 DEF Init
    <3>4. Whole(u) \in Identity!Unbound(e)
      BY <3>1, <3>3 DEF Whole, Identity!Unbound
    <3>5. QED
      BY <3>2, <3>4
  <2>3. QED
    BY <2>1, <2>2
<1>4. approved \in SUBSET Emails
  BY DEF Init
<1>5. reservedBar \in [Emails -> {None} \cup UNION {Identity!Unbound(e) : e \in Emails}]
  <2>1. \A e \in Emails :
            ReservedFor(e) \in {None} \cup UNION {Identity!Unbound(f) : f \in Emails}
    BY <1>3
  <2>2. QED
    BY <2>1 DEF reservedBar
<1>6. accountBar = [s \in Subjects |-> None]
  BY <1>2 DEF accountBar, AccountOf
<1>7. \A e \in Emails : reservedBar[e] \in Identity!Unbound(e) \cup {None}
  BY <1>3 DEF reservedBar
<1>8. QED
  BY <1>4, <1>5, <1>6, <1>7 DEF Identity!Init, accountBar, reservedBar

LEMMA StepIsStep ==
    Inv /\ Inv' /\ [Next]_vars =>
        Identity!Next \/ UNCHANGED <<accountBar, reservedBar, approved>>
<1> SUFFICES ASSUME Inv, Inv', [Next]_vars
             PROVE  Identity!Next \/ UNCHANGED <<accountBar, reservedBar, approved>>
  OBVIOUS
<1>1. CASE users' = users /\ tenants' = tenants /\ members' = members
           /\ approved' = approved
  BY <1>1, AllSame
<1>2. ASSUME NEW c \in Calls, pc[c] = "commit", members[txn[c].held] # "disabled",
             Publish(c), approved' = approved
      PROVE  Identity!Next
  <2>1. \E s \in Subjects, e \in Emails : Identity!SignIn(s, e)
    BY <1>2, CommitIsSignIn
  <2>2. QED
    BY <2>1 DEF Identity!Next
<1>3. CASE OwnerNext
  <2>1. ASSUME NEW e \in Emails, AllowlistAdd(e) PROVE Identity!Approve(e)
    BY <2>1, AllSame DEF AllowlistAdd, committed, Identity!Approve, accountBar, reservedBar
  <2>2. ASSUME NEW e \in Emails, AllowlistRemove(e)
        PROVE  UNCHANGED <<accountBar, reservedBar, approved>>
    BY <2>2, AllSame DEF AllowlistRemove, committed
  <2>3. ASSUME NEW u \in UserIds, NEW s \in Subjects, BindSubject(u, s)
        PROVE  \E e \in Emails : Identity!Bind(s, e)
    BY <2>3, BindIsBind
  <2>4. ASSUME NEW u \in UserIds, NEW st \in Status,
               SetUserStatus(u, st) \/ SetTenantStatus(u, st) \/ SetMembershipStatus(u, st)
        PROVE  Identity!Next
    <3>1. \/ \E s \in Subjects : Identity!SetStatus(s, st)
          \/ \E e \in Emails : Identity!SetReservedStatus(e, st)
      BY <2>4, StatusIsStatus
    <3>2. st \in Identity!Status
      BY DEF Status, Identity!Status
    <3>3. QED
      BY <3>1, <3>2 DEF Identity!Next
  <2>5. (\E e \in Emails : Identity!Approve(e)) => Identity!Next
    BY DEF Identity!Next
  <2>6. (\E s \in Subjects, e \in Emails : Identity!Bind(s, e)) => Identity!Next
    BY DEF Identity!Next
  <2>7. QED
    BY <1>3, <2>1, <2>2, <2>3, <2>4, <2>5, <2>6 DEF OwnerNext
<1>4. QED
  BY <1>1, <1>2, <1>3, WhoWrites

\* Provisioning is serializable: however the statements of concurrent calls and the
\* owner's operations interleave, abort and wait for each other, what they commit
\* is what atomic sign-ins would have made of it.
THEOREM Refinement == Spec => ImplementsIdentity
<1>1. Inv /\ Inv' /\ [Next]_vars => [Identity!Next]_<<accountBar, reservedBar, approved>>
  BY StepIsStep
<1>2. Inv /\ Inv' /\ [Next]_vars => [Identity!Next]_Identity!vars
  BY <1>1 DEF Identity!vars, accountBar, reservedBar
<1>3. QED
  BY <1>2, InitIsInit, Invariance, PTL DEF Spec, ImplementsIdentity, Identity!Spec
=============================================================================
