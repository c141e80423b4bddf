--------------------------- MODULE TenantContext ---------------------------
(***************************************************************************)
(* Units of work over a pool of connections: the transaction-local tenant of  *)
(* backend/storage/tenant_context.py, the row policies of migration 0002 that  *)
(* read it, and the tenant repository whose statements they filter.           *)
(*                                                                          *)
(* The tenant is known twice: to Python, as a mark on the session, and to      *)
(* PostgreSQL, as a setting of the connection that commits, rollbacks and      *)
(* savepoints undo.  A scope is a block; blocks nest, and may be left while    *)
(* the transaction has already failed.                                        *)
(***************************************************************************)
EXTENDS Integers, Sequences

CONSTANTS
    Units,      \* units of work: async with sessions() as session, session.begin()
    Conns,      \* pooled connections
    Tenants, Users, Names,
    None,
    MaxBlocks   \* bound: blocks open in each unit

VARIABLES
    txn,        \* "none", "open", "failed" (a statement failed), "closed" early
    conn,       \* the connection a unit has checked out, or None
    bound,      \* session.info[_SCOPE_KEY], or None
    blocks,     \* the open blocks: scopes, scopes entered again, savepoints
    pending,    \* the uncommitted name a unit gave a tenant; holds the row lock
    setting,    \* vespers.tenant_id of a connection
    name, status, member    \* the committed rows

session == <<txn, conn, bound, blocks>>
rows == <<name, status, member>>
vars == <<session, pending, setting, rows>>

\* A savepoint remembers the setting and the writes it will restore.
Write == [Tenants -> Names \cup {None}]
Block == [kind : {"scope", "again", "savepoint"}, tenant : Tenants \cup {None}, undo : Write]
NoWrite == [t \in Tenants |-> None]

ASSUME ContextAssumption ==
    /\ None \notin Conns \cup Tenants \cup Names \cup {"active", "disabled"}
    /\ MaxBlocks \in [Units -> Nat]

-----------------------------------------------------------------------------
\* Row-level security: what a statement of the runtime role reaches under a setting.
\* An empty setting is NULL, and no row has a NULL key.
TenantsSelect(g) == {t \in Tenants : t = g}
TenantsUpdate_AnyStatus(g) == {t \in Tenants : t = g}
TenantsUpdate(g) == {t \in Tenants : t = g /\ status[t] = "active"}
MembershipsSelect(g) == {m \in Tenants \X Users : m[1] = g /\ member[m[1]][m[2]] # None}
UsersSelect(g) == {p \in Users : \E t \in Tenants : t = g /\ member[t][p] = "active"}

\* The repository's statements carry no tenant: the policies supply it.
Current(u) == setting[conn[u]]
GetTenant(u) == TenantsSelect(Current(u))
ListMembers(u) ==
    {p \in UsersSelect(Current(u)) : \E t \in Tenants : <<t, p>> \in MembershipsSelect(Current(u))}

Init ==
    /\ txn = [u \in Units |-> "none"]
    /\ conn = [u \in Units |-> None]
    /\ bound = [u \in Units |-> None]
    /\ blocks = [u \in Units |-> <<>>]
    /\ pending = [u \in Units |-> NoWrite]
    /\ setting = [c \in Conns |-> None]
    /\ name \in [Tenants -> Names]
    /\ status = [t \in Tenants |-> "active"]
    /\ member \in [Tenants -> [Users -> {None, "active"}]]

-----------------------------------------------------------------------------
\* The end of a transaction: a local setting goes with it, and so do row locks.
AfterTransaction(g) == None
Release(u) ==
    /\ setting' = [setting EXCEPT ![conn[u]] = AfterTransaction(setting[conn[u]])]
    /\ conn' = [conn EXCEPT ![u] = None]
    /\ pending' = [pending EXCEPT ![u] = NoWrite]

Begin(u) ==
    /\ txn[u] = "none"
    /\ \E c \in Conns : /\ \A v \in Units : conn[v] # c
                        /\ conn' = [conn EXCEPT ![u] = c]
    /\ txn' = [txn EXCEPT ![u] = "open"]
    /\ UNCHANGED <<bound, blocks, pending, setting, rows>>

Top(u) == blocks[u][Len(blocks[u])]
Push(u, b) ==
    /\ Len(blocks[u]) < MaxBlocks[u]
    /\ blocks' = [blocks EXCEPT ![u] = Append(@, b)]
Pop(u) == blocks' = [blocks EXCEPT ![u] = SubSeq(@, 1, Len(@) - 1)]

\* tenant_scope, entered: outside a transaction, and for another tenant inside a
\* scope, it raises; in a failed transaction the setting cannot be made.
EnterScope(u, t) ==
    /\ txn[u] = "open"
    /\ bound[u] = None
    /\ setting' = [setting EXCEPT ![conn[u]] = t]
    /\ bound' = [bound EXCEPT ![u] = t]
    /\ Push(u, [kind |-> "scope", tenant |-> t, undo |-> NoWrite])
    /\ UNCHANGED <<txn, conn, pending, rows>>
EnterAgain_Rebinds(u, t) ==
    /\ txn[u] = "open"
    /\ bound[u] # None
    /\ setting' = [setting EXCEPT ![conn[u]] = t]
    /\ Push(u, [kind |-> "again", tenant |-> t, undo |-> NoWrite])
    /\ UNCHANGED <<txn, conn, bound, pending, rows>>
EnterAgain(u, t) ==
    /\ txn[u] \in {"open", "failed"}
    /\ bound[u] = t
    /\ Push(u, [kind |-> "again", tenant |-> t, undo |-> NoWrite])
    /\ UNCHANGED <<txn, conn, bound, pending, setting, rows>>

\* tenant_scope, left normally or by an exception: the mark always goes, the
\* setting only if the transaction still takes statements.
ExitScope(u) ==
    /\ blocks[u] # <<>> /\ Top(u).kind = "scope"
    /\ Pop(u)
    /\ bound' = [bound EXCEPT ![u] = None]
    /\ \/ txn[u] = "open" /\ setting' = [setting EXCEPT ![conn[u]] = None]
       \/ txn[u] # "open" /\ UNCHANGED setting
    /\ UNCHANGED <<txn, conn, pending, rows>>
ExitAgain_Clears(u) ==
    /\ blocks[u] # <<>> /\ Top(u).kind = "again"
    /\ Pop(u)
    /\ bound' = [bound EXCEPT ![u] = None]
    /\ \/ txn[u] = "open" /\ setting' = [setting EXCEPT ![conn[u]] = None]
       \/ txn[u] # "open" /\ UNCHANGED setting
    /\ UNCHANGED <<txn, conn, pending, rows>>
ExitAgain(u) ==
    /\ blocks[u] # <<>> /\ Top(u).kind = "again"
    /\ Pop(u)
    /\ UNCHANGED <<txn, conn, bound, pending, setting, rows>>

\* A savepoint block restores the setting and the writes if it is rolled back,
\* and so makes a failed transaction usable again.
Savepoint(u) ==
    /\ txn[u] = "open"
    /\ Push(u, [kind |-> "savepoint", tenant |-> Current(u), undo |-> pending[u]])
    /\ UNCHANGED <<txn, conn, bound, pending, setting, rows>>
LeaveSavepoint(u) ==
    /\ blocks[u] # <<>> /\ Top(u).kind = "savepoint"
    /\ Pop(u)
    /\ UNCHANGED <<conn, bound, rows>>
    /\ \/ txn[u] \in {"open", "closed"} /\ UNCHANGED <<txn, pending, setting>>
       \/ /\ txn[u] \in {"open", "failed"}
          /\ txn' = [txn EXCEPT ![u] = "open"]
          /\ pending' = [pending EXCEPT ![u] = Top(u).undo]
          /\ setting' = [setting EXCEPT ![conn[u]] = Top(u).tenant]

\* rename_tenant: an unfiltered UPDATE; it waits for another unit's row lock.
RenameTenant(u, n) ==
    /\ txn[u] = "open"
    /\ \A t \in TenantsUpdate(Current(u)), v \in Units \ {u} : pending[v][t] = None
    /\ pending' = [pending EXCEPT ![u] =
          [t \in Tenants |-> IF t \in TenantsUpdate(Current(u)) THEN n ELSE @[t]]]
    /\ UNCHANGED <<session, setting, rows>>

\* A statement fails, and with it every later one up to a savepoint.
StatementFails(u) ==
    /\ txn[u] = "open"
    /\ txn' = [txn EXCEPT ![u] = "failed"]
    /\ UNCHANGED <<conn, bound, blocks, pending, setting, rows>>

\* The body rolls back, or the connection is lost, while blocks are open.
CloseEarly(u) ==
    /\ txn[u] \in {"open", "failed"}
    /\ txn' = [txn EXCEPT ![u] = "closed"]
    /\ Release(u)
    /\ UNCHANGED <<bound, blocks, rows>>

\* session.begin() and the session are left, after every block in them.
Commit(u) ==
    /\ txn[u] = "open" /\ blocks[u] = <<>>
    /\ txn' = [txn EXCEPT ![u] = "none"]
    /\ name' = [t \in Tenants |-> IF pending[u][t] # None THEN pending[u][t] ELSE name[t]]
    /\ Release(u)
    /\ UNCHANGED <<bound, blocks, status, member>>
Rollback(u) ==
    /\ txn[u] \in {"open", "failed"} /\ blocks[u] = <<>>
    /\ txn' = [txn EXCEPT ![u] = "none"]
    /\ Release(u)
    /\ UNCHANGED <<bound, blocks, rows>>
EndClosed(u) ==
    /\ txn[u] = "closed" /\ blocks[u] = <<>>
    /\ txn' = [txn EXCEPT ![u] = "none"]
    /\ UNCHANGED <<conn, bound, blocks, pending, setting, rows>>

\* The owner, outside every policy.  Its update waits for row locks as well.
SetTenantStatus(t, st) ==
    /\ \A u \in Units : pending[u][t] = None
    /\ status' = [status EXCEPT ![t] = st]
    /\ UNCHANGED <<session, pending, setting, name, member>>
SetMembership(t, p, st) ==
    /\ member' = [member EXCEPT ![t][p] = st]
    /\ UNCHANGED <<session, pending, setting, name, status>>

Next ==
    \/ \E u \in Units :
          \/ Begin(u) \/ ExitScope(u) \/ ExitAgain(u) \/ Savepoint(u) \/ LeaveSavepoint(u)
          \/ StatementFails(u) \/ CloseEarly(u) \/ Commit(u) \/ Rollback(u) \/ EndClosed(u)
          \/ \E t \in Tenants : EnterScope(u, t) \/ EnterAgain(u, t)
          \/ \E n \in Names : RenameTenant(u, n)
    \/ \E t \in Tenants, st \in {"active", "disabled"} :
          \/ SetTenantStatus(t, st)
          \/ \E p \in Users : SetMembership(t, p, st)

Spec == Init /\ [][Next]_vars

-----------------------------------------------------------------------------
TypeOK ==
    /\ txn \in [Units -> {"none", "open", "failed", "closed"}]
    /\ conn \in [Units -> Conns \cup {None}]
    /\ bound \in [Units -> Tenants \cup {None}]
    /\ blocks \in [Units -> Seq(Block)]
    /\ pending \in [Units -> Write]
    /\ setting \in [Conns -> Tenants \cup {None}]
    /\ name \in [Tenants -> Names]
    /\ status \in [Tenants -> {"active", "disabled"}]
    /\ member \in [Tenants -> [Users -> {None, "active", "disabled"}]]

\* Connections are exclusive, and the ones in the pool carry no tenant.
ConnsOK ==
    /\ \A u \in Units : conn[u] # None <=> txn[u] \in {"open", "failed"}
    /\ \A u, v \in Units : conn[u] = conn[v] /\ conn[u] # None => u = v
    /\ \A c \in Conns : (\A u \in Units : conn[u] # c) => setting[c] = None

\* The tenant in force before a block was entered, and inside a sequence of blocks.
Before(b) == IF b.kind = "scope" THEN None ELSE b.tenant
Inside(bs) == IF bs = <<>> THEN None ELSE bs[Len(bs)].tenant

\* Every block is entered under the tenant of the block around it, and a tenant is
\* in force only inside a scope of it.
NestedOK(bs) ==
    \A i \in 1 .. Len(bs) :
        /\ Before(bs[i]) = IF i = 1 THEN None ELSE bs[i - 1].tenant
        /\ bs[i].kind # "savepoint" => bs[i].tenant # None
        /\ bs[i].tenant # None =>
              \E j \in 1 .. i : bs[j].kind # "savepoint" /\ bs[j].tenant = bs[i].tenant
        /\ \A j \in 1 .. i : bs[j].kind # "savepoint" => bs[i].tenant = bs[j].tenant

\* The mark and, while statements run, the setting are the tenant of the innermost
\* block.
BlocksOK ==
    \A u \in Units :
        /\ NestedOK(blocks[u])
        /\ bound[u] = Inside(blocks[u])
        /\ txn[u] = "open" => Current(u) = Inside(blocks[u])
        /\ txn[u] = "none" => blocks[u] = <<>>

\* A savepoint restores only writes the unit still holds, and an outer one no more
\* than an inner one.
UndoOK(bs, w) ==
    \A i \in 1 .. Len(bs), t \in Tenants :
        bs[i].undo[t] # None =>
            /\ w[t] # None
            /\ \A j \in i .. Len(bs) : bs[j].kind = "savepoint" => bs[j].undo[t] # None

\* A row is written by one unit at a time, and stays active while it is.
LocksOK ==
    /\ \A u, v \in Units, t \in Tenants :
          pending[u][t] # None /\ pending[v][t] # None => u = v
    /\ \A u \in Units, t \in Tenants :
          pending[u][t] # None => status[t] = "active" /\ txn[u] \in {"open", "failed"}
    /\ \A u \in Units : txn[u] \in {"open", "failed"} => UndoOK(blocks[u], pending[u])

Inv == TypeOK /\ ConnsOK /\ BlocksOK /\ LocksOK

\* Tenants of the scopes a unit is in.
Scopes(u) ==
    {blocks[u][i].tenant : i \in {j \in 1 .. Len(blocks[u]) : blocks[u][j].kind # "savepoint"}}

\* docs/tenant-foundations.md, "Transaction-local context": a connection is never
\* checked out of the pool with the tenant of the unit that used it before.
PoolIsClean ==
    \A c \in Conns : (\A u \in Units : conn[u] # c) => setting[c] = None

\* Whatever blocks were entered, left, failed and rolled back before, a statement
\* reaches only the tenant of the scope it is written in, its users only through an
\* active membership there, and outside every scope it reaches nothing.
Isolation ==
    \A u \in Units : txn[u] = "open" =>
        /\ GetTenant(u) \cup TenantsUpdate(Current(u)) \subseteq Scopes(u)
        /\ \A p \in UsersSelect(Current(u)) :
              \E t \in Scopes(u) : member[t][p] = "active"

\* A scope is never silently without effect: inside one, while the transaction takes
\* statements, its tenant is there to be read, and an active member is listed.
ScopeIsInForce ==
    \A u \in Units : txn[u] = "open" =>
        \A t \in Scopes(u) :
            /\ GetTenant(u) = {t}
            /\ \A p \in Users : member[t][p] = "active" => p \in ListMembers(u)

\* tenants_update: a tenant that has been disabled keeps its name, even against a
\* rename that was waiting or uncommitted when it was disabled.
DisabledKeepsName ==
    [][\A t \in Tenants : status[t] = "disabled" => name'[t] = name[t]]_vars
=============================================================================
