------------------------ MODULE TenantContext_proofs ------------------------
(***************************************************************************)
(* Proofs about TenantContext: through every nesting of scopes, savepoints,   *)
(* failures and rollbacks, and every reuse of a pooled connection, the tenant  *)
(* PostgreSQL filters by is the one of the scope the statement is written in.  *)
(*                                                                          *)
(* The invariant is a property of the sequence of open blocks (NestedOK): each *)
(* was entered under the tenant of the block around it, so leaving a block, or  *)
(* rolling it back, brings back the tenant that was in force before.            *)
(***************************************************************************)
EXTENDS TenantContext, SequenceTheorems, TLAPS

\* The blocks left when the innermost one is.
Front(bs) == SubSeq(bs, 1, Len(bs) - 1)

LEMMA FrontOf ==
    ASSUME NEW bs \in Seq(Block), bs # <<>>
    PROVE  /\ Front(bs) \in Seq(Block) /\ Len(bs) \in Nat \ {0}
           /\ Len(Front(bs)) = Len(bs) - 1
           /\ \A i \in 1 .. Len(bs) - 1 : Front(bs)[i] = bs[i]
           /\ bs[Len(bs)] \in Block
<1> DEFINE n == Len(bs)
<1>1. n \in Nat \ {0} /\ bs[n] \in Block
  OBVIOUS
<1>2. 1 \in 1 .. n + 1 /\ n - 1 \in 1 - 1 .. n /\ (n - 1) - 1 + 1 = n - 1
      /\ \A i \in 1 .. n - 1 : 1 + i - 1 = i
  BY <1>1
<1>3. /\ SubSeq(bs, 1, n - 1) \in Seq(Block)
      /\ Len(SubSeq(bs, 1, n - 1)) = (n - 1) - 1 + 1
      /\ \A i \in 1 .. (n - 1) - 1 + 1 : SubSeq(bs, 1, n - 1)[i] = bs[1 + i - 1]
  BY <1>2, SubSeqProperties
<1>4. QED
  BY <1>1, <1>2, <1>3 DEF Front

LEMMA AppendOf ==
    ASSUME NEW bs \in Seq(Block), NEW b \in Block
    PROVE  /\ Append(bs, b) \in Seq(Block) /\ Len(bs) \in Nat
           /\ Len(Append(bs, b)) = Len(bs) + 1
           /\ \A i \in 1 .. Len(bs) : Append(bs, b)[i] = bs[i]
           /\ Append(bs, b)[Len(bs) + 1] = b
OBVIOUS

\* The nesting of the first n blocks, and the tenant in force inside them.
Nested(bs, n) ==
    \A i \in 1 .. n :
        /\ Before(bs[i]) = IF i = 1 THEN None ELSE bs[i - 1].tenant
        /\ bs[i].kind # "savepoint" => bs[i].tenant # None
        /\ bs[i].tenant # None =>
              \E j \in 1 .. i : bs[j].kind # "savepoint" /\ bs[j].tenant = bs[i].tenant
        /\ \A j \in 1 .. i : bs[j].kind # "savepoint" => bs[i].tenant = bs[j].tenant
Under(bs, n) == IF n = 0 THEN None ELSE bs[n].tenant

LEMMA NestedIs ==
    ASSUME NEW bs \in Seq(Block)
    PROVE  NestedOK(bs) = Nested(bs, Len(bs)) /\ Inside(bs) = Under(bs, Len(bs))
<1>1. bs = <<>> <=> Len(bs) = 0
  OBVIOUS
<1>2. QED
  BY <1>1 DEF NestedOK, Nested, Inside, Under

LEMMA NestedSame ==
    ASSUME NEW as, NEW bs, NEW n \in Nat, \A i \in 1 .. n : as[i] = bs[i], Nested(bs, n)
    PROVE  Nested(as, n) /\ Under(as, n) = Under(bs, n)
<1>1. ASSUME NEW i \in 1 .. n
      PROVE  /\ as[i] = bs[i] /\ (i # 1 => as[i - 1] = bs[i - 1])
             /\ \A j \in 1 .. i : as[j] = bs[j]
  <2>1. i # 1 => i - 1 \in 1 .. n
    OBVIOUS
  <2>2. \A j \in 1 .. i : j \in 1 .. n
    OBVIOUS
  <2>3. QED
    BY <2>1, <2>2
<1>2. Nested(as, n)
  <2> SUFFICES ASSUME NEW i \in 1 .. n
               PROVE  /\ Before(as[i]) = IF i = 1 THEN None ELSE as[i - 1].tenant
                      /\ as[i].kind # "savepoint" => as[i].tenant # None
                      /\ as[i].tenant # None =>
                            \E j \in 1 .. i :
                               as[j].kind # "savepoint" /\ as[j].tenant = as[i].tenant
                      /\ \A j \in 1 .. i :
                            as[j].kind # "savepoint" => as[i].tenant = as[j].tenant
    BY DEF Nested
  <2>1. as[i] = bs[i] /\ (i # 1 => as[i - 1] = bs[i - 1])
    BY <1>1
  <2>2. /\ Before(bs[i]) = IF i = 1 THEN None ELSE bs[i - 1].tenant
        /\ bs[i].kind # "savepoint" => bs[i].tenant # None
    BY DEF Nested
  <2>3. Before(as[i]) = IF i = 1 THEN None ELSE as[i - 1].tenant
    BY <2>1, <2>2
  <2>4. ASSUME as[i].tenant # None
        PROVE  \E j \in 1 .. i : as[j].kind # "savepoint" /\ as[j].tenant = as[i].tenant
    <3>1. PICK j \in 1 .. i : bs[j].kind # "savepoint" /\ bs[j].tenant = bs[i].tenant
      BY <2>1, <2>4 DEF Nested
    <3>2. QED
      BY <1>1, <3>1
  <2>5. ASSUME NEW j \in 1 .. i, as[j].kind # "savepoint"
        PROVE  as[i].tenant = as[j].tenant
    <3>1. bs[j].kind # "savepoint"
      BY <1>1, <2>5
    <3>2. bs[i].tenant = bs[j].tenant
      BY <3>1 DEF Nested
    <3>3. QED
      BY <1>1, <3>2
  <2>6. QED
    BY <2>1, <2>2, <2>3, <2>4, <2>5
<1>3. n # 0 => n \in 1 .. n
  OBVIOUS
<1>4. QED
  BY <1>2, <1>3 DEF Under

LEMMA NestedLess ==
    ASSUME NEW bs, NEW n \in Nat \ {0}, Nested(bs, n)
    PROVE  Nested(bs, n - 1) /\ Under(bs, n - 1) = Before(bs[n]) /\ n - 1 \in Nat
<1>1. n \in 1 .. n /\ n - 1 \in Nat /\ (n - 1 = 0 <=> n = 1)
      /\ \A i \in 1 .. n - 1 : i \in 1 .. n
  OBVIOUS
<1>2. QED
  BY <1>1 DEF Nested, Under

\* A block entered under the tenant in force keeps the nesting.
LEMMA NestedMore ==
    ASSUME NEW bs, NEW n \in Nat, Nested(bs, n), Before(bs[n + 1]) = Under(bs, n),
           bs[n + 1].kind # "savepoint" => bs[n + 1].tenant # None
    PROVE  Nested(bs, n + 1) /\ Under(bs, n + 1) = bs[n + 1].tenant
<1> DEFINE b == bs[n + 1]
<1>1. n # 0 => n \in 1 .. n
  OBVIOUS
<1>2. ASSUME NEW j \in 1 .. n, bs[j].kind # "savepoint"
      PROVE  b.tenant = bs[j].tenant
  <2>1. n \in 1 .. n /\ n # 0
    OBVIOUS
  <2>2. bs[j].tenant # None /\ bs[n].tenant = bs[j].tenant
    BY <1>2, <2>1 DEF Nested
  <2>3. QED
    BY <2>1, <2>2 DEF Under, Before
<1>3. b.tenant # None =>
         \E j \in 1 .. n + 1 : bs[j].kind # "savepoint" /\ bs[j].tenant = b.tenant
  <2>1. CASE b.kind # "savepoint"
    BY <2>1
  <2>2. CASE b.kind = "savepoint" /\ b.tenant # None
    <3>1. n \in 1 .. n /\ bs[n].tenant = b.tenant
      BY <1>1, <2>2 DEF Under, Before
    <3>2. PICK j \in 1 .. n : bs[j].kind # "savepoint" /\ bs[j].tenant = bs[n].tenant
      BY <2>2, <3>1 DEF Nested
    <3>3. QED
      BY <3>1, <3>2
  <2>3. QED
    BY <2>1, <2>2
<1>4. b.tenant = IF n + 1 = 0 THEN None ELSE bs[n + 1].tenant
  OBVIOUS
<1>5. \A i \in 1 .. n + 1 : i \in 1 .. n \/ i = n + 1
  OBVIOUS
<1>6. Before(b) = IF n + 1 = 1 THEN None ELSE bs[(n + 1) - 1].tenant
  BY DEF Under
<1>7. \A j \in 1 .. n + 1 : bs[j].kind # "savepoint" => b.tenant = bs[j].tenant
  BY <1>2, <1>5
<1>8. Nested(bs, n + 1)
  BY <1>3, <1>5, <1>6, <1>7 DEF Nested
<1>9. QED
  BY <1>4, <1>8 DEF Under

LEMMA PushNested ==
    ASSUME NEW bs \in Seq(Block), NestedOK(bs), NEW b \in Block, Before(b) = Inside(bs),
           b.kind # "savepoint" => b.tenant # None
    PROVE  NestedOK(Append(bs, b)) /\ Inside(Append(bs, b)) = b.tenant
<1>1. PICK as : as = Append(bs, b)
  OBVIOUS
<1>2. PICK n : n = Len(bs)
  OBVIOUS
<1>3. /\ as \in Seq(Block) /\ n \in Nat /\ Len(as) = n + 1
      /\ (\A i \in 1 .. n : as[i] = bs[i]) /\ as[n + 1] = b
  BY <1>1, <1>2, AppendOf
<1>4. Nested(bs, n) /\ Inside(bs) = Under(bs, n)
  BY <1>2, NestedIs
<1>5. Nested(as, n) /\ Under(as, n) = Under(bs, n)
  <2>1. n \in Nat /\ Nested(bs, n)
    BY <1>3, <1>4
  <2>2. \A i \in 1 .. n : as[i] = bs[i]
    BY <1>3
  <2>3. QED
    BY <2>1, <2>2, NestedSame
<1>6. Nested(as, n + 1) /\ Under(as, n + 1) = b.tenant
  BY <1>3, <1>4, <1>5, NestedMore
<1>7. QED
  BY <1>1, <1>3, <1>6, NestedIs

\* Leaving the innermost block brings back what was in force before it.
LEMMA PopNested ==
    ASSUME NEW bs \in Seq(Block), NestedOK(bs), bs # <<>>
    PROVE  /\ NestedOK(Front(bs)) /\ Inside(Front(bs)) = Before(bs[Len(bs)])
           /\ Inside(bs) = bs[Len(bs)].tenant
<1>1. PICK as : as = Front(bs)
  OBVIOUS
<1>2. PICK n : n = Len(bs)
  OBVIOUS
<1>3. /\ as \in Seq(Block) /\ n \in Nat \ {0} /\ Len(as) = n - 1
      /\ \A i \in 1 .. n - 1 : as[i] = bs[i]
  BY <1>1, <1>2, FrontOf
<1>4. Nested(bs, n) /\ Inside(bs) = Under(bs, n)
  BY <1>2, NestedIs
<1>5. Nested(bs, n - 1) /\ Under(bs, n - 1) = Before(bs[n]) /\ n - 1 \in Nat
  BY <1>3, <1>4, NestedLess
<1>6. Nested(as, n - 1) /\ Under(as, n - 1) = Before(bs[n])
  BY <1>3, <1>5, NestedSame
<1>7. QED
  BY <1>1, <1>2, <1>3, <1>4, <1>6, NestedIs DEF Under

-----------------------------------------------------------------------------
LEMMA NoneIsNothing ==
    None \notin Conns /\ None \notin Tenants /\ None \notin Names
BY ContextAssumption

LEMMA NoWriteType == NoWrite \in Write
BY DEF NoWrite, Write

\* The connection of a unit that runs statements is a connection, and only its own.
LEMMA Connected ==
    ASSUME Inv, NEW u \in Units, txn[u] \in {"open", "failed"}
    PROVE  conn[u] \in Conns /\ \A v \in Units : conn[v] = conn[u] => v = u
BY NoneIsNothing DEF Inv, TypeOK, ConnsOK

LEMMA TopOf ==
    ASSUME Inv, NEW u \in Units, blocks[u] # <<>>
    PROVE  /\ Top(u) \in Block /\ Front(blocks[u]) \in Seq(Block)
           /\ NestedOK(Front(blocks[u]))
           /\ Inside(Front(blocks[u])) = Before(Top(u))
           /\ bound[u] = Top(u).tenant
           /\ \A i \in 1 .. Len(Front(blocks[u])) :
                 i \in 1 .. Len(blocks[u]) /\ Front(blocks[u])[i] = blocks[u][i]
           /\ Len(blocks[u]) \in 1 .. Len(blocks[u]) /\ Top(u) = blocks[u][Len(blocks[u])]
<1>1. blocks[u] \in Seq(Block) /\ NestedOK(blocks[u]) /\ bound[u] = Inside(blocks[u])
  BY DEF Inv, TypeOK, BlocksOK
<1>2. /\ Front(blocks[u]) \in Seq(Block) /\ Len(blocks[u]) \in Nat \ {0}
      /\ Len(Front(blocks[u])) = Len(blocks[u]) - 1
      /\ \A i \in 1 .. Len(blocks[u]) - 1 : Front(blocks[u])[i] = blocks[u][i]
      /\ blocks[u][Len(blocks[u])] \in Block
  BY <1>1, FrontOf
<1>3. /\ NestedOK(Front(blocks[u]))
      /\ Inside(Front(blocks[u])) = Before(blocks[u][Len(blocks[u])])
      /\ Inside(blocks[u]) = blocks[u][Len(blocks[u])].tenant
  BY <1>1, PopNested
<1>4. QED
  BY <1>1, <1>2, <1>3 DEF Top

\* Only unit u, and the setting of its connection, change.
Alone(u) ==
    /\ \A v \in Units \ {u} : /\ blocks'[v] = blocks[v] /\ bound'[v] = bound[v]
                              /\ txn'[v] = txn[v] /\ conn'[v] = conn[v]
    /\ \A c \in Conns : c # conn[u] => setting'[c] = setting[c]

LEMMA OneUnit ==
    ASSUME Inv, NEW u \in Units, Alone(u), NEW bs, bs = blocks'[u],
           NestedOK(bs), bound'[u] = Inside(bs),
           txn'[u] = "open" => setting'[conn'[u]] = Inside(bs),
           txn'[u] = "none" => bs = <<>>
    PROVE  BlocksOK'
<1> SUFFICES ASSUME NEW v \in Units
             PROVE  /\ NestedOK(blocks'[v]) /\ bound'[v] = Inside(blocks'[v])
                    /\ txn'[v] = "open" => setting'[conn'[v]] = Inside(blocks'[v])
                    /\ txn'[v] = "none" => blocks'[v] = <<>>
  BY DEF BlocksOK, Current, NestedOK, Inside, Before
<1>1. CASE v = u
  BY <1>1
<1>2. CASE v # u
  <2>1. /\ blocks'[v] = blocks[v] /\ bound'[v] = bound[v]
        /\ txn'[v] = txn[v] /\ conn'[v] = conn[v]
    BY <1>2 DEF Alone
  <2>2. txn[v] = "open" => setting'[conn[v]] = setting[conn[v]]
    BY <1>2, Connected DEF Alone
  <2>3. QED
    BY <2>1, <2>2 DEF Inv, BlocksOK, Current
<1>3. QED
  BY <1>1, <1>2

\* What unit u has to respect when it comes to hold the writes w, in blocks bs.
Locked(u, bs, w, x) ==
    /\ \A t \in Tenants : w[t] # None =>
          /\ status[t] = "active" /\ x \in {"open", "failed"}
          /\ \A v \in Units \ {u} : pending[v][t] = None
    /\ x \in {"open", "failed"} => UndoOK(bs, w)

LEMMA OneLock ==
    ASSUME Inv, NEW u \in Units, Alone(u), status' = status,
           \A v \in Units \ {u} : pending'[v] = pending[v],
           Locked(u, blocks'[u], pending'[u], txn'[u])
    PROVE  LocksOK'
<1> DEFINE w == pending'[u]
<1>0. /\ \A t \in Tenants : w[t] # None =>
            /\ status[t] = "active" /\ txn'[u] \in {"open", "failed"}
            /\ \A v \in Units \ {u} : pending[v][t] = None
      /\ txn'[u] \in {"open", "failed"} => UndoOK(blocks'[u], w)
  BY DEF Locked
<1>1. ASSUME NEW v \in Units \ {u}
      PROVE  /\ pending'[v] = pending[v] /\ blocks'[v] = blocks[v] /\ txn'[v] = txn[v]
  BY DEF Alone
<1>2. \A v, z \in Units, t \in Tenants :
         pending'[v][t] # None /\ pending'[z][t] # None => v = z
  <2> SUFFICES ASSUME NEW v \in Units, NEW z \in Units, NEW t \in Tenants,
                      pending'[v][t] # None, pending'[z][t] # None
               PROVE  v = z
    OBVIOUS
  <2>1. CASE v # u /\ z # u
    BY <1>1, <2>1 DEF Inv, LocksOK
  <2>2. CASE v = u /\ z # u
    BY <1>0, <1>1, <2>2
  <2>3. CASE z = u /\ v # u
    BY <1>0, <1>1, <2>3
  <2>4. QED
    BY <2>1, <2>2, <2>3
<1>3. ASSUME NEW v \in Units
      PROVE  /\ \A t \in Tenants : pending'[v][t] # None =>
                   status'[t] = "active" /\ txn'[v] \in {"open", "failed"}
             /\ txn'[v] \in {"open", "failed"} => UndoOK(blocks'[v], pending'[v])
  <2>1. CASE v = u
    BY <1>0, <2>1
  <2>2. CASE v # u
    BY <1>1, <2>2 DEF Inv, LocksOK
  <2>3. QED
    BY <2>1, <2>2
<1>4. QED
  BY <1>2, <1>3 DEF LocksOK, UndoOK

LEMMA SameConns ==
    ASSUME Inv, NEW u \in Units, Alone(u), conn' = conn,
           txn'[u] \in {"open", "failed"} <=> txn[u] \in {"open", "failed"},
           conn[u] = None => setting' = setting
    PROVE  ConnsOK'
<1>1. \A v \in Units : txn'[v] \in {"open", "failed"} <=> txn[v] \in {"open", "failed"}
  BY DEF Alone
<1>2. ASSUME NEW c \in Conns, \A v \in Units : conn[v] # c PROVE setting'[c] = None
  BY <1>2 DEF Alone, Inv, ConnsOK
<1>3. QED
  BY <1>1, <1>2 DEF Inv, ConnsOK

\* What a unit has locked, from the invariant.
LEMMA LocksOf ==
    ASSUME Inv, NEW u \in Units
    PROVE  /\ pending[u] \in Write
           /\ \A t \in Tenants : pending[u][t] # None =>
                 /\ status[t] = "active" /\ txn[u] \in {"open", "failed"}
                 /\ \A v \in Units \ {u} : pending[v][t] = None
           /\ txn[u] \in {"open", "failed"} => UndoOK(blocks[u], pending[u])
BY DEF Inv, TypeOK, LocksOK

\* A block is entered: the mark and the setting become its tenant.
LEMMA PushInv ==
    ASSUME Inv, NEW u \in Units, NEW b \in Block, Push(u, b),
           Before(b) = Inside(blocks[u]), b.kind # "savepoint" => b.tenant # None,
           txn[u] \in {"open", "failed"}, UNCHANGED <<txn, conn, pending, rows>>,
           bound' = [bound EXCEPT ![u] = b.tenant],
           \/ setting' = setting /\ (txn[u] = "open" => setting[conn[u]] = b.tenant)
           \/ setting' = [setting EXCEPT ![conn[u]] = b.tenant],
           b.undo \in {NoWrite, pending[u]}, b.kind = "savepoint" => b.undo = pending[u]
    PROVE  Inv'
<1>1. TypeOK /\ blocks[u] \in Seq(Block) /\ NestedOK(blocks[u]) /\ b.tenant \in Tenants \cup {None}
  BY DEF Inv, TypeOK, BlocksOK, Block
<1>2. conn[u] \in Conns
  BY Connected
<1>3. PICK as : as = Append(blocks[u], b)
  OBVIOUS
<1>4. as \in Seq(Block) /\ NestedOK(as) /\ Inside(as) = b.tenant
  BY <1>1, <1>3, AppendOf, PushNested
<1>5. blocks' = [blocks EXCEPT ![u] = as]
  BY <1>3 DEF Push
<1>6. blocks'[u] = as /\ Alone(u)
  BY <1>1, <1>2, <1>5 DEF TypeOK, Alone
<1>7. TypeOK'
  BY <1>1, <1>4, <1>5 DEF TypeOK, rows
<1>8. ConnsOK'
  BY <1>2, <1>6, NoneIsNothing, SameConns
<1>9. BlocksOK'
  <2>1. bound'[u] = b.tenant /\ (txn[u] = "open" => setting'[conn'[u]] = b.tenant)
    BY <1>1, <1>2 DEF TypeOK
  <2>2. QED
    BY <1>4, <1>6, <2>1, OneUnit
<1>10. LocksOK'
  <2>1. Len(as) = Len(blocks[u]) + 1 /\ Len(blocks[u]) \in Nat
        /\ (\A i \in 1 .. Len(blocks[u]) : as[i] = blocks[u][i])
        /\ as[Len(blocks[u]) + 1] = b
    BY <1>1, <1>3, AppendOf
  <2>2. \A i \in 1 .. Len(as) : i \in 1 .. Len(blocks[u]) \/ i = Len(blocks[u]) + 1
    BY <2>1
  <2>3. \A t \in Tenants : b.undo[t] # None => pending[u][t] # None
    BY DEF NoWrite
  <2>4. UndoOK(as, pending[u])
    <3> SUFFICES ASSUME NEW i \in 1 .. Len(as), NEW t \in Tenants, as[i].undo[t] # None
                 PROVE  /\ pending[u][t] # None
                        /\ \A j \in i .. Len(as) :
                              as[j].kind = "savepoint" => as[j].undo[t] # None
      BY DEF UndoOK
    <3>1. UndoOK(blocks[u], pending[u])
      BY LocksOf
    <3>2. pending[u][t] # None
      <4>1. CASE i \in 1 .. Len(blocks[u])
        BY <2>1, <3>1, <4>1 DEF UndoOK
      <4>2. CASE i = Len(blocks[u]) + 1
        BY <2>1, <2>3, <4>2
      <4>3. QED
        BY <2>2, <4>1, <4>2
    <3>3. ASSUME NEW j \in i .. Len(as), as[j].kind = "savepoint"
          PROVE  as[j].undo[t] # None
      <4>1. CASE j = Len(blocks[u]) + 1
        <5>1. b.kind = "savepoint" /\ as[j] = b
          BY <2>1, <3>3, <4>1
        <5>2. b.undo = pending[u]
          BY <5>1
        <5>3. QED
          BY <3>2, <5>1, <5>2
      <4>2. CASE j \in 1 .. Len(blocks[u])
        <5>1. PICK n \in Nat : n = Len(blocks[u])
          BY <2>1
        <5>2. i \in 1 .. n + 1 /\ j \in i .. n + 1 /\ j \in 1 .. n
          BY <2>1, <4>2, <5>1
        <5>3. i \in 1 .. n /\ j \in i .. n
          BY <5>2
        <5>4. as[i] = blocks[u][i] /\ as[j] = blocks[u][j]
          BY <2>1, <5>1, <5>2, <5>3
        <5>5. QED
          BY <3>1, <3>3, <5>1, <5>3, <5>4 DEF UndoOK
      <4>3. j \in 1 .. Len(as)
        BY <2>1
      <4>4. QED
        BY <2>2, <4>1, <4>2, <4>3
    <3>4. QED
      BY <3>2, <3>3
  <2>5. \A v \in Units \ {u} : pending'[v] = pending[v]
    OBVIOUS
  <2>6. status' = status /\ pending'[u] = pending[u] /\ txn'[u] = txn[u] /\ blocks'[u] = as
    BY <1>6 DEF rows
  <2>7. Locked(u, as, pending[u], txn[u])
    BY <2>4, LocksOf DEF Locked
  <2>8. QED
    BY <1>6, <2>5, <2>6, <2>7, OneLock
<1>11. QED
  BY <1>7, <1>8, <1>9, <1>10 DEF Inv

LEMMA EnterScopeInv ==
    ASSUME Inv, NEW u \in Units, NEW t \in Tenants, EnterScope(u, t) PROVE Inv'
<1> DEFINE b == [kind |-> "scope", tenant |-> t, undo |-> NoWrite]
<1>1. b \in Block /\ b.tenant = t /\ b.kind = "scope" /\ b.undo = NoWrite
  BY NoWriteType DEF Block
<1>2. Push(u, b)
  BY DEF EnterScope
<1> HIDE DEF b
<1>3. Before(b) = Inside(blocks[u])
  BY <1>1 DEF Before, EnterScope, Inv, BlocksOK
<1>4. QED
  BY <1>1, <1>2, <1>3, NoneIsNothing, PushInv DEF EnterScope

LEMMA EnterAgainInv ==
    ASSUME Inv, NEW u \in Units, NEW t \in Tenants, EnterAgain(u, t) PROVE Inv'
<1> DEFINE b == [kind |-> "again", tenant |-> t, undo |-> NoWrite]
<1>1. b \in Block /\ b.tenant = t /\ b.kind = "again" /\ b.undo = NoWrite
  BY NoWriteType DEF Block
<1>2. Push(u, b)
  BY DEF EnterAgain
<1> HIDE DEF b
<1>3. Before(b) = Inside(blocks[u]) /\ (txn[u] = "open" => setting[conn[u]] = b.tenant)
  BY <1>1 DEF Before, EnterAgain, Inv, BlocksOK, Current
<1>4. bound' = [bound EXCEPT ![u] = b.tenant]
  BY <1>1 DEF EnterAgain, Inv, TypeOK
<1>5. QED
  BY <1>1, <1>2, <1>3, <1>4, NoneIsNothing, PushInv DEF EnterAgain

LEMMA SavepointInv ==
    ASSUME Inv, NEW u \in Units, Savepoint(u) PROVE Inv'
<1> DEFINE b == [kind |-> "savepoint", tenant |-> Current(u), undo |-> pending[u]]
<1>1. conn[u] \in Conns
  BY Connected DEF Savepoint
<1>2. /\ Current(u) \in Tenants \cup {None} /\ pending[u] \in Write
      /\ Current(u) = Inside(blocks[u]) /\ bound[u] = Inside(blocks[u])
  BY <1>1 DEF Savepoint, Inv, TypeOK, BlocksOK, Current
<1>3. b \in Block /\ b.tenant = Current(u) /\ b.kind = "savepoint" /\ b.undo = pending[u]
  BY <1>2 DEF Block
<1>4. Push(u, b)
  BY DEF Savepoint
<1> HIDE DEF b
<1>5. Before(b) = Inside(blocks[u]) /\ setting[conn[u]] = b.tenant
  BY <1>2, <1>3 DEF Before, Current
<1>6. bound' = [bound EXCEPT ![u] = b.tenant]
  BY <1>2, <1>3 DEF Savepoint, Inv, TypeOK
<1>7. QED
  BY <1>3, <1>4, <1>5, <1>6, PushInv DEF Savepoint

-----------------------------------------------------------------------------
\* A block is left: the mark and the setting become what they were before it.
LEMMA PopInv ==
    ASSUME Inv, NEW u \in Units, blocks[u] # <<>>, Pop(u), UNCHANGED <<conn, rows>>,
           bound' = [bound EXCEPT ![u] = Before(Top(u))],
           NEW w \in Write, pending' = [pending EXCEPT ![u] = w],
           w = pending[u] \/ (w = Top(u).undo /\ txn[u] \in {"open", "failed"}),
           \/ setting' = setting
              /\ (txn'[u] = "open" => setting[conn[u]] = Before(Top(u)))
           \/ /\ setting' = [setting EXCEPT ![conn[u]] = Before(Top(u))]
              /\ txn[u] \in {"open", "failed"},
           NEW x \in {"open", "failed", "closed"}, txn' = [txn EXCEPT ![u] = x],
           x \in {"open", "failed"} <=> txn[u] \in {"open", "failed"},
           w # pending[u] => Top(u).kind = "savepoint"
    PROVE  Inv'
<1>1. TypeOK /\ Top(u) \in Block
  BY TopOf DEF Inv
<1>2. Before(Top(u)) \in Tenants \cup {None}
  BY <1>1 DEF Before, Block
<1>3. PICK as : as = Front(blocks[u])
  OBVIOUS
<1>4. as \in Seq(Block) /\ NestedOK(as) /\ Inside(as) = Before(Top(u))
      /\ \A i \in 1 .. Len(as) : as[i] = blocks[u][i]
  BY <1>3, TopOf
<1>5. blocks' = [blocks EXCEPT ![u] = as]
  BY <1>3 DEF Pop, Front
<1>6. txn[u] \in {"open", "failed"} => conn[u] \in Conns
  BY Connected
<1>7. /\ blocks'[u] = as /\ txn'[u] = x /\ Alone(u)
      /\ pending'[u] = w /\ \A v \in Units \ {u} : pending'[v] = pending[v]
  BY <1>1, <1>5, <1>6 DEF TypeOK, Alone
<1>8. TypeOK'
  BY <1>1, <1>2, <1>4, <1>5 DEF TypeOK, rows
<1>9. ConnsOK'
  <2>1. conn[u] = None => setting' = setting
    BY <1>6, NoneIsNothing
  <2>2. QED
    BY <1>7, <2>1, SameConns
<1>10. BlocksOK'
  <2>1. bound'[u] = Before(Top(u)) /\ (x = "open" => setting'[conn'[u]] = Before(Top(u)))
    BY <1>1, <1>6, <1>7 DEF TypeOK
  <2>2. QED
    BY <1>4, <1>7, <2>1, OneUnit
<1>11. LocksOK'
  <2>1. /\ Len(blocks[u]) \in 1 .. Len(blocks[u]) /\ Top(u) = blocks[u][Len(blocks[u])]
        /\ Len(as) = Len(blocks[u]) - 1 /\ Len(blocks[u]) \in Nat \ {0}
    BY <1>3, TopOf, FrontOf DEF Inv, TypeOK
  <2>2. \A t \in Tenants : w[t] # None => pending[u][t] # None
    <3>1. CASE w = pending[u]
      BY <3>1
    <3>2. CASE w = Top(u).undo /\ txn[u] \in {"open", "failed"}
      BY <2>1, <3>2, LocksOf DEF UndoOK
    <3>3. QED
      BY <3>1, <3>2
  <2>3. ASSUME x \in {"open", "failed"} PROVE UndoOK(as, w)
    <3>1. UndoOK(blocks[u], pending[u])
      BY <2>3, LocksOf
    <3> SUFFICES ASSUME NEW i \in 1 .. Len(as), NEW t \in Tenants, as[i].undo[t] # None
                 PROVE  /\ w[t] # None
                        /\ \A j \in i .. Len(as) :
                              as[j].kind = "savepoint" => as[j].undo[t] # None
      BY DEF UndoOK
    <3>2. /\ i \in 1 .. Len(blocks[u]) /\ as[i] = blocks[u][i]
          /\ Len(blocks[u]) \in i .. Len(blocks[u])
          /\ \A j \in i .. Len(as) : j \in i .. Len(blocks[u]) /\ as[j] = blocks[u][j]
      <4>1. PICK n \in Nat \ {0} : n = Len(blocks[u])
        BY <2>1
      <4>2. Len(as) = n - 1
        BY <2>1, <4>1
      <4>3. i \in 1 .. n - 1
        BY <4>2
      <4>4. i \in 1 .. n /\ n \in i .. n
            /\ \A j \in i .. n - 1 : j \in i .. n /\ j \in 1 .. n - 1
        BY <4>3
      <4>5. \A j \in 1 .. n - 1 : as[j] = blocks[u][j]
        BY <1>4, <4>2
      <4>6. QED
        BY <4>1, <4>2, <4>3, <4>4, <4>5
    <3>3. \A j \in i .. Len(blocks[u]) :
             blocks[u][j].kind = "savepoint" => blocks[u][j].undo[t] # None
      BY <3>1, <3>2 DEF UndoOK
    <3>4. w[t] # None
      <4>1. CASE w = pending[u]
        BY <3>1, <3>2, <4>1 DEF UndoOK
      <4>2. CASE w # pending[u]
        BY <2>1, <3>2, <3>3, <4>2
      <4>3. QED
        BY <4>1, <4>2
    <3>5. QED
      BY <3>2, <3>3, <3>4
  <2>4. Locked(u, as, w, x)
    BY <2>2, <2>3, LocksOf DEF Locked
  <2>5. status' = status
    BY DEF rows
  <2>6. QED
    BY <1>7, <2>4, <2>5, OneLock
<1>12. QED
  BY <1>8, <1>9, <1>10, <1>11 DEF Inv

\* A unit with open blocks has, or had, a transaction.
LEMMA Begun ==
    ASSUME Inv, NEW u \in Units, blocks[u] # <<>>
    PROVE  /\ txn[u] \in {"open", "failed", "closed"} /\ pending[u] \in Write
           /\ txn = [txn EXCEPT ![u] = txn[u]] /\ pending = [pending EXCEPT ![u] = pending[u]]
           /\ bound[u] = Top(u).tenant /\ bound = [bound EXCEPT ![u] = bound[u]]
           /\ txn[u] = "open" => setting[conn[u]] = Top(u).tenant
<1>1. bound[u] = Top(u).tenant
  BY TopOf
<1>2. txn[u] # "none" /\ (txn[u] = "open" => setting[conn[u]] = bound[u])
  BY DEF Inv, BlocksOK, Current
<1>3. QED
  BY <1>1, <1>2 DEF Inv, TypeOK

LEMMA ExitScopeInv ==
    ASSUME Inv, NEW u \in Units, ExitScope(u) PROVE Inv'
<1>1. blocks[u] # <<>> /\ Pop(u) /\ Before(Top(u)) = None
  BY DEF ExitScope, Before
<1>2. /\ txn[u] \in {"open", "failed", "closed"} /\ pending[u] \in Write
      /\ txn' = [txn EXCEPT ![u] = txn[u]] /\ pending' = [pending EXCEPT ![u] = pending[u]]
  BY <1>1, Begun DEF ExitScope
<1>3. \/ setting' = setting /\ (txn'[u] = "open" => setting[conn[u]] = Before(Top(u)))
      \/ /\ setting' = [setting EXCEPT ![conn[u]] = Before(Top(u))]
         /\ txn[u] \in {"open", "failed"}
  BY <1>1 DEF ExitScope
<1>4. UNCHANGED <<conn, rows>> /\ bound' = [bound EXCEPT ![u] = Before(Top(u))]
  BY <1>1 DEF ExitScope
<1>5. QED
  BY <1>1, <1>2, <1>3, <1>4, PopInv

LEMMA ExitAgainInv ==
    ASSUME Inv, NEW u \in Units, ExitAgain(u) PROVE Inv'
<1>1. blocks[u] # <<>> /\ Pop(u) /\ Before(Top(u)) = Top(u).tenant
  BY DEF ExitAgain, Before
<1>2. /\ txn[u] \in {"open", "failed", "closed"} /\ pending[u] \in Write
      /\ txn' = [txn EXCEPT ![u] = txn[u]] /\ pending' = [pending EXCEPT ![u] = pending[u]]
      /\ bound' = [bound EXCEPT ![u] = Before(Top(u))]
      /\ setting' = setting /\ (txn'[u] = "open" => setting[conn[u]] = Before(Top(u)))
  BY <1>1, Begun DEF ExitAgain
<1>3. UNCHANGED <<conn, rows>>
  BY DEF ExitAgain
<1>4. QED
  BY <1>1, <1>2, <1>3, PopInv

LEMMA LeaveSavepointInv ==
    ASSUME Inv, NEW u \in Units, LeaveSavepoint(u) PROVE Inv'
<1>1. /\ blocks[u] # <<>> /\ Pop(u) /\ Before(Top(u)) = Top(u).tenant
      /\ Top(u).kind = "savepoint" /\ Top(u).undo \in Write
  BY TopOf DEF LeaveSavepoint, Before, Block
<1>2. UNCHANGED <<conn, rows>> /\ bound' = [bound EXCEPT ![u] = Before(Top(u))]
  BY <1>1, Begun DEF LeaveSavepoint
<1>3. CASE txn[u] \in {"open", "closed"} /\ UNCHANGED <<txn, pending, setting>>
  <2>1. /\ txn[u] \in {"open", "failed", "closed"} /\ pending[u] \in Write
        /\ txn' = [txn EXCEPT ![u] = txn[u]] /\ pending' = [pending EXCEPT ![u] = pending[u]]
        /\ setting' = setting /\ (txn'[u] = "open" => setting[conn[u]] = Before(Top(u)))
    BY <1>1, <1>3, Begun
  <2>2. QED
    BY <1>1, <1>2, <2>1, PopInv
<1>4. CASE /\ txn[u] \in {"open", "failed"}
           /\ txn' = [txn EXCEPT ![u] = "open"]
           /\ pending' = [pending EXCEPT ![u] = Top(u).undo]
           /\ setting' = [setting EXCEPT ![conn[u]] = Top(u).tenant]
  BY <1>1, <1>2, <1>4, PopInv
<1>5. QED
  BY <1>3, <1>4 DEF LeaveSavepoint

-----------------------------------------------------------------------------
LEMMA BeginInv ==
    ASSUME Inv, NEW u \in Units, Begin(u) PROVE Inv'
<1>1. PICK c \in Conns : (\A v \in Units : conn[v] # c) /\ conn' = [conn EXCEPT ![u] = c]
  BY DEF Begin
<1>2. /\ setting[c] = None /\ setting' = setting /\ blocks' = blocks /\ bound' = bound
      /\ pending' = pending /\ status' = status /\ blocks[u] = <<>> /\ Inside(blocks[u]) = None
  BY <1>1 DEF Begin, rows, Inv, ConnsOK, BlocksOK, Inside
<1>3. /\ txn'[u] = "open" /\ conn'[u] = c /\ conn[u] = None /\ txn[u] = "none"
      /\ \A v \in Units \ {u} : txn'[v] = txn[v] /\ conn'[v] = conn[v]
  BY <1>1 DEF Begin, Inv, TypeOK, ConnsOK
<1>4. TypeOK'
  BY <1>1 DEF Inv, TypeOK, Begin, rows
<1>5. ConnsOK'
  <2>1. \A v \in Units : conn'[v] # None <=> txn'[v] \in {"open", "failed"}
    BY <1>3, NoneIsNothing DEF Inv, ConnsOK
  <2>2. \A v, z \in Units : conn'[v] = conn'[z] /\ conn'[v] # None => v = z
    BY <1>1, <1>3 DEF Inv, ConnsOK
  <2>3. \A d \in Conns : (\A v \in Units : conn'[v] # d) => setting'[d] = None
    <3> SUFFICES ASSUME NEW d \in Conns, \A v \in Units : conn'[v] # d
                 PROVE  setting[d] = None
      BY <1>2
    <3>1. \A v \in Units : conn[v] # d
      BY <1>3, NoneIsNothing
    <3>2. QED
      BY <3>1 DEF Inv, ConnsOK
  <2>4. QED
    BY <2>1, <2>2, <2>3 DEF ConnsOK
<1>6. BlocksOK'
  BY <1>2, <1>3, OneUnit DEF Alone, Inv, BlocksOK
<1>7. LocksOK'
  <2>1. UndoOK(blocks[u], pending[u])
    BY <1>2 DEF UndoOK
  <2>2. Locked(u, blocks[u], pending[u], "open")
    BY <1>3, <2>1, LocksOf DEF Locked
  <2>3. QED
    BY <1>2, <1>3, <2>2, OneLock DEF Alone
<1>8. QED
  BY <1>4, <1>5, <1>6, <1>7 DEF Inv

LEMMA StatementFailsInv ==
    ASSUME Inv, NEW u \in Units, StatementFails(u) PROVE Inv'
<1>1. /\ txn'[u] = "failed" /\ txn[u] = "open" /\ Alone(u)
      /\ conn' = conn /\ bound' = bound /\ blocks' = blocks /\ pending' = pending
      /\ setting' = setting /\ status' = status
  BY DEF StatementFails, Inv, TypeOK, Alone, rows
<1>2. TypeOK'
  BY DEF Inv, TypeOK, StatementFails, rows
<1>3. ConnsOK'
  BY <1>1, SameConns
<1>4. BlocksOK'
  BY <1>1, OneUnit DEF Inv, BlocksOK
<1>5. LocksOK'
  <2>1. Locked(u, blocks[u], pending[u], "failed")
    BY <1>1, LocksOf DEF Locked
  <2>2. QED
    BY <1>1, <2>1, OneLock
<1>6. QED
  BY <1>2, <1>3, <1>4, <1>5 DEF Inv

\* A rename adds locks only on active rows no other unit has locked, and no
\* savepoint restores a write the unit does not hold.
LEMMA RenameTenantInv ==
    ASSUME Inv, NEW u \in Units, NEW n \in Names, RenameTenant(u, n) PROVE Inv'
<1>1. PICK w : w = [t \in Tenants |-> IF t \in TenantsUpdate(Current(u)) THEN n
                                        ELSE pending[u][t]]
  OBVIOUS
<1>2. pending' = [pending EXCEPT ![u] = w]
  BY <1>1 DEF RenameTenant
<1>3. w \in Write /\ n # None
  BY <1>1, NoneIsNothing, LocksOf DEF Write
<1>4. /\ conn' = conn /\ bound' = bound /\ blocks' = blocks /\ txn' = txn /\ txn[u] = "open"
      /\ setting' = setting /\ status' = status /\ Alone(u)
  BY DEF RenameTenant, session, rows, Alone
<1>5. TypeOK'
  BY <1>2, <1>3, <1>4 DEF Inv, TypeOK, RenameTenant, session, rows
<1>6. ConnsOK'
  BY <1>4, SameConns
<1>7. BlocksOK'
  BY <1>4, OneUnit DEF Inv, BlocksOK, Current
<1>8. pending'[u] = w /\ \A v \in Units \ {u} : pending'[v] = pending[v]
  BY <1>2 DEF Inv, TypeOK
<1>9. UndoOK(blocks[u], w)
  <2>1. UndoOK(blocks[u], pending[u]) /\ \A t \in Tenants : pending[u][t] # None => w[t] # None
    BY <1>1, <1>3, <1>4, LocksOf
  <2>2. QED
    BY <2>1 DEF UndoOK
<1>10. ASSUME NEW t \in Tenants, w[t] # None
       PROVE  /\ status[t] = "active"
              /\ \A v \in Units \ {u} : pending[v][t] = None
  <2>1. CASE t \in TenantsUpdate(Current(u))
    BY <2>1 DEF TenantsUpdate, RenameTenant
  <2>2. CASE t \notin TenantsUpdate(Current(u))
    BY <1>1, <1>10, <2>2, LocksOf
  <2>3. QED
    BY <2>1, <2>2
<1>11. LocksOK'
  <2>1. Locked(u, blocks[u], w, "open")
    BY <1>9, <1>10 DEF Locked
  <2>2. QED
    BY <1>4, <1>8, <2>1, OneLock
<1>12. QED
  BY <1>5, <1>6, <1>7, <1>11 DEF Inv

\* The end of a transaction, with or without its blocks: its connection goes back
\* with no tenant, and it holds no row.
LEMMA ReleaseInv ==
    ASSUME Inv, NEW u \in Units, Release(u), txn[u] \in {"open", "failed"},
           NEW x \in {"none", "closed"}, txn' = [txn EXCEPT ![u] = x],
           x = "none" => blocks[u] = <<>>,
           UNCHANGED <<bound, blocks, status, member>>, name' \in [Tenants -> Names]
    PROVE  Inv'
<1>1. conn[u] \in Conns /\ \A v \in Units : conn[v] = conn[u] => v = u
  BY Connected
<1>2. /\ setting' = [setting EXCEPT ![conn[u]] = None] /\ conn' = [conn EXCEPT ![u] = None]
      /\ pending' = [pending EXCEPT ![u] = NoWrite]
  BY DEF Release, AfterTransaction
<1>3. /\ txn'[u] = x /\ conn'[u] = None /\ pending'[u] = NoWrite /\ setting'[conn[u]] = None
      /\ \A v \in Units \ {u} :
            txn'[v] = txn[v] /\ conn'[v] = conn[v] /\ pending'[v] = pending[v]
      /\ \A c \in Conns : c # conn[u] => setting'[c] = setting[c]
      /\ blocks' = blocks /\ bound' = bound /\ status' = status
  BY <1>1, <1>2 DEF Inv, TypeOK
<1>4. TypeOK'
  BY <1>1, <1>2, NoWriteType DEF Inv, TypeOK
<1>5. ConnsOK'
  <2>1. \A v \in Units : conn'[v] # None <=> txn'[v] \in {"open", "failed"}
    BY <1>3 DEF Inv, ConnsOK
  <2>2. \A v, z \in Units : conn'[v] = conn'[z] /\ conn'[v] # None => v = z
    BY <1>3 DEF Inv, ConnsOK
  <2>3. \A d \in Conns : (\A v \in Units : conn'[v] # d) => setting'[d] = None
    <3> SUFFICES ASSUME NEW d \in Conns, \A v \in Units : conn'[v] # d, d # conn[u]
                 PROVE  setting[d] = None
      BY <1>3
    <3>1. \A v \in Units : conn[v] # d
      BY <1>3
    <3>2. QED
      BY <3>1 DEF Inv, ConnsOK
  <2>4. QED
    BY <2>1, <2>2, <2>3 DEF ConnsOK
<1>6. BlocksOK'
  BY <1>3, OneUnit DEF Alone, Inv, BlocksOK
<1>7. LocksOK'
  <2>1. Locked(u, blocks[u], NoWrite, x)
    BY DEF Locked, NoWrite
  <2>2. QED
    BY <1>3, <2>1, OneLock DEF Alone
<1>8. QED
  BY <1>4, <1>5, <1>6, <1>7 DEF Inv

LEMMA EndsInv ==
    ASSUME Inv, NEW u \in Units, CloseEarly(u) \/ Commit(u) \/ Rollback(u) PROVE Inv'
<1>1. CASE CloseEarly(u)
  BY <1>1, ReleaseInv DEF CloseEarly, rows, Inv, TypeOK
<1>2. CASE Rollback(u)
  BY <1>2, ReleaseInv DEF Rollback, rows, Inv, TypeOK
<1>3. CASE Commit(u)
  <2>1. \A t \in Tenants : (IF pending[u][t] # None THEN pending[u][t] ELSE name[t]) \in Names
    BY LocksOf DEF Write, Inv, TypeOK
  <2>2. name' \in [Tenants -> Names]
    BY <1>3, <2>1 DEF Commit
  <2>3. QED
    BY <1>3, <2>2, ReleaseInv DEF Commit
<1>4. QED
  BY <1>1, <1>2, <1>3

LEMMA EndClosedInv ==
    ASSUME Inv, NEW u \in Units, EndClosed(u) PROVE Inv'
<1>1. /\ txn'[u] = "none" /\ txn[u] = "closed" /\ Alone(u) /\ blocks[u] = <<>>
      /\ conn' = conn /\ bound' = bound /\ blocks' = blocks /\ pending' = pending
      /\ setting' = setting /\ status' = status
  BY DEF EndClosed, Inv, TypeOK, Alone, rows
<1>2. TypeOK'
  BY DEF Inv, TypeOK, EndClosed, rows
<1>3. ConnsOK'
  BY <1>1, SameConns
<1>4. BlocksOK'
  BY <1>1, OneUnit DEF Inv, BlocksOK
<1>5. LocksOK'
  <2>1. Locked(u, blocks[u], pending[u], "none")
    BY <1>1, LocksOf DEF Locked
  <2>2. QED
    BY <1>1, <2>1, OneLock
<1>6. QED
  BY <1>2, <1>3, <1>4, <1>5 DEF Inv

LEMMA OwnerInv ==
    ASSUME Inv, NEW t \in Tenants, NEW st \in {"active", "disabled"},
           \/ SetTenantStatus(t, st)
           \/ \E p \in Users : SetMembership(t, p, st)
    PROVE  Inv'
<1>1. /\ txn' = txn /\ conn' = conn /\ bound' = bound /\ blocks' = blocks
      /\ pending' = pending /\ setting' = setting
  BY DEF SetTenantStatus, SetMembership, session
<1>2. /\ name' = name /\ status' \in [Tenants -> {"active", "disabled"}]
      /\ member' \in [Tenants -> [Users -> {None, "active", "disabled"}]]
      /\ \A u \in Units, s \in Tenants : pending[u][s] # None => status'[s] = status[s]
  <2>1. CASE SetTenantStatus(t, st)
    BY <2>1 DEF SetTenantStatus, Inv, TypeOK
  <2>2. ASSUME NEW p \in Users, SetMembership(t, p, st)
        PROVE  /\ name' = name /\ status' = status
               /\ member' \in [Tenants -> [Users -> {None, "active", "disabled"}]]
    <3>1. member[t] \in [Users -> {None, "active", "disabled"}]
      BY DEF Inv, TypeOK
    <3>2. [member[t] EXCEPT ![p] = st] \in [Users -> {None, "active", "disabled"}]
      BY <3>1
    <3>3. member' = [member EXCEPT ![t] = [member[t] EXCEPT ![p] = st]]
      BY <2>2 DEF SetMembership
    <3>4. QED
      BY <2>2, <3>2, <3>3 DEF SetMembership, Inv, TypeOK
  <2>3. QED
    BY <2>1, <2>2 DEF Inv, TypeOK
<1>3. TypeOK'
  BY <1>1, <1>2 DEF Inv, TypeOK
<1>4. ConnsOK' /\ BlocksOK'
  BY <1>1 DEF Inv, ConnsOK, BlocksOK, Current
<1>5. LocksOK'
  BY <1>1, <1>2 DEF Inv, LocksOK
<1>6. QED
  BY <1>3, <1>4, <1>5 DEF Inv

-----------------------------------------------------------------------------
LEMMA InitInv ==
    ASSUME Init PROVE Inv
<1>1. <<>> \in Seq(Block) /\ NestedOK(<<>>) /\ Inside(<<>>) = None
      /\ \A w : UndoOK(<<>>, w)
  BY DEF NestedOK, Inside, UndoOK
<1>2. TypeOK
  BY <1>1, NoWriteType DEF Init, TypeOK
<1>3. ConnsOK
  BY DEF Init, ConnsOK
<1>4. BlocksOK
  BY <1>1 DEF Init, BlocksOK
<1>5. LocksOK
  BY <1>1 DEF Init, LocksOK, NoWrite
<1>6. QED
  BY <1>2, <1>3, <1>4, <1>5 DEF Inv

LEMMA NextInv ==
    ASSUME Inv, [Next]_vars PROVE Inv'
<1>1. ASSUME NEW u \in Units PROVE
      /\ Begin(u) => Inv'
      /\ ExitScope(u) => Inv'
      /\ ExitAgain(u) => Inv'
      /\ Savepoint(u) => Inv'
      /\ LeaveSavepoint(u) => Inv'
      /\ StatementFails(u) => Inv'
      /\ CloseEarly(u) \/ Commit(u) \/ Rollback(u) => Inv'
      /\ EndClosed(u) => Inv'
      /\ \A t \in Tenants : EnterScope(u, t) \/ EnterAgain(u, t) => Inv'
      /\ \A n \in Names : RenameTenant(u, n) => Inv'
  BY BeginInv, ExitScopeInv, ExitAgainInv, SavepointInv, LeaveSavepointInv, StatementFailsInv,
     EndsInv, EndClosedInv, EnterScopeInv, EnterAgainInv, RenameTenantInv
<1>2. CASE UNCHANGED vars
  <2>1. /\ txn' = txn /\ conn' = conn /\ bound' = bound /\ blocks' = blocks
        /\ pending' = pending /\ setting' = setting
        /\ name' = name /\ status' = status /\ member' = member
    BY <1>2 DEF vars, session, rows
  <2>2. QED
    BY <2>1 DEF Inv, TypeOK, ConnsOK, BlocksOK, LocksOK, Current
<1>3. CASE Next
  BY <1>1, <1>3, OwnerInv DEF Next
<1>4. QED
  BY <1>2, <1>3

\* Spec => []Inv: connections are exclusive and clean in the pool, the mark and the
\* setting are the tenant of the innermost block, and the rows a unit writes are its
\* own and stay active.
THEOREM Invariance == Spec => []Inv
<1>1. QED
  BY InitInv, NextInv, PTL DEF Spec

\* No connection leaves the pool with the tenant of the unit that used it before
\* (tenant_context.py sets the tenant with is_local = true).
THEOREM CleanPool == Spec => []PoolIsClean
<1>1. Inv => PoolIsClean
  BY DEF Inv, ConnsOK, PoolIsClean
<1>2. QED
  BY <1>1, Invariance, PTL

\* While statements run, the setting is the tenant of the scopes entered, if any.
LEMMA InForce ==
    ASSUME Inv, NEW u \in Units, txn[u] = "open"
    PROVE  /\ Current(u) # None => Current(u) \in Scopes(u)
           /\ \A t \in Scopes(u) : t \in Tenants /\ Current(u) = t
<1> DEFINE bs == blocks[u]  n == Len(bs)
<1>1. bs \in Seq(Block) /\ NestedOK(bs) /\ Current(u) = Inside(bs)
  BY DEF Inv, TypeOK, BlocksOK
<1>2. \A j \in 1 .. n : bs[j].tenant \in Tenants \cup {None}
  <2>1. \A j \in 1 .. n : bs[j] \in Block
    BY <1>1
  <2>2. \A b \in Block : b.tenant \in Tenants \cup {None}
    BY DEF Block
  <2>3. QED
    BY <2>1, <2>2
<1>3. ASSUME bs # <<>> PROVE n \in 1 .. n /\ Current(u) = bs[n].tenant
  <2>1. n \in Nat \ {0}
    BY <1>1, <1>3, FrontOf
  <2>2. n \in 1 .. n
    BY <2>1
  <2>3. QED
    BY <1>1, <1>3, <2>2 DEF Inside
<1>4. ASSUME Current(u) # None PROVE Current(u) \in Scopes(u)
  <2>1. bs # <<>>
    BY <1>1, <1>4 DEF Inside
  <2>2. PICK j \in 1 .. n : bs[j].kind # "savepoint" /\ bs[j].tenant = bs[n].tenant
    BY <1>1, <1>3, <1>4, <2>1 DEF NestedOK
  <2>3. QED
    BY <1>3, <2>1, <2>2 DEF Scopes
<1>5. ASSUME NEW t \in Scopes(u) PROVE t \in Tenants /\ Current(u) = t
  <2>1. PICK j \in 1 .. n : bs[j].kind # "savepoint" /\ t = bs[j].tenant
    BY DEF Scopes
  <2>2. bs # <<>> /\ n \in 1 .. n
    BY <1>1, <2>1
  <2>3. t # None /\ bs[n].tenant = t
    BY <1>1, <2>1, <2>2 DEF NestedOK
  <2>4. QED
    BY <1>2, <1>3, <2>1, <2>2, <2>3
<1>6. QED
  BY <1>4, <1>5

\* A statement reaches only the tenant of the scope it is written in, and outside
\* every scope nothing (the policies of 0002 over the setting of tenant_scope).
THEOREM IsolationHolds == Spec => []Isolation
<1>1. ASSUME Inv PROVE Isolation
  <2> SUFFICES ASSUME NEW u \in Units, txn[u] = "open"
               PROVE  /\ GetTenant(u) \cup TenantsUpdate(Current(u)) \subseteq Scopes(u)
                      /\ \A p \in UsersSelect(Current(u)) :
                            \E t \in Scopes(u) : member[t][p] = "active"
    BY DEF Isolation
  <2>1. \A t \in Tenants : t = Current(u) => t \in Scopes(u)
    BY <1>1, InForce, NoneIsNothing
  <2>2. QED
    BY <2>1 DEF GetTenant, TenantsSelect, TenantsUpdate, UsersSelect
<1>2. QED
  BY <1>1, Invariance, PTL

\* Inside a scope, while the transaction takes statements, its tenant and its active
\* members are there to be read (tenant_scope and the repository's two reads).
THEOREM ScopesInForce == Spec => []ScopeIsInForce
<1>1. ASSUME Inv PROVE ScopeIsInForce
  <2> SUFFICES ASSUME NEW u \in Units, txn[u] = "open", NEW t \in Scopes(u)
               PROVE  /\ GetTenant(u) = {t}
                      /\ \A p \in Users : member[t][p] = "active" => p \in ListMembers(u)
    BY DEF ScopeIsInForce
  <2>1. t \in Tenants /\ Current(u) = t
    BY <1>1, InForce
  <2>2. GetTenant(u) = {t}
    BY <2>1 DEF GetTenant, TenantsSelect
  <2>3. ASSUME NEW p \in Users, member[t][p] = "active" PROVE p \in ListMembers(u)
    <3>1. p \in UsersSelect(t)
      BY <2>1, <2>3 DEF UsersSelect
    <3>2. "active" # None
      BY ContextAssumption
    <3>3. <<t, p>> \in MembershipsSelect(t)
      BY <2>1, <2>3, <3>2 DEF MembershipsSelect
    <3>4. QED
      BY <2>1, <3>1, <3>3 DEF ListMembers
  <2>4. QED
    BY <2>2, <2>3
<1>2. QED
  BY <1>1, Invariance, PTL

\* A disabled tenant keeps its name: a rename can commit only while it holds the row
\* lock the disabling update waits for (migration 0002, tenants_update).
THEOREM DisabledKeeps == Spec => DisabledKeepsName
<1>1. ASSUME Inv, [Next]_vars, NEW t \in Tenants, status[t] = "disabled"
      PROVE  name'[t] = name[t]
  <2>1. ASSUME NEW u \in Units, Commit(u) PROVE name'[t] = name[t]
    <3>1. pending[u][t] = None
      BY <1>1, LocksOf
    <3>2. QED
      BY <2>1, <3>1 DEF Commit
  <2>2. ASSUME NEW u \in Units
        PROVE  /\ Begin(u) \/ ExitScope(u) \/ ExitAgain(u) \/ Savepoint(u) => name' = name
               /\ LeaveSavepoint(u) \/ StatementFails(u) => name' = name
               /\ CloseEarly(u) \/ Rollback(u) \/ EndClosed(u) => name' = name
               /\ \A s \in Tenants : EnterScope(u, s) \/ EnterAgain(u, s) => name' = name
               /\ \A n \in Names : RenameTenant(u, n) => name' = name
    BY DEF rows, Begin, EnterScope, EnterAgain, ExitScope, ExitAgain, Savepoint, LeaveSavepoint,
       RenameTenant, StatementFails, CloseEarly, Rollback, EndClosed
  <2>3. ASSUME NEW s \in Tenants, NEW st \in {"active", "disabled"}
        PROVE  /\ SetTenantStatus(s, st) => name' = name
               /\ \A p \in Users : SetMembership(s, p, st) => name' = name
    BY DEF SetTenantStatus, SetMembership
  <2>4. CASE Next
    BY <2>1, <2>2, <2>3, <2>4 DEF Next
  <2>5. CASE UNCHANGED vars
    BY <2>5 DEF vars, rows
  <2>6. QED
    BY <1>1, <2>4, <2>5
<1>2. ASSUME Inv, [Next]_vars
      PROVE  [\A t \in Tenants : status[t] = "disabled" => name'[t] = name[t]]_vars
  BY <1>1, <1>2
<1>3. QED
  BY <1>2, Invariance, PTL DEF Spec, DisabledKeepsName
=============================================================================
