SPECIFICATION Spec
CONSTANTS
    None = None
    u1 = u1
    u2 = u2
    Units = {u1, u2}
    Conns = {c1, c2}
    Tenants = {t1, t2}
    Users = {p1}
    Names = {n1, n2}
    MaxBlocks <- Depths
SYMMETRY Symmetry
CHECK_DEADLOCK FALSE
INVARIANTS Inv Isolation ScopeIsInForce
PROPERTIES DisabledKeepsName
