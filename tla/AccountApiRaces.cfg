SPECIFICATION Spec
CONSTANTS
    None = None
    Requests = {r1, r2}
    Subjects = {s1}
    Teams = {g1}
    Emails = {e1, e2}
    OwnerOps = {"allowlist", "bind", "profile", "status", "team"}
    MaxDisabled = 1
SYMMETRY Symmetry
CHECK_DEADLOCK FALSE
INVARIANTS Inv
PROPERTIES RevocationIsEffective PostImpliesGet
