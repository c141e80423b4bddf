SPECIFICATION Spec
CONSTANTS
    None = None
    Calls = {c1, c2, c3}
    UserIds = {u1, u2, u3}
    LegacyIds = {}
    Emails = {e1, e2}
    Subjects = {s1, s2}
    OwnerOps = {}
    MaxDisabled = 0
SYMMETRY Symmetry
CHECK_DEADLOCK FALSE
INVARIANTS ConflictIsForeign
