SPECIFICATION Spec
CONSTANTS
    None = None
    Requests = {r1, r2}
    Subjects = {s1}
    Teams = {}
    Emails = {e1, e2}
    OwnerOps = {"allowlist", "profile"}
    MaxDisabled = 1
SYMMETRY Symmetry
CHECK_DEADLOCK FALSE
PROPERTIES RemovalBites
