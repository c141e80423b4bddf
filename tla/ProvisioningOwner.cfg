SPECIFICATION FairSpec
CONSTANTS
    None = None
    Calls = {c1, c2}
    UserIds = {l1, u1, u2}
    LegacyIds = {l1}
    Emails = {e1, e2}
    Subjects = {s1, s2}
    OwnerOps = {"allowlist", "bind", "user", "tenant", "membership"}
    MaxDisabled = 1
CHECK_DEADLOCK FALSE
INVARIANTS AccountsOK CreatedOnce
PROPERTIES SuccessIsCurrent NeverReenabled CallsReturn ImplementsIdentity
