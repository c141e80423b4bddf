SPECIFICATION FairDashSpec
CONSTANTS
    None = None
    Requests = {r1, r2}
    Subjects = {s1}
    Teams = {}
    Emails = {e1}
    OwnerOps = {"allowlist", "reserved"}
    MaxDisabled = 1
    Tabs = {t1, t2}
    MaxFaults = 1
CHECK_DEADLOCK FALSE
PROPERTIES PageIsTrue RequestsAreAnswered SetupEnds
