SPECIFICATION DashSpec
CONSTANTS
    None = None
    Requests = {r1}
    Subjects = {s1}
    Teams = {}
    Emails = {e1}
    OwnerOps = {}
    MaxDisabled = 0
    Tabs = {t1}
    MaxFaults = 0
CHECK_DEADLOCK FALSE
PROPERTIES DeniedIsTold
