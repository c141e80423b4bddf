SPECIFICATION FairSpec
CONSTANTS
    MaxKills = 1
INVARIANTS Inv CapsHold ExitIsHonest
PROPERTIES PassIsKept RunsEnd
