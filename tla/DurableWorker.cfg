SPECIFICATION FairSpec
CONSTANTS
    Procs = {"resident", "smoke"}
    Workflows = {"recovery", "adapter"}
    MaxPolls = 1
    MaxEnds = 1
    MaxOutages = 1
INVARIANTS WorkerInv EffectsExplained
PROPERTIES ImplementsPromise TimeoutIsDeserved ProbeIsHonest WorkEnds StopEnds
