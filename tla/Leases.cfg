SPECIFICATION FairSpec
CONSTANTS
    p1 = p1
    None = None
    OtherUsers = TRUE
    Run = {r1}
    Caller = {c1}
    Pool <- OnePool
    Ephemeral = {e1}
    PooledDeclared = TRUE
    SeedOutcomes = {"seeded", "failed"}
    RunOutcomes = {"complete"}
    Milli = 1
    RunTTL = 2
    LeaseTTL = 1
    Cooldown = 1
    MaxLeases = 2
    MaxTime = 3
    MaxStamp = 2
    MaxCrashes = 1
    MaxStepBacks = 1
INVARIANTS
    TypeOK
    EndedRunHoldsNothing
    OneOwnerPerInstant
PROPERTIES
    LeaseHistoryKept
    ExpiredLeaseEnds
CHECK_DEADLOCK FALSE
