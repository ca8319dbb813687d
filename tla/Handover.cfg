SPECIFICATION MailSpec
CONSTANTS
    None = None
    p1 = p1
    Run = {r1}
    Caller = {c1, c2}
    Message = {m1}
    Pool <- OnePool
    Ephemeral = {}
    PooledDeclared = TRUE
    SeedOutcomes = {"seeded"}
    RunOutcomes = {}
    OtherUsers = FALSE
    Milli = 1
    Second = 6
    RunTTL = 20
    LeaseTTL = 20
    Cooldown = 6
    MaxLatency = 6
    MaxLeases = 2
    MaxTime = 6
    MaxStamp = 7
    MaxCrashes = 0
    MaxStepBacks = 0
SYMMETRY Symmetry
INVARIANTS
    HandoverSafe
    OwnMailBinds
    OneHeldPerIdentity
PROPERTIES
    LeaseHistoryKept
CHECK_DEADLOCK FALSE
