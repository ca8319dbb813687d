SPECIFICATION MailSpec
CONSTANTS
    None = None
    p1 = p1
    Run = {r1, r2}
    Caller = {c1}
    Message = {m1}
    Pool <- OnePool
    Ephemeral = {}
    PooledDeclared = TRUE
    SeedOutcomes = {"seeded"}
    RunOutcomes = {"complete"}
    OtherUsers = FALSE
    Milli = 1
    Second = 6
    RunTTL = 20
    LeaseTTL = 20
    Cooldown = 6
    MaxLatency = 6
    MaxLeases = 2
    MaxTime = 6
    MaxStamp = 7
    MaxCrashes = 0
    MaxStepBacks = 0
SYMMETRY Symmetry
INVARIANTS
    HandoverSafe
CHECK_DEADLOCK FALSE
