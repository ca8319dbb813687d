SPECIFICATION Spec
CONSTANTS
    l1 = l1
    l2 = l2
    k1 = k1
    k2 = k2
    Lease = {l1, l2}
    Key = {k1, k2}
    Kind = {"email_otp"}
    Caller = {c1, c2}
    Message = {1, 2}
    Requests <- KeyPerKind
    Envelopes <- SomeEnvelopes
    OtherCase = {2}
    GrantEnd <- Ends
    ClaimTTL = 1
    MaxTime = 1
SYMMETRY Symmetry
INVARIANTS
    OneTime
    Idempotent
    WithinGrant
    NoLostWakeup
PROPERTY ImplementsOneTimeSecret
CHECK_DEADLOCK FALSE
