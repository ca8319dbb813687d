SPECIFICATION Spec
CONSTANTS
    l1 = l1
    l2 = l2
    k1 = k1
    k2 = k2
    Lease = {l1, l2}
    Key = {k1, k2}
    Kind = {"email_otp", "magic_link"}
    Caller = {c1}
    Message = {1}
    Requests <- KeyReused
    Envelopes <- OneEnvelope
    OtherCase = {}
    GrantEnd <- Ends
    ClaimTTL = 1
    MaxTime = 1
SYMMETRY Symmetry
INVARIANTS
    OneTime
CHECK_DEADLOCK FALSE
