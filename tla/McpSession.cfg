SPECIFICATION FairSpec
CONSTANTS
    Forms = {"garbage", "noMethod", "noMethodNote", "note", "ping"}
    Kind = {"email_otp"}
    Attempt = {1, 2}
    Message = {1, 2}
    MaxRuns = 3
    MaxLeases = 2
    MaxCalls = 2
    MaxPlain = 1
    MaxFaults = 1
INVARIANTS
    ExactlyOneAnswer
    CredentialsConfined
    ToldIsReachable
    AttemptReplays
PROPERTIES
    LinesAnswered
    SessionEnds
CHECK_DEADLOCK FALSE
