SPECIFICATION MCSpec
CONSTANTS
    ContextWord <- Words
    Year <- Years
    MinOTPLen = 2
    SixDigits = 3
    MaxOTPLen = 4
    LeadingWindow = 1
    NearWindow = 1
    MediumWindow = 2
    FarWindow = 3
    ContextWindow = 3
INVARIANTS
    SeenAsRendered
    PlainURLsApart
    TrimmedAsRecounted
    CodesOutsideLinks
    ScoredAsFullScan
    RankedByBest
    NeverAYear
    LinksOnce
    ScanTypeOK
CHECK_DEADLOCK FALSE
