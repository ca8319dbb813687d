SPECIFICATION FairSpec
CONSTANTS
    Message = {1, 2}
    Worker = {w1, w2}
    Main = serve
    QueueSize = 1
    PublishBuffer = 1
    MaxBoots = 3
    MaxFaults = 1
    MaxServeErrors = 1
INVARIANTS
    AckedIsStored
    AnnouncedOnceSettled
    NoSilentSettle
PROPERTIES
    AckedSettles
    StopEnds
CHECK_DEADLOCK FALSE
