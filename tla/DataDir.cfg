SPECIFICATION Spec
CONSTANTS
    None = None
    Process = {p1, p2}
    Name = {"demo", "other"}
    Commands <- SomeCommands
    Unusable <- Typos
    Migrations = 3
    Rebuilding = {2}
    MaxStarts = 4
    MaxFaults = 1
SYMMETRY Symmetry
INVARIANTS
    KeyKept
    SchemaWhole
    ServedAsStored
    LiveBearerShown
CHECK_DEADLOCK FALSE
