SPECIFICATION Spec
CONSTANTS
    None = None
    Process = {p1}
    Name = {"demo", "other"}
    Commands <- FirstRun
    Unusable <- Typos
    Migrations = 3
    Rebuilding = {2}
    MaxStarts = 3
    MaxFaults = 0
SYMMETRY Symmetry
INVARIANTS
    InitialisedWhole
CHECK_DEADLOCK FALSE
