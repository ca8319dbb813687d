SPECIFICATION Spec
CONSTANTS
    None = None
    Process = {p1, p2}
    Name = {"demo", "other"}
    Commands <- FirstRun
    Unusable <- Typos
    Migrations = 3
    Rebuilding = {2}
    MaxStarts = 2
    MaxFaults = 0
SYMMETRY Symmetry
INVARIANTS
    SchemaInStep
CHECK_DEADLOCK FALSE
