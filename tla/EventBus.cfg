SPECIFICATION Spec
CONSTANTS
    Client = {c1, c2}
    RingSize = 2
    Buffer = 1
    MaxEvents = 6
    MaxBoots = 2
SYMMETRY Symmetry
INVARIANTS
    NoGap
PROPERTY ResetIsNeeded
CHECK_DEADLOCK FALSE
