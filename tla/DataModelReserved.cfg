CONSTANTS
    Locs <- MCLocs
    Events = {"ev1"}
    MaxOps = 3
SPECIFICATION Spec
INVARIANT ReservedBindingsIntact
CHECK_DEADLOCK FALSE
