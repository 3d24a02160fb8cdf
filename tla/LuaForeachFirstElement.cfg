CONSTANTS
    Locs <- MCLocs
    Events = {"ev1"}
    MaxOps = 2
SPECIFICATION Spec
INVARIANT ForeachBindsEveryElement
CHECK_DEADLOCK FALSE
