\* As MCFromJSON.cfg, with values holding two arrays.
CONSTANTS
    KeyOrder <- MCKeyOrder
    Atoms <- MCAtoms
    Inputs <- MCInputs
    MaxDepth = 2
    MaxLen = 2
    MaxArrays = 2
SPECIFICATION Spec
INVARIANT DecodesToEncoded
CHECK_DEADLOCK FALSE
