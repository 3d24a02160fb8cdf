\* As MCData.cfg's FromJSON part, with values holding up to two arrays.
CONSTANTS
    KeyOrder <- MCKeyOrder
    Atoms <- MCAtoms
    Inputs <- MCInputs
    MaxDepth = 2
    MaxLen = 2
    MaxArrays = 2
SPECIFICATION Spec
INVARIANT RoundTrips
CHECK_DEADLOCK FALSE
