\* The Data layer: fromJSON of toJSON's text for values nested two deep
\* with at most one array, and two merges of values two deep.
\* Deadlock is not checked: both parts stop.
CONSTANTS
    KeyOrder <- MCKeyOrder
    Atoms <- MCAtoms
    Inputs <- MCInputs
    MaxDepth = 2
    MaxLen = 2
    MaxArrays = 1
    MergeAtoms <- MCMergeAtoms
    MergeOthers <- MCMergeOthers
    FirstInput <- MCFirstInput
SPECIFICATION DataSpec
INVARIANT DecodesToEncoded
INVARIANT MergeUnitesByPath
CHECK_DEADLOCK FALSE
