------------------------------- MODULE MCData -------------------------------
(***************************************************************************)
(* The Data layer in one run: a behaviour either decodes the toJSON text  *)
(* of a value (FromJSON with MCFromJSON's inputs: values two deep, arrays *)
(* of up to two elements, at most one array) or makes two Data::merge     *)
(* calls (DataMerge with MCDataMerge's values: arrays of one element).    *)
(* The part a behaviour does not exercise stays in an initial state.      *)
(* DataMerge takes its own bounds through INSTANCE; its value sets are    *)
(* bound to constants in the cfg so that TLC computes them once.          *)
(***************************************************************************)
EXTENDS MCFromJSON

CONSTANTS MergeAtoms,   \* MCDataMerge's atoms
          MergeOthers,  \* the values merged in (MCDataMerge's Others)
          FirstInput    \* the input a merge behaviour leaves FromJSON at

VARIABLES d, before, other, merges,  \* DataMerge
          part   \* "json" or "merge": the operation this behaviour exercises

mergeVars == <<d, before, other, merges>>
dataVars == <<vars, mergeVars, part>>

MergeBounds == INSTANCE MCDataMerge WITH Atoms <- {}, Others <- {}, MaxLen <- 1, MaxMerges <- 2
MergeValues == INSTANCE MCDataMerge WITH Atoms <- MergeBounds!MCAtoms, Others <- {},
                                         MaxLen <- 1, MaxMerges <- 2
M == INSTANCE DataMerge WITH Atoms <- MergeAtoms, Others <- MergeOthers,
                             MaxLen <- 1, MaxMerges <- 2

MCMergeAtoms == MergeBounds!MCAtoms
MCMergeOthers == MergeValues!Values
MCFirstInput == CHOOSE i \in MCInputs : TRUE

DataInit == \/ part = "json" /\ Init /\ M!Init
            \/ part = "merge" /\ Init /\ input = FirstInput /\ M!Init

DataNext == \/ part = "json" /\ Next /\ UNCHANGED <<mergeVars, part>>
            \/ part = "merge" /\ M!Next /\ UNCHANGED <<vars, part>>

DataSpec == DataInit /\ [][DataNext]_dataVars

(* Each Data::merge call agrees, at every key path, with spec section 3's *)
(* statement of merge (stated in DataMerge).                               *)
MergeUnitesByPath == M!MergeUnitesByPath
=============================================================================
