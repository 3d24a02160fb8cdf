----------------------------- MODULE DataMerge -----------------------------
(***************************************************************************)
(* A Data value receiving Data::merge(other) calls one after another, as  *)
(* a Data collects the parts of a payload.  The result of each call is     *)
(* compared with the spec's statement of merge (spec section 3), read in  *)
(* terms of paths into the values rather than of the code's recursion.    *)
(***************************************************************************)
EXTENDS DataValue

CONSTANTS Others,     \* the values merged in
          MaxMerges   \* merge calls made (bound)

ASSUME Others \subseteq Values /\ MaxMerges \in Nat

VARIABLES d,      \* the Data merged into
          before, \* d before the latest merge
          other,  \* the argument of the latest merge
          merges  \* merge calls so far

vars == <<d, before, other, merges>>

TypeOK == d.type \in Types /\ before.type \in Types /\ other.type \in Types

Init == /\ d = Empty
        /\ before = Empty
        /\ other = Empty
        /\ merges = 0

(* d.merge(o) for a Data that is not yet merged into itself. *)
MergeWith(o) ==
    /\ merges < MaxMerges
    /\ merges' = merges + 1
    /\ d' = Merge(d, o)
    /\ before' = d
    /\ other' = o

Next == \E o \in Others : MergeWith(o)

Spec == Init /\ [][Next]_vars

-----------------------------------------------------------------------------
(* The sub-value reached from v by following compound keys along p, and  *)
(* the key paths of v of length at most MaxDepth.                         *)
RECURSIVE Sub(_, _)
Sub(v, p) == IF p = <<>> THEN v ELSE Sub(v.compound[Head(p)], Tail(p))

RECURSIVE KeyPaths(_)
KeyPaths(v) ==
    {<<>>} \cup UNION {{<<k>> \o p : p \in KeyPaths(v.compound[k])} : k \in DOMAIN v.compound}

(***************************************************************************)
(* Spec section 3: merge(a, b) recursively unions compound keys, with b   *)
(* winning on a leaf conflict; unions arrays by index insertion (an index *)
(* already present keeps a's element); and replaces the atom wholesale    *)
(* when b's atom is non-empty.  Stated for every key path of a and b:     *)
(* the merged value has the path, its atom (and type) is b's there if b  *)
(* has a non-empty one and a's otherwise, and its array holds a's        *)
(* elements and b's at the indices a lacks.                               *)
(***************************************************************************)
MergeUnitesByPath ==
    LET a == before
        b == other
        m == d
    IN
    /\ KeyPaths(m) = KeyPaths(a) \cup KeyPaths(b)
    /\ \A p \in KeyPaths(m) :
         LET InA == p \in KeyPaths(a)
             InB == p \in KeyPaths(b)
             atomB == IF InB THEN Sub(b, p).atom ELSE <<>>
             arrA  == IF InA THEN Sub(a, p).array ELSE <<>>
             arrB  == IF InB THEN Sub(b, p).array ELSE <<>>
         IN
         /\ Sub(m, p).atom = IF atomB # <<>> THEN atomB
                             ELSE IF InA THEN Sub(a, p).atom ELSE <<>>
         /\ Sub(m, p).type = IF atomB # <<>> \/ ~InA THEN Sub(b, p).type
                             ELSE Sub(a, p).type
         /\ DOMAIN Sub(m, p).array = DOMAIN arrA \cup DOMAIN arrB
         /\ \A i \in DOMAIN arrA : Sub(m, p).array[i] = arrA[i]
         /\ \A i \in DOMAIN arrB \ DOMAIN arrA : Sub(m, p).array[i] = arrB[i]
=============================================================================
