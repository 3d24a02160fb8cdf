----------------------------- MODULE MCDataMerge ----------------------------
(* Values merged in: keys "a" < "b", two atoms, two levels of nesting. *)
EXTENDS DataMerge

MCKeyOrder == <<<<"a">>, <<"b">>>>

MCAtoms == {AtomData(<<"1">>, "INTERPRETED"), AtomData(<<"x">>, "VERBATIM")}

MCOthers == Values
====
