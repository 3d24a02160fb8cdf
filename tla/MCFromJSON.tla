----------------------------- MODULE MCFromJSON -----------------------------
(***************************************************************************)
(* Values for FromJSON: keys "a" < "b"; atoms: a number, and strings with *)
(* a quote, a control character, a backslash, and a vertical tab.  The    *)
(* inputs leave out what is known not to round trip for other reasons     *)
(* (a VERBATIM or non-numeric atom at the top, which the bare-token       *)
(* branch keeps quoted; non-numeric INTERPRETED atoms, written raw) and   *)
(* bound the number of arrays in a value.                                  *)
(***************************************************************************)
EXTENDS FromJSON

CONSTANT MaxArrays

MCKeyOrder == <<<<"a">>, <<"b">>>>

MCAtoms == {AtomData(<<"1">>, "INTERPRETED"), AtomData(<<"1">>, "VERBATIM"),
            AtomData(<<DQ, TAB, BS>>, "VERBATIM"), AtomData(<<VT>>, "VERBATIM")}

Children(d) ==
    [k \in DOMAIN d.compound |-> d.compound[k]] @@ [i \in DOMAIN d.array |-> d.array[i]]

RECURSIVE ArrayCount(_)
ArrayCount(d) ==
    (IF DOMAIN d.array # {} THEN 1 ELSE 0)
    + SumFunction([x \in DOMAIN d.compound \cup DOMAIN d.array |-> ArrayCount(Children(d)[x])])

TopLevelOK(d) ==
    DOMAIN d.compound # {} \/ DOMAIN d.array # {}
    \/ (d.type = "INTERPRETED" /\ isNumeric(d.atom))

MCInputs == {d \in Values : TopLevelOK(d) /\ ArrayCount(d) <= MaxArrays}
====
