------------------------ MODULE MCReplaceExpressions ------------------------
(* The data model answers getAsData("a") with the atom "A", getAsData("")  *)
(* with an empty Data (written as null), and throws on anything else.     *)
EXTENDS ReplaceExpressions

MCKeyOrder == <<>>

MCGetAsData(e) ==
    IF e = <<"a">> THEN AtomData(<<"A">>, "INTERPRETED")
    ELSE IF e = <<>> THEN Empty
    ELSE Throw
=============================================================================
