------------------------- MODULE ReplaceExpressions -------------------------
(***************************************************************************)
(* DataModelImpl::replaceExpressions (src/uscxml/plugins/Factory.cpp      *)
(* 533-591): every ${expr} of a text is replaced by the data model's value *)
(* of expr (its atom, or its JSON when the atom is empty); an expression  *)
(* the data model throws on is left in place unsubstituted; the text is   *)
(* changed only when at least one expression was substituted.             *)
(*                                                                         *)
(* The scanning loop is translated as a recursion over its local          *)
(* variables (pos, start, end, indent, the stream ss, replacements), with *)
(* the code's 0-based offsets; std::string::npos is NPOS.  The data       *)
(* model's getAsData is the constant operator GetAsData, returning a Data *)
(* or Throw.  The model has one step: the call itself.                    *)
(***************************************************************************)
EXTENDS DataValue

CONSTANTS Chars,       \* the characters texts are made of ("$", "{", "}" among them)
          MaxText,     \* longest text enumerated
          GetAsData(_),\* the data model's getAsData(expr): a Data, or Throw
          Throw

VARIABLES text,        \* the text passed in
          content,     \* the std::string& content, changed in place
          replacements \* the value returned, -1 before the call

vars == <<text, content, replacements>>

NPOS == -1

(* content.substr(from, len), 0-based, count clamped at the end. *)
Substr(c, from, len) == SubSeq(c, from + 1, IF from + len > Len(c) THEN Len(c) ELSE from + len)

(* content[i]; content[content.size()] is the terminating '\0'. *)
At(c, i) == IF i < Len(c) THEN c[i + 1] ELSE "NUL"

(* content.find_first_of("${}", pos) *)
FindFirstOf(c, pos) ==
    LET hits == {i \in pos..(Len(c) - 1) : c[i + 1] \in {"$", "{", "}"}}
    IN  IF hits = {} THEN NPOS ELSE CHOOSE i \in hits : \A j \in hits : i <= j

(* ss << data.atom, or ss << Data::toJSON(data) when the atom is empty *)
Value(data) == IF data.atom # <<>> THEN data.atom ELSE toJSON(data)

(***************************************************************************)
(* Lines 539-584: one iteration of while (true) per call.  "${" sets start *)
(* behind the brace and copies the text since end; a '{' or '}' after a   *)
(* start counts nesting; the '}' at nesting 0 ends the expression.         *)
(***************************************************************************)
RECURSIVE Scan(_, _, _, _, _, _, _)
Scan(c, from, start, end, indent, ss, n) ==
    LET pos == FindFirstOf(c, from) IN
    IF pos = NPOS THEN [ss |-> ss \o Substr(c, end, Len(c) - end), n |-> n]
    ELSE IF c[pos + 1] = "$" THEN
        IF At(c, pos + 1) = "{"
        THEN Scan(c, pos + 2, pos + 2, end, indent, ss \o Substr(c, end, pos - end), n)
        ELSE Scan(c, pos + 1, start, end, indent, ss, n)
    ELSE IF c[pos + 1] = "{" /\ start # NPOS THEN
        Scan(c, pos + 1, start, end, indent + 1, ss, n)
    ELSE IF c[pos + 1] = "}" /\ start # NPOS /\ indent = 0 THEN
        LET data == GetAsData(Substr(c, start, pos - start)) IN
        IF data = Throw
        THEN Scan(c, pos + 1, NPOS, pos + 1, indent, ss \o Substr(c, start - 2, pos + 3 - start), n)
        ELSE Scan(c, pos + 1, NPOS, pos + 1, indent, ss \o Value(data), n + 1)
    ELSE IF c[pos + 1] = "}" /\ start # NPOS THEN
        Scan(c, pos + 1, start, end, indent - 1, ss, n)
    ELSE Scan(c, pos + 1, start, end, indent, ss, n)

(* Lines 533-591: content is replaced by ss only if something was substituted. *)
replaceExpressions(c) ==
    LET r == Scan(c, 0, NPOS, 0, 0, <<>>, 0)
    IN  [content |-> IF r.n > 0 THEN r.ss ELSE c, replacements |-> r.n]

Texts == UNION {[1..l -> Chars] : l \in 0..MaxText}

Init == /\ text \in Texts
        /\ content = text
        /\ replacements = -1

Replace == /\ replacements = -1
           /\ content' = replaceExpressions(content).content
           /\ replacements' = replaceExpressions(content).replacements
           /\ UNCHANGED text

Next == Replace

Spec == Init /\ [][Next]_vars

-----------------------------------------------------------------------------
(***************************************************************************)
(* The substitution the function's comments describe ("copy everything in *)
(* between", "we found a token to substitute", "insert unsubstituted"),   *)
(* read left to right: "${" opens an expression closed by the '}' that    *)
(* balances the braces after it, and containing no "${" itself; it is     *)
(* replaced by its value, or kept when the data model throws; every other *)
(* character is copied once.                                               *)
(***************************************************************************)
RECURSIVE CloseAt(_, _, _)
CloseAt(s, i, depth) ==
    IF i > Len(s) THEN 0
    ELSE IF s[i] = "$" /\ i < Len(s) /\ s[i + 1] = "{" THEN 0
    ELSE IF s[i] = "{" THEN CloseAt(s, i + 1, depth + 1)
    ELSE IF s[i] = "}" THEN IF depth = 0 THEN i ELSE CloseAt(s, i + 1, depth - 1)
    ELSE CloseAt(s, i + 1, depth)

RECURSIVE Substituted(_)
Substituted(s) ==
    IF s = <<>> THEN <<>>
    ELSE IF Len(s) >= 2 /\ s[1] = "$" /\ s[2] = "{" /\ CloseAt(s, 3, 0) # 0 THEN
        LET j    == CloseAt(s, 3, 0)
            data == GetAsData(SubSeq(s, 3, j - 1))
        IN  (IF data = Throw THEN SubSeq(s, 1, j) ELSE Value(data))
            \o Substituted(SubSeq(s, j + 1, Len(s)))
    ELSE <<Head(s)>> \o Substituted(Tail(s))

(***************************************************************************)
(* Whatever text the data model's caller passes in, replaceExpressions     *)
(* leaves it as the left-to-right substitution above: no text outside an  *)
(* expression is lost or written twice, including after a "${" that is    *)
(* never closed or that is nested in another.                             *)
(***************************************************************************)
ReplacesEachExpressionOnce ==
    replacements # -1 => content = Substituted(text)

=============================================================================
