----------------------------- MODULE DataValue -----------------------------
(***************************************************************************)
(* uscxml::Data (src/uscxml/messages/Data.cpp) as a TLA+ value, and the    *)
(* pure functions of Data.cpp over it: merge, jsonEscape, jsonUnescape,   *)
(* toJSON, and the token list jsmn hands to fromJSON.                      *)
(*                                                                         *)
(* A Data is a record of the fields the code reads: the atom (a sequence  *)
(* of characters), its type, the compound map (key -> Data) and the array *)
(* map (index -> Data).  The node and binary fields are left out: nothing *)
(* in merge or the JSON round trip reads them without a DOM.               *)
(*                                                                         *)
(* Characters are symbols: "TAB" stands for every control character that  *)
(* jsonEscape writes as a backslash and a letter jsonUnescape knows (\t,  *)
(* \b, \f, \n, \r), "VT" for the vertical tab, BS and DQ for the           *)
(* backslash and the double quote; any other string is a plain character.*)
(* Layout (indentation, key padding, newlines) is left out of toJSON: jsmn *)
(* skips it and no comparison in fromJSON depends on it.                   *)
(***************************************************************************)
EXTENDS Naturals, Sequences, SequencesExt, FiniteSets, TLC

CONSTANTS KeyOrder,    \* the compound keys (strings), in std::map (sorted) order
          Atoms,       \* the atoms (Data with only an atom) values are built from
          MaxDepth,    \* nesting depth of the values enumerated
          MaxLen       \* longest array of the values enumerated

Keys == ToSet(KeyOrder)

BS == "\\"
DQ == "\""
TAB == "TAB"
VT == "VT"

Types == {"VERBATIM", "INTERPRETED"}

(* Data(): no atom, INTERPRETED, empty compound and array. *)
Empty == [atom |-> <<>>, type |-> "INTERPRETED", compound |-> <<>>, array |-> <<>>]

AtomData(s, t) == [Empty EXCEPT !.atom = s, !.type = t]

(* The values of nesting depth at most n (bounded enumeration). *)
RECURSIVE ValuesUpTo(_)
ValuesUpTo(n) ==
    LET sub   == IF n = 0 THEN {} ELSE ValuesUpTo(n - 1)
    IN  Atoms
        \cup {[Empty EXCEPT !.compound = f] :
                 f \in UNION {[D -> sub] : D \in SUBSET Keys \ {{}}}}
        \cup {[Empty EXCEPT !.array = f] :
                 f \in UNION {[0..(l - 1) -> sub] : l \in 1..MaxLen}}

Values == ValuesUpTo(MaxDepth)

-----------------------------------------------------------------------------
(***************************************************************************)
(* Data::merge(other): compounds are united key by key, merging the       *)
(* values of a shared key; arrays are united with std::map::insert, which *)
(* keeps the element already at an index; a non-empty atom of other       *)
(* replaces the atom and its type.  (The compound.size() == 0 and          *)
(* array.size() == 0 short cuts give the same result as the union.)        *)
(***************************************************************************)
(* merge with a shared key overwritten by other's value, not merged. *)
MergeNoRecurse(d, other) ==
    [atom     |-> IF other.atom # <<>> THEN other.atom ELSE d.atom,
     type     |-> IF other.atom # <<>> THEN other.type ELSE d.type,
     compound |-> other.compound @@ d.compound,
     array    |-> d.array @@ other.array]

RECURSIVE Merge(_, _)
Merge(d, other) ==
    [atom     |-> IF other.atom # <<>> THEN other.atom ELSE d.atom,
     type     |-> IF other.atom # <<>> THEN other.type ELSE d.type,
     compound |-> [k \in DOMAIN d.compound \cup DOMAIN other.compound |->
                     IF k \notin DOMAIN other.compound THEN d.compound[k]
                     ELSE IF k \notin DOMAIN d.compound THEN other.compound[k]
                     ELSE Merge(d.compound[k], other.compound[k])],
     array    |-> d.array @@ other.array]

-----------------------------------------------------------------------------
(* Data::jsonEscape, one character at a time. *)
EscapeChar(c) ==
    CASE c = TAB -> <<BS, "t">>
      [] c = VT  -> <<BS, "v">>
      [] c = DQ  -> <<BS, DQ>>
      [] c = BS  -> <<BS, BS>>
      [] OTHER   -> <<c>>

jsonEscape(s) == FlattenSeq([i \in 1..Len(s) |-> EscapeChar(s[i])])

(* The character jsonUnescape writes for a backslash followed by c: the   *)
(* known letters decode to their control character, anything else        *)
(* (quote, slash, backslash, and also 'v') is copied as is.               *)
UnescapeChar(c) == IF c \in {"b", "f", "n", "r", "t"} THEN TAB ELSE c

(* Data::jsonUnescape: a backslash sets the escape flag and is dropped.   *)
RECURSIVE UnescapeFrom(_, _)
UnescapeFrom(s, escape) ==
    IF s = <<>> THEN <<>>
    ELSE IF escape THEN <<UnescapeChar(Head(s))>> \o UnescapeFrom(Tail(s), FALSE)
    ELSE IF Head(s) = BS THEN UnescapeFrom(Tail(s), TRUE)
    ELSE <<Head(s)>> \o UnescapeFrom(Tail(s), FALSE)

jsonUnescape(s) == UnescapeFrom(s, FALSE)

-----------------------------------------------------------------------------
(* Keys of a compound and indices of an array, in std::map order. *)
SortedKeys(f) == SelectSeq(KeyOrder, LAMBDA k : k \in DOMAIN f)

SortedIndices(f) == SetToSortSeq(DOMAIN f, <)

Quoted(s) == <<DQ>> \o jsonEscape(s) \o <<DQ>>

(***************************************************************************)
(* Data::toJSON, written at offset pos, together with the tokens           *)
(* jsmn_parse returns for that text.  toJSON writes a compound if there is *)
(* one, else an array, else the atom (quoted and escaped when VERBATIM,    *)
(* raw when INTERPRETED), else "" or null; a key is quoted and escaped.    *)
(* jsmn's object and array tokens span their brackets, a string token the *)
(* text between its quotes, a primitive its own text; children follow     *)
(* their parent.  A token's text (its substring of the input) is kept for *)
(* strings and primitives, the only tokens fromJSON reads it from.         *)
(***************************************************************************)
Tok(type, start, end, text) == [type |-> type, start |-> start, end |-> end, text |-> text]

Encoded(text, toks) == [text |-> text, toks |-> toks]

RECURSIVE Encode(_, _)
Encode(d, pos) ==
    IF DOMAIN d.compound # {} THEN
        LET ks == SortedKeys(d.compound)
            \* the members from the i-th on, written from offset p
            RECURSIVE Members(_, _)
            Members(i, p) ==
                IF i > Len(ks) THEN Encoded(<<>>, <<>>)
                ELSE LET sep  == IF i = 1 THEN <<>> ELSE <<",">>
                         q    == Quoted(ks[i])
                         kp   == p + Len(sep)
                         v    == Encode(d.compound[ks[i]], kp + Len(q) + 1)
                         head == sep \o q \o <<":">> \o v.text
                         rest == Members(i + 1, p + Len(head))
                     IN  Encoded(head \o rest.text,
                                 <<Tok("STRING", kp + 1, kp + Len(q) - 1, jsonEscape(ks[i]))>>
                                 \o v.toks \o rest.toks)
            m    == Members(1, pos + 1)
            text == <<"{">> \o m.text \o <<"}">>
        IN  Encoded(text, <<Tok("OBJECT", pos, pos + Len(text), <<>>)>> \o m.toks)
    ELSE IF DOMAIN d.array # {} THEN
        LET is == SortedIndices(d.array)
            RECURSIVE Elements(_, _)
            Elements(i, p) ==
                IF i > Len(is) THEN Encoded(<<>>, <<>>)
                ELSE LET sep  == IF i = 1 THEN <<>> ELSE <<",">>
                         v    == Encode(d.array[is[i]], p + Len(sep))
                         rest == Elements(i + 1, p + Len(sep) + Len(v.text))
                     IN  Encoded(sep \o v.text \o rest.text, v.toks \o rest.toks)
            e    == Elements(1, pos + 1)
            text == <<"[">> \o e.text \o <<"]">>
        IN  Encoded(text, <<Tok("ARRAY", pos, pos + Len(text), <<>>)>> \o e.toks)
    ELSE IF d.atom # <<>> /\ d.type = "VERBATIM" THEN
        LET q == Quoted(d.atom)
        IN  Encoded(q, <<Tok("STRING", pos + 1, pos + Len(q) - 1, jsonEscape(d.atom))>>)
    ELSE IF d.atom # <<>> THEN
        Encoded(d.atom, <<Tok("PRIMITIVE", pos, pos + Len(d.atom), d.atom)>>)
    ELSE IF d.type = "VERBATIM" THEN
        Encoded(<<DQ, DQ>>, <<Tok("STRING", pos + 1, pos + 1, <<>>)>>)
    ELSE LET null == <<"n", "u", "l", "l">>
         IN  Encoded(null, <<Tok("PRIMITIVE", pos, pos + 4, null)>>)

toJSON(d) == Encode(d, 0).text

(***************************************************************************)
(* jsmn_parse rejects (JSMN_ERROR_INVAL) a string whose backslash is not  *)
(* followed by one of " / \ b f r n t u.                                 *)
(***************************************************************************)
JsmnEscapes == {DQ, "/", BS, "b", "f", "r", "n", "t", "u"}

RECURSIVE JsmnValidString(_)
JsmnValidString(s) ==
    IF s = <<>> THEN TRUE
    ELSE IF Head(s) = BS
         THEN /\ Len(s) >= 2
              /\ s[2] \in JsmnEscapes
              /\ JsmnValidString(Tail(Tail(s)))
         ELSE JsmnValidString(Tail(s))

(* isNumeric(s, 10) of uscxml/util/Convenience: a non-empty run of digits. *)
Digits == {"0", "1"}

isNumeric(s) == s # <<>> /\ \A i \in 1..Len(s) : s[i] \in Digits
=============================================================================
