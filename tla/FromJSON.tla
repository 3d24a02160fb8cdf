------------------------------ MODULE FromJSON ------------------------------
(***************************************************************************)
(* Data::fromJSON (src/uscxml/messages/Data.cpp 75-197) applied to the    *)
(* text Data::toJSON wrote for a value: the round trip the spec requires  *)
(* (spec section 3: "textual encode->decode must reproduce an equal Data").*)
(*                                                                         *)
(* fromJSON tokenizes with jsmn, then walks the token list once, keeping  *)
(* a stack of the Data being filled (dataStack) and a stack of the open   *)
(* object and array tokens (tokenStack); it decides when a container is   *)
(* finished by comparing token end offsets.  Each pass of the do-loop is  *)
(* split where the code's control is: the switch on the token, the pops,  *)
(* and the push of the next key or array element.                          *)
(***************************************************************************)
EXTENDS DataValue

CONSTANT Inputs    \* the values whose toJSON text is decoded

ASSUME Inputs \subseteq Values

VARIABLES input,       \* the value encoded by toJSON
          t,           \* the jsmn token vector (tokens past the last are zero)
          data,        \* the Data fromJSON is building
          dataStack,   \* std::list<Data*>, as paths from data
          tokenStack,  \* std::list<jsmntok_t> of open objects and arrays
          currTok,     \* index of the current token (1-based)
          index,       \* the array index counter
          pc           \* "parse", "read", "pop", "done" (returned), "error" (threw)

vars == <<input, t, data, dataStack, tokenStack, currTok, index, pc>>

(* A path step selects a compound member or an array element. *)
Steps == [f : {"compound"}, k : Keys] \cup [f : {"array"}, k : Nat]

TypeOK ==
    /\ input \in Inputs
    /\ dataStack \in Seq(Seq(Steps))
    /\ currTok \in Nat \ {0}
    /\ index \in Nat
    /\ pc \in {"parse", "read", "pop", "done", "error"}

(* The zeroed entries of t past the last token jsmn wrote. *)
ZeroTok == Tok("UNDEFINED", 0, 0, <<>>)

T(i) == IF i <= Len(t) THEN t[i] ELSE ZeroTok

RECURSIVE AtPath(_, _)
AtPath(d, p) == IF p = <<>> THEN d ELSE AtPath(d[Head(p).f][Head(p).k], Tail(p))

(* d with the value at path p replaced by v; a missing compound member or *)
(* array element on the way is created as Data() (std::map operator[]).   *)
RECURSIVE Update(_, _, _)
Update(d, p, v) ==
    IF p = <<>> THEN v
    ELSE LET s     == Head(p)
             child == IF s.k \in DOMAIN d[s.f] THEN d[s.f][s.k] ELSE Empty
         IN  [d EXCEPT ![s.f] = (s.k :> Update(child, Tail(p), v)) @@ d[s.f]]

(* d with the member at path p created as Data() if it is missing         *)
(* (compound[key] and array.insert(index, Data()) keep an existing one).   *)
Touch(d, p) ==
    LET s      == Last(p)
        parent == AtPath(d, Front(p))
    IN  Update(d, p, IF s.k \in DOMAIN parent[s.f] THEN parent[s.f][s.k] ELSE Empty)

Init ==
    /\ input \in Inputs
    /\ t = <<>>
    /\ data = Empty
    /\ dataStack = <<>>
    /\ tokenStack = <<>>
    /\ currTok = 1
    /\ index = 0
    /\ pc = "parse"

(***************************************************************************)
(* Lines 77-147: a text not starting with { or [ becomes one atom, the    *)
(* whole text, VERBATIM unless numeric; otherwise jsmn tokenizes it (the  *)
(* token budget is raised until it suffices, so only an invalid string    *)
(* makes it fail, and then fromJSON throws); the walk starts with data on *)
(* dataStack.                                                              *)
(***************************************************************************)
Parse ==
    LET text == Encode(input, 0).text
        toks == Encode(input, 0).toks
    IN
    /\ pc = "parse"
    /\ \/ /\ text[1] \notin {"{", "["}
          /\ data' = AtomData(text, IF isNumeric(text) THEN "INTERPRETED" ELSE "VERBATIM")
          /\ pc' = "done"
          /\ UNCHANGED <<t, dataStack>>
       \/ /\ text[1] \in {"{", "["}
          /\ \E i \in 1..Len(toks) : toks[i].type = "STRING" /\ ~JsmnValidString(toks[i].text)
          /\ pc' = "error"
          /\ UNCHANGED <<t, data, dataStack>>
       \/ /\ text[1] \in {"{", "["}
          /\ \A i \in 1..Len(toks) : toks[i].type = "STRING" => JsmnValidString(toks[i].text)
          /\ t' = toks
          /\ dataStack' = <<<<>>>>
          /\ pc' = "read"
          /\ UNCHANGED data
    /\ UNCHANGED <<input, tokenStack, currTok, index>>

(* The switch without the JSMN_STRING case's type = VERBATIM. *)
ReadTokenNoVerbatim ==
    LET tok == T(currTok)
        top == Last(dataStack)
    IN
    /\ pc = "read"
    /\ \/ /\ tok.type \in {"STRING", "PRIMITIVE"}
          /\ data' = Update(data, top, [AtPath(data, top) EXCEPT !.atom = jsonUnescape(tok.text)])
          /\ dataStack' = Front(dataStack)
          /\ UNCHANGED tokenStack
       \/ /\ tok.type \in {"OBJECT", "ARRAY"}
          /\ tokenStack' = Append(tokenStack, tok)
          /\ UNCHANGED <<data, dataStack>>
    /\ currTok' = currTok + 1
    /\ pc' = IF T(currTok + 1).end = 0 \/ tokenStack' = <<>> THEN "done" ELSE "pop"
    /\ UNCHANGED <<input, t, index>>

(***************************************************************************)
(* Lines 152-172: a string or primitive is unescaped into the atom of the *)
(* Data on top of dataStack (a string also makes it VERBATIM), which is   *)
(* then popped; an object or array token is pushed on tokenStack.  The    *)
(* walk ends when the next token is a zero one or no container is open.   *)
(***************************************************************************)
ReadToken ==
    LET tok == T(currTok)
        top == Last(dataStack)
    IN
    /\ pc = "read"
    /\ \/ /\ tok.type \in {"STRING", "PRIMITIVE"}
          /\ LET cur == AtPath(data, top)
             IN  data' = Update(data, top,
                           [cur EXCEPT !.atom = jsonUnescape(tok.text),
                                       !.type = IF tok.type = "STRING" THEN "VERBATIM" ELSE @])
          /\ dataStack' = Front(dataStack)
          /\ UNCHANGED tokenStack
       \/ /\ tok.type \in {"OBJECT", "ARRAY"}
          /\ tokenStack' = Append(tokenStack, tok)
          /\ UNCHANGED <<data, dataStack>>
    /\ currTok' = currTok + 1
    /\ pc' = IF T(currTok + 1).end = 0 \/ tokenStack' = <<>> THEN "done" ELSE "pop"
    /\ UNCHANGED <<input, t, index>>

(* Lines 175-178: while the next token ends after the innermost open      *)
(* container, that container is finished: pop it from both stacks.        *)
PopToken ==
    /\ pc = "pop"
    /\ T(currTok).end > Last(tokenStack).end
    /\ tokenStack' = Front(tokenStack)
    /\ dataStack' = Front(dataStack)
    /\ UNCHANGED <<input, t, data, currTok, index, pc>>

(***************************************************************************)
(* Lines 180-191: inside an object the next token is a key: unescape it,  *)
(* create compound[key] and push it; inside an array insert Data() at the *)
(* index counter, push it, and advance the counter.  (In an object the    *)
(* token after a member is always a key in jsmn's output of toJSON, so    *)
(* the case where neither branch applies does not arise.)                 *)
(***************************************************************************)
PushChild ==
    LET tok  == T(currTok)
        back == Last(tokenStack)
        top  == Last(dataStack)
    IN
    /\ pc = "pop"
    /\ ~(tok.end > back.end)
    /\ \/ /\ back.type = "OBJECT"
          /\ tok.type \in {"PRIMITIVE", "STRING"}
          /\ LET path == Append(top, [f |-> "compound", k |-> jsonUnescape(tok.text)])
             IN  /\ data' = Touch(data, path)
                 /\ dataStack' = Append(dataStack, path)
          /\ currTok' = currTok + 1
          /\ UNCHANGED index
       \/ /\ back.type = "ARRAY"
          /\ LET path == Append(top, [f |-> "array", k |-> index])
             IN  /\ data' = Touch(data, path)
                 /\ dataStack' = Append(dataStack, path)
          /\ index' = index + 1
          /\ UNCHANGED currTok
    /\ pc' = "read"
    /\ UNCHANGED <<input, t, tokenStack>>

Next == Parse \/ ReadToken \/ PopToken \/ PushChild

Spec == Init /\ [][Next]_vars

-----------------------------------------------------------------------------
(***************************************************************************)
(* Text round trip (spec sections 3 and 7), first half: when fromJSON     *)
(* returns for the text toJSON wrote for a value, it returns a Data equal *)
(* to that value.                                                          *)
(***************************************************************************)
DecodesToEncoded == pc = "done" => data = input

(* Text round trip, second half: fromJSON accepts every text toJSON        *)
(* writes (jsmn does not reject it, so fromJSON does not throw).           *)
EncodingParses == pc # "error"

(***************************************************************************)
(* Spec sections 3 and 7: a Data survives the text round trip, i.e.      *)
(* fromJSON of the text toJSON wrote for it returns, and returns that     *)
(* Data: both halves above at once.  Broken by any of toJSON's escapes    *)
(* that jsmn or jsonUnescape do not undo, and by any state the walk keeps *)
(* from one container to the next.                                         *)
(***************************************************************************)
RoundTrips == EncodingParses /\ DecodesToEncoded

=============================================================================
