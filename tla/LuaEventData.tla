---------------------------- MODULE LuaEventData ----------------------------
(***************************************************************************)
(* A value a Lua session sends to itself as event data (<send             *)
(* target="#_internal"> with a <param>), in src/uscxml/plugins/datamodel/  *)
(* lua/LuaDataModel.cpp: evalAsData converts the value of the param's     *)
(* expression with getLuaAsData; setEvent copies the params into the      *)
(* event's data compound and binds _event.data to getDataAsLua of it.     *)
(* getLuaAsData keeps a function by storing it in the global __tmpFunc     *)
(* and writing that name into the Data ("safe in context of current       *)
(* interpreter", line 77), so the session's __tmpFunc is part of the state. *)
(*                                                                         *)
(* Lua values are records [t, s, props]: t the Lua type, s the text of a  *)
(* boolean, number or string or the identity of a function, props a       *)
(* table's entries.  Table keys are strings: those in NumKeys are number  *)
(* keys, written as the number, the others string keys.                   *)
(***************************************************************************)
EXTENDS Naturals, Sequences, SequencesExt

CONSTANTS Words,     \* the strings scripts hold ("" among them)
          Numerals,  \* the numbers scripts hold, as toStr writes them
          Functions, \* the functions scripts hold
          Keys,      \* table keys
          NumKeys,   \* the keys among Keys that are numbers
          Traversal, \* the order lua_next visits Keys in: the array part
                     \*   ascending, then the hash part (unspecified in Lua)
          P          \* the name of the <param>

(* (int)luaKey.cast<double>() of the number keys used. *)
IntKey == ("1" :> 1) @@ ("2" :> 2) @@ ("1.5" :> 1)
(* The key a Data array index is stored under in a new table (line 140). *)
KeyOf == (1 :> "1") @@ (2 :> "2")

Val(t, s) == [t |-> t, s |-> s, props |-> <<>>]
Table(f) == [t |-> "table", s |-> "", props |-> f]

Nil == Val("nil", "")

(* Values that may be table entries: every Lua value but nil. *)
Entries == {Val("boolean", "true")} \cup {Val("number", n) : n \in Numerals}
           \cup {Val("string", w) : w \in Words} \cup {Val("function", f) : f \in Functions}

LuaValues == {Nil} \cup Entries \cup {Table(f) : f \in UNION {[S -> Entries] : S \in SUBSET Keys}}

EmptyData == [atom |-> "", type |-> "INTERPRETED", compound |-> <<>>, array |-> <<>>]
DAtom(a, type) == [EmptyData EXCEPT !.atom = a, !.type = type]

-----------------------------------------------------------------------------
(***************************************************************************)
(* getLuaAsData (71-125), with the session's __tmpFunc threaded through:  *)
(* [data |-> the Data, tmp |-> __tmpFunc afterwards].  A function is      *)
(* stored in __tmpFunc; a table's entries are converted in lua_next order, *)
(* a string key into the compound and a number key, cast to int, into    *)
(* the array with std::map::insert (an index already there is kept); a    *)
(* table without entries becomes the INTERPRETED atom "{}".               *)
(***************************************************************************)
RECURSIVE getLuaAsData(_, _), ConvertEntries(_, _, _, _)
getLuaAsData(v, tmp) ==
    CASE v.t = "function" -> [data |-> DAtom("__tmpFunc", "INTERPRETED"), tmp |-> v]
      [] v.t = "nil"      -> [data |-> DAtom("nil", "INTERPRETED"), tmp |-> tmp]
      [] v.t = "boolean"  -> [data |-> DAtom(v.s, "INTERPRETED"), tmp |-> tmp]
      [] v.t = "number"   -> [data |-> DAtom(v.s, "INTERPRETED"), tmp |-> tmp]
      [] v.t = "string"   -> [data |-> DAtom(v.s, "VERBATIM"), tmp |-> tmp]
      [] OTHER ->
           LET r == ConvertEntries(v, SelectSeq(Traversal, LAMBDA k : k \in DOMAIN v.props),
                                   EmptyData, tmp)
           IN  IF r.data.array = <<>> /\ r.data.compound = <<>>
               THEN [data |-> DAtom("{}", "INTERPRETED"), tmp |-> r.tmp]
               ELSE r

ConvertEntries(v, ks, d, tmp) ==
    IF ks = <<>> THEN [data |-> d, tmp |-> tmp]
    ELSE LET k == Head(ks)
             r == getLuaAsData(v.props[k], tmp)
         IN  ConvertEntries(v, Tail(ks),
                            IF k \in NumKeys
                            THEN [d EXCEPT !.array = @ @@ (IntKey[k] :> r.data)]
                            ELSE [d EXCEPT !.compound = @ @@ (k :> r.data)],
                            r.tmp)

(* luaEval("return(" + atom + ");") of the INTERPRETED atoms getLuaAsData *)
(* writes (line 169): the value of the literal, or of the global __tmpFunc. *)
EvalAtom(a, tmp) ==
    CASE a = "nil"              -> Nil
      [] a \in {"true", "false"} -> Val("boolean", a)
      [] a = "{}"               -> Table(<<>>)
      [] a = "__tmpFunc"        -> tmp

(* The table a Data array or compound becomes: a nil value leaves no entry. *)
NonNil(f) == [k \in {k \in DOMAIN f : f[k] # Nil} |-> f[k]]

(***************************************************************************)
(* getDataAsLua (127-181): an array or compound becomes a table (array    *)
(* entries under their index, then compound entries under their key); a   *)
(* VERBATIM atom a string; a numeric INTERPRETED atom a number; any other *)
(* INTERPRETED atom is evaluated; an empty Data is nil.                   *)
(***************************************************************************)
RECURSIVE getDataAsLua(_, _)
getDataAsLua(d, tmp) ==
    IF d.compound # <<>> \/ d.array # <<>>
    THEN Table(NonNil([k \in {KeyOf[i] : i \in DOMAIN d.array} |->
                               getDataAsLua(d.array[CHOOSE i \in DOMAIN d.array : KeyOf[i] = k], tmp)]
                      @@ [k \in DOMAIN d.compound |-> getDataAsLua(d.compound[k], tmp)]))
    ELSE IF d.atom # "" \/ d.type = "VERBATIM"
    THEN CASE d.type = "VERBATIM" -> Val("string", d.atom)
           [] d.atom \in Numerals -> Val("number", d.atom)
           [] OTHER               -> EvalAtom(d.atom, tmp)
    ELSE Nil

-----------------------------------------------------------------------------
NoValue == Val("none", "")
NoData == DAtom("", "NONE")

VARIABLES sent,      \* the value of the <param>'s expression
          param,     \* event.params[P]: the Data evalAsData made of it
          received,  \* _event.data[P] when the event is processed
          tmpFunc    \* the session's global __tmpFunc

vars == <<sent, param, received, tmpFunc>>

TypeOK == sent \in LuaValues /\ tmpFunc \in {Nil} \cup {Val("function", f) : f \in Functions}

Init == /\ sent \in LuaValues
        /\ param = NoData
        /\ received = NoValue
        /\ tmpFunc = Nil

(* evalAsData (321-332) of the <param> expression. *)
evalAsData ==
    /\ param = NoData
    /\ param' = getLuaAsData(sent, tmpFunc).data
    /\ tmpFunc' = getLuaAsData(sent, tmpFunc).tmp
    /\ UNCHANGED <<sent, received>>

(* setEvent (289-316): params copied into the data compound, converted by *)
(* getDataAsLua; a nil entry leaves _event.data[P] nil.                    *)
EventData(d) == [EmptyData EXCEPT !.compound = (P :> d)]

setEvent ==
    /\ param # NoData /\ received = NoValue
    /\ received' = LET t == getDataAsLua(EventData(param), tmpFunc)
                   IN  IF P \in DOMAIN t.props THEN t.props[P] ELSE Nil
    /\ UNCHANGED <<sent, param, tmpFunc>>

Next == evalAsData \/ setEvent

Spec == Init /\ [][Next]_vars

-----------------------------------------------------------------------------
(***************************************************************************)
(* An Event's data is immutable once enqueued (spec section 3): the value *)
(* the session reads as _event.data[P] is the value its expression had,  *)
(* functions included (the code's comment calls __tmpFunc safe within    *)
(* the interpreter).                                                       *)
(***************************************************************************)
EventDataSurvives == received # NoValue => received = sent
=============================================================================
