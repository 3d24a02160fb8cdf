---------------------------- MODULE JSCEventData ----------------------------
(***************************************************************************)
(* A value passed from one JavaScriptCore session to another as event     *)
(* data (src/uscxml/plugins/datamodel/ecmascript/JavaScriptCore/           *)
(* JSCDataModel.cpp).  The sender's <param expr> is evaluated by           *)
(* evalAsData, which converts the script value to a Data with             *)
(* getValueAsData; the receiver's setEvent copies the params into the     *)
(* event's data compound and binds _event.data to getDataAsValue of it.   *)
(* The text evalAsData fell back to is run by the receiver's evalAsValue  *)
(* (line 523) as a program of its own, not wrapped in return(...).         *)
(*                                                                         *)
(* Script values are records [t, s, props]: t the JavaScript type, s the  *)
(* text of a boolean, number or string, props the enumerable properties   *)
(* of an array or object (property name -> value); an array's property    *)
(* names are its indices, and a sparse array lacks some of them.  A Data  *)
(* is [atom, type, compound, array], its atom a string ("" when empty).   *)
(* Numbers are their toStr text; toStr is not among the sources, and the  *)
(* numbers used print the same in C++ and JavaScript.  A boolean's atom   *)
(* keeps Data's default type, INTERPRETED (Data.h is not among the        *)
(* sources either).                                                        *)
(***************************************************************************)
EXTENDS Naturals, FiniteSets, TLC

CONSTANTS Words,       \* the strings scripts hold ("" among them)
          Numerals,    \* the numbers scripts hold, as text
          ArrayNames,  \* the indices of arrays, as property names
          ObjectNames, \* the property names of objects (an integer one among them)
          P,           \* the name of the <param>
          MaxDepth     \* nesting of arrays and objects in the value sent

(* One level deep, the values getValueAsData throws on are [] and {},     *)
(* whose literal text the receiver's evalAsValue runs as shown by         *)
(* LiteralAsScript; deeper ones (say {a: []}) mean what the way their     *)
(* author wrote the names makes them mean.                                *)
ASSUME MaxDepth <= 1

(* isInteger(name) and strTo<int>(name) of the property names used. *)
IntOf == ("0" :> 0) @@ ("1" :> 1) @@ ("2" :> 2)
NameOf == (0 :> "0") @@ (1 :> "1") @@ (2 :> "2")

Scalar(t, s) == [t |-> t, s |-> s, props |-> <<>>]
Container(t, f) == [t |-> t, s |-> "", props |-> f]

Undefined == Scalar("undefined", "")
Null == Scalar("null", "")

Scalars == {Undefined, Null, Scalar("boolean", "true")}
           \cup {Scalar("number", n) : n \in Numerals}
           \cup {Scalar("string", w) : w \in Words}

(* Functions from some of the names N to values of V. *)
PropsOver(N, V) == UNION {[S -> V] : S \in SUBSET N}

RECURSIVE JSValuesUpTo(_)
JSValuesUpTo(n) ==
    IF n = 0 THEN Scalars
    ELSE LET V == JSValuesUpTo(n - 1)
         IN  Scalars \cup {Container("array", f) : f \in PropsOver(ArrayNames, V)}
                     \cup {Container("object", f) : f \in PropsOver(ObjectNames, V)}

JSValues == JSValuesUpTo(MaxDepth)

EmptyData == [atom |-> "", type |-> "INTERPRETED", compound |-> <<>>, array |-> <<>>]
DAtom(a, type) == [EmptyData EXCEPT !.atom = a, !.type = type]

(* JSComplexClassException, thrown by getValueAsData. *)
Throw == DAtom("", "THROW")

-----------------------------------------------------------------------------
(***************************************************************************)
(* getValueAsData (532-624): scalars become atoms (a string VERBATIM, the *)
(* rest INTERPRETED); an object (arrays included) becomes an array keyed  *)
(* by strTo<int> of its property names if every name is an integer, and a *)
(* compound otherwise; an object without enumerable properties throws,    *)
(* and so does the conversion of any value inside it.                     *)
(***************************************************************************)
RECURSIVE getValueAsData(_)
getValueAsData(v) ==
    CASE v.t = "undefined" -> DAtom("undefined", "INTERPRETED")
      [] v.t = "null"      -> DAtom("null", "INTERPRETED")
      [] v.t = "boolean"   -> DAtom(v.s, "INTERPRETED")
      [] v.t = "number"    -> DAtom(v.s, "INTERPRETED")
      [] v.t = "string"    -> DAtom(v.s, "VERBATIM")
      [] OTHER ->
           LET names   == DOMAIN v.props
               kids    == [n \in names |-> getValueAsData(v.props[n])]
               isArray == \A n \in names : n \in DOMAIN IntOf
           IN  IF names = {} \/ \E n \in names : kids[n] = Throw THEN Throw
               ELSE IF isArray
                    THEN [EmptyData EXCEPT !.array = [i \in {IntOf[n] : n \in names} |-> kids[NameOf[i]]]]
                    ELSE [EmptyData EXCEPT !.compound = kids]

(***************************************************************************)
(* evalAsValue (730-744) of the INTERPRETED atoms getValueAsData writes:  *)
(* the literals undefined, null, true, false and numbers.  Any other text *)
(* is script code whose value depends on the receiving context.           *)
(***************************************************************************)
Reevaluated == Scalar("reevaluated", "")

evalAsValue(a) ==
    CASE a = "undefined"          -> Undefined
      [] a = "null"               -> Null
      [] a \in {"true", "false"}  -> Scalar("boolean", a)
      [] a \in Numerals           -> Scalar("number", a)
      [] OTHER                    -> Reevaluated

(* The position of index i among the indices of an array Data. *)
Rank(d, i) == Cardinality({j \in DOMAIN d.array : j < i})

(***************************************************************************)
(* getDataAsValue (476-530): a compound becomes an object, else an array  *)
(* becomes a JavaScript array of its elements in index order, packed from *)
(* 0 (elements[count++]); else a non-empty atom becomes a string          *)
(* (VERBATIM) or is evaluated (INTERPRETED); else undefined.              *)
(***************************************************************************)
RECURSIVE getDataAsValue(_)
getDataAsValue(d) ==
    IF d.compound # <<>>
    THEN Container("object", [n \in DOMAIN d.compound |-> getDataAsValue(d.compound[n])])
    ELSE IF d.array # <<>>
    THEN Container("array", [n \in {NameOf[Rank(d, i)] : i \in DOMAIN d.array} |->
                               getDataAsValue(d.array[CHOOSE i \in DOMAIN d.array :
                                                         Rank(d, i) = IntOf[n]])])
    ELSE IF d.atom # ""
    THEN IF d.type = "VERBATIM" THEN Scalar("string", d.atom) ELSE evalAsValue(d.atom)
    ELSE Undefined

(* evalAsData (710-728) of the <param>'s expression, the literal of the  *)
(* value sent: getValueAsData of its value (wrapped in return(...)); when *)
(* that throws, the expression's own text as an INTERPRETED atom.         *)
ExprText == DAtom("<expr>", "INTERPRETED")

evalAsData(v) ==
    IF getValueAsData(v) = Throw THEN ExprText ELSE getValueAsData(v)

-----------------------------------------------------------------------------
NoValue == Scalar("none", "")
NoData == DAtom("", "NONE")

VARIABLES sent,      \* the value of the <param>'s expression in the sender
          param,     \* event.params[P]: the Data the sender put in the event
          received   \* _event.data[P] in the receiver

vars == <<sent, param, received>>

TypeOK == sent \in JSValues

Init == /\ sent \in JSValues
        /\ param = NoData
        /\ received = NoValue

(* The sender evaluates the <param> (ContentExecutor, through evalAsData). *)
Send == /\ param = NoData
        /\ param' = evalAsData(sent)
        /\ UNCHANGED <<sent, received>>

(***************************************************************************)
(* setEvent (400-425) in the receiver: params are copied into a copy of   *)
(* the event's data compound; a non-empty data becomes _event.data through *)
(* getDataAsValue, an empty one undefined.  The expression text that      *)
(* evalAsData fell back to (the literal of sent) is run by evalAsValue as *)
(* a program of the receiver (line 523).                                   *)
(***************************************************************************)
EventData(d) == [EmptyData EXCEPT !.compound = (P :> d)]

(* The value of a literal run as a program: [] is an array literal again, *)
(* while a { at the start of a statement opens a block, so {} gives       *)
(* undefined.                                                              *)
LiteralAsScript(v) == IF v.t = "object" THEN Undefined ELSE v

setEvent ==
    /\ param # NoData /\ received = NoValue
    /\ LET r == getDataAsValue(EventData(param)).props[P]
       IN  received' = IF r = Reevaluated THEN LiteralAsScript(sent) ELSE r
    /\ UNCHANGED <<sent, param>>

Next == Send \/ setEvent

Spec == Init /\ [][Next]_vars

-----------------------------------------------------------------------------
(***************************************************************************)
(* An Event's data is immutable once enqueued (spec section 3): the       *)
(* receiving session's _event.data holds the value the sender's           *)
(* expression had, property for property and of the same type, both when *)
(* getValueAsData converted it and when evalAsData fell back to the       *)
(* expression's text, which the receiver evaluates again.                 *)
(***************************************************************************)
EventDataSurvives == received # NoValue => received = sent
=============================================================================
