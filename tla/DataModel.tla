----------------------------- MODULE DataModel -----------------------------
(***************************************************************************)
(* The Lua data model (src/uscxml/plugins/datamodel/lua/LuaDataModel.cpp) *)
(* and the JavaScriptCore data model (.../JavaScriptCore/JSCDataModel.cpp) *)
(* as the interpreter drives them: setEvent before an event is processed, *)
(* assign and init for <assign> and <data>, getLength and setForeach for  *)
(* <foreach>.  Both models exist side by side, each with its own globals. *)
(*                                                                         *)
(* env[dm][l] is the script value of the global l.  Script values are     *)
(* abstract: NIL is Lua's nil or JavaScript's undefined, UNDECL a          *)
(* JavaScript name never declared (reading it throws), NULL JavaScript's   *)
(* null, SID the value setup() binds to a reserved name, "S" and "foo"    *)
(* strings, Arr a two-element array (a Lua table with keys 0 and 1 when    *)
(* it comes from a Data array; its elements ArrElems are numbers), Num(n) *)
(* the number n setForeach binds to an index, and an event the value      *)
(* setEvent binds to _event.  All are strings, so any two compare.       *)
(*                                                                         *)
(* The Data handed to assign and init is one of a few kinds, named for    *)
(* how the two script engines treat them:                                  *)
(*   "str"     a VERBATIM atom that is not a valid expression ("S");      *)
(*   "ident"   a VERBATIM atom that is also a valid expression, naming no *)
(*             variable ("foo");                                           *)
(*   "badexpr" an INTERPRETED atom whose evaluation throws;                *)
(*   "empty"   Data();                                                     *)
(*   "arr"     a Data array with elements at 0 and 1.                      *)
(***************************************************************************)
EXTENDS Naturals, FiniteSets, TLC

CONSTANTS Locs,      \* global names used as locations, items, arrays and indices
          Events,    \* events given to setEvent
          MaxOps     \* data-model calls made (bound)

DMs == {"lua", "jsc"}

(* The names assign rejects (both models, lines 438-447 and 760-769).     *)
Reserved == {"_sessionid", "_name", "_ioprocessors", "_invokers", "_event"}

(* The names JSC setup() defines kJSPropertyAttributeReadOnly (310-331).  *)
JSCReadOnly == {"_sessionid", "_name", "_ioprocessors", "_invokers"}

NIL == "nil"
UNDECL == "undeclared"
NULL == "null"
SID == "sid"
Err == "exception"
Arr == "array"
ArrElems == (0 :> "e0") @@ (1 :> "e1")
Num(n) == ToString(n)
Datas == {"str", "ident", "badexpr", "empty", "arr"}

IsTable(v) == v = Arr

VARIABLES env,       \* env[dm][l]: the value of global l in data model dm
          sysEvent,  \* sysEvent[dm]: the event setEvent last bound (ghost)
          last,      \* the latest call: [op, dm, loc, ok] (ghost)
          ops,       \* calls so far
          loop,      \* the <foreach> being executed: its names, length n, next iteration i
          bound      \* the values the item took in this <foreach> (ghost)

vars == <<env, sysEvent, last, ops, loop, bound>>

(* LuaDataModel::setup(): the reserved names bound, every other global   *)
(* (_event included) nil.                                                   *)
LuaSetup == [l \in Locs |-> IF l \in Reserved \ {"_event"} THEN SID ELSE NIL]

(* JSCDataModel::setup(): _name, _sessionid, _ioprocessors, _invokers set *)
(* as properties of the global object, _event and the rest undeclared.    *)
JSCSetup == [l \in Locs |-> IF l \in Reserved \ {"_event"} THEN SID ELSE UNDECL]

(* The globals of data model dm after create(), which calls setup(). *)
InitEnv(dm) == IF dm = "lua" THEN LuaSetup ELSE JSCSetup

(* No <foreach> is running. *)
NoLoop == [dm |-> "none", item |-> "", array |-> "", index |-> "", n |-> 0, i |-> 0]

TypeOK ==
    /\ env \in [DMs -> [Locs -> {NIL, UNDECL, NULL, SID, "S", "foo", "e0", "e1", Arr}
                                 \cup {Num(n) : n \in 0..2}
                                 \cup Events]]
    /\ ops \in 0..MaxOps

Init ==
    /\ env = [dm \in DMs |-> InitEnv(dm)]
    /\ sysEvent = [dm \in DMs |-> InitEnv(dm)["_event"]]
    /\ last = [op |-> "none", dm |-> "lua", loc |-> "", ok |-> TRUE]
    /\ ops = 0
    /\ loop = NoLoop
    /\ bound = {}

(* The outcome of a call: the globals after it, and whether it returned. *)
Result(e, ok) == [env |-> e, ok |-> ok]

(* One call of data model dm, with outcome r. *)
Apply(dm, op, loc, r) ==
    /\ env' = [env EXCEPT ![dm] = r.env]
    /\ last' = [op |-> op, dm |-> dm, loc |-> loc, ok |-> r.ok]

(* A call the interpreter makes on its own (not an iteration of a loop). *)
Call(dm, op, loc, r) ==
    /\ ops < MaxOps
    /\ ops' = ops + 1
    /\ Apply(dm, op, loc, r)

(* The array's element at key k: nil (undefined) for a missing key. *)
Elem(k) == IF k \in DOMAIN ArrElems THEN ArrElems[k] ELSE NIL

-----------------------------------------------------------------------------
(***************************************************************************)
(* Lua.  getDataAsLua (127-181): an array becomes a table keyed by the    *)
(* Data indices (0 and 1), a VERBATIM atom a string, an empty INTERPRETED *)
(* atom nil, a non-numeric INTERPRETED atom the result of                  *)
(* luaEval("return(atom);"), which throws when the evaluation fails.      *)
(***************************************************************************)
getDataAsLua(d) ==
    CASE d = "str"     -> "S"
      [] d = "ident"   -> "foo"
      [] d = "badexpr" -> Err
      [] d = "empty"   -> NIL
      [] d = "arr"     -> Arr

(* assign (432-457) on globals e: a reserved location throws; otherwise   *)
(* the converted value is stored via __tmpAssign and "location =           *)
(* __tmpAssign" (the helper global is left out).                           *)
LuaAssignTo(e, loc, d) ==
    IF loc \in Reserved \/ getDataAsLua(d) = Err THEN Result(e, FALSE)
    ELSE Result([e EXCEPT ![loc] = getDataAsLua(d)], TRUE)

luaAssign(loc, d) == Call("lua", "assign", loc, LuaAssignTo(env["lua"], loc, d)) /\ UNCHANGED sysEvent

(* init (459-462): the location is set to nil, then assigned. *)
luaInit(loc, d) ==
    /\ Call("lua", "init", loc, LuaAssignTo([env["lua"] EXCEPT ![loc] = NIL], loc, d))
    /\ UNCHANGED sysEvent

(* setEvent (258-319): _event becomes a table built from the event. *)
luaSetEvent(ev) ==
    /\ Call("lua", "setEvent", "_event", Result([env["lua"] EXCEPT !["_event"] = ev], TRUE))
    /\ sysEvent' = [sysEvent EXCEPT !["lua"] = ev]

(* getLength (385-404): "return(#expr)"; # of a table is any border of it *)
(* (n = 0 or t[n] non-nil, and t[n+1] nil), # of a string its length, of  *)
(* anything else an error.  The set of lengths the call may return.       *)
LuaGetLength(v) ==
    CASE IsTable(v) -> {n \in 0..Cardinality(DOMAIN ArrElems) :
                          (n = 0 \/ n \in DOMAIN ArrElems) /\ n + 1 \notin DOMAIN ArrElems}
      [] v = "S"    -> {1}
      [] v = "foo"  -> {3}
      [] OTHER      -> {}

(* setForeach (406-424): iteration+1; if the global named array is a      *)
(* table, "item = array[i]" and, with an index, "index = i".  Nothing     *)
(* rejects a reserved item or index.                                       *)
luaSetForeach(item, array, index, iteration) ==
    LET i  == iteration + 1
        e  == env["lua"]
        e1 == [e EXCEPT ![item] = Elem(i)]
        e2 == IF index # "" THEN [e1 EXCEPT ![index] = Num(i)] ELSE e1
    IN
    /\ Apply("lua", "setForeach", item, Result(IF IsTable(e[array]) THEN e2 ELSE e, TRUE))
    /\ UNCHANGED sysEvent

-----------------------------------------------------------------------------
(***************************************************************************)
(* JavaScriptCore.  assign (779-787) evaluates "location=" followed by the *)
(* atom itself when it is VERBATIM and a valid expression, else by        *)
(* toJSON(data): a string stays a string, an identifier is looked up and  *)
(* throws, a failing INTERPRETED atom throws, Data() is null, an array an *)
(* array.                                                                  *)
(***************************************************************************)
JSCValue(d) ==
    CASE d = "str"     -> "S"
      [] d = "ident"   -> Err
      [] d = "badexpr" -> Err
      [] d = "empty"   -> NULL
      [] d = "arr"     -> Arr

(* assign (757-791) of a script value: a reserved location throws first. *)
JSCAssignValue(e, loc, v) ==
    IF loc \in Reserved \/ v = Err THEN Result(e, FALSE)
    ELSE Result([e EXCEPT ![loc] = v], TRUE)

jscAssign(loc, d) ==
    Call("jsc", "assign", loc, JSCAssignValue(env["jsc"], loc, JSCValue(d))) /\ UNCHANGED sysEvent

(***************************************************************************)
(* init (793-807): Data() is assigned as null, anything else as is; when  *)
(* assign throws, "location = undefined" is evaluated without throwing    *)
(* (test 277), which a read-only global ignores, and the error rethrown.  *)
(***************************************************************************)
JSCInitTo(e, loc, d) ==
    LET r == JSCAssignValue(e, loc, JSCValue(d))
    IN  IF r.ok THEN r
        ELSE Result(IF loc \in JSCReadOnly THEN e ELSE [e EXCEPT ![loc] = NIL], FALSE)

jscInit(loc, d) == Call("jsc", "init", loc, JSCInitTo(env["jsc"], loc, d)) /\ UNCHANGED sysEvent

(* setEvent (340-440): _event is (re)defined DontDelete, not ReadOnly. *)
jscSetEvent(ev) ==
    /\ Call("jsc", "setEvent", "_event", Result([env["jsc"] EXCEPT !["_event"] = ev], TRUE))
    /\ sysEvent' = [sysEvent EXCEPT !["jsc"] = ev]

(* getLength (626-641): "(expr).length"; undefined, null or an undeclared *)
(* name throw; an array has its length, the string "S" length 1.           *)
JSCGetLength(v) ==
    CASE IsTable(v) -> {Cardinality(DOMAIN ArrElems)}
      [] v = "S"    -> {1}
      [] OTHER      -> {}

(* isDeclared (689-699): evaluating the name neither throws nor is null. *)
isDeclared(v) == v \notin {UNDECL, NULL}

(* array[iteration + 1] read, as Lua's setForeach does. *)
JSCElementShifted(v, i) ==
    CASE IsTable(v)               -> Elem(i + 1)
      [] v = "S"                  -> IF i + 1 = 0 THEN "S" ELSE NIL
      [] v \in {NIL, NULL, UNDECL} -> Err
      [] OTHER                    -> NIL

(* array[iteration] evaluated: an element (undefined past the end), the   *)
(* one character of "S", or an exception for undefined, null, undeclared. *)
JSCElement(v, i) ==
    CASE IsTable(v)               -> Elem(i)
      [] v = "S"                  -> IF i = 0 THEN "S" ELSE NIL
      [] v \in {NIL, NULL, UNDECL} -> Err
      [] OTHER                    -> NIL

(***************************************************************************)
(* setForeach (643-660): an undeclared item is first assigned null; then  *)
(* "item = array[iteration]" and, with an index, "index = iteration", each *)
(* through assign, so a throw leaves the earlier assignments in place.    *)
(***************************************************************************)
jscSetForeach(item, array, index, iteration) ==
    LET e  == env["jsc"]
        r1 == IF isDeclared(e[item]) THEN Result(e, TRUE) ELSE JSCAssignValue(e, item, NULL)
        r2 == IF r1.ok THEN JSCAssignValue(r1.env, item, JSCElement(r1.env[array], iteration))
              ELSE r1
        r3 == IF r2.ok /\ index # "" THEN JSCAssignValue(r2.env, index, Num(iteration)) ELSE r2
    IN
    /\ Apply("jsc", "setForeach", item, r3)
    /\ UNCHANGED sysEvent

-----------------------------------------------------------------------------
(***************************************************************************)
(* The <foreach> loop of the content executor (not among the sources;     *)
(* spec 4.4), through the interpreter's callbacks getLength and           *)
(* setForeach (interpreter/InterpreterImpl.h 176-186): the length of the  *)
(* array is read once, then setForeach is called for iterations 0..n-1,   *)
(* each followed by the block; a throw ends the loop.  The block's own    *)
(* content is left out: it is taken to leave item and array alone.        *)
(* item, array and index are distinct names of the document, the array    *)
(* not a reserved one.                                                     *)
(***************************************************************************)
ForeachArgs == {a \in Locs \X (Locs \ Reserved) \X (Locs \cup {""}) :
                  a[1] # a[2] /\ a[3] \notin {a[1], a[2]}}

Idle == loop = NoLoop

(* getLength(array): it throws when no length exists, ending the foreach. *)
ForeachBegin(dm, a, lengths) ==
    /\ Idle
    /\ UNCHANGED sysEvent
    /\ \/ /\ lengths = {}
          /\ Call(dm, "getLength", a[2], Result(env[dm], FALSE))
          /\ UNCHANGED <<loop, bound>>
       \/ \E n \in lengths :
          /\ Call(dm, "getLength", a[2], Result(env[dm], TRUE))
          /\ loop' = [dm |-> dm, item |-> a[1], array |-> a[2], index |-> a[3], n |-> n, i |-> 0]
          /\ bound' = {}

(* setForeach(item, array, index, i) for the next iteration. *)
ForeachIteration ==
    /\ loop.i < loop.n
    /\ \/ loop.dm = "lua" /\ luaSetForeach(loop.item, loop.array, loop.index, loop.i)
       \/ loop.dm = "jsc" /\ jscSetForeach(loop.item, loop.array, loop.index, loop.i)
    /\ bound' = bound \cup {env'[loop.dm][loop.item]}
    /\ loop' = IF last'.ok THEN [loop EXCEPT !.i = @ + 1] ELSE NoLoop
    /\ UNCHANGED ops

(* The loop leaves after iteration n-1. *)
ForeachEnd ==
    /\ ~Idle
    /\ loop.i = loop.n
    /\ loop' = NoLoop
    /\ UNCHANGED <<env, sysEvent, last, ops, bound>>

LuaNext ==
    \/ Idle /\ UNCHANGED <<loop, bound>> /\
         \/ \E l \in Locs, d \in Datas : luaAssign(l, d) \/ luaInit(l, d)
         \/ \E ev \in Events : luaSetEvent(ev)
    \/ \E a \in ForeachArgs : ForeachBegin("lua", a, LuaGetLength(env["lua"][a[2]]))

JSCNext ==
    \/ Idle /\ UNCHANGED <<loop, bound>> /\
         \/ \E l \in Locs, d \in Datas : jscAssign(l, d) \/ jscInit(l, d)
         \/ \E ev \in Events : jscSetEvent(ev)
    \/ \E a \in ForeachArgs : ForeachBegin("jsc", a, JSCGetLength(env["jsc"][a[2]]))

(* A running <foreach> is carried on before anything else. *)
LoopNext == ForeachIteration \/ ForeachEnd

Next == LuaNext \/ JSCNext \/ LoopNext

Spec == Init /\ [][Next]_vars

-----------------------------------------------------------------------------
(***************************************************************************)
(* Spec section 7: assigning to a reserved binding fails and leaves the   *)
(* data model unmodified.  Stated over every call of either model: after  *)
(* any sequence of assign, init, setEvent and setForeach calls,           *)
(* _sessionid (and the other names setup binds) still holds its setup     *)
(* value, and _event the event setEvent bound last.                        *)
(***************************************************************************)
ReservedBindingsIntact ==
    \A dm \in DMs :
       /\ \A l \in Locs \cap (Reserved \ {"_event"}) : env[dm][l] = SID
       /\ "_event" \in Locs => env[dm]["_event"] = sysEvent[dm]

(***************************************************************************)
(* Spec 4.4: foreach binds the item "for each element" of the array.  When *)
(* a <foreach> over an array of data model dm has run every iteration the *)
(* length getLength returned allows, the item has been bound to every     *)
(* element.  In Lua an array that came from a Data array (fromJSON,       *)
(* another session's event, a JSC value) is a table keyed from 0, while   *)
(* getLength is Lua's 1-based # and setForeach reads array[iteration+1].  *)
(***************************************************************************)
ForeachBindsEveryElementIn(dm) ==
    (loop.dm = dm /\ loop.i = loop.n /\ IsTable(env[dm][loop.array]))
        => \A k \in DOMAIN ArrElems : ArrElems[k] \in bound

ForeachBindsEveryElement == \A dm \in DMs : ForeachBindsEveryElementIn(dm)

(* The same statement for the JavaScriptCore data model alone, whose      *)
(* arrays are 0-based like Data's: getLength is the array's length and    *)
(* setForeach reads array[iteration].                                     *)
JSCForeachBindsEveryElement == ForeachBindsEveryElementIn("jsc")
=============================================================================
