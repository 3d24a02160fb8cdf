---------------------------- MODULE MCEventData ----------------------------
(***************************************************************************)
(* Event data sent between sessions, in either data model: a behaviour    *)
(* sends one value from a JavaScriptCore session to another (JSCEventData) *)
(* or from a Lua session to itself (LuaEventData).  The data model a      *)
(* behaviour does not exercise stays in its initial state.                 *)
(*   JSC: every value one level deep over two strings ('' among them), a  *)
(*        number, arrays over indices 0 and 1 (sparse ones included) and  *)
(*        objects over the names "a" and "1".                              *)
(*   Lua: every value one level deep over a string, a number, two         *)
(*        functions, and tables over the number keys 1, 2 and 1.5 and the *)
(*        string key "a".                                                  *)
(***************************************************************************)
EXTENDS Naturals

VARIABLES jsent, jparam, jreceived,            \* JSCEventData
          lsent, lparam, lreceived, tmpFunc,   \* LuaEventData
          dm                                   \* "jsc" or "lua"

jscVars == <<jsent, jparam, jreceived>>
luaVars == <<lsent, lparam, lreceived, tmpFunc>>
vars == <<jscVars, luaVars, dm>>

J == INSTANCE JSCEventData WITH sent <- jsent, param <- jparam, received <- jreceived,
       Words <- {"", "x"}, Numerals <- {"1"}, ArrayNames <- {"0", "1"},
       ObjectNames <- {"a", "1"}, P <- "p", MaxDepth <- 1
L == INSTANCE LuaEventData WITH sent <- lsent, param <- lparam, received <- lreceived,
       Words <- {"x"}, Numerals <- {"1"}, Functions <- {"f1", "f2"},
       Keys <- {"1", "2", "1.5", "a"}, NumKeys <- {"1", "2", "1.5"},
       Traversal <- <<"1", "2", "1.5", "a">>, P <- "p"

Init == \/ dm = "jsc" /\ J!Init /\ L!Init /\ lsent = L!Nil
        \/ dm = "lua" /\ L!Init /\ J!Init /\ jsent = J!Undefined

Next == \/ dm = "jsc" /\ J!Next /\ UNCHANGED <<luaVars, dm>>
        \/ dm = "lua" /\ L!Next /\ UNCHANGED <<jscVars, dm>>

Spec == Init /\ [][Next]_vars

(***************************************************************************)
(* An Event's data is immutable once enqueued (spec section 3): in either *)
(* data model, the receiving session's _event.data holds the value the    *)
(* sender's <param> expression had (see JSCEventData and LuaEventData).   *)
(***************************************************************************)
EventDataSurvives == J!EventDataSurvives /\ L!EventDataSurvives
=============================================================================
