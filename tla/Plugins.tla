------------------------------ MODULE Plugins ------------------------------
(***************************************************************************)
(* A session's data model comes from the Factory: plugins are registered  *)
(* (in the global factory and in a session-local one whose parent it is), *)
(* the interpreter then creates the data model its document names through *)
(* the session's factory, and from then on drives that data model.  The   *)
(* Factory and DataModel modules are composed; the step that connects     *)
(* them is the interpreter's createDataModel call.  Once the session runs, *)
(* its invokers and I/O processors hand events back to it through          *)
(* eventToSCXML (Factory.cpp 605-641), which stamps the fields left unset  *)
(* and enqueues on the session's internal or external queue               *)
(* (InterpreterImpl.h 166-171).                                             *)
(***************************************************************************)
EXTENDS Naturals, Sequences, TLC

CONSTANTS Factories, Parent, NoParent, Kinds, Plugins, Names, ExecContents,
          Types, NameSpaces, DefaultNS, Throw, MaxRegs,
          Locs, Events, MaxOps,
          SessionFactory,  \* the factory the interpreter creates through
          DataModelOf,     \* DataModelOf[p]: "lua" or "jsc" for a data-model prototype
          SentEvents,      \* the events an invoker or I/O processor builds:
                           \*   [eventType (UNSET for 0), origin, origintype, invokeid]
          EventTypes,      \* the type arguments (the processor's or invoker's type)
          Origins,         \* the origin arguments of IOProcessorImpl::eventToSCXML ("" included)
          InvokeIds,       \* the invokeId arguments of InvokerImpl::eventToSCXML ("" included)
          MaxDelivered     \* events handed back (bound)

VARIABLES aliases, plugins, executableContent, regs,
          env, sysEvent, last, ops, loop, bound,
          session,         \* the session's data model: "none", "lua" or "jsc"
          internalQueue,   \* _internalQueue: the events handed to the session
          externalQueue    \* _externalQueue

F == INSTANCE Factory
D == INSTANCE DataModel

factoryVars == <<aliases, plugins, executableContent, regs>>
dataModelVars == <<env, sysEvent, last, ops, loop, bound>>
queueVars == <<internalQueue, externalQueue>>
vars == <<factoryVars, dataModelVars, session, queueVars>>

Init == F!Init /\ D!Init /\ session = "none" /\ internalQueue = <<>> /\ externalQueue = <<>>

(* Before the session starts, plugins are registered. *)
Register == session = "none" /\ F!Next /\ UNCHANGED <<dataModelVars, session, queueVars>>

(* The interpreter's createDataModel(type) on its factory; when it throws *)
(* the session does not start.                                             *)
createSessionDataModel(type) ==
    /\ session = "none"
    /\ F!createX(SessionFactory, "datamodel", type) \in DOMAIN DataModelOf
    /\ session' = DataModelOf[F!createX(SessionFactory, "datamodel", type)]
    /\ UNCHANGED <<factoryVars, dataModelVars, queueVars>>

(* Then the interpreter drives the data model it created. *)
Run ==
    /\ \/ session = "lua" /\ D!LuaNext
       \/ session = "jsc" /\ D!JSCNext
       \/ D!LoopNext
    /\ UNCHANGED <<factoryVars, session, queueVars>>

(* Event::eventType 0, i.e. not yet set. *)
UNSET == "unset"

(* The eventType an unset one is stamped with. *)
Stamp(internal) == IF internal THEN "INTERNAL" ELSE "EXTERNAL"

(* Lines 605-621: eventType, origin (when the argument is non-empty) and  *)
(* origintype, each only when unset.                                       *)
IOProcessorStamp(e, type, origin, internal) ==
    [e EXCEPT !.eventType  = IF @ = UNSET THEN Stamp(internal) ELSE @,
              !.origin     = IF @ = "" /\ origin # "" THEN origin ELSE @,
              !.origintype = IF @ = "" THEN type ELSE @]

(* Lines 623-641: the invokeid too, and the origin "#_" + invokeId. *)
InvokerStamp(e, type, invokeId, internal) ==
    [e EXCEPT !.invokeid   = IF @ = "" THEN invokeId ELSE @,
              !.eventType  = IF @ = UNSET THEN Stamp(internal) ELSE @,
              !.origin     = IF @ = "" /\ invokeId # "" THEN "#_" \o invokeId ELSE @,
              !.origintype = IF @ = "" THEN type ELSE @]

(* enqueueInternal / enqueueExternal (InterpreterImpl.h 166-171). *)
Enqueue(stamped, internal) ==
    /\ session # "none"
    /\ Len(internalQueue) + Len(externalQueue) < MaxDelivered
    /\ IF internal
       THEN /\ internalQueue' = Append(internalQueue, stamped)
            /\ UNCHANGED externalQueue
       ELSE /\ externalQueue' = Append(externalQueue, stamped)
            /\ UNCHANGED internalQueue
    /\ UNCHANGED <<factoryVars, dataModelVars, session>>

ioProcessorEventToSCXML(e, type, origin, internal) ==
    Enqueue(IOProcessorStamp(e, type, origin, internal), internal)

invokerEventToSCXML(e, type, invokeId, internal) ==
    Enqueue(InvokerStamp(e, type, invokeId, internal), internal)

Next == \/ Register
        \/ \E type \in Types : createSessionDataModel(type)
        \/ Run
        \/ \E e \in SentEvents, type \in EventTypes, internal \in BOOLEAN :
              \/ \E origin \in Origins : ioProcessorEventToSCXML(e, type, origin, internal)
              \/ \E invokeId \in InvokeIds : invokerEventToSCXML(e, type, invokeId, internal)

Spec == Init /\ [][Next]_vars

-----------------------------------------------------------------------------
(* The properties of the two components, in the composed system. *)

(* Factory: hasX answers TRUE exactly when createX finds a prototype, for *)
(* every query through a factory and its parent.                           *)
HasAgreesWithCreate == F!HasAgreesWithCreate

(* Data models: a <foreach> in the JavaScriptCore data model binds its    *)
(* item to every element of the array (spec 4.4).                         *)
JSCForeachBindsEveryElement == D!JSCForeachBindsEveryElement
=============================================================================
