-------------------------- MODULE DelayedEventQueue --------------------------
(***************************************************************************)
(* DelayedEventQueueImpl (src/uscxml/interpreter/EventQueueImpl.cpp).     *)
(* Two threads share it:                                                   *)
(*  - the stepping thread ("client") calls enqueueDelayed, cancelDelayed   *)
(*    and, from the destructor, stop();                                    *)
(*  - the timer thread runs run(): event_base_loop(EVLOOP_ONCE) while      *)
(*    _isStarted, executing timerCallback for each expired timer.          *)
(* Both take the queue's recursive _mutex.  The libevent base is modelled *)
(* by what its calls do to the timers (libevent 2.x with pthreads):       *)
(*  - event_add arms a timer (pending); the loop moves expired timers to   *)
(*    its active list and runs their callbacks one at a time, recording    *)
(*    the one running as base->current_event;                              *)
(*  - event_del disarms a timer; called from another thread while that     *)
(*    timer's callback is running, it waits until the callback returns;    *)
(*  - event_base_loop clears event_break on entry; event_base_loopbreak    *)
(*    sets it; with EVLOOP_ONCE the loop returns after running callbacks.  *)
(* A timer is told apart by its handle, the n-th event_new of the run.    *)
(***************************************************************************)
EXTENDS Naturals, Sequences, FiniteSets

CONSTANTS Ids,           \* eventUUIDs the client schedules under
          Payloads,      \* the Events scheduled
          MaxSchedules,  \* enqueueDelayed calls (bound)
          MaxOps         \* client calls of enqueueDelayed and cancelDelayed (bound)

NoHandle == 0
Handles == 1..MaxSchedules

VARIABLES
    callbackData, \* _callbackData: eventUUID -> [ev |-> timer, payload |-> userData]
    pending,      \* timers armed with event_add and not yet expired
    active,       \* expired timers whose callback the loop has still to run
    current,      \* base->current_event: timer whose callback runs, or NoHandle
    freed,        \* timers passed to event_free
    isStarted,    \* _isStarted
    eventBreak,   \* the base's event_break flag
    tpc,          \* timer thread: "check" "enter" "dispatch" "callback" "more" "exit"
    locked,       \* the client holds _mutex across a call
    cl,           \* the client's call in progress: [pc, id, payload]
    ops,          \* client calls made
    sched,        \* history: sched[h] = [id, payload] of the h-th enqueueDelayed
    expired,      \* history: timers that have expired
    live,         \* history: per id, the schedule a delivery must carry, or NoHandle
    delivered     \* history: eventReady calls, [id, payload, sched]

vars == <<callbackData, pending, active, current, freed, isStarted, eventBreak,
          tpc, locked, cl, ops, sched, expired, live, delivered>>

ClientPcs == {"idle", "enq", "cancel", "break", "cancelAllLock", "cancelAll",
              "join", "done"}

TypeOK ==
    /\ DOMAIN callbackData \subseteq Ids
    /\ \A i \in DOMAIN callbackData :
          callbackData[i] \in [ev : Handles, payload : Payloads]
    /\ pending \subseteq Handles /\ active \subseteq Handles
    /\ freed \subseteq Handles
    /\ current \in Handles \cup {NoHandle}
    /\ isStarted \in BOOLEAN /\ eventBreak \in BOOLEAN /\ locked \in BOOLEAN
    /\ tpc \in {"check", "enter", "dispatch", "callback", "more", "exit"}
    /\ cl \in [pc : ClientPcs, id : Ids, payload : Payloads]
    /\ ops \in 0..MaxOps
    /\ sched \in Seq([id : Ids, payload : Payloads]) /\ Len(sched) <= MaxSchedules
    /\ expired \subseteq Handles
    /\ live \in [Ids -> Handles \cup {NoHandle}]
    /\ delivered \in Seq([id : Ids, payload : Payloads, sched : Handles \cup {NoHandle}])

Init ==
    /\ callbackData = <<>>
    /\ pending = {} /\ active = {} /\ current = NoHandle /\ freed = {}
    /\ isStarted = TRUE              \* the constructor calls start()
    /\ eventBreak = FALSE
    /\ tpc = "check"
    /\ locked = FALSE
    /\ cl = [pc |-> "idle", id |-> CHOOSE i \in Ids : TRUE,
             payload |-> CHOOSE p \in Payloads : TRUE]
    /\ ops = 0
    /\ sched = <<>> /\ expired = {}
    /\ live = [i \in Ids |-> NoHandle]
    /\ delivered = <<>>

(* The timer registered for id, as a set: empty when there is none. *)
TimerOf(i) == IF i \in DOMAIN callbackData THEN {callbackData[i].ev} ELSE {}

(* _callbackData.erase(i) *)
Erase(i) == [j \in DOMAIN callbackData \ {i} |-> callbackData[j]]

(* event_del and event_free of the timers in T (at most one), while the  *)
(* timers in A are armed: event_del waits while the timer thread runs one *)
(* of the callbacks of T.                                                  *)
DelAndFree(T, A) ==
    /\ current \notin T
    /\ pending' = (pending \ T) \cup A
    /\ active' = active \ T
    /\ freed' = freed \cup T

-----------------------------------------------------------------------------
(* The stepping thread.  Each public call takes _mutex (lock_guard) in one *)
(* step and runs its body in the next, holding it.                        *)

CallEnqueueDelayed(i, p) ==
    /\ cl.pc = "idle" /\ ~locked
    /\ ops < MaxOps /\ Len(sched) < MaxSchedules
    /\ locked' = TRUE
    /\ cl' = [pc |-> "enq", id |-> i, payload |-> p]
    /\ ops' = ops + 1
    /\ UNCHANGED <<callbackData, pending, active, current, freed, isStarted,
                   eventBreak, tpc, sched, expired, live, delivered>>

CallCancelDelayed(i) ==
    /\ cl.pc = "idle" /\ ~locked
    /\ ops < MaxOps
    /\ locked' = TRUE
    /\ cl' = [cl EXCEPT !.pc = "cancel", !.id = i]
    /\ ops' = ops + 1
    /\ UNCHANGED <<callbackData, pending, active, current, freed, isStarted,
                   eventBreak, tpc, sched, expired, live, delivered>>

(* enqueueDelayed without cancelling the timer already registered for id *)
EnqueueDelayedNoCancel ==
    LET i == cl.id
        h == Len(sched) + 1
    IN /\ cl.pc = "enq"
       /\ pending' = pending \cup {h}
       /\ callbackData' = [j \in DOMAIN callbackData \cup {i} |->
                             IF j = i THEN [ev |-> h, payload |-> cl.payload]
                             ELSE callbackData[j]]
       /\ sched' = Append(sched, [id |-> i, payload |-> cl.payload])
       /\ live' = [live EXCEPT ![i] = h]
       /\ locked' = FALSE
       /\ cl' = [cl EXCEPT !.pc = "idle"]
       /\ UNCHANGED <<active, current, freed, isStarted, eventBreak, tpc, ops,
                      expired, delivered>>

(* enqueueDelayed: cancelDelayed(id) if id has a timer (re-entering the   *)
(* recursive mutex), then fill _callbackData[id], event_new and event_add *)
EnqueueDelayedBody ==
    LET i == cl.id
        h == Len(sched) + 1
    IN /\ cl.pc = "enq"
       /\ DelAndFree(TimerOf(i), {h})
       /\ callbackData' = [j \in DOMAIN callbackData \cup {i} |->
                             IF j = i THEN [ev |-> h, payload |-> cl.payload]
                             ELSE callbackData[j]]
       /\ sched' = Append(sched, [id |-> i, payload |-> cl.payload])
       /\ live' = [live EXCEPT ![i] = h]
       /\ locked' = FALSE
       /\ cl' = [cl EXCEPT !.pc = "idle"]
       /\ UNCHANGED <<current, isStarted, eventBreak, tpc, ops, expired, delivered>>

(* cancelDelayed: if id has a timer, event_del, event_free and erase it *)
CancelDelayedBody ==
    LET i == cl.id
    IN /\ cl.pc = "cancel"
       /\ DelAndFree(TimerOf(i), {})
       /\ callbackData' = Erase(i)
       /\ live' = [live EXCEPT ![i] = NoHandle]
       /\ locked' = FALSE
       /\ cl' = [cl EXCEPT !.pc = "idle"]
       /\ UNCHANGED <<current, isStarted, eventBreak, tpc, ops, sched, expired,
                      delivered>>

(* stop(), from the destructor: _isStarted = false, then (next statement) *)
(* event_base_loopbreak; if the thread was already stopped, only join.    *)
StopBegin ==
    /\ cl.pc = "idle"
    /\ isStarted' = FALSE
    /\ cl' = [cl EXCEPT !.pc = IF isStarted THEN "break" ELSE "join"]
    /\ UNCHANGED <<callbackData, pending, active, current, freed, eventBreak,
                   tpc, locked, ops, sched, expired, live, delivered>>

StopBreak ==
    /\ cl.pc = "break"
    /\ eventBreak' = TRUE
    /\ cl' = [cl EXCEPT !.pc = "cancelAllLock"]
    /\ UNCHANGED <<callbackData, pending, active, current, freed, isStarted,
                   tpc, locked, ops, sched, expired, live, delivered>>

(* cancelAllDelayed: take _mutex, then event_del, event_free and erase    *)
(* _callbackData.begin() until the map is empty.                          *)
CancelAllLock ==
    /\ cl.pc = "cancelAllLock" /\ ~locked
    /\ locked' = TRUE
    /\ cl' = [cl EXCEPT !.pc = "cancelAll"]
    /\ UNCHANGED <<callbackData, pending, active, current, freed, isStarted,
                   eventBreak, tpc, ops, sched, expired, live, delivered>>

CancelAllStep ==
    /\ cl.pc = "cancelAll"
    /\ \/ /\ DOMAIN callbackData # {}
          /\ LET i == CHOOSE j \in DOMAIN callbackData : TRUE
             IN /\ DelAndFree(TimerOf(i), {})
                /\ callbackData' = Erase(i)
                /\ live' = [live EXCEPT ![i] = NoHandle]
          /\ UNCHANGED <<locked, cl>>
       \/ /\ DOMAIN callbackData = {}
          /\ locked' = FALSE
          /\ cl' = [cl EXCEPT !.pc = "join"]
          /\ UNCHANGED <<pending, active, freed, callbackData, live>>
    /\ UNCHANGED <<current, isStarted, eventBreak, tpc, ops, sched, expired,
                   delivered>>

(* _thread->join() *)
Join ==
    /\ cl.pc = "join"
    /\ tpc = "exit"
    /\ cl' = [cl EXCEPT !.pc = "done"]
    /\ UNCHANGED <<callbackData, pending, active, current, freed, isStarted,
                   eventBreak, tpc, locked, ops, sched, expired, live, delivered>>

-----------------------------------------------------------------------------
(* The timer thread: run() and the libevent loop it drives. *)

(* while (INSTANCE->_isStarted) *)
RunCheck ==
    /\ tpc = "check"
    /\ tpc' = IF isStarted THEN "enter" ELSE "exit"
    /\ UNCHANGED <<callbackData, pending, active, current, freed, isStarted,
                   eventBreak, locked, cl, ops, sched, expired, live, delivered>>

(* event_base_loop(_eventLoop, EVLOOP_ONCE) starts: it clears event_break. *)
LoopEnter ==
    /\ tpc = "enter"
    /\ eventBreak' = FALSE
    /\ tpc' = "dispatch"
    /\ UNCHANGED <<callbackData, pending, active, current, freed, isStarted,
                   locked, cl, ops, sched, expired, live, delivered>>

(* The loop sees event_break and returns. *)
LoopBreak ==
    /\ tpc \in {"dispatch", "more"}
    /\ eventBreak
    /\ tpc' = "check"
    /\ UNCHANGED <<callbackData, pending, active, current, freed, isStarted,
                   eventBreak, locked, cl, ops, sched, expired, live, delivered>>

(* A timer's delay elapses: the loop wakes and moves it to the active list. *)
Expire(h) ==
    /\ tpc = "dispatch"
    /\ h \in pending
    /\ pending' = pending \ {h}
    /\ active' = active \cup {h}
    /\ expired' = expired \cup {h}
    /\ UNCHANGED <<callbackData, current, freed, isStarted, eventBreak, tpc,
                   locked, cl, ops, sched, live, delivered>>

(* The one-year _dummyEvent fires; dummyCallback re-adds it. *)
DummyFire ==
    /\ tpc = "dispatch"
    /\ tpc' = "more"
    /\ UNCHANGED <<callbackData, pending, active, current, freed, isStarted,
                   eventBreak, locked, cl, ops, sched, expired, live, delivered>>

(* The loop starts the callback of an active timer. *)
RunCallback(h) ==
    /\ tpc \in {"dispatch", "more"}
    /\ ~eventBreak
    /\ h \in active
    /\ active' = active \ {h}
    /\ current' = h
    /\ tpc' = "callback"
    /\ UNCHANGED <<callbackData, pending, freed, isStarted, eventBreak, locked,
                   cl, ops, sched, expired, live, delivered>>

(* timerCallback without the erase of the fired entry *)
TimerCallbackNoErase ==
    LET i == sched[current].id
    IN /\ tpc = "callback" /\ ~locked
       /\ \/ /\ i \notin DOMAIN callbackData
             /\ UNCHANGED <<freed, live, delivered>>
          \/ /\ i \in DOMAIN callbackData
             /\ freed' = freed \cup {callbackData[i].ev}
             /\ delivered' = Append(delivered, [id |-> i,
                               payload |-> callbackData[i].payload, sched |-> live[i]])
             /\ live' = [live EXCEPT ![i] = NoHandle]
       /\ current' = NoHandle
       /\ tpc' = "more"
       /\ UNCHANGED <<callbackData, pending, active, isStarted, eventBreak, locked,
                      cl, ops, sched, expired>>

(* timerCallback(data): take _mutex; if data->eventUUID is no longer in   *)
(* _callbackData return; otherwise event_free(data->event), hand the      *)
(* event to eventReady (the session's external queue) and erase it.       *)
(* data points into _callbackData[eventUUID].                              *)
TimerCallback ==
    LET i == sched[current].id
    IN /\ tpc = "callback" /\ ~locked
       /\ \/ /\ i \notin DOMAIN callbackData
             /\ UNCHANGED <<callbackData, freed, live, delivered>>
          \/ /\ i \in DOMAIN callbackData
             /\ freed' = freed \cup {callbackData[i].ev}
             /\ delivered' = Append(delivered, [id |-> i,
                               payload |-> callbackData[i].payload, sched |-> live[i]])
             /\ live' = [live EXCEPT ![i] = NoHandle]
             /\ callbackData' = Erase(i)
       /\ current' = NoHandle
       /\ tpc' = "more"
       /\ UNCHANGED <<pending, active, isStarted, eventBreak, locked, cl, ops,
                      sched, expired>>

(* After running callbacks, EVLOOP_ONCE makes the loop return. *)
MoreDone ==
    /\ tpc = "more"
    /\ active = {}
    /\ tpc' = "check"
    /\ UNCHANGED <<callbackData, pending, active, current, freed, isStarted,
                   eventBreak, locked, cl, ops, sched, expired, live, delivered>>

-----------------------------------------------------------------------------
ClientWork ==
    \/ EnqueueDelayedBody \/ CancelDelayedBody
    \/ StopBreak \/ CancelAllLock \/ CancelAllStep \/ Join

TimerWork ==
    \/ RunCheck \/ LoopEnter \/ LoopBreak
    \/ \E h \in Handles : Expire(h) \/ RunCallback(h)
    \/ TimerCallback \/ MoreDone

Next ==
    \/ \E i \in Ids, p \in Payloads : CallEnqueueDelayed(i, p)
    \/ \E i \in Ids : CallCancelDelayed(i)
    \/ StopBegin
    \/ ClientWork
    \/ TimerWork
    \/ DummyFire

(* Both threads run whenever they can; the client's calls and its        *)
(* decision to stop are its own, and the one-year dummy timer is never   *)
(* counted on.                                                            *)
Spec == Init /\ [][Next]_vars /\ WF_vars(ClientWork) /\ WF_vars(TimerWork)

-----------------------------------------------------------------------------
(* Spec 4.2 and 8: a delivered event is the payload of the latest         *)
(* enqueueDelayed for its id, after that schedule's delay elapsed, and no *)
(* cancelDelayed, replacing enqueueDelayed or earlier delivery for the id *)
(* came in between (cancel => never delivered, replace => one delivery of *)
(* the second payload).  Threatened by the timer callback racing the      *)
(* stepping thread's cancel and replace in enqueueDelayed/cancelDelayed.  *)
DeliveryHonoursSchedule ==
    \A k \in 1..Len(delivered) :
        LET d == delivered[k]
        IN /\ d.sched # NoHandle
           /\ d.sched \in expired
           /\ sched[d.sched] = [id |-> d.id, payload |-> d.payload]

(* Every timer whose callback may still run (armed, active or running)    *)
(* is live and owns its _callbackData entry, which its callback argument  *)
(* points into; and no entry names a freed timer.  A break of this is an  *)
(* event_del/event_free on a freed event or a callback reading an erased  *)
(* entry (enqueueDelayed, cancelDelayed, cancelAllDelayed, timerCallback).*)
TimersOwnedByEntries ==
    /\ \A h \in pending \cup active \cup ({current} \ {NoHandle}) :
          /\ h \notin freed
          /\ TimerOf(sched[h].id) = {h}
    /\ \A i \in DOMAIN callbackData : callbackData[i].ev \notin freed

(* enqueueDelayed and cancelDelayed return: the stepping thread is never *)
(* blocked for good inside them.                                         *)
CancelReturns == (cl.pc \in {"enq", "cancel"}) ~> (cl.pc = "idle")

(* stop() returns once it has asked the loop to break: the timer thread  *)
(* leaves run() and join() completes.                                     *)
StopReturns == (cl.pc = "break") ~> (cl.pc = "done")
=============================================================================
