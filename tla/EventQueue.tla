----------------------------- MODULE EventQueue -----------------------------
(***************************************************************************)
(* EventQueueImpl (src/uscxml/interpreter/EventQueueImpl.cpp) behind the  *)
(* EventQueue facade (EventQueue.cpp).  Producer threads (the timer       *)
(* thread's eventReady, invokers and I/O processors through               *)
(* eventToSCXML) call enqueue; the one stepping thread calls              *)
(* dequeue(blockMs).  Every critical section of the queue is a single     *)
(* step here: the recursive mutex is only ever released inside            *)
(* _cond.wait, which is where the consumer's steps are split.            *)
(***************************************************************************)
EXTENDS Naturals, Sequences, SequencesExt

CONSTANTS Producers,   \* threads that enqueue events
          MaxEnqueue,  \* events each producer enqueues (bound)
          BlockMs,     \* blockMs arguments the stepping thread passes
          NoEvent      \* the empty Event() returned when nothing is dequeued

ASSUME /\ MaxEnqueue \in Nat \ {0}
       /\ BlockMs \subseteq Nat /\ 0 \in BlockMs

\* An event is told apart by its producer and its number at that producer.
Events == Producers \X (1..MaxEnqueue)

VARIABLES queue,     \* EventQueueImpl::_queue, head first
          sent,      \* events each producer has enqueued so far
          cpc,       \* the stepping thread inside dequeue: "idle", "waiting" in _cond.wait, "woken"
          callMs,    \* the blockMs of the stepping thread's latest dequeue call
          result,    \* what the latest dequeue call returned, and whether it blocked
          dequeued   \* history: every event dequeue has returned, in order

vars == <<queue, sent, cpc, callMs, result, dequeued>>

TypeOK ==
    /\ queue \in Seq(Events)
    /\ sent \in [Producers -> 0..MaxEnqueue]
    /\ cpc \in {"idle", "waiting", "woken"}
    /\ callMs \in BlockMs
    /\ result \in [ev : Events \cup {NoEvent}, blocking : BOOLEAN]
    /\ dequeued \in Seq(Events)

Init ==
    /\ queue = <<>>
    /\ sent = [p \in Producers |-> 0]
    /\ cpc = "idle"
    /\ callMs = 0
    /\ result = [ev |-> NoEvent, blocking |-> FALSE]
    /\ dequeued = <<>>

(***************************************************************************)
(* EventQueue::dequeue(size_t blockMs) hands blockMs to                   *)
(* EventQueueImpl::dequeue(bool blocking): every non-zero timeout becomes *)
(* "block until an event arrives".                                         *)
(***************************************************************************)
Blocking(b) == b # 0

(* _queue.front(); _queue.pop_front(); return event;  (the lock is released) *)
Pop(blocking) ==
    /\ queue' = Tail(queue)
    /\ result' = [ev |-> Head(queue), blocking |-> blocking]
    /\ dequeued' = Append(dequeued, Head(queue))
    /\ cpc' = "idle"

(* enqueue without the wake-up *)
EnqueueNoNotify(p) ==
    /\ sent[p] < MaxEnqueue
    /\ queue' = Append(queue, <<p, sent[p] + 1>>)
    /\ sent' = [sent EXCEPT ![p] = @ + 1]
    /\ UNCHANGED <<cpc, callMs, result, dequeued>>

(* EventQueueImpl::enqueue: lock, push_back, notify_all.  notify_all moves *)
(* a thread blocked in _cond.wait to "woken"; it still has to retake the  *)
(* mutex and re-test the loop condition.                                  *)
Enqueue(p) ==
    /\ sent[p] < MaxEnqueue
    /\ queue' = Append(queue, <<p, sent[p] + 1>>)
    /\ sent' = [sent EXCEPT ![p] = @ + 1]
    /\ cpc' = IF cpc = "waiting" THEN "woken" ELSE cpc
    /\ UNCHANGED <<callMs, result, dequeued>>

(* EventQueueImpl::dequeue, from taking the lock to returning or waiting. *)
Dequeue(b) ==
    /\ cpc = "idle"
    /\ callMs' = b
    /\ \/ /\ queue # <<>>
          /\ Pop(Blocking(b))
       \/ /\ queue = <<>>
          /\ Blocking(b)
          /\ cpc' = "waiting"
          /\ UNCHANGED <<queue, result, dequeued>>
       \/ /\ queue = <<>>
          /\ ~Blocking(b)
          /\ result' = [ev |-> NoEvent, blocking |-> FALSE]
          /\ UNCHANGED <<queue, cpc, dequeued>>
    /\ UNCHANGED sent

(* A condition_variable_any may return from wait without a notification. *)
SpuriousWakeup ==
    /\ cpc = "waiting"
    /\ cpc' = "woken"
    /\ UNCHANGED <<queue, sent, callMs, result, dequeued>>

(* "if" in place of the "while": return whatever is at the head. *)
WakeIf ==
    /\ cpc = "woken"
    /\ \/ /\ queue # <<>>
          /\ Pop(TRUE)
       \/ /\ queue = <<>>
          /\ result' = [ev |-> NoEvent, blocking |-> TRUE]
          /\ cpc' = "idle"
          /\ UNCHANGED <<queue, dequeued>>
    /\ UNCHANGED <<sent, callMs>>

(* Back from _cond.wait with the mutex: while (_queue.empty()) wait again; *)
(* otherwise pop the head and return it.                                 *)
Wake ==
    /\ cpc = "woken"
    /\ \/ /\ queue = <<>>
          /\ cpc' = "waiting"
          /\ UNCHANGED <<queue, result, dequeued>>
       \/ /\ queue # <<>>
          /\ Pop(TRUE)
    /\ UNCHANGED <<sent, callMs>>

ConsumerStep == (\E b \in BlockMs : Dequeue(b)) \/ Wake

Next ==
    \/ \E p \in Producers : Enqueue(p)
    \/ ConsumerStep
    \/ SpuriousWakeup

(* The stepping thread keeps calling dequeue (the interpreter's step      *)
(* loop) and is scheduled when it can run; producers owe nothing, and     *)
(* spurious wake-ups are never something to count on.                     *)
Spec == Init /\ [][Next]_vars /\ WF_vars(ConsumerStep)

-----------------------------------------------------------------------------
(* An event is in the queue or has been returned once it is enqueued.     *)
WasEnqueued(e) == e[2] <= sent[e[1]]

(* A dequeue that blocks (blockMs # 0) never returns the empty event: the *)
(* loop around _cond.wait must re-test the queue after every wake-up,     *)
(* spurious or not (EventQueueImpl::dequeue).                             *)
BlockingNeverEmpty == result.blocking => result.ev # NoEvent

(* Every enqueued event is eventually returned by dequeue: enqueue's      *)
(* notify_all must wake a stepping thread blocked in _cond.wait.          *)
EventuallyDequeued ==
    \A e \in Events : WasEnqueued(e) ~> (\E i \in 1..Len(dequeued) : dequeued[i] = e)

(* Spec 4.1: dequeue(blockMs) with a finite blockMs returns within       *)
(* blockMs, with the empty event if nothing arrived; it blocks            *)
(* indefinitely only for an infinite timeout.                             *)
TimedDequeueReturns ==
    (cpc = "waiting") ~> (cpc = "idle")
=============================================================================
