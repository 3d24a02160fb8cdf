\* One producer, a stepping thread that calls dequeue(100): spec 4.1 says
\* such a call returns within 100ms.
CONSTANTS
    Producers = {p1}
    MaxEnqueue = 1
    BlockMs = {0, 100}
    NoEvent = NoEvent
SPECIFICATION Spec
PROPERTY TimedDequeueReturns
