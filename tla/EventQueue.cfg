\* Three producers with three events each, a stepping thread that polls,
\* waits a bounded time, or waits indefinitely.
CONSTANTS
    Producers = {p1, p2, p3}
    MaxEnqueue = 3
    BlockMs = {0, 100}
    NoEvent = NoEvent
SPECIFICATION Spec
INVARIANT BlockingNeverEmpty
PROPERTY EventuallyDequeued
