\* Two event ids, two payloads, four schedules among five client calls:
\* enough for a replace, a cancel, a re-schedule after a cancel, and
\* expiries racing each of them, then stop().
\* Deadlock is not checked: the stepping thread and the timer thread can
\* really block each other for good (run DelayedCancelDeadlock), and after
\* stop() has joined the timer thread the queue really has stopped.
CONSTANTS
    Ids = {i1, i2}
    Payloads = {a, b}
    MaxSchedules = 4
    MaxOps = 5
SPECIFICATION Spec
INVARIANT DeliveryHonoursSchedule
INVARIANT TimersOwnedByEntries
CHECK_DEADLOCK FALSE
