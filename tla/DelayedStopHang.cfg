\* A session that schedules no delayed event and is destroyed: stop() races
\* the timer thread's return into event_base_loop.
CONSTANTS
    Ids = {i1}
    Payloads = {a}
    MaxSchedules = 0
    MaxOps = 0
SPECIFICATION Spec
PROPERTY StopReturns
CHECK_DEADLOCK FALSE
