\* One id, two client calls: schedule it, then cancel or re-schedule it
\* while its delay may elapse.
CONSTANTS
    Ids = {i1}
    Payloads = {a}
    MaxSchedules = 2
    MaxOps = 2
SPECIFICATION Spec
PROPERTY CancelReturns
CHECK_DEADLOCK FALSE
