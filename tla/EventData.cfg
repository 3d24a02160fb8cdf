\* One value sent as a <param>, in a JSC or a Lua session; the bounds are
\* in MCEventData. Deadlock is not checked: the two steps end the exchange.
SPECIFICATION Spec
INVARIANT EventDataSurvives
CHECK_DEADLOCK FALSE
