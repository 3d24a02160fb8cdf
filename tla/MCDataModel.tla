---------------------------- MODULE MCDataModel ----------------------------
(* The data models with one reserved name bound by setup (_sessionid),    *)
(* _event, and two document names, x and a.                                *)
EXTENDS DataModel

MCLocs == {"_sessionid", "_event", "x", "a"}
=============================================================================
