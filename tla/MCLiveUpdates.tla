---------------------------- MODULE MCLiveUpdates ----------------------------
(***************************************************************************)
(* LiveUpdates for TLC: the status query, which AppLayout polls, and the   *)
(* list of shows, which only events refresh.  "sync.finished" touches      *)
(* both, "health.changed" the status alone.                                *)
(***************************************************************************)
EXTENDS LiveUpdates

AllKeys == {"status", "shows"}
PolledKeys == {"status"}
EventTypes == {"sync.finished", "health.changed"}
EventKeys == [e \in EventTypes |-> IF e = "sync.finished" THEN AllKeys ELSE {"status"}]
==============================================================================
