------------------------ MODULE MCScheduledDispatch -------------------------
(* Small instances of ScheduledDispatch for TLC. *)
EXTENDS ScheduledDispatch

CONSTANTS s1, s2

(* Both schedules belong to one engagement. *)
OneEngagement == [s \in Schedules |-> "eng"]
=============================================================================
