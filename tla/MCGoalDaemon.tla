--------------------------- MODULE MCGoalDaemon ----------------------------
(* Instances of GoalDaemon for TLC. *)
EXTENDS GoalDaemon, TLC

=============================================================================
