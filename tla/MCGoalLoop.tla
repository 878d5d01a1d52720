----------------------------- MODULE MCGoalLoop -----------------------------
(* The runs of GoalLoop; their constants are numbers and Booleans. *)
EXTENDS GoalLoop
=============================================================================
