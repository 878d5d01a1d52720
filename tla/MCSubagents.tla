---------------------------- MODULE MCSubagents ----------------------------
(* The runs of Subagents. *)
EXTENDS Subagents

CONSTANTS a, b

AB == {a, b}
OnlyA == {a}
=============================================================================
