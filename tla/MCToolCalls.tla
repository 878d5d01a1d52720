----------------------------- MODULE MCToolCalls -----------------------------
(* Model values for the run of ToolCalls: two readers of one session and one of another,
   which is on a channel, with the same approval key. *)
EXTENDS ToolCalls

CONSTANTS s1, s2, c1, c2, c3, key

TwoSessions == {s1, s2}
TheChannel == {s2}
ThreeCalls == {c1, c2, c3}
Session == [c \in ThreeCalls |-> IF c = c3 THEN s2 ELSE s1]
Key == [c \in ThreeCalls |-> key]
ForcedCalls == {c1, c3}
=============================================================================
