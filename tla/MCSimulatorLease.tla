-------------------------- MODULE MCSimulatorLease --------------------------
(* Model values for the runs of SimulatorLease. *)
EXTENDS SimulatorLease

CONSTANTS s1, s2, c1, c2

TwoSessions == {s1, s2}
TwoCalls == {c1, c2}
AllRequests == {"stop", "retain", "shutdown"}
OnlyRetain == {"retain"}
=============================================================================
