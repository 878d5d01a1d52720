----------------------------- MODULE MCChatQueue -----------------------------
(* Model values for the runs of ChatQueue. *)
EXTENDS ChatQueue

NoItems == {}
FirstItem == {1}
SecondItem == {2}

\* Everything a client and the other holders of the mutex may do while turns succeed.
WithSteering == {"steer", "goalCommand", "reorder", "delete", "agentUpdate"}
\* Every way a turn may end, without steering.
Failing == {"throw", "lateThrow", "abort", "goalCommand"}
OnlySteering == {"steer"}
=============================================================================
