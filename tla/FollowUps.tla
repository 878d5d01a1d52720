------------------------------ MODULE FollowUps ------------------------------
(***************************************************************************)
(* What a session promises about the follow-ups it accepts, with no queue, *)
(* timer, turn or restart in sight: each one accepted stays pending until  *)
(* its message is delivered to the transcript or it is withdrawn, and      *)
(* neither is ever undone.                                                 *)
(***************************************************************************)
EXTENDS Naturals

CONSTANT NumItems

Items == 1 .. NumItems

VARIABLES
  status,  \* of each follow-up
  closed   \* the session has been deleted

vars == << status, closed >>

Init == status = [i \in Items |-> "unused"] /\ closed = FALSE

Pending == {i \in Items : status[i] = "pending"}
Become(S, outcome) == status' = [i \in Items |-> IF i \in S THEN outcome ELSE status[i]]

\* The next follow-up is accepted; goal iterations it supersedes are withdrawn.
Accept(i, superseded) ==
  /\ status[i] = "unused" /\ \A j \in Items : j < i => status[j] # "unused"
  /\ status' = [j \in Items |-> IF j = i THEN "pending"
                               ELSE IF j \in superseded THEN "withdrawn" ELSE status[j]]
  /\ UNCHANGED closed

\* One turn delivers its own follow-up or every one it absorbs.
Deliver(S) == S # {} /\ Become(S, "delivered") /\ UNCHANGED closed

\* Deleted by the user, superseded, or without a session to be delivered to.
Withdraw(S) == S # {} /\ Become(S, "withdrawn") /\ UNCHANGED closed

\* The session is deleted with everything in it.  A turn that outlives the deletion may
\* still touch what is left, which is no longer part of the promise.
Close == ~closed /\ closed' = TRUE

Next ==
  \/ Close
  \/ closed /\ UNCHANGED closed
  \/ ~closed /\ \E S \in SUBSET Pending :
       Deliver(S) \/ Withdraw(S) \/ \E i \in Items : Accept(i, S)

Spec == Init /\ [][Next]_vars
=============================================================================
