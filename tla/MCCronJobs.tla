----------------------------- MODULE MCCronJobs -----------------------------
(* Model values for the runs of CronJobs. *)
EXTENDS CronJobs

CONSTANTS g1, g2, g3

ThreeGateways == {g1, g2, g3}
=============================================================================
