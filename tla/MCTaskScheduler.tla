--------------------------- MODULE MCTaskScheduler ---------------------------
(* Model values for the runs of TaskScheduler. *)
EXTENDS TaskScheduler

CONSTANTS t1, t2, r1, r2, r3

TwoTasks == {t1, t2}
OneTask == {t1}
ThreeRuns == {r1, r2, r3}
OneRun == {r1}
=============================================================================
