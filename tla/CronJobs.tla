------------------------------- MODULE CronJobs -------------------------------
(***************************************************************************)
(* A cron job of the store that several gateways share: each gateway has   *)
(* its own timer for the job, runs it under the lock of CronLease, and     *)
(* writes the next run time back.  A gateway that finds the job running    *)
(* elsewhere looks again every second.  Between two awaits a gateway is    *)
(* busy with the steps of the lock and takes no timer or request.          *)
(***************************************************************************)
EXTENDS CronLease

CONSTANTS
  FarFuture,    \* may the job be due in more than 24 hours?
  MaxRequests,  \* bound on uses of the cron tool, but for the one that adds the job
  MaxCrashes    \* bound on gateways that die

ASSUME BoundsAssumption ==
  FarFuture \in BOOLEAN /\ MaxRequests \in Nat /\ MaxCrashes \in Nat

VARIABLES
  job,      \* the row of jobs.json
  timer,    \* the gateway's timer for the job: armed for the next run time, for an older
            \* one, ripe, or a recheck after a skipped run
  run,      \* runJob: wanted by a timer or by the tool, or running
  requests  \* counter for the bound

vars == << leaseVars, job, timer, run, requests >>

NoJob == [state |-> "none", enabled |-> FALSE, recurring |-> FALSE, deletes |-> FALSE,
          next |-> "later"]
Exists == job.state = "stored"
Timers == {"none", "armed", "old", "ripe", "recheck"}

Init ==
  /\ LeaseInit /\ job = NoJob
  /\ timer = [g \in Gateways |-> "none"] /\ run = [g \in Gateways |-> "none"]
  /\ requests = 0

\* The gateway awaits something: it has no call in progress, or only the job's handler.
Ready(g) == g \in alive /\ (step[g] = "idle" \/ run[g] = "running")

-----------------------------------------------------------------------------
\* scheduleJob
Schedule(j) == IF ~j.enabled THEN "none" ELSE IF j.next = "now" THEN "ripe" ELSE "armed"

\* The timers when g schedules the job again: if its next run moved, those of the other
\* gateways are for a time that is no longer in the store.
Rescheduled(g, t, moved) ==
  [h \in Gateways |-> IF h = g THEN t
                      ELSE IF moved /\ timer[h] = "armed" THEN "old" ELSE timer[h]]

Start(g) ==
  /\ Boot(g)
  /\ timer' = [timer EXCEPT ![g] = IF Exists THEN Schedule(job) ELSE "none"]
  /\ UNCHANGED << job, run, requests >>

Request(g) == Ready(g) /\ requests < MaxRequests /\ requests' = requests + 1

Add(g, j) ==
  /\ Ready(g) /\ job = NoJob
  /\ job' = j /\ timer' = [timer EXCEPT ![g] = Schedule(j)]
  /\ UNCHANGED << leaseVars, run, requests >>

Update(g, enabled, moved) ==
  /\ Request(g) /\ Exists
  /\ job' = [job EXCEPT !.enabled = enabled, !.next = IF moved THEN "later" ELSE @]
  /\ timer' = Rescheduled(g, Schedule(job'), moved)
  /\ UNCHANGED << leaseVars, run >>

RemoveJob(g) ==
  /\ Request(g) /\ Exists
  /\ job' = [job EXCEPT !.state = "removed"] /\ timer' = [timer EXCEPT ![g] = "none"]
  /\ UNCHANGED << leaseVars, run >>

\* runJob joins the run that this gateway has in progress.
RunNow(g) ==
  /\ Request(g) /\ job # NoJob /\ step[g] = "idle"
  /\ Enter(g) /\ run' = [run EXCEPT ![g] = "asked"]
  /\ UNCHANGED << job, timer >>
Fire(g) ==
  /\ Ready(g) /\ timer[g] = "ripe"
  /\ timer' = [timer EXCEPT ![g] = "none"]
  /\ IF step[g] = "idle" THEN Enter(g) /\ run' = [run EXCEPT ![g] = "timed"]
     ELSE UNCHANGED << leaseVars, run >>
  /\ UNCHANGED << job, requests >>

-----------------------------------------------------------------------------
(* runJob. *)

\* Faulty: a timer whose run was skipped is gone.
SkipForGood(g) ==
  IF step'[g] = "idle"
  THEN run' = [run EXCEPT ![g] = "none"] /\ UNCHANGED timer
  ELSE UNCHANGED << run, timer >>
\* Faulty: a skipped run stays in progress.
SkipUnnoticed(g) ==
  /\ timer' = IF step'[g] = "idle" THEN [timer EXCEPT ![g] = "recheck"] ELSE timer
  /\ UNCHANGED run
\* Without the lock the run is skipped, and a timer looks again later.
SkipIfRefused(g) ==
  IF step'[g] = "idle"
  THEN /\ run' = [run EXCEPT ![g] = "none"]
       /\ timer' = IF run[g] = "timed" THEN [timer EXCEPT ![g] = "recheck"] ELSE timer
  ELSE UNCHANGED << run, timer >>
TryAcquire(g) ==
  /\ Inspect(g) \/ Create(g)
  /\ SkipIfRefused(g)
  /\ UNCHANGED << job, requests >>
GoOn(g) ==
  /\ Remove(g) \/ Sign(g) \/ Leave(g)
  /\ UNCHANGED << job, timer, run, requests >>
\* The lock failed: runJob rejects, and the timer is gone.
LockFails(g) ==
  /\ Undo(g) /\ run' = [run EXCEPT ![g] = "none"]
  /\ UNCHANGED << job, timer, requests >>

\* executeJob, up to the handler.
Begin(g) ==
  /\ At(g, "held") /\ run[g] \in {"timed", "asked"}
  /\ run' = [run EXCEPT ![g] = IF Exists THEN "running" ELSE "none"]
  /\ UNCHANGED << leaseVars, job, timer, requests >>

\* executeJob, from the end of the handler: the job is removed, or gets its next run time
\* and, when it recurs, its timer.
Finish(g) ==
  /\ run[g] = "running" /\ g \in alive
  /\ run' = [run EXCEPT ![g] = "none"]
  /\ IF ~Exists THEN UNCHANGED << job, timer >>
     ELSE IF job.deletes /\ ~job.recurring
     THEN job' = [job EXCEPT !.state = "removed"] /\ UNCHANGED timer
     ELSE /\ job' = [job EXCEPT !.next = IF job.recurring THEN "later" ELSE @]
          /\ timer' = Rescheduled(
                g, IF job.recurring /\ job.enabled THEN "armed" ELSE timer[g], job.recurring)
  /\ UNCHANGED << leaseVars, requests >>
Finally(g) ==
  /\ run[g] = "none" /\ Release(g)
  /\ UNCHANGED << job, timer, run, requests >>

\* The recheck of a skipped run: again while the lock is held, otherwise by the job's time.
Resume(g) ==
  timer' = [timer EXCEPT ![g] = IF Exists /\ job.recurring THEN Schedule(job) ELSE "none"]
Recheck(g) ==
  /\ run[g] = "none" /\ timer[g] = "recheck" /\ Peek(g)
  /\ IF Refused \/ Abandoned THEN UNCHANGED timer ELSE Resume(g)
  /\ UNCHANGED << job, run, requests >>
AfterSweep(g) == Sweep(g) /\ Resume(g) /\ UNCHANGED << job, run, requests >>

-----------------------------------------------------------------------------
(* Time and crashes. *)

TimePasses ==
  /\ Exists /\ job.next = "later" /\ job' = [job EXCEPT !.next = "now"]
  /\ UNCHANGED << leaseVars, timer, run, requests >>

\* A timer for the stored time ripens at that time, or after 24 hours.
Capped == FarFuture
Ripen(g) ==
  /\ g \in alive /\ timer[g] \in {"armed", "old"}
  /\ timer[g] = "old" \/ job.next = "now" \/ Capped
  /\ timer' = [timer EXCEPT ![g] = "ripe"]
  /\ UNCHANGED << leaseVars, job, run, requests >>

LockAges == Age /\ UNCHANGED << job, timer, run, requests >>

Crash(g) ==
  /\ Cardinality(dead) < MaxCrashes /\ Die(g)
  /\ timer' = [timer EXCEPT ![g] = "none"] /\ run' = [run EXCEPT ![g] = "none"]
  /\ UNCHANGED << job, requests >>

\* Jobs that may be added; deleteAfterRun means something to a one-shot job only, and only
\* a one-shot job may be due at once.
Jobs == {j \in [state : {"stored"}, enabled : BOOLEAN, recurring : BOOLEAN,
                 deletes : BOOLEAN, next : {"later", "now"}] :
           j.recurring => ~j.deletes /\ j.next = "later"}

Tool(g) ==
  \/ \E j \in Jobs : Add(g, j)
  \/ \E enabled, moved \in BOOLEAN : Update(g, enabled, moved)
  \/ RemoveJob(g) \/ RunNow(g)

Next ==
  \/ TimePasses \/ LockAges
  \/ \E g \in Gateways :
       \/ Start(g) \/ Tool(g) \/ Ripen(g) \/ Fire(g) \/ TryAcquire(g) \/ GoOn(g) \/ LockFails(g)
       \/ Begin(g) \/ Finish(g) \/ Finally(g) \/ Recheck(g) \/ AfterSweep(g)
       \/ Crash(g)

\* Timers fire, handlers return and processes that live go on.
Fairness ==
  /\ WF_vars(TimePasses) /\ WF_vars(LockAges)
  /\ \A g \in Gateways :
       /\ WF_vars(Ripen(g)) /\ WF_vars(Fire(g)) /\ WF_vars(TryAcquire(g)) /\ WF_vars(GoOn(g))
       /\ WF_vars(LockFails(g)) /\ WF_vars(Begin(g)) /\ WF_vars(Finish(g))
       /\ WF_vars(Finally(g)) /\ WF_vars(Recheck(g)) /\ WF_vars(AfterSweep(g))

Spec == Init /\ [][Next]_vars
FairSpec == Spec /\ Fairness

-----------------------------------------------------------------------------
\* Every variable has its type, and a run is on its way to the lock or holds it.
TypeOK ==
  /\ lock \in [present : BOOLEAN, owner : Gateways \cup {NoOwner}, fresh : BOOLEAN]
  /\ step \in [Gateways -> Steps]
  /\ alive \subseteq Gateways /\ dead \subseteq Gateways \ alive
  /\ job \in [state : {"none", "stored", "removed"}, enabled : BOOLEAN,
              recurring : BOOLEAN, deletes : BOOLEAN, next : {"later", "now"}]
  /\ timer \in [Gateways -> Timers]
  /\ run \in [Gateways -> {"none", "timed", "asked", "running"}]
  /\ \A g \in Gateways :
       /\ run[g] # "none" => g \in alive /\ step[g] \notin {"idle", "leave", "sweep"}
       /\ run[g] = "running" => step[g] = "held"
  /\ requests \in 0 .. MaxRequests

\* Two gateways never run the job at the same time, as long as none died
\* (cron-multiprocess.test.ts: "executes one side effect when two gateways trigger the
\* same job").
RunsAlone ==
  dead = {} => \A g, h \in Gateways : run[g] = "running" /\ run[h] = "running" => g = h

\* A recurring job that a living gateway has a timer for is run, whatever the other
\* gateways hold, release, skip or leave behind when they die, unless two of them recover
\* the lock of a dead one at a time, and one finds its own new lock removed.
ArmedJobRuns ==
  \A g \in Gateways :
    Exists /\ job.enabled /\ job.recurring /\ timer[g] # "none"
      ~> \/ g \notin alive \/ ~Exists \/ ~job.enabled
         \/ \E h \in Gateways : run[h] = "running" \/ step[h] = "undo"

=============================================================================
