---------------------------- MODULE TaskScheduler ----------------------------
(***************************************************************************)
(* The task scheduler of the gateway: rows of the tasks table, the map of  *)
(* registered handlers and the 60-second interval that runs what is due.   *)
(* A tick awaits the handler it starts and the interval does not wait for  *)
(* the tick, so that a tick is modelled by each start it makes.  Execution *)
(* means a chat turn: it ends at any later time, well or badly, while the  *)
(* user edits, stops, starts, triggers and deletes the same task.          *)
(***************************************************************************)
EXTENDS Naturals, FiniteSets

CONSTANTS
  Tasks,        \* task ids; an id is never used again
  Runs,         \* execution ids, taken again when the execution is over
  MaxRequests,  \* bound on the requests of users
  MaxCrashes    \* bound on restarts of the gateway

ASSUME RunsAssumption == IsFiniteSet(Runs)
ASSUME TasksAssumption == "none" \notin Tasks
ASSUME BoundsAssumption == MaxRequests \in Nat /\ MaxCrashes \in Nat

VARIABLES
  rows,        \* the tasks table
  registry,    \* this.tasks: does the handler's own copy of the task have a schedule
  interval,    \* the interval timer is set
  live,        \* executions: the task and whether the copy they run has a schedule
  initialized, \* initialize has run in this process
  requests, crashes,  \* counters for the bounds
  disturbed,   \* tasks touched, or lost to a crash, while an execution was live, or
               \* triggered while they had no handler
  stopped      \* tasks whose last request by a user was to stop, for the properties only

vars == << rows, registry, interval, live, initialized, requests, crashes, disturbed,
           stopped >>

Exists(t) == rows[t].status \notin {"unused", "deleted"}
Registered(t) == registry[t] # "none"
\* The executions of a task.
Of(t) == {r \in Runs : live[r].task = t}
Idle == [task |-> "none", scheduled |-> FALSE]
\* Faulty: no date is an empty date.
NextRunEmpty(scheduled) == IF scheduled THEN "later" ELSE ""
\* calculateNextRun
NextRun(scheduled) == IF scheduled THEN "later" ELSE "none"
Snapshot(scheduled) == IF scheduled THEN "scheduled" ELSE "unscheduled"

Init ==
  /\ rows = [t \in Tasks |-> [status |-> "unused", scheduled |-> FALSE, nextRun |-> "none"]]
  /\ registry = [t \in Tasks |-> "none"] /\ interval = FALSE
  /\ live = [r \in Runs |-> Idle]
  /\ initialized = FALSE /\ requests = 0 /\ crashes = 0
  /\ disturbed = {} /\ stopped = {}

-----------------------------------------------------------------------------
(* Requests of users. *)

\* A request about a task, remembered if it falls into an execution or triggers a task
\* that has no handler.
Request(t, disturbs) ==
  /\ requests < MaxRequests /\ requests' = requests + 1
  /\ disturbed' = IF disturbs \/ Of(t) # {} THEN disturbed \cup {t} ELSE disturbed
  /\ UNCHANGED << initialized, crashes >>

\* Faulty: the handler is stored and no interval started.
RegisterOnly(t, scheduled) ==
  registry' = [registry EXCEPT ![t] = Snapshot(scheduled)] /\ UNCHANGED interval
\* scheduleTask
Register(t, scheduled) ==
  registry' = [registry EXCEPT ![t] = Snapshot(scheduled)] /\ interval' = TRUE
Unregister(t) == registry' = [registry EXCEPT ![t] = "none"] /\ UNCHANGED interval

Create(t, enabled, scheduled) ==
  /\ rows[t].status = "unused" /\ Request(t, FALSE)
  /\ rows' = [rows EXCEPT ![t] = [status |-> IF enabled THEN "pending" ELSE "paused",
                                  scheduled |-> scheduled, nextRun |-> NextRun(scheduled)]]
  /\ IF enabled /\ scheduled THEN Register(t, TRUE) ELSE UNCHANGED << registry, interval >>
  /\ UNCHANGED << live, stopped >>

\* The row is rewritten and the handler replaced, or removed when the row is not pending.
Update(t, status, scheduled) ==
  /\ Exists(t) /\ Request(t, FALSE)
  /\ status \in {"pending", "paused", rows[t].status}
  /\ rows' = [rows EXCEPT ![t] =
                [status |-> status, scheduled |-> scheduled,
                 nextRun |-> IF status = "paused" THEN "none"
                             ELSE IF status = "pending" /\ scheduled THEN "later"
                             ELSE @.nextRun]]
  /\ IF status = "pending" /\ scheduled THEN Register(t, TRUE) ELSE Unregister(t)
  /\ stopped' = IF status = "paused" THEN stopped \cup {t} ELSE stopped \ {t}
  /\ UNCHANGED live

Start(t) ==
  /\ Exists(t) /\ Request(t, FALSE)
  /\ rows' = [rows EXCEPT ![t].status = "pending", ![t].nextRun = NextRun(rows[t].scheduled)]
  /\ Register(t, rows[t].scheduled)
  /\ stopped' = stopped \ {t}
  /\ UNCHANGED live

Stop(t) ==
  /\ Exists(t) /\ Request(t, FALSE)
  /\ rows' = [rows EXCEPT ![t].status = "paused", ![t].nextRun = "none"]
  /\ Unregister(t)
  /\ stopped' = stopped \cup {t}
  /\ UNCHANGED live

Delete(t) ==
  /\ Exists(t) /\ Request(t, FALSE)
  /\ rows' = [rows EXCEPT ![t] = [status |-> "deleted", scheduled |-> FALSE,
                                  nextRun |-> "none"]]
  /\ Unregister(t)
  /\ stopped' = stopped \ {t}
  /\ UNCHANGED live

-----------------------------------------------------------------------------
(* Executions. *)

\* Faulty: the row does not say that the task runs.
ExecuteUnmarked(t, scheduled) ==
  \E r \in Runs :
    /\ live[r] = Idle
    /\ live' = [live EXCEPT ![r] = [task |-> t, scheduled |-> scheduled]]
    /\ UNCHANGED rows
\* The first, synchronous part of executeTask.
Execute(t, scheduled) ==
  \E r \in Runs :
    /\ live[r] = Idle
    /\ live' = [live EXCEPT ![r] = [task |-> t, scheduled |-> scheduled]]
    /\ rows' = [rows EXCEPT ![t].status = "running", ![t].nextRun = "none"]

\* trigger runs a fresh copy of the task, whatever its status.
Trigger(t) ==
  /\ Exists(t) /\ Request(t, ~Registered(t))
  /\ Execute(t, rows[t].scheduled)
  /\ stopped' = stopped \ {t}
  /\ UNCHANGED << registry, interval >>

Due(t) == Registered(t) /\ rows[t].status = "pending" /\ rows[t].nextRun = "now"

\* Faulty: only the tasks without a schedule run.
TickWrong(t) ==
  /\ interval /\ Due(t) /\ Execute(t, registry[t] = "unscheduled")
  /\ registry[t] = "unscheduled"
  /\ UNCHANGED << registry, interval, initialized, requests, crashes, disturbed, stopped >>
\* An interval tick finds the task due and runs its handler.
Tick(t) ==
  /\ interval /\ Due(t)
  /\ Execute(t, registry[t] = "scheduled")
  /\ UNCHANGED << registry, interval, initialized, requests, crashes, disturbed, stopped >>

\* The chat turn is over: the row is pending again when the executed copy has a schedule,
\* finished otherwise, and nothing happens to the row of a deleted task.
Finish(r, ok) ==
  /\ live[r] # Idle
  /\ live' = [live EXCEPT ![r] = Idle]
  /\ LET t == live[r].task
         status == IF live[r].scheduled THEN "pending" ELSE IF ok THEN "completed" ELSE "failed"
     IN rows' = IF Exists(t)
                THEN [rows EXCEPT ![t].status = status,
                                  ![t].nextRun = NextRun(live[r].scheduled)]
                ELSE rows
  /\ UNCHANGED << registry, interval, initialized, requests, crashes, disturbed, stopped >>

TimePasses(t) ==
  /\ rows[t].nextRun = "later"
  /\ rows' = [rows EXCEPT ![t].nextRun = "now"]
  /\ UNCHANGED << registry, interval, live, initialized, requests, crashes, disturbed,
                  stopped >>

-----------------------------------------------------------------------------
(* Restarts. *)

\* initialize registers the pending tasks that have a schedule.
Initialize ==
  /\ ~initialized /\ initialized' = TRUE
  /\ LET pending == {t \in Tasks : rows[t].status = "pending" /\ rows[t].scheduled}
     IN /\ registry' = [t \in Tasks |-> IF t \in pending THEN "scheduled" ELSE registry[t]]
        /\ interval' = (interval \/ pending # {})
  /\ UNCHANGED << rows, live, requests, crashes, disturbed, stopped >>

Crash ==
  /\ crashes < MaxCrashes /\ crashes' = crashes + 1
  /\ registry' = [t \in Tasks |-> "none"] /\ interval' = FALSE /\ initialized' = FALSE
  /\ live' = [r \in Runs |-> Idle]
  /\ disturbed' = disturbed \cup {t \in Tasks : Of(t) # {}}
  /\ UNCHANGED << rows, requests, stopped >>

-----------------------------------------------------------------------------
Edit ==
  \/ \E t \in Tasks, enabled, scheduled \in BOOLEAN : Create(t, enabled, scheduled)
  \/ \E t \in Tasks, scheduled \in BOOLEAN :
       \E status \in {"pending", "paused", rows[t].status} : Update(t, status, scheduled)
  \/ \E t \in Tasks : Start(t) \/ Stop(t) \/ Delete(t) \/ Trigger(t)

Next ==
  \/ initialized /\ Edit
  \/ \E t \in Tasks : Tick(t) \/ TimePasses(t)
  \/ \E r \in Runs, ok \in BOOLEAN : Finish(r, ok)
  \/ Initialize \/ Crash

\* The interval fires, chat turns end, clocks advance and a started gateway initializes.
\* Executions are not limited in the code: a tick that finds every execution id of the
\* model taken again and again is not starved by that, hence the strong fairness.
Fairness ==
  /\ \A t \in Tasks : SF_vars(Tick(t)) /\ WF_vars(TimePasses(t))
  /\ \A r \in Runs : WF_vars(\E ok \in BOOLEAN : Finish(r, ok))
  /\ WF_vars(Initialize)

Spec == Init /\ [][Next]_vars
FairSpec == Spec /\ Fairness

-----------------------------------------------------------------------------
Row == [status : {"unused", "deleted", "pending", "running", "completed", "failed", "paused"},
        scheduled : BOOLEAN, nextRun : {"none", "later", "now"}]
Execution == [task : Tasks \cup {"none"}, scheduled : BOOLEAN]

\* Every variable has its type.
TypeOK ==
  /\ rows \in [Tasks -> Row]
  /\ registry \in [Tasks -> {"none", "scheduled", "unscheduled"}]
  /\ interval \in BOOLEAN /\ initialized \in BOOLEAN
  /\ live \in [Runs -> Execution]
  /\ requests \in 0 .. MaxRequests /\ crashes \in 0 .. MaxCrashes
  /\ disturbed \subseteq Tasks /\ stopped \subseteq Tasks

\* A task that is left alone while it runs is never run twice at a time, although ticks
\* overlap, and says that it runs exactly while it does, also across restarts.
RunsOnceAtATime ==
  \A t \in Tasks \ disturbed :
    /\ Cardinality(Of(t)) <= 1
    /\ rows[t].status = "running" <=> Of(t) # {}

\* A task that is left alone while it runs stays armed: once the gateway is initialized,
\* every pending task with a schedule has its handler registered with that schedule, and
\* the interval runs.
PendingIsArmed ==
  initialized =>
    \A t \in Tasks \ disturbed :
      rows[t].status = "pending" /\ rows[t].scheduled =>
        interval /\ registry[t] = "scheduled" /\ rows[t].nextRun # "none"

\* A task that was stopped stays paused until it is started, edited or triggered
\* (task-scheduler.test.ts: "stop pauses the task and clears next_run").
StoppedStaysPaused ==
  \A t \in stopped : rows[t].status = "paused" /\ rows[t].nextRun = "none"

\* An armed task that is left alone is run, again and again, or a user takes it back.
ArmedTaskRuns ==
  \A t \in Tasks :
    rows[t].status = "pending" /\ rows[t].scheduled
      ~> rows[t].status # "pending" \/ ~rows[t].scheduled \/ t \in disturbed

=============================================================================
