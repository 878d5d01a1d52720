------------------------ MODULE TaskSchedulerProofs ------------------------
(***************************************************************************)
(* Proofs of the safety properties of TaskScheduler, for any tasks, any    *)
(* number of executions and any bounds.                                    *)
(***************************************************************************)
EXTENDS TaskScheduler, FiniteSetTheorems, TLAPS

LEMMA TypeInit == Init => TypeOK
<1> SUFFICES ASSUME Init PROVE TypeOK OBVIOUS
<1>1. requests \in 0 .. MaxRequests /\ crashes \in 0 .. MaxCrashes
  BY BoundsAssumption DEF Init
<1>2. rows \in [Tasks -> Row] /\ live \in [Runs -> Execution]
  BY DEF Init, Row, Execution, Idle
<1> QED BY <1>1, <1>2 DEF Init, TypeOK

LEMMA ExecuteType ==
  ASSUME TypeOK, NEW t \in Tasks, NEW scheduled \in BOOLEAN, Execute(t, scheduled)
  PROVE  rows' \in [Tasks -> Row] /\ live' \in [Runs -> Execution]
<1>1. PICK r \in Runs : /\ live' = [live EXCEPT ![r] = [task |-> t, scheduled |-> scheduled]]
                        /\ rows' = [rows EXCEPT ![t].status = "running", ![t].nextRun = "none"]
  BY DEF Execute
<1>2. [task |-> t, scheduled |-> scheduled] \in Execution BY DEF Execution
<1>3. live' \in [Runs -> Execution] BY <1>1, <1>2 DEF TypeOK
<1>4. rows' \in [Tasks -> Row] BY <1>1 DEF TypeOK, Row
<1> QED BY <1>3, <1>4

LEMMA RequestType ==
  ASSUME TypeOK, NEW t \in Tasks, NEW disturbs, Request(t, disturbs)
  PROVE  /\ requests' \in 0 .. MaxRequests /\ disturbed' \subseteq Tasks
         /\ initialized' = initialized /\ crashes' = crashes
BY BoundsAssumption DEF TypeOK, Request

LEMMA TypeStep == TypeOK /\ [Next]_vars => TypeOK'
<1> SUFFICES ASSUME TypeOK, [Next]_vars PROVE TypeOK' OBVIOUS
<1>1. ASSUME NEW t \in Tasks, NEW enabled \in BOOLEAN, NEW scheduled \in BOOLEAN,
             Create(t, enabled, scheduled)
      PROVE  TypeOK'
  <2>1. rows' \in [Tasks -> Row] BY <1>1 DEF Create, TypeOK, Row, NextRun
  <2>2. registry' \in [Tasks -> {"none", "scheduled", "unscheduled"}] /\ interval' \in BOOLEAN
    BY <1>1 DEF Create, TypeOK, Register, Snapshot
  <2> QED BY <1>1, <2>1, <2>2, RequestType DEF Create, TypeOK
<1>2. ASSUME NEW t \in Tasks, NEW scheduled \in BOOLEAN,
             NEW status \in {"pending", "paused", rows[t].status}, Update(t, status, scheduled)
      PROVE  TypeOK'
  <2>1. rows' \in [Tasks -> Row] BY <1>2 DEF Update, TypeOK, Row
  <2>2. registry' \in [Tasks -> {"none", "scheduled", "unscheduled"}] /\ interval' \in BOOLEAN
    BY <1>2 DEF Update, TypeOK, Register, Unregister, Snapshot
  <2> QED BY <1>2, <2>1, <2>2, RequestType DEF Update, TypeOK
<1>3. ASSUME NEW t \in Tasks, Start(t) \/ Stop(t) \/ Delete(t) PROVE TypeOK'
  <2>1. rows' \in [Tasks -> Row]
    <3>1. CASE Start(t)
      <4>1. NextRun(rows[t].scheduled) \in {"none", "later"} BY DEF NextRun
      <4> QED BY <3>1, <4>1 DEF Start, TypeOK, Row
    <3>2. CASE Stop(t) BY <3>2 DEF Stop, TypeOK, Row
    <3>3. CASE Delete(t) BY <3>3 DEF Delete, TypeOK, Row
    <3> QED BY <1>3, <3>1, <3>2, <3>3
  <2>2. registry' \in [Tasks -> {"none", "scheduled", "unscheduled"}] /\ interval' \in BOOLEAN
    BY <1>3 DEF Start, Stop, Delete, TypeOK, Register, Unregister, Snapshot
  <2> QED BY <1>3, <2>1, <2>2, RequestType DEF Start, Stop, Delete, TypeOK
<1>4. ASSUME NEW t \in Tasks, Trigger(t) PROVE TypeOK'
  <2>1. rows[t].scheduled \in BOOLEAN BY DEF TypeOK, Row
  <2> QED BY <1>4, <2>1, RequestType, ExecuteType DEF Trigger, TypeOK
<1>5. ASSUME NEW t \in Tasks, Tick(t) PROVE TypeOK'
  BY <1>5, ExecuteType DEF Tick, TypeOK
<1>6. ASSUME NEW r \in Runs, NEW ok \in BOOLEAN, Finish(r, ok) PROVE TypeOK'
  <2>1. live' \in [Runs -> Execution] BY <1>6 DEF Finish, TypeOK, Execution, Idle
  <2> DEFINE t == live[r].task
             status == IF live[r].scheduled THEN "pending" ELSE IF ok THEN "completed" ELSE "failed"
  <2>2. rows' \in [Tasks -> Row]
    <3>1. /\ NextRun(live[r].scheduled) \in {"none", "later"}
          /\ status \in {"pending", "completed", "failed"}
      BY DEF NextRun
    <3>2. \/ rows' = rows
          \/ rows' = [rows EXCEPT ![t].status = status,
                                 ![t].nextRun = NextRun(live[r].scheduled)]
      BY <1>6 DEF Finish
    <3> QED BY <3>1, <3>2 DEF TypeOK, Row
  <2> QED BY <1>6, <2>1, <2>2 DEF Finish, TypeOK
<1>7. ASSUME NEW t \in Tasks, TimePasses(t) PROVE TypeOK'
  BY <1>7 DEF TimePasses, TypeOK, Row
<1>8. ASSUME Initialize PROVE TypeOK'
  BY <1>8 DEF Initialize, TypeOK
<1>9. ASSUME Crash PROVE TypeOK'
  <2>1. crashes' \in 0 .. MaxCrashes BY <1>9, BoundsAssumption DEF Crash, TypeOK
  <2>2. live' \in [Runs -> Execution] BY <1>9 DEF Crash, Execution, Idle
  <2> QED BY <1>9, <2>1, <2>2 DEF Crash, TypeOK
<1>10. ASSUME UNCHANGED vars PROVE TypeOK'
  BY <1>10 DEF vars, TypeOK
<1> QED
  BY <1>1, <1>2, <1>3, <1>4, <1>5, <1>6, <1>7, <1>8, <1>9, <1>10 DEF Next, Edit

\* Every variable keeps its type.
THEOREM TypeCorrect == Spec => []TypeOK
BY TypeInit, TypeStep, PTL DEF Spec

-----------------------------------------------------------------------------
(* The handlers and the rows. *)

\* A registered handler has the schedule of its row, and the interval runs for it.
HandlersMatchRows ==
  \A t \in Tasks : Registered(t) => /\ interval /\ Exists(t)
                                    /\ registry[t] = Snapshot(rows[t].scheduled)
\* Before initialize nothing is registered and nothing runs.
NothingBeforeInitialize ==
  ~initialized => /\ \A t \in Tasks : ~Registered(t)
                  /\ \A r \in Runs : live[r] = Idle

\* What an undisturbed task is like: at most one execution, of its registered handler, and
\* running says whether there is one; pending with a schedule it has a date, and a handler
\* once the gateway is initialized.
Orderly(t) ==
  /\ \A r, q \in Of(t) : r = q
  /\ rows[t].status = "running" <=> Of(t) # {}
  /\ \A r \in Of(t) : Registered(t) /\ live[r].scheduled = rows[t].scheduled
  /\ rows[t].status = "pending" /\ rows[t].scheduled =>
       rows[t].nextRun # "none" /\ (initialized => Registered(t))

SchedulerInv ==
  /\ TypeOK /\ HandlersMatchRows /\ NothingBeforeInitialize
  /\ \A t \in Tasks \ disturbed : Orderly(t)

LEMMA SchedulerInvInit == Init => SchedulerInv
<1> SUFFICES ASSUME Init PROVE SchedulerInv OBVIOUS
<1>1. \A t \in Tasks : Of(t) = {} BY TasksAssumption DEF Init, Of, Idle
<1> QED
  BY <1>1, TypeInit DEF Init, SchedulerInv, HandlersMatchRows, NothingBeforeInitialize, Orderly,
     Registered

\* A task that a step leaves alone stays orderly.
LEMMA OthersStay ==
  ASSUME NEW t \in Tasks, Orderly(t), rows'[t] = rows[t], registry'[t] = registry[t],
         \A r \in Runs : live'[r] = live[r] \/ (live[r].task # t /\ live'[r].task # t),
         initialized' = initialized
  PROVE  Orderly(t)'
<1>1. Of(t)' = Of(t) BY DEF Of
<1>2. \A r \in Of(t) : live'[r] = live[r] BY DEF Of
<1> QED BY <1>1, <1>2 DEF Orderly, Registered

LEMMA SchedulerInvStep == SchedulerInv /\ [Next]_vars => SchedulerInv'
<1> SUFFICES ASSUME SchedulerInv, [Next]_vars PROVE SchedulerInv' OBVIOUS
<1> DEFINE Good == /\ HandlersMatchRows /\ NothingBeforeInitialize
                   /\ \A t \in Tasks \ disturbed : Orderly(t)
<1>0. TypeOK /\ TypeOK' BY TypeStep DEF SchedulerInv
\* An edit of a task that runs disturbs it.
<1>1. ASSUME NEW t \in Tasks, initialized, Request(t, FALSE), UNCHANGED live,
             \A u \in Tasks : u # t => rows'[u] = rows[u] /\ registry'[u] = registry[u],
             interval => interval',
             registry'[t] # "none" => interval' /\ Exists(t)'
                                        /\ registry'[t] = Snapshot(rows'[t].scheduled),
             rows'[t].status = "running" => rows[t].status = "running",
             rows'[t].status = "pending" /\ rows'[t].scheduled =>
               rows'[t].nextRun # "none" /\ registry'[t] # "none"
      PROVE  Good'
  <2>1. initialized' BY <1>1 DEF Request
  <2>2. disturbed \subseteq disturbed' /\ (Of(t) # {} => t \in disturbed')
    BY <1>1 DEF Request
  <2>3. HandlersMatchRows'
    BY <1>1 DEF SchedulerInv, HandlersMatchRows, Registered, Exists
  <2>4. ASSUME NEW u \in Tasks \ disturbed' PROVE Orderly(u)'
    <3>1. CASE u # t
      <4>1. initialized' = initialized BY <1>1 DEF Request
      <4> QED BY <1>1, <2>2, <2>4, <3>1, <4>1, OthersStay DEF SchedulerInv
    <3>2. CASE u = t
      <4>1. Of(t) = {} /\ Of(t)' = {} BY <1>1, <2>2, <2>4, <3>2 DEF Of
      <4>2. rows[t].status # "running" BY <2>2, <2>4, <3>2, <4>1 DEF SchedulerInv, Orderly
      <4> QED BY <1>1, <3>2, <4>1, <4>2 DEF Orderly, Registered
    <3> QED BY <3>1, <3>2
  <2> QED BY <2>1, <2>3, <2>4 DEF NothingBeforeInitialize
<1>2. ASSUME NEW t \in Tasks, NEW enabled \in BOOLEAN, NEW scheduled \in BOOLEAN,
             initialized, Create(t, enabled, scheduled)
      PROVE  Good'
  <2>1. ~Registered(t) BY <1>2 DEF Create, SchedulerInv, HandlersMatchRows, Exists
  <2> QED
    BY <1>0, <1>1, <1>2, <2>1
       DEF Create, TypeOK, Register, Registered, Exists, Snapshot, NextRun
<1>3. ASSUME NEW t \in Tasks, NEW scheduled \in BOOLEAN,
             NEW status \in {"pending", "paused", rows[t].status}, initialized,
             Update(t, status, scheduled)
      PROVE  Good'
  BY <1>0, <1>1, <1>3 DEF Update, TypeOK, Register, Unregister, Exists, Snapshot
<1>4. ASSUME NEW t \in Tasks, initialized, Start(t) PROVE Good'
  BY <1>0, <1>1, <1>4 DEF Start, TypeOK, Row, Register, Exists, Snapshot, NextRun
<1>5. ASSUME NEW t \in Tasks, initialized, Stop(t) PROVE Good'
  BY <1>0, <1>1, <1>5 DEF Stop, TypeOK, Row, Unregister
<1>6. ASSUME NEW t \in Tasks, initialized, Delete(t) PROVE Good'
  BY <1>0, <1>1, <1>6 DEF Delete, TypeOK, Row, Unregister
\* An execution begins, of a task that does not run and has a handler unless it is disturbed.
<1>7. ASSUME NEW t \in Tasks, NEW scheduled \in BOOLEAN, initialized, Execute(t, scheduled),
             Exists(t), disturbed \subseteq disturbed', UNCHANGED << registry, interval, initialized >>,
             t \notin disturbed' => Of(t) = {} /\ Registered(t) /\ scheduled = rows[t].scheduled
      PROVE  Good'
  <2>1. PICK r \in Runs : /\ live[r] = Idle
                          /\ live' = [live EXCEPT ![r] = [task |-> t, scheduled |-> scheduled]]
                          /\ rows' = [rows EXCEPT ![t].status = "running", ![t].nextRun = "none"]
    BY <1>7 DEF Execute
  <2>2. /\ rows'[t].status = "running" /\ rows'[t].scheduled = rows[t].scheduled
        /\ \A u \in Tasks : u # t => rows'[u] = rows[u]
    BY <1>0, <2>1 DEF TypeOK, Row
  <2>3. HandlersMatchRows'
    BY <1>7, <2>2 DEF SchedulerInv, HandlersMatchRows, Registered, Exists
  <2>4. ASSUME NEW u \in Tasks \ disturbed' PROVE Orderly(u)'
    <3>1. CASE u # t
      <4>1. \A q \in Runs : live'[q] = live[q] \/ (live[q].task # u /\ live'[q].task # u)
        BY <1>0, <2>1, <3>1, TasksAssumption DEF TypeOK, Idle
      <4> QED BY <1>7, <2>2, <2>4, <3>1, <4>1, OthersStay DEF SchedulerInv
    <3>2. CASE u = t
      <4>1. Of(t)' = {r} /\ live'[r].scheduled = rows[t].scheduled
        BY <1>0, <1>7, <2>1, <2>4, <3>2 DEF Of, TypeOK
      <4> QED BY <1>7, <2>2, <2>4, <3>2, <4>1 DEF Orderly, Registered
    <3> QED BY <3>1, <3>2
  <2> QED BY <1>7, <2>3, <2>4 DEF NothingBeforeInitialize
<1>8. ASSUME NEW t \in Tasks, initialized, Trigger(t) PROVE Good'
  <2>1. rows[t].scheduled \in BOOLEAN BY <1>0 DEF TypeOK, Row
  <2> QED BY <1>7, <1>8, <2>1 DEF Trigger, Request
<1>9. ASSUME NEW t \in Tasks, Tick(t) PROVE Good'
  <2>1. Registered(t) /\ rows[t].status = "pending" /\ Execute(t, registry[t] = "scheduled")
    BY <1>9 DEF Tick, Due
  <2>2. initialized BY <2>1 DEF SchedulerInv, NothingBeforeInitialize
  <2>3. Exists(t) /\ (registry[t] = "scheduled") = rows[t].scheduled
    BY <2>1, <1>0 DEF SchedulerInv, HandlersMatchRows, Snapshot, TypeOK, Row
  <2>4. t \notin disturbed => Of(t) = {} BY <2>1 DEF SchedulerInv, Orderly
  <2> QED BY <1>7, <1>9, <2>1, <2>2, <2>3, <2>4 DEF Tick
<1>10. ASSUME NEW r \in Runs, NEW ok \in BOOLEAN, Finish(r, ok) PROVE Good'
  <2> DEFINE t == live[r].task
  <2>1. live[r] # Idle /\ live' = [live EXCEPT ![r] = Idle]
        /\ UNCHANGED << registry, interval, initialized, disturbed >>
    BY <1>10 DEF Finish
  <2>2. \A u \in Tasks : rows'[u].scheduled = rows[u].scheduled /\ Exists(u)' = Exists(u)
                           /\ (u # t => rows'[u] = rows[u])
    BY <1>0, <1>10 DEF Finish, TypeOK, Row, Exists
  <2>3. HandlersMatchRows'
    BY <2>1, <2>2 DEF SchedulerInv, HandlersMatchRows, Registered
  <2>4. NothingBeforeInitialize'
    BY <2>1 DEF SchedulerInv, NothingBeforeInitialize, Registered
  <2>5. ASSUME NEW u \in Tasks \ disturbed PROVE Orderly(u)'
    <3>1. CASE u # t
      <4>1. \A q \in Runs : live'[q] = live[q] \/ (live[q].task # u /\ live'[q].task # u)
        BY <1>0, <2>1, <3>1, TasksAssumption DEF TypeOK, Idle
      <4> QED BY <2>1, <2>2, <2>5, <3>1, <4>1, OthersStay DEF SchedulerInv
    <3>2. CASE u = t
      <4>1. r \in Of(u) BY <3>2 DEF Of
      <4>2. Of(u) = {r} /\ rows[u].status = "running" /\ Registered(u)
            /\ live[r].scheduled = rows[u].scheduled
        BY <4>1, <2>5 DEF SchedulerInv, Orderly
      <4>3. Of(u)' = {} BY <1>0, <4>2, <2>1, TasksAssumption DEF Of, Idle, TypeOK
      <4>4. Exists(u) BY <4>2 DEF Exists
      <4>5. /\ rows'[u].status = IF live[r].scheduled THEN "pending"
                                 ELSE IF ok THEN "completed" ELSE "failed"
            /\ rows'[u].nextRun = NextRun(live[r].scheduled)
        BY <1>0, <1>10, <3>2, <4>4 DEF Finish, TypeOK, Row
      <4>6. Registered(u)' BY <4>2, <2>1 DEF Registered
      <4> QED BY <4>2, <4>3, <4>5, <4>6, <2>2 DEF Orderly, NextRun
    <3> QED BY <3>1, <3>2
  <2> QED BY <2>1, <2>3, <2>4, <2>5
<1>11. ASSUME NEW t \in Tasks, TimePasses(t) PROVE Good'
  <2>1. UNCHANGED << registry, interval, live, initialized, disturbed >>
    BY <1>11 DEF TimePasses
  <2>2. \A u \in Tasks : /\ rows'[u].status = rows[u].status
                         /\ rows'[u].scheduled = rows[u].scheduled
                         /\ rows[u].nextRun # "none" => rows'[u].nextRun # "none"
    BY <1>0, <1>11 DEF TimePasses, TypeOK, Row
  <2>3. HandlersMatchRows' /\ NothingBeforeInitialize'
    BY <2>1, <2>2 DEF SchedulerInv, HandlersMatchRows, NothingBeforeInitialize, Registered, Exists
  <2>4. \A u \in Tasks : Of(u)' = Of(u) BY <2>1 DEF Of
  <2>5. ASSUME NEW u \in Tasks \ disturbed PROVE Orderly(u)'
    BY <2>1, <2>2, <2>4, <2>5 DEF SchedulerInv, Orderly, Registered
  <2> QED BY <2>1, <2>3, <2>5
<1>12. ASSUME Initialize PROVE Good'
  <2> DEFINE pending == {t \in Tasks : rows[t].status = "pending" /\ rows[t].scheduled}
  <2>1. /\ registry' = [t \in Tasks |-> IF t \in pending THEN "scheduled" ELSE registry[t]]
        /\ interval' = (interval \/ pending # {})
        /\ initialized' /\ ~initialized /\ UNCHANGED << rows, live, disturbed >>
    BY <1>12 DEF Initialize
  <2>2. \A t \in Tasks : ~Registered(t) /\ \A r \in Runs : live[r] = Idle
    BY <2>1 DEF SchedulerInv, NothingBeforeInitialize
  <2>3. \A t \in Tasks : Registered(t)' <=> t \in pending
    BY <2>1, <2>2 DEF Registered
  <2>4. HandlersMatchRows' BY <2>1, <2>2, <2>3 DEF HandlersMatchRows, Registered, Exists, Snapshot
  <2>5. \A t \in Tasks : Of(t) = {} /\ Of(t)' = {}
    BY <2>1, <2>2, TasksAssumption DEF Of, Idle
  <2>6. ASSUME NEW t \in Tasks \ disturbed PROVE Orderly(t)'
    BY <2>1, <2>3, <2>5, <2>6 DEF SchedulerInv, Orderly
  <2> QED BY <2>1, <2>4, <2>6 DEF NothingBeforeInitialize
<1>13. ASSUME Crash PROVE Good'
  <2>1. /\ registry' = [t \in Tasks |-> "none"] /\ ~initialized'
        /\ live' = [r \in Runs |-> Idle] /\ rows' = rows
        /\ disturbed' = disturbed \cup {t \in Tasks : Of(t) # {}}
    BY <1>13 DEF Crash
  <2>2. \A t \in Tasks : Of(t)' = {} BY <2>1, TasksAssumption DEF Of, Idle
  <2>3. ASSUME NEW t \in Tasks \ disturbed' PROVE Orderly(t)'
    BY <2>1, <2>2, <2>3 DEF SchedulerInv, Orderly
  <2> QED BY <2>1, <2>3 DEF HandlersMatchRows, NothingBeforeInitialize, Registered
<1>14. ASSUME UNCHANGED vars PROVE Good'
  BY <1>14, OthersStay DEF vars, SchedulerInv, HandlersMatchRows, NothingBeforeInitialize,
     Registered, Exists
<1> QED
  BY <1>0, <1>2, <1>3, <1>4, <1>5, <1>6, <1>8, <1>9, <1>10, <1>11, <1>12, <1>13, <1>14
     DEF Next, Edit, SchedulerInv

\* A task left alone while it runs is run once at a time, and its row says so
\* (scheduler.ts:333 executeTask and :384, the interval).
THEOREM RunsAreSingle == Spec => []RunsOnceAtATime
<1>1. ASSUME SchedulerInv, NEW t \in Tasks \ disturbed PROVE Cardinality(Of(t)) <= 1
  <2>1. CASE Of(t) = {} BY <2>1, FS_EmptySet
  <2>2. CASE Of(t) # {}
    <3>1. PICK r : r \in Of(t) BY <2>2
    <3>2. Of(t) = {r} BY <3>1, <1>1 DEF SchedulerInv, Orderly
    <3>3. Cardinality({r}) = 1 BY FS_Singleton
    <3> QED BY <3>2, <3>3
  <2> QED BY <2>1, <2>2
<1>2. SchedulerInv => RunsOnceAtATime BY <1>1 DEF SchedulerInv, Orderly, RunsOnceAtATime
<1> QED BY <1>2, SchedulerInvInit, SchedulerInvStep, PTL DEF Spec

\* A pending task that was left alone while it ran has its handler, its date and the
\* interval, also after a restart (scheduler.ts:418 initialize).
THEOREM PendingTasksAreArmed == Spec => []PendingIsArmed
<1>1. SchedulerInv => PendingIsArmed
  BY DEF SchedulerInv, Orderly, HandlersMatchRows, PendingIsArmed, Registered, Snapshot
<1> QED BY <1>1, SchedulerInvInit, SchedulerInvStep, PTL DEF Spec

=============================================================================
