---------------------------- MODULE CronJobsProofs ----------------------------
(***************************************************************************)
(* Proofs about CronLease and CronJobs: the types, and that two gateways   *)
(* never run the job at the same time while none has died.  The argument   *)
(* about the lock is made for CronLease alone; every step of CronJobs is   *)
(* one of CronLease or leaves the lock as it is.                           *)
(***************************************************************************)
EXTENDS CronJobs, TLAPS

LeaseTypeOK ==
  /\ lock \in [present : BOOLEAN, owner : Gateways \cup {NoOwner}, fresh : BOOLEAN]
  /\ step \in [Gateways -> Steps]
  /\ alive \subseteq Gateways /\ dead \subseteq Gateways \ alive

\* A gateway that is at work on the lock is alive, and has nothing old to remove.
NothingToRecover ==
  \A g \in Gateways : /\ step[g] # "idle" => g \in alive
                      /\ step[g] \notin {"remove", "sweep", "undo"}
\* The gateway that created the directory is about to sign it, alone.
Unsigned ==
  \A g \in Gateways : step[g] = "sign" =>
    /\ lock.present /\ lock.owner = NoOwner /\ lock.fresh
    /\ \A h \in Gateways : step[h] = "sign" => h = g
\* Whoever holds the lock is its owner, and the owner is alive.
Signed ==
  /\ \A g \in Holders : lock.present /\ lock.owner = g
  /\ lock.present /\ lock.owner # NoOwner => lock.owner \in alive
\* A directory without an owner is being signed.
SomeoneSigns ==
  lock.present /\ lock.owner = NoOwner => \E g \in Gateways : step[g] = "sign"

LeaseInv ==
  /\ LeaseTypeOK
  /\ dead = {} => NothingToRecover /\ Unsigned /\ Signed /\ SomeoneSigns

-----------------------------------------------------------------------------
(* The lock. *)

LEMMA LeaseStarts == LeaseInit => LeaseInv
BY NoOwnerAssumption
DEF LeaseInit, LeaseInv, LeaseTypeOK, NothingToRecover, Unsigned, Signed, SomeoneSigns,
    NoLock, Steps, Holders

LEMMA LeaseTypes == LeaseTypeOK /\ [LeaseNext]_leaseVars => LeaseTypeOK'
<1> SUFFICES ASSUME LeaseTypeOK, [LeaseNext]_leaseVars PROVE LeaseTypeOK'
  OBVIOUS
<1> USE DEF LeaseTypeOK, Steps, Go, At, NoLock
<1>1. CASE UNCHANGED leaseVars BY <1>1 DEF leaseVars
<1>2. CASE Age BY <1>2 DEF Age
<1>3. ASSUME NEW g \in Gateways, LeaseStep(g) PROVE LeaseTypeOK'
  <2>1. CASE Enter(g) BY <2>1 DEF Enter
  <2>2. CASE Inspect(g) BY <2>2 DEF Inspect
  <2>3. CASE Remove(g) BY <2>3 DEF Remove
  <2>4. CASE Create(g)
    <3>1. CASE lock.present BY <2>4, <3>1 DEF Create
    <3>2. CASE ~lock.present
      <4>1. /\ lock' = [present |-> TRUE, owner |-> NoOwner, fresh |-> TRUE]
            /\ step' = [step EXCEPT ![g] = "sign"] /\ UNCHANGED << alive, dead >>
        BY <2>4, <3>2 DEF Create
      <4> QED BY <4>1
    <3> QED BY <3>1, <3>2
  <2>5. CASE Sign(g) BY <2>5 DEF Sign
  <2>6. CASE Undo(g) BY <2>6 DEF Undo
  <2>7. CASE Release(g) BY <2>7 DEF Release
  <2>8. CASE Leave(g) BY <2>8 DEF Leave
  <2>9. CASE Peek(g) BY <2>9 DEF Peek
  <2>10. CASE Sweep(g) BY <2>10 DEF Sweep
  <2>11. CASE Boot(g) BY <2>11 DEF Boot
  <2>12. CASE Die(g) BY <2>12 DEF Die
  <2> QED BY <1>3, <2>1, <2>2, <2>3, <2>4, <2>5, <2>6, <2>7, <2>8, <2>9, <2>10, <2>11,
             <2>12 DEF LeaseStep
<1> QED BY <1>1, <1>2, <1>3 DEF LeaseNext

\* While nobody has died, every lock that is present is in use.
LEMMA NothingIsAbandoned ==
  LeaseInv /\ dead = {} => ~Abandoned
BY NoOwnerAssumption
DEF LeaseInv, LeaseTypeOK, Unsigned, Signed, SomeoneSigns, Abandoned

LEMMA LeaseSteps == LeaseInv /\ [LeaseNext]_leaseVars => LeaseInv'
<1> SUFFICES ASSUME LeaseInv, [LeaseNext]_leaseVars, dead' = {}
             PROVE  (NothingToRecover /\ Unsigned /\ Signed /\ SomeoneSigns)'
  BY LeaseTypes DEF LeaseInv
<1>0. dead = {}
  <2>1. ASSUME NEW g \in Gateways, LeaseStep(g) PROVE dead = {}
    BY <2>1 DEF LeaseStep, Enter, Inspect, Remove, Create, Sign, Undo, Release, Leave, Peek,
                Sweep, Boot, Die
  <2> QED BY <2>1 DEF LeaseNext, Age, leaseVars
<1>1. LeaseTypeOK /\ NothingToRecover /\ Unsigned /\ Signed /\ SomeoneSigns /\ ~Abandoned
  BY <1>0, NothingIsAbandoned DEF LeaseInv
<1> USE NoOwnerAssumption
<1> DEFINE Parts == NothingToRecover /\ Unsigned /\ Signed /\ SomeoneSigns
<1>2. CASE UNCHANGED leaseVars
  BY <1>1, <1>2 DEF leaseVars, NothingToRecover, Unsigned, Signed, SomeoneSigns, Holders
<1>3. CASE Age
  BY <1>1, <1>3 DEF Age, SomeoneSigns
<1>4. ASSUME NEW g \in Gateways, LeaseStep(g) PROVE Parts'
  <2> USE DEF LeaseTypeOK, NothingToRecover, Unsigned, Signed, SomeoneSigns, Holders, Go, At,
              NoLock
  <2>1. CASE Enter(g) BY <1>1, <2>1 DEF Enter
  <2>2. CASE Inspect(g) BY <1>1, <2>2 DEF Inspect
  <2>3. CASE Create(g)
    <3>1. CASE lock.present BY <1>1, <2>3, <3>1 DEF Create
    <3>2. CASE ~lock.present
      <4>1. /\ lock' = [present |-> TRUE, owner |-> NoOwner, fresh |-> TRUE]
            /\ step' = [step EXCEPT ![g] = "sign"] /\ g \in alive /\ alive' = alive
        BY <2>3, <3>2 DEF Create
      <4>2. \A h \in Gateways : step[h] \notin {"sign", "held", "leave"}
        BY <1>1, <3>2
      <4>3. NothingToRecover' BY <1>1, <4>1
      <4>4. Unsigned' BY <1>1, <4>1, <4>2
      <4>5. Signed' /\ SomeoneSigns' BY <1>1, <4>1, <4>2
      <4> QED BY <4>3, <4>4, <4>5
    <3> QED BY <3>1, <3>2
  <2>4. CASE Sign(g)
    <3>1. /\ lock' = [lock EXCEPT !.owner = g] /\ step' = [step EXCEPT ![g] = "held"]
          /\ g \in alive /\ alive' = alive
      BY <1>1, <2>4 DEF Sign
    <3>2. lock.present /\ lock.owner = NoOwner /\ \A h \in Gateways : step[h] = "sign" => h = g
      BY <1>1, <2>4 DEF Sign
    <3>3. lock'.present /\ lock'.owner = g BY <1>1, <3>1, <3>2
    <3>4. \A h \in Gateways : step[h] \notin {"held", "leave"} BY <1>1, <3>2
    <3>5. NothingToRecover' BY <1>1, <3>1
    <3>6. Unsigned' BY <1>1, <3>1, <3>2
    <3>7. Signed' /\ SomeoneSigns' BY <1>1, <3>1, <3>3, <3>4
    <3> QED BY <3>5, <3>6, <3>7
  <2>5. CASE Release(g) BY <1>1, <2>5 DEF Release
  <2>6. CASE Leave(g)
    <3>1. lock' = NoLock /\ step' = [step EXCEPT ![g] = "idle"] /\ alive' = alive
      BY <2>6 DEF Leave
    <3>2. \A h \in Gateways : step[h] \in {"sign", "held", "leave"} => h = g
      BY <1>1, <2>6 DEF Leave
    <3> QED BY <1>1, <3>1, <3>2
  <2>7. CASE Peek(g) BY <1>1, <2>7 DEF Peek
  <2>8. CASE Boot(g) BY <1>1, <2>8 DEF Boot
  <2>9. CASE Remove(g) \/ Undo(g) \/ Sweep(g) BY <1>1, <2>9 DEF Remove, Undo, Sweep
  <2>10. CASE Die(g) BY <2>10 DEF Die
  <2> QED BY <1>4, <2>1, <2>2, <2>3, <2>4, <2>5, <2>6, <2>7, <2>8, <2>9, <2>10 DEF LeaseStep
<1> QED BY <1>2, <1>3, <1>4 DEF LeaseNext

\* The lock of the cron jobs excludes: as long as no gateway died, at most one holds it.
THEOREM LeaseExcludes == LeaseSpec => []HeldByOne
<1>1. LeaseInv => HeldByOne
  BY DEF LeaseInv, Signed, HeldByOne, Holders
<1> QED BY LeaseStarts, LeaseSteps, <1>1, PTL DEF LeaseSpec

-----------------------------------------------------------------------------
(* The jobs. *)

\* Every step of CronJobs is one of the lock or leaves it as it is.
LEMMA JobsUseTheLease == [Next]_vars => [LeaseNext]_leaseVars
<1> SUFFICES ASSUME [Next]_vars PROVE [LeaseNext]_leaseVars
  OBVIOUS
<1>1. CASE UNCHANGED vars BY <1>1 DEF vars
<1>2. CASE TimePasses BY <1>2 DEF TimePasses
<1>3. CASE LockAges BY <1>3 DEF LockAges, LeaseNext
<1>4. ASSUME NEW g \in Gateways,
             \/ Start(g) \/ RunNow(g) \/ Fire(g) \/ TryAcquire(g) \/ GoOn(g) \/ LockFails(g)
             \/ Finally(g) \/ Recheck(g) \/ AfterSweep(g) \/ Crash(g)
      PROVE  [LeaseNext]_leaseVars
  <2>1. LeaseStep(g) \/ UNCHANGED leaseVars
    BY <1>4 DEF Start, RunNow, Fire, TryAcquire, GoOn, LockFails, Finally, Recheck, AfterSweep,
                Crash, LeaseStep
  <2> QED BY <2>1 DEF LeaseNext
<1>5. ASSUME NEW g \in Gateways,
             \/ \E j \in Jobs : Add(g, j)
             \/ \E enabled, moved \in BOOLEAN : Update(g, enabled, moved)
             \/ RemoveJob(g) \/ Ripen(g) \/ Begin(g) \/ Finish(g)
      PROVE  UNCHANGED leaseVars
  BY <1>5 DEF Add, Update, RemoveJob, Ripen, Begin, Finish
<1> QED BY <1>1, <1>2, <1>3, <1>4, <1>5 DEF Next, Tool

\* What the jobs of several gateways do to the lock keeps to the lock's own specification
\* (runJob takes it with tryAcquireCronLease and releases it when executeJob is over).
THEOREM JobsKeepToLease == Spec => LeaseSpec
<1>1. Init => LeaseInit BY DEF Init
<1> QED BY <1>1, JobsUseTheLease, PTL DEF Spec, LeaseSpec

\* The jobs' own part of the type invariant.
JobTypes ==
  /\ job \in [state : {"none", "stored", "removed"}, enabled : BOOLEAN,
              recurring : BOOLEAN, deletes : BOOLEAN, next : {"later", "now"}]
  /\ timer \in [Gateways -> Timers]
  /\ run \in [Gateways -> {"none", "timed", "asked", "running"}]
  /\ requests \in 0 .. MaxRequests
\* A run is on its way to the lock or holds it.
RunsUnderLease ==
  \A g \in Gateways :
    /\ run[g] # "none" => g \in alive /\ step[g] \notin {"idle", "leave", "sweep"}
    /\ run[g] = "running" => step[g] = "held"

LEMMA TypeParts == TypeOK <=> LeaseTypeOK /\ JobTypes /\ RunsUnderLease
BY DEF TypeOK, LeaseTypeOK, JobTypes, RunsUnderLease

LEMMA JobsStart == Init => TypeOK
<1> SUFFICES ASSUME Init PROVE TypeOK
  OBVIOUS
<1>1. LeaseTypeOK BY LeaseStarts DEF Init, LeaseInv
<1>2. JobTypes
  <2>1. requests \in 0 .. MaxRequests BY BoundsAssumption DEF Init
  <2>2. job = NoJob BY DEF Init
  <2>3. /\ timer \in [Gateways -> Timers]
        /\ run \in [Gateways -> {"none", "timed", "asked", "running"}]
    BY DEF Init, Timers
  <2> QED BY <2>1, <2>2, <2>3 DEF JobTypes, NoJob
<1>3. RunsUnderLease BY DEF Init, RunsUnderLease
<1> QED BY <1>1, <1>2, <1>3, TypeParts

LEMMA TimersAreTimers ==
  ASSUME JobTypes, NEW g \in Gateways, NEW t \in Timers, NEW moved \in BOOLEAN
  PROVE  Rescheduled(g, t, moved) \in [Gateways -> Timers]
BY DEF JobTypes, Rescheduled, Timers

LEMMA JobTypesStay == TypeOK /\ [Next]_vars => JobTypes'
<1> SUFFICES ASSUME TypeOK, [Next]_vars PROVE JobTypes'
  OBVIOUS
<1>0. JobTypes BY TypeParts
<1>1. CASE UNCHANGED vars BY <1>0, <1>1 DEF vars, JobTypes
<1>2. CASE TimePasses BY <1>0, <1>2 DEF TimePasses, JobTypes
<1>3. CASE LockAges BY <1>0, <1>3 DEF LockAges, JobTypes
<1>4. ASSUME NEW g \in Gateways, Tool(g) PROVE JobTypes'
  <2>1. ASSUME Ready(g), requests < MaxRequests, requests' = requests + 1
        PROVE  requests' \in 0 .. MaxRequests
    BY <1>0, <2>1, BoundsAssumption DEF JobTypes
  <2>2. ASSUME NEW j \in Jobs, Add(g, j) PROVE JobTypes'
    BY <1>0, <2>2 DEF Add, Jobs, JobTypes, Schedule, Timers
  <2>3. ASSUME NEW enabled \in BOOLEAN, NEW moved \in BOOLEAN, Update(g, enabled, moved)
        PROVE  JobTypes'
    <3>1. Schedule(job') \in Timers BY DEF Schedule, Timers
    <3>2. timer' \in [Gateways -> Timers] BY <1>0, <2>3, <3>1, TimersAreTimers DEF Update
    <3> QED BY <1>0, <2>1, <2>3, <3>2 DEF Update, Request, JobTypes
  <2>4. CASE RemoveJob(g) BY <1>0, <2>1, <2>4 DEF RemoveJob, Request, JobTypes, Timers
  <2>5. CASE RunNow(g) BY <1>0, <2>1, <2>5 DEF RunNow, Request, JobTypes
  <2> QED BY <1>4, <2>2, <2>3, <2>4, <2>5 DEF Tool
<1>5. ASSUME NEW g \in Gateways, TryAcquire(g) \/ GoOn(g) \/ LockFails(g) PROVE JobTypes'
  BY <1>0, <1>5 DEF TryAcquire, GoOn, LockFails, SkipIfRefused, JobTypes, Timers
<1>6. ASSUME NEW g \in Gateways, Start(g) \/ Fire(g) \/ Ripen(g) \/ Crash(g) PROVE JobTypes'
  BY <1>0, <1>6 DEF Start, Fire, Ripen, Crash, Schedule, JobTypes, Timers
<1>7. ASSUME NEW g \in Gateways, Begin(g) \/ Finally(g) PROVE JobTypes'
  BY <1>0, <1>7 DEF Begin, Finally, JobTypes
<1>8. ASSUME NEW g \in Gateways, Recheck(g) \/ AfterSweep(g) PROVE JobTypes'
  BY <1>0, <1>8 DEF Recheck, AfterSweep, Resume, Schedule, JobTypes, Timers
<1>9. ASSUME NEW g \in Gateways, Finish(g) PROVE JobTypes'
  <2> DEFINE t == IF job.recurring /\ job.enabled THEN "armed" ELSE timer[g]
  <2>1. t \in Timers /\ job.recurring \in BOOLEAN BY <1>0 DEF JobTypes, Timers
  <2>2. timer' \in [Gateways -> Timers]
    <3>1. Rescheduled(g, t, job.recurring) \in [Gateways -> Timers]
      BY <1>0, <2>1, TimersAreTimers
    <3> QED BY <1>0, <1>9, <3>1 DEF Finish, JobTypes
  <2>3. job' \in [state : {"none", "stored", "removed"}, enabled : BOOLEAN,
                  recurring : BOOLEAN, deletes : BOOLEAN, next : {"later", "now"}]
    BY <1>0, <1>9 DEF Finish, JobTypes
  <2> QED BY <1>0, <1>9, <2>2, <2>3 DEF Finish, JobTypes
<1> QED BY <1>1, <1>2, <1>3, <1>4, <1>5, <1>6, <1>7, <1>8, <1>9 DEF Next

LEMMA LeaseStays == TypeOK /\ [Next]_vars => RunsUnderLease'
<1> SUFFICES ASSUME TypeOK, [Next]_vars PROVE RunsUnderLease'
  OBVIOUS
<1>0. LeaseTypeOK /\ JobTypes /\ RunsUnderLease BY TypeParts
<1> USE DEF RunsUnderLease, LeaseTypeOK, JobTypes, Go, At, Steps
<1>1. CASE UNCHANGED vars BY <1>0, <1>1 DEF vars, leaseVars
<1>2. CASE TimePasses BY <1>0, <1>2 DEF TimePasses, leaseVars
<1>3. CASE LockAges BY <1>0, <1>3 DEF LockAges, Age
<1>4. ASSUME NEW g \in Gateways,
             \/ \E j \in Jobs : Add(g, j)
             \/ \E enabled, moved \in BOOLEAN : Update(g, enabled, moved)
             \/ RemoveJob(g) \/ Ripen(g)
      PROVE  RunsUnderLease'
  <2>1. UNCHANGED << step, alive, run >>
    BY <1>4 DEF Add, Update, RemoveJob, Ripen, leaseVars
  <2> QED BY <1>0, <2>1
<1>5. ASSUME NEW g \in Gateways, RunNow(g) PROVE RunsUnderLease'
  BY <1>0, <1>5 DEF RunNow, Enter
<1>6. ASSUME NEW g \in Gateways, Fire(g) PROVE RunsUnderLease'
  BY <1>0, <1>6 DEF Fire, Enter, leaseVars
<1>7. ASSUME NEW g \in Gateways, TryAcquire(g) PROVE RunsUnderLease'
  <2>1. step' = [step EXCEPT ![g] = step'[g]] /\ alive' = alive /\ g \in alive
        /\ step'[g] \in {"idle", "remove", "create", "sign"} /\ run[g] # "running"
    BY <1>0, <1>7 DEF TryAcquire, Inspect, Create
  <2>2. CASE step'[g] = "idle"
    <3>1. run' = [run EXCEPT ![g] = "none"] BY <1>7, <2>2 DEF TryAcquire, SkipIfRefused
    <3> QED BY <1>0, <2>1, <3>1
  <2>3. CASE step'[g] # "idle"
    <3>1. run' = run BY <1>7, <2>3 DEF TryAcquire, SkipIfRefused
    <3> QED BY <1>0, <2>1, <2>3, <3>1
  <2> QED BY <2>2, <2>3
<1>8. ASSUME NEW g \in Gateways, GoOn(g) PROVE RunsUnderLease'
  BY <1>0, <1>8 DEF GoOn, Remove, Sign, Leave
<1>9. ASSUME NEW g \in Gateways, LockFails(g) PROVE RunsUnderLease'
  BY <1>0, <1>9 DEF LockFails, Undo
<1>10. ASSUME NEW g \in Gateways, Begin(g) \/ Finish(g) PROVE RunsUnderLease'
  BY <1>0, <1>10 DEF Begin, Finish, leaseVars
<1>11. ASSUME NEW g \in Gateways, Finally(g) PROVE RunsUnderLease'
  BY <1>0, <1>11 DEF Finally, Release
<1>12. ASSUME NEW g \in Gateways, Recheck(g) \/ AfterSweep(g) PROVE RunsUnderLease'
  BY <1>0, <1>12 DEF Recheck, AfterSweep, Peek, Sweep
<1>13. ASSUME NEW g \in Gateways, Start(g) PROVE RunsUnderLease'
  BY <1>0, <1>13 DEF Start, Boot
<1>14. ASSUME NEW g \in Gateways, Crash(g) PROVE RunsUnderLease'
  BY <1>0, <1>14 DEF Crash, Die
<1> QED BY <1>1, <1>2, <1>3, <1>4, <1>5, <1>6, <1>7, <1>8, <1>9, <1>10, <1>11, <1>12, <1>13,
           <1>14 DEF Next, Tool

\* The type invariant, and with it that a run is on its way to the lock or holds it, for
\* any number of gateways, requests and crashes.
THEOREM TypeCorrect == Spec => []TypeOK
<1>1. TypeOK /\ [Next]_vars => TypeOK'
  <2>1. SUFFICES ASSUME TypeOK, [Next]_vars PROVE TypeOK'
    OBVIOUS
  <2>2. LeaseTypeOK' BY <2>1, TypeParts, LeaseTypes, JobsUseTheLease
  <2>3. JobTypes' /\ RunsUnderLease' BY <2>1, JobTypesStay, LeaseStays
  <2> QED BY <2>2, <2>3 DEF TypeOK, LeaseTypeOK, JobTypes, RunsUnderLease
<1> QED BY JobsStart, <1>1, PTL DEF Spec

\* Two gateways never run the job at the same time, as long as none has died.
THEOREM OneRunAtATime == Spec => []RunsAlone
<1>1. Init => LeaseInv BY LeaseStarts DEF Init
<1>2. LeaseInv /\ [Next]_vars => LeaseInv' BY LeaseSteps, JobsUseTheLease
<1>3. TypeOK /\ LeaseInv => RunsAlone
  BY TypeParts DEF RunsUnderLease, LeaseInv, Signed, Holders, RunsAlone
<1> QED BY TypeCorrect, <1>1, <1>2, <1>3, PTL DEF Spec

=============================================================================
