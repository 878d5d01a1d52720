----------------------------- MODULE Subagents -----------------------------
(***************************************************************************)
(* Subagent runs of one chat session: a turn spawns child runs and waits   *)
(* for their results, a client waits for the same runs, and users stop,    *)
(* message and clear them.                                                 *)
(*                                                                         *)
(* A run has an entry in the registry, which is on disk whenever it        *)
(* changes, and a child session with the execution that works on it, which *)
(* are in memory only.  A child ends at any later time; an execution that  *)
(* is aborted ends with an exception, never with a result.                 *)
(***************************************************************************)
EXTENDS Naturals, FiniteSets

CONSTANTS
  Runs,          \* ids of the runs that may be spawned
  Disposable,    \* runs with cleanup = "delete"
  Bounded,       \* runs with a timeout
  MaxActive,     \* maxActiveChildren of the requester
  MaxWaited,     \* ids one wait accepts
  MaxSends,      \* bound on messages to children
  MaxCrashes     \* bound on restarts of the gateway

ASSUME RunsAssumption == IsFiniteSet(Runs) /\ Disposable \subseteq Runs /\ Bounded \subseteq Runs
ASSUME LimitsAssumption == {MaxActive, MaxWaited, MaxSends, MaxCrashes} \subseteq Nat

VARIABLES
  entry,        \* subagentRuns: "none" so far, "active", "ended", or "gone" from the map
  outcome,      \* outcome.status of the entry; "partial" is ok with a limitReason
  session,      \* status of the child session, "none" while it is not in the map
  child,        \* its execution: "off", "on", or "aborted" and about to throw
  owned,        \* the execution is that of the run, not of a later message
  timer,        \* runTimers
  childTimer,   \* executionTimeout
  turn,         \* the requester's turn: "working", in a tool "waiting", "auto" in the wait
                \* after the model's answer, "ended", "failed" or "stopped"
  awaited,      \* ids it waits for
  accepted,     \* ids of its accepted spawns, got: what its waits returned of each run
  got,
  client,       \* ids another waiter waits for, {} if there is none
  taken,        \* history: runs released by another waiter or cleared by a user
  sends, crashes \* counters for the bounds

registry == << entry, outcome, timer >>
children == << session, child, owned, childTimer >>
requester == << turn, awaited, accepted, got >>
bounds == << sends, crashes >>
vars == << registry, children, requester, client, taken, bounds >>

Init ==
  /\ entry = [r \in Runs |-> "none"] /\ outcome = [r \in Runs |-> "none"]
  /\ session = [r \in Runs |-> "none"] /\ child = [r \in Runs |-> "off"]
  /\ owned = [r \in Runs |-> FALSE]
  /\ timer = [r \in Runs |-> FALSE] /\ childTimer = [r \in Runs |-> FALSE]
  /\ turn = "working" /\ awaited = {} /\ accepted = {} /\ got = [r \in Runs |-> "no"]
  /\ client = {} /\ taken = {}
  /\ sends = 0 /\ crashes = 0

Active == {r \in Runs : entry[r] = "active"}
Present(r) == entry[r] \in {"active", "ended"}
InMap(r) == session[r] # "none"
SessionBecomes(r, status) ==
  session' = IF InMap(r) THEN [session EXCEPT ![r] = status] ELSE session

-----------------------------------------------------------------------------
(* Spawning and executing. *)

\* Faulty: the run that is spawned does not count.
RoomForMore == Cardinality(Active) <= MaxActive
RoomForOne == Cardinality(Active) < MaxActive

Execute(r, own) ==
  /\ session' = [session EXCEPT ![r] = "running"] /\ child' = [child EXCEPT ![r] = "on"]
  /\ owned' = [owned EXCEPT ![r] = own]
  /\ childTimer' = [childTimer EXCEPT ![r] = r \in Bounded]

Spawn(r, byTurn) ==
  /\ entry[r] = "none" /\ RoomForOne
  /\ byTurn => turn = "working"
  /\ entry' = [entry EXCEPT ![r] = "active"] /\ timer' = [timer EXCEPT ![r] = r \in Bounded]
  /\ Execute(r, TRUE)
  /\ accepted' = IF byTurn THEN accepted \union {r} ELSE accepted
  /\ UNCHANGED << outcome, turn, awaited, got, client, taken, bounds >>

\* A run that ended may end again: the last call counts.
EndRun(r, how) ==
  IF Present(r)
  THEN /\ entry' = [entry EXCEPT ![r] = "ended"] /\ outcome' = [outcome EXCEPT ![r] = how]
       /\ timer' = [timer EXCEPT ![r] = FALSE]
  ELSE UNCHANGED registry
\* completeRunTimeout, markRunKilled: a run that ended keeps its outcome.
EndActive(r, how) == IF entry[r] = "active" THEN EndRun(r, how) ELSE UNCHANGED registry

Stopped(r) ==
  child' = [child EXCEPT ![r] = "off"] /\ childTimer' = [childTimer EXCEPT ![r] = FALSE]

\* The execution returns, perhaps cut short by a limit.
Complete(r, how) ==
  /\ child[r] = "on" /\ how \in {"ok", "partial"}
  /\ SessionBecomes(r, "completed") /\ Stopped(r)
  /\ IF owned[r] THEN EndRun(r, how) ELSE UNCHANGED registry
  /\ UNCHANGED << owned, requester, client, taken, bounds >>

\* Faulty: the registry is not told.
FailUnseen(r) ==
  /\ child[r] = "on"
  /\ SessionBecomes(r, "failed") /\ Stopped(r)
  /\ UNCHANGED << registry, owned, requester, client, taken, bounds >>
Fail(r) ==
  /\ child[r] = "on"
  /\ SessionBecomes(r, "failed") /\ Stopped(r)
  /\ IF owned[r] THEN EndRun(r, "error") ELSE UNCHANGED registry
  /\ UNCHANGED << owned, requester, client, taken, bounds >>

\* Faulty: an aborted run was killed, whatever ended it.
ThrowKilled(r) ==
  /\ child[r] = "aborted"
  /\ SessionBecomes(r, "killed") /\ Stopped(r)
  /\ IF owned[r] THEN EndRun(r, "killed") ELSE UNCHANGED registry
  /\ UNCHANGED << owned, requester, client, taken, bounds >>
\* The aborted execution throws.
Throw(r) ==
  /\ child[r] = "aborted"
  /\ LET timedOut == owned[r] /\ Present(r) /\ outcome[r] = "timeout"
     IN /\ SessionBecomes(r, IF timedOut THEN "failed" ELSE "killed") /\ Stopped(r)
        /\ IF owned[r] /\ ~timedOut THEN EndActive(r, "killed") ELSE UNCHANGED registry
  /\ UNCHANGED << owned, requester, client, taken, bounds >>

\* Faulty: the entry is closed and the child works on.
LetWork(c, rs) == c
Abort(c, rs) == [r \in Runs |-> IF r \in rs /\ c[r] = "on" THEN "aborted" ELSE c[r]]

\* The registry's own timer closes the run and aborts nothing.
TimerFires(r) ==
  /\ timer[r]
  /\ IF entry[r] = "active" THEN EndRun(r, "timeout")
     ELSE timer' = [timer EXCEPT ![r] = FALSE] /\ UNCHANGED << entry, outcome >>
  /\ UNCHANGED << children, requester, client, taken, bounds >>
\* The timer of the execution was set later, for as long.
ChildTimerFires(r) ==
  /\ childTimer[r] /\ (owned[r] => ~timer[r])
  /\ childTimer' = [childTimer EXCEPT ![r] = FALSE] /\ child' = Abort(child, {r})
  /\ IF owned[r] THEN EndActive(r, "timeout") ELSE UNCHANGED registry
  /\ UNCHANGED << session, owned, requester, client, taken, bounds >>

-----------------------------------------------------------------------------
(* Stopping, messages and clearing. *)

\* killSubagentSession
Kill(r) ==
  /\ entry[r] = "active"
  /\ SessionBecomes(r, "killed") /\ child' = Abort(child, {r})
  /\ EndRun(r, "killed")
  /\ UNCHANGED << owned, childTimer, requester, client, taken, bounds >>

\* A message to a child that is done makes it work again, without the registry.
Send(r) ==
  /\ sends < MaxSends /\ sends' = sends + 1
  /\ session[r] \in {"completed", "failed"}
  /\ Execute(r, FALSE)
  /\ UNCHANGED << registry, requester, client, taken, crashes >>

\* releaseSubagentRun and clearSubagentSession
Release(rs) ==
  /\ entry' = [r \in Runs |-> IF r \in rs THEN "gone" ELSE entry[r]]
  /\ timer' = [r \in Runs |-> timer[r] /\ r \notin rs]
  /\ session' = [r \in Runs |-> IF r \in rs THEN "none" ELSE session[r]]
  /\ child' = Abort(child, rs)
  /\ UNCHANGED << outcome, owned, childTimer >>

\* One run, or all runs of the session that ended.
Clear(rs) ==
  /\ rs # {} /\ \A r \in rs : entry[r] = "ended"
  /\ Cardinality(rs) = 1 \/ rs = {r \in Runs : entry[r] = "ended"}
  /\ Release(rs) /\ taken' = taken \union rs
  /\ UNCHANGED << requester, client, bounds >>

-----------------------------------------------------------------------------
(* Waiting: every 200 ms the wait looks at the runs, and returns when all have ended or *)
(* when its time is over.                                                               *)

MayWait(ids) == ids # {} /\ Cardinality(ids) <= MaxWaited /\ \A r \in ids : Present(r)
Pending(ids) == ids \intersect Active
\* Faulty: what has ended is removed although the wait is not over.
ConsumedEarly(ids) == {r \in ids \intersect Disposable : entry[r] = "ended"}
\* What the end of a wait removes from the registry.
Consumed(ids) ==
  IF Pending(ids) # {} THEN {} ELSE {r \in ids \intersect Disposable : entry[r] = "ended"}
\* A run that was removed meanwhile is not among the results.
Results(ids) ==
  [r \in Runs |-> IF r \in ids /\ entry[r] = "ended"
                  THEN IF outcome[r] = "partial" /\ got[r] # "full" THEN "partial" ELSE "full"
                  ELSE got[r]]

\* sessions_wait, called by the model
Wait(ids) ==
  /\ turn = "working" /\ MayWait(ids)
  /\ turn' = "waiting" /\ awaited' = ids
  /\ UNCHANGED << registry, children, accepted, got, client, taken, bounds >>
WaitReturns ==
  /\ turn = "waiting"
  /\ turn' = "working" /\ awaited' = {} /\ got' = Results(awaited)
  /\ Release(Consumed(awaited))
  /\ UNCHANGED << accepted, client, taken, bounds >>

Unresolved == {r \in accepted : got[r] # "full"}
\* awaitSpawnedSubagentResults, after the model's last answer
Answer ==
  /\ turn = "working"
  /\ IF Unresolved = {} THEN turn' = "ended" /\ awaited' = {}
     ELSE IF MayWait(Unresolved) THEN turn' = "auto" /\ awaited' = Unresolved
     ELSE turn' = "failed" /\ awaited' = {}
  /\ UNCHANGED << registry, children, accepted, got, client, taken, bounds >>
\* It waits for all of them again while some are pending; only the last wait's results
\* count.
AutoReturns ==
  /\ turn = "auto"
  /\ Release(Consumed(awaited))
  /\ IF Pending(awaited) = {}
     THEN turn' = "ended" /\ awaited' = {} /\ got' = Results(awaited)
     ELSE /\ IF \A r \in awaited : Present(r) /\ r \notin Consumed(awaited)
             THEN UNCHANGED << turn, awaited >>
             ELSE turn' = "failed" /\ awaited' = {}
          /\ UNCHANGED got
  /\ UNCHANGED << accepted, client, taken, bounds >>

TurnStops ==
  /\ turn \in {"working", "waiting", "auto"} /\ turn' = "stopped" /\ awaited' = {}
  /\ UNCHANGED << registry, children, accepted, got, client, taken, bounds >>

ClientWaits(ids) ==
  /\ client = {} /\ MayWait(ids) /\ client' = ids
  /\ UNCHANGED << registry, children, requester, taken, bounds >>
ClientReturns ==
  /\ client # {} /\ client' = {}
  /\ Release(Consumed(client)) /\ taken' = taken \union Consumed(client)
  /\ UNCHANGED << requester, bounds >>

-----------------------------------------------------------------------------
\* Restored runs that were active are closed; sessions, timers and waiters are gone.
Crash ==
  /\ crashes < MaxCrashes /\ crashes' = crashes + 1
  /\ entry' = [r \in Runs |-> IF entry[r] = "active" THEN "ended" ELSE entry[r]]
  /\ outcome' = [r \in Runs |-> IF entry[r] = "active" THEN "error" ELSE outcome[r]]
  /\ session' = [r \in Runs |-> "none"] /\ child' = [r \in Runs |-> "off"]
  /\ owned' = [r \in Runs |-> FALSE]
  /\ timer' = [r \in Runs |-> FALSE] /\ childTimer' = [r \in Runs |-> FALSE]
  /\ turn' = (IF turn \in {"ended", "failed"} THEN turn ELSE "stopped") /\ awaited' = {}
  /\ client' = {}
  /\ UNCHANGED << accepted, got, taken, sends >>

ChildEnds(r) == (\E how \in {"ok", "partial"} : Complete(r, how)) \/ Fail(r) \/ Throw(r)

Next ==
  \/ \E r \in Runs : \/ \E byTurn \in BOOLEAN : Spawn(r, byTurn)
                     \/ ChildEnds(r) \/ TimerFires(r) \/ ChildTimerFires(r)
                     \/ Kill(r) \/ Send(r)
  \/ \E rs \in SUBSET Runs : Clear(rs) \/ Wait(rs) \/ ClientWaits(rs)
  \/ WaitReturns \/ Answer \/ AutoReturns \/ TurnStops \/ ClientReturns
  \/ Crash

\* Waits have deadlines, and a child's turn ends like any other.
Fairness ==
  /\ WF_vars(WaitReturns) /\ WF_vars(AutoReturns) /\ WF_vars(ClientReturns)
  /\ \A r \in Runs : WF_vars(ChildEnds(r))

Spec == Init /\ [][Next]_vars
FairSpec == Spec /\ Fairness

-----------------------------------------------------------------------------
Outcomes == {"none", "ok", "partial", "error", "timeout", "killed"}
\* The type invariant, with the limit on active children of a requester (channel.ts:255).
TypeOK ==
  /\ entry \in [Runs -> {"none", "active", "ended", "gone"}]
  /\ outcome \in [Runs -> Outcomes]
  /\ session \in [Runs -> {"none", "running", "completed", "failed", "killed"}]
  /\ child \in [Runs -> {"off", "on", "aborted"}]
  /\ owned \in [Runs -> BOOLEAN]
  /\ timer \in [Runs -> BOOLEAN] /\ childTimer \in [Runs -> BOOLEAN]
  /\ turn \in {"working", "waiting", "auto", "ended", "failed", "stopped"}
  /\ {awaited, accepted, client, taken} \subseteq SUBSET Runs
  /\ got \in [Runs -> {"no", "partial", "full"}]
  /\ sends \in 0 .. MaxSends /\ crashes \in 0 .. MaxCrashes
  /\ Cardinality(Active) <= MaxActive

\* An active run has an execution that will close it, and an execution whose run is closed
\* or gone is being aborted: only the registry's timer closes a run whose execution works
\* on, until its own timer fires.  Nobody waits for a child that does not work, and no
\* child works behind the registry's back.
RunMatchesExecution ==
  \A r \in Runs :
    /\ entry[r] = "active" => child[r] # "off" /\ owned[r]
    /\ child[r] = "on" /\ owned[r] /\ entry[r] # "active" =>
         entry[r] = "ended" /\ outcome[r] = "timeout" /\ childTimer[r]

\* The outcome of a run that ended stands, as "aborts timed-out executions and preserves
\* the timeout outcome" (subagent-execution.test.ts:1012) asks, and whoever waits later
\* gets the same one; except a timeout the registry noted before the execution was aborted.
OutcomeStands ==
  [][\A r \in Runs : entry[r] = "ended" /\ outcome'[r] # outcome[r] =>
                       outcome[r] = "timeout" /\ child[r] = "on" /\ childTimer[r]]_vars

\* A turn that spawned runs ends with their results, unless another waiter or a user took
\* one.  It fails for no other reason than such a run, a disposable run whose partial
\* result it took before, or more runs than one wait accepts.
TurnGetsResults ==
  /\ turn = "ended" => \A r \in accepted : got[r] # "no" \/ r \in taken
  /\ turn = "failed" => \/ \E r \in accepted : r \in taken \/ (got[r] = "partial" /\ r \in Disposable)
                        \/ Cardinality(Unresolved) > MaxWaited

\* Every wait of the turn returns, whatever is stopped, cleared or taken by others.
TurnReturns == turn \in {"waiting", "auto"} ~> turn \notin {"waiting", "auto"}

=============================================================================
