-------------------------- MODULE SubagentsProofs --------------------------
(***************************************************************************)
(* Proofs of the safety properties of Subagents, for any number of runs,   *)
(* any limits and any bounds.                                              *)
(***************************************************************************)
EXTENDS Subagents, FiniteSetTheorems, TLAPS

Types ==
  /\ entry \in [Runs -> {"none", "active", "ended", "gone"}]
  /\ outcome \in [Runs -> Outcomes]
  /\ session \in [Runs -> {"none", "running", "completed", "failed", "killed"}]
  /\ child \in [Runs -> {"off", "on", "aborted"}]
  /\ owned \in [Runs -> BOOLEAN]
  /\ timer \in [Runs -> BOOLEAN] /\ childTimer \in [Runs -> BOOLEAN]
  /\ turn \in {"working", "waiting", "auto", "ended", "failed", "stopped"}
  /\ {awaited, accepted, client, taken} \subseteq SUBSET Runs
  /\ got \in [Runs -> {"no", "partial", "full"}]
  /\ sends \in 0 .. MaxSends /\ crashes \in 0 .. MaxCrashes

\* The requester never has more active children than its limit (channel.ts:255).
WithinLimit == Cardinality(Active) <= MaxActive

LEMMA TypesInit == Init => Types
<1> SUFFICES ASSUME Init PROVE Types OBVIOUS
<1> USE DEF Init
<1>1. sends \in 0 .. MaxSends /\ crashes \in 0 .. MaxCrashes BY LimitsAssumption
<1>2. {awaited, accepted, client, taken} \subseteq SUBSET Runs OBVIOUS
<1> QED BY <1>1, <1>2 DEF Types, Outcomes

\* What the parts of the handlers do to the types.
LEMMA EndRunTypes ==
  ASSUME Types, NEW r \in Runs, NEW how \in Outcomes, EndRun(r, how) \/ EndActive(r, how)
  PROVE  /\ entry' \in [Runs -> {"none", "active", "ended", "gone"}]
         /\ outcome' \in [Runs -> Outcomes] /\ timer' \in [Runs -> BOOLEAN]
         /\ Active' \subseteq Active
BY DEF Types, EndRun, EndActive, Present, registry, Active

LEMMA AbortTypes ==
  ASSUME Types, NEW rs PROVE Abort(child, rs) \in [Runs -> {"off", "on", "aborted"}]
BY DEF Types, Abort

LEMMA ReleaseTypes ==
  ASSUME Types, NEW rs, Release(rs)
  PROVE  /\ entry' \in [Runs -> {"none", "active", "ended", "gone"}]
         /\ outcome' \in [Runs -> Outcomes] /\ timer' \in [Runs -> BOOLEAN]
         /\ session' \in [Runs -> {"none", "running", "completed", "failed", "killed"}]
         /\ child' \in [Runs -> {"off", "on", "aborted"}]
         /\ owned' \in [Runs -> BOOLEAN] /\ childTimer' \in [Runs -> BOOLEAN]
         /\ Active' \subseteq Active
BY AbortTypes DEF Types, Release, Active

\* Only a spawn makes a run active.
LEMMA TypesStep ==
  ASSUME Types, [Next]_vars
  PROVE  /\ Types'
         /\ Active' \subseteq Active \/ \E r \in Runs, byTurn \in BOOLEAN : Spawn(r, byTurn)
<1> USE DEF Types, registry, children, requester, bounds
<1>1. ASSUME NEW r \in Runs, NEW byTurn \in BOOLEAN, Spawn(r, byTurn)
      PROVE  Types'
  BY <1>1 DEF Spawn, Execute
<1>2. ASSUME NEW r \in Runs, NEW how \in {"ok", "partial"}, Complete(r, how)
      PROVE  Types' /\ Active' \subseteq Active
  <2>1. how \in Outcomes BY DEF Outcomes
  <2>2. CASE owned[r] BY <1>2, <2>1, <2>2, EndRunTypes DEF Complete, SessionBecomes, Stopped
  <2>3. CASE ~owned[r] BY <1>2, <2>3 DEF Complete, SessionBecomes, Stopped, Active
  <2> QED BY <2>2, <2>3
<1>3. ASSUME NEW r \in Runs, Fail(r) PROVE Types' /\ Active' \subseteq Active
  <2>1. "error" \in Outcomes BY DEF Outcomes
  <2>2. CASE owned[r] BY <1>3, <2>1, <2>2, EndRunTypes DEF Fail, SessionBecomes, Stopped
  <2>3. CASE ~owned[r] BY <1>3, <2>3 DEF Fail, SessionBecomes, Stopped, Active
  <2> QED BY <2>2, <2>3
<1>4. ASSUME NEW r \in Runs, Throw(r) PROVE Types' /\ Active' \subseteq Active
  <2>1. "killed" \in Outcomes BY DEF Outcomes
  <2>2. EndActive(r, "killed") \/ UNCHANGED registry BY <1>4 DEF Throw
  <2>3. CASE EndActive(r, "killed")
    BY <1>4, <2>1, <2>3, EndRunTypes DEF Throw, SessionBecomes, Stopped
  <2>4. CASE UNCHANGED registry BY <1>4, <2>4 DEF Throw, SessionBecomes, Stopped, Active
  <2> QED BY <2>2, <2>3, <2>4
<1>5. ASSUME NEW r \in Runs, TimerFires(r) PROVE Types' /\ Active' \subseteq Active
  <2>1. "timeout" \in Outcomes BY DEF Outcomes
  <2>2. CASE entry[r] = "active" BY <1>5, <2>1, <2>2, EndRunTypes DEF TimerFires
  <2>3. CASE entry[r] # "active" BY <1>5, <2>3 DEF TimerFires, Active
  <2> QED BY <2>2, <2>3
<1>6. ASSUME NEW r \in Runs, ChildTimerFires(r) PROVE Types' /\ Active' \subseteq Active
  <2>1. "timeout" \in Outcomes BY DEF Outcomes
  <2>2. CASE owned[r] BY <1>6, <2>1, <2>2, EndRunTypes, AbortTypes DEF ChildTimerFires
  <2>3. CASE ~owned[r] BY <1>6, <2>3, AbortTypes DEF ChildTimerFires, Active
  <2> QED BY <2>2, <2>3
<1>7. ASSUME NEW r \in Runs, Kill(r) PROVE Types' /\ Active' \subseteq Active
  <2>1. "killed" \in Outcomes BY DEF Outcomes
  <2> QED BY <1>7, <2>1, EndRunTypes, AbortTypes DEF Kill, SessionBecomes
<1>8. ASSUME NEW r \in Runs, Send(r) PROVE Types' /\ Active' \subseteq Active
  BY <1>8, LimitsAssumption DEF Send, Execute, Active
<1>9. ASSUME NEW rs \in SUBSET Runs, Clear(rs) PROVE Types' /\ Active' \subseteq Active
  BY <1>9, ReleaseTypes DEF Clear
<1>10. ASSUME NEW rs \in SUBSET Runs, Wait(rs) \/ ClientWaits(rs)
       PROVE  Types' /\ Active' \subseteq Active
  BY <1>10 DEF Wait, ClientWaits, Active
<1>11. ASSUME WaitReturns \/ AutoReturns PROVE Types' /\ Active' \subseteq Active
  <2>1. Results(awaited) \in [Runs -> {"no", "partial", "full"}] BY DEF Results
  <2>2. Release(Consumed(awaited)) BY <1>11 DEF WaitReturns, AutoReturns
  <2> QED BY <1>11, <2>1, <2>2, ReleaseTypes DEF WaitReturns, AutoReturns
<1>12. ASSUME ClientReturns PROVE Types' /\ Active' \subseteq Active
  <2>1. Consumed(client) \subseteq Runs BY DEF Consumed
  <2> QED BY <1>12, <2>1, ReleaseTypes DEF ClientReturns
<1>13. ASSUME Answer \/ TurnStops PROVE Types' /\ Active' \subseteq Active
  BY <1>13 DEF Answer, TurnStops, Unresolved, Active
<1>14. ASSUME Crash PROVE Types' /\ Active' \subseteq Active
  BY <1>14, LimitsAssumption DEF Crash, Active, Outcomes
<1>15. ASSUME UNCHANGED vars PROVE Types' /\ Active' \subseteq Active
  BY <1>15 DEF vars, Active
<1> QED
  BY <1>1, <1>2, <1>3, <1>4, <1>5, <1>6, <1>7, <1>8, <1>9, <1>10, <1>11, <1>12, <1>13, <1>14,
     <1>15 DEF Next, ChildEnds


LEMMA LimitStep ==
  ASSUME Types, WithinLimit, [Next]_vars PROVE WithinLimit'
<1>1. IsFiniteSet(Active) /\ IsFiniteSet(Active')
  <2>1. Active \subseteq Runs /\ Active' \subseteq Runs BY DEF Active
  <2> QED BY <2>1, RunsAssumption, FS_Subset
<1>2. Cardinality(Active) \in Nat /\ Cardinality(Active') \in Nat /\ MaxActive \in Nat
  BY <1>1, FS_CardinalityType, LimitsAssumption
<1>3. CASE Active' \subseteq Active
  BY <1>1, <1>2, <1>3, FS_Subset DEF WithinLimit
<1>4. ASSUME NEW r \in Runs, NEW byTurn \in BOOLEAN, Spawn(r, byTurn) PROVE WithinLimit'
  <2>1. Active' \subseteq Active \union {r} BY <1>4 DEF Spawn, Active, Types
  <2>2. IsFiniteSet(Active \union {r}) /\ Cardinality(Active \union {r}) <= Cardinality(Active) + 1
    <3>1. CASE r \in Active
      <4>1. Active \union {r} = Active BY <3>1
      <4>2. Cardinality(Active) <= Cardinality(Active) + 1 BY <1>2
      <4> QED BY <4>1, <4>2, <1>1
    <3>2. CASE r \notin Active
      <4>1. IsFiniteSet(Active \union {r}) BY <1>1, FS_AddElement
      <4>2. Cardinality(Active \union {r}) = Cardinality(Active) + 1
        BY <3>2, <1>1, FS_AddElement
      <4>3. Cardinality(Active) + 1 <= Cardinality(Active) + 1 BY <1>2
      <4> QED BY <4>1, <4>2, <4>3
    <3> QED BY <3>1, <3>2
  <2>3. Cardinality(Active') <= Cardinality(Active \union {r}) BY <2>1, <2>2, FS_Subset
  <2>4. Cardinality(Active \union {r}) \in Nat BY <2>2, FS_CardinalityType
  <2>5. Cardinality(Active) < MaxActive BY <1>4 DEF Spawn, RoomForOne
  <2> QED BY <2>2, <2>3, <2>4, <2>5, <1>2 DEF WithinLimit
<1>5. Active' \subseteq Active \/ \E r \in Runs, byTurn \in BOOLEAN : Spawn(r, byTurn)
  BY TypesStep
<1> QED BY <1>3, <1>4, <1>5

THEOREM TypeCorrect == Spec => []TypeOK
<1>1. Types /\ WithinLimit => TypeOK BY DEF Types, WithinLimit, TypeOK
<1>2. Init => Types /\ WithinLimit
  <2>1. Init => Active = {} BY DEF Init, Active
  <2>2. Cardinality({}) = 0 BY FS_EmptySet
  <2> QED BY <2>1, <2>2, TypesInit, LimitsAssumption DEF WithinLimit
<1>3. Types /\ WithinLimit /\ [Next]_vars => (Types /\ WithinLimit)'
  BY TypesStep, LimitStep
<1> QED BY <1>1, <1>2, <1>3, PTL DEF Spec

-----------------------------------------------------------------------------
(* The registry and the executions. *)

\* The registry's timer runs only for an active run, and the timer of its execution outlives
\* it.  A session that is done has no execution, so that a message never starts a second
\* one, nor takes an active run's execution away.
TimersNest ==
  \A r \in Runs : /\ timer[r] => entry[r] = "active" /\ childTimer[r]
                  /\ childTimer[r] => child[r] # "off"
OpenUntilEnded == \A r \in Runs : entry[r] \in {"none", "active"} => outcome[r] = "none"
DoneIsIdle == \A r \in Runs : session[r] \in {"completed", "failed"} => child[r] = "off"

RunInv == Types /\ TimersNest /\ OpenUntilEnded /\ DoneIsIdle /\ RunMatchesExecution

LEMMA RunInvInit == Init => RunInv
BY TypesInit DEF Init, RunInv, TimersNest, OpenUntilEnded, DoneIsIdle, RunMatchesExecution

LEMMA RunInvStep == RunInv /\ [Next]_vars => RunInv'
<1> SUFFICES ASSUME RunInv, [Next]_vars PROVE RunInv' OBVIOUS
<1> DEFINE Good == TimersNest /\ OpenUntilEnded /\ DoneIsIdle /\ RunMatchesExecution
<1>0. Types /\ Types' BY TypesStep DEF RunInv
<1> USE <1>0 DEF RunInv, TimersNest, OpenUntilEnded, DoneIsIdle, RunMatchesExecution, Types, registry, children,
                requester, bounds
<1>1. ASSUME NEW r \in Runs, NEW byTurn \in BOOLEAN, Spawn(r, byTurn) PROVE Good'
  BY <1>1 DEF Spawn, Execute
<1>2. ASSUME NEW r \in Runs, NEW how \in {"ok", "partial"}, Complete(r, how) PROVE Good'
  BY <1>2 DEF Complete, SessionBecomes, Stopped, EndRun, Present, InMap
<1>3. ASSUME NEW r \in Runs, Fail(r) PROVE Good'
  BY <1>3 DEF Fail, SessionBecomes, Stopped, EndRun, Present, InMap
<1>4. ASSUME NEW r \in Runs, Throw(r) PROVE Good'
  <2>1. CASE entry[r] = "active"
    <3>1. owned[r] BY <2>1
    <3> QED BY <1>4, <2>1, <3>1 DEF Throw, SessionBecomes, Stopped, EndRun, EndActive, Present, InMap
  <2>2. CASE entry[r] # "active"
    <3>1. UNCHANGED registry BY <1>4, <2>2 DEF Throw, EndActive
    <3>2. child' = [child EXCEPT ![r] = "off"] /\ childTimer' = [childTimer EXCEPT ![r] = FALSE]
      BY <1>4 DEF Throw, Stopped
    <3>3. owned' = owned BY <1>4 DEF Throw
    <3>4. TimersNest' BY <2>2, <3>1, <3>2
    <3>5. RunMatchesExecution' BY <2>2, <3>1, <3>2, <3>3
    <3>6. \A q \in Runs : q # r => session'[q] = session[q]
      BY <1>4 DEF Throw, SessionBecomes
    <3>7. DoneIsIdle' BY <3>2, <3>6
    <3>8. OpenUntilEnded' BY <3>1
    <3> QED BY <3>4, <3>5, <3>7, <3>8
  <2> QED BY <2>1, <2>2
<1>5. ASSUME NEW r \in Runs, TimerFires(r) PROVE Good'
  BY <1>5 DEF TimerFires, EndRun, Present
<1>6. ASSUME NEW r \in Runs, ChildTimerFires(r) PROVE Good'
  BY <1>6 DEF ChildTimerFires, EndRun, EndActive, Present, Abort
<1>7. ASSUME NEW r \in Runs, Kill(r) PROVE Good'
  BY <1>7 DEF Kill, SessionBecomes, EndRun, Present, InMap, Abort
<1>8. ASSUME NEW r \in Runs, Send(r) PROVE Good'
  BY <1>8 DEF Send, Execute
<1>9. ASSUME NEW rs, \A r \in Runs \intersect rs : entry[r] = "ended", Release(rs) PROVE Good'
  BY <1>9 DEF Release, Abort
<1>10. ASSUME NEW rs \in SUBSET Runs, Clear(rs) PROVE Good'
  BY <1>10, <1>9 DEF Clear
<1>11. ASSUME NEW rs \in SUBSET Runs, Wait(rs) \/ ClientWaits(rs) PROVE Good'
  BY <1>11 DEF Wait, ClientWaits
<1>12. \A ids : \A r \in Consumed(ids) : entry[r] = "ended" BY DEF Consumed
<1>13. ASSUME WaitReturns \/ AutoReturns \/ ClientReturns PROVE Good'
  <2>1. Release(Consumed(awaited)) \/ Release(Consumed(client))
    BY <1>13 DEF WaitReturns, AutoReturns, ClientReturns
  <2> QED BY <2>1, <1>9, <1>12
<1>14. ASSUME Answer \/ TurnStops PROVE Good'
  BY <1>14 DEF Answer, TurnStops
<1>15. ASSUME Crash PROVE Good'
  BY <1>15 DEF Crash
<1>16. ASSUME UNCHANGED vars PROVE Good'
  BY <1>16 DEF vars
<1> QED
  BY <1>1, <1>2, <1>3, <1>4, <1>5, <1>6, <1>7, <1>8, <1>10, <1>11, <1>13, <1>14, <1>15, <1>16
     DEF Next, ChildEnds

\* An active run is worked on by its own execution, and an execution whose run is closed or
\* gone is being aborted (channel.ts:716-733).
THEOREM RegistryMatchesChildren == Spec => []RunMatchesExecution
<1>1. RunInv => RunMatchesExecution BY DEF RunInv
<1> QED BY <1>1, RunInvInit, RunInvStep, PTL DEF Spec

\* The outcome of a run that ended is never overwritten, but for the timeout that the
\* registry noted before the execution's own timer (subagent-registry.ts:436).
THEOREM OutcomesStand == Spec => OutcomeStands
<1> DEFINE Stands == \A r \in Runs : entry[r] = "ended" /\ outcome'[r] # outcome[r] =>
                       outcome[r] = "timeout" /\ child[r] = "on" /\ childTimer[r]
<1>1. ASSUME RunInv, [Next]_vars PROVE [Stands]_vars
  <2> USE <1>1 DEF RunInv, Types, RunMatchesExecution, registry, children
  <2>1. ASSUME NEW r \in Runs, NEW how \in {"ok", "partial"}, Complete(r, how) PROVE Stands
    BY <2>1 DEF Complete, EndRun, Present
  <2>2. ASSUME NEW r \in Runs, Fail(r) PROVE Stands
    BY <2>2 DEF Fail, EndRun, Present
  <2>3. ASSUME NEW r \in Runs, Throw(r) PROVE Stands
    BY <2>3 DEF Throw, EndRun, EndActive, Present
  <2>4. ASSUME NEW r \in Runs, TimerFires(r) \/ ChildTimerFires(r) \/ Kill(r) PROVE Stands
    BY <2>4 DEF TimerFires, ChildTimerFires, Kill, EndRun, EndActive, Present
  <2>5. ASSUME NEW r \in Runs, NEW byTurn \in BOOLEAN, Spawn(r, byTurn) \/ Send(r) PROVE Stands
    BY <2>5 DEF Spawn, Send
  <2>6. ASSUME NEW rs \in SUBSET Runs, Clear(rs) \/ Wait(rs) \/ ClientWaits(rs) PROVE Stands
    BY <2>6 DEF Clear, Wait, ClientWaits, Release
  <2>7. ASSUME WaitReturns \/ Answer \/ AutoReturns \/ TurnStops \/ ClientReturns PROVE Stands
    BY <2>7 DEF WaitReturns, Answer, AutoReturns, TurnStops, ClientReturns, Release
  <2>8. ASSUME Crash PROVE Stands BY <2>8 DEF Crash
  <2> QED BY <2>1, <2>2, <2>3, <2>4, <2>5, <2>6, <2>7, <2>8 DEF Next, ChildEnds
<1> QED BY <1>1, RunInvInit, RunInvStep, PTL DEF Spec, OutcomeStands

-----------------------------------------------------------------------------
(* The results of the turn. *)

\* A run the turn spawned leaves the registry only with its result delivered to the turn, or
\* taken by someone else.
DeliveredOrTaken ==
  \A r \in accepted : /\ entry[r] # "none"
                      /\ entry[r] = "gone" => r \in taken \/ (r \in Disposable /\ got[r] # "no")
\* The last wait is for everything the turn has not got.
AutoWaitsForRest == turn = "auto" => awaited = Unresolved

ResultInv == Types /\ DeliveredOrTaken /\ AutoWaitsForRest /\ TurnGetsResults

LEMMA ResultInvInit == Init => ResultInv
BY TypesInit DEF Init, ResultInv, DeliveredOrTaken, AutoWaitsForRest, TurnGetsResults

\* While the turn's results stay and nothing of the turn's leaves the registry untaken, the
\* turn stays as good as it is.
LEMMA RequesterAlone ==
  ASSUME ResultInv, accepted' = accepted, got' = got, awaited' = awaited, turn' = turn,
         taken \subseteq taken',
         \A r \in Runs : entry[r] # "none" => entry'[r] # "none",
         \A r \in Runs : entry'[r] = "gone" => entry[r] = "gone" \/ r \in taken'
  PROVE  DeliveredOrTaken' /\ AutoWaitsForRest' /\ TurnGetsResults'
<1>1. accepted \subseteq Runs BY DEF ResultInv, Types
<1>2. Unresolved' = Unresolved BY DEF Unresolved
<1>3. DeliveredOrTaken' BY <1>1 DEF ResultInv, DeliveredOrTaken
<1>4. AutoWaitsForRest' BY <1>2 DEF ResultInv, AutoWaitsForRest
<1>5. TurnGetsResults' BY <1>2 DEF ResultInv, TurnGetsResults
<1> QED BY <1>3, <1>4, <1>5

LEMMA ResultInvStep == ResultInv /\ [Next]_vars => ResultInv'
<1> SUFFICES ASSUME ResultInv, [Next]_vars PROVE ResultInv' OBVIOUS
<1> DEFINE Good == DeliveredOrTaken /\ AutoWaitsForRest /\ TurnGetsResults
<1>0. Types /\ Types' BY TypesStep DEF ResultInv
<1>a. accepted \subseteq Runs BY <1>0 DEF Types
<1>b. \A ids : Consumed(ids) \subseteq Disposable /\ \A r \in Consumed(ids) : entry[r] = "ended"
  BY DEF Consumed
<1> USE DEF registry, requester
<1>1. ASSUME NEW r \in Runs, NEW byTurn \in BOOLEAN, Spawn(r, byTurn) PROVE Good'
  <2>1. entry' = [entry EXCEPT ![r] = "active"] /\ entry[r] = "none" BY <1>1 DEF Spawn
  <2>2. CASE byTurn
    <3>1. turn = "working" /\ turn' = "working" /\ accepted' = accepted \union {r} /\ got' = got
           /\ taken' = taken
      BY <1>1, <2>2 DEF Spawn
    <3>2. DeliveredOrTaken' BY <3>1, <2>1, <1>0, <1>a DEF ResultInv, DeliveredOrTaken, Types
    <3> QED BY <3>1, <3>2 DEF AutoWaitsForRest, TurnGetsResults
  <2>3. CASE ~byTurn
    <3>1. UNCHANGED << accepted, got, awaited, turn, taken >> BY <1>1, <2>3 DEF Spawn
    <3> QED BY <3>1, <2>1, <1>0, RequesterAlone DEF Types
  <2> QED BY <2>2, <2>3
<1>2. ASSUME NEW r \in Runs, \/ ChildEnds(r) \/ TimerFires(r) \/ ChildTimerFires(r)
                            \/ Kill(r) \/ Send(r)
      PROVE  Good'
  <2>1. UNCHANGED << accepted, got, awaited, turn, taken >>
    BY <1>2 DEF ChildEnds, Complete, Fail, Throw, TimerFires, ChildTimerFires, Kill, Send
  <2>2. entry' = entry \/ (Present(r) /\ entry' = [entry EXCEPT ![r] = "ended"])
    <3>1. CASE ChildEnds(r)
      BY <3>1 DEF ChildEnds, Complete, Fail, Throw, EndRun, EndActive
    <3>2. CASE TimerFires(r) \/ ChildTimerFires(r) \/ Kill(r) \/ Send(r)
      BY <3>2 DEF TimerFires, ChildTimerFires, Kill, Send, EndRun, EndActive
    <3> QED BY <1>2, <3>1, <3>2
  <2>3. \A q \in Runs : entry'[q] \in {entry[q], "ended"} BY <2>2, <1>0 DEF Types
  <2> QED BY <2>1, <2>3, RequesterAlone
<1>3. ASSUME NEW rs, Release(rs), \A r \in rs : entry[r] = "ended",
             UNCHANGED << accepted, got, awaited, turn >>, taken' = taken \union rs
      PROVE  Good'
  <2>1. \A r \in Runs : entry'[r] = IF r \in rs THEN "gone" ELSE entry[r] BY <1>3 DEF Release
  <2> QED BY <1>3, <2>1, RequesterAlone
<1>4. ASSUME NEW rs \in SUBSET Runs, Clear(rs) PROVE Good'
  BY <1>4, <1>3 DEF Clear
<1>5. ASSUME ClientReturns PROVE Good'
  BY <1>5, <1>3, <1>b DEF ClientReturns
<1>6. ASSUME NEW rs \in SUBSET Runs, ClientWaits(rs) PROVE Good'
  BY <1>6, RequesterAlone DEF ClientWaits
<1>7. ASSUME NEW rs \in SUBSET Runs, Wait(rs) PROVE Good'
  BY <1>7 DEF Wait, ResultInv, DeliveredOrTaken, AutoWaitsForRest, TurnGetsResults
<1>8. ASSUME TurnStops PROVE Good'
  BY <1>8 DEF TurnStops, ResultInv, DeliveredOrTaken, AutoWaitsForRest, TurnGetsResults
<1>9. ASSUME Crash PROVE Good'
  <2>1. \A r \in Runs : entry'[r] = IF entry[r] = "active" THEN "ended" ELSE entry[r]
    BY <1>9 DEF Crash
  <2>2. UNCHANGED << accepted, got, taken >> BY <1>9 DEF Crash
  <2>3. turn' \in {turn, "stopped"} /\ turn' # "auto" BY <1>9, <1>0 DEF Crash, Types
  <2>4. DeliveredOrTaken' BY <2>1, <2>2, <1>a DEF ResultInv, DeliveredOrTaken
  <2>5. Unresolved' = Unresolved BY <2>2 DEF Unresolved
  <2>6. TurnGetsResults' BY <2>2, <2>3, <2>5 DEF ResultInv, TurnGetsResults
  <2> QED BY <2>3, <2>4, <2>6 DEF AutoWaitsForRest
<1>10. ASSUME UNCHANGED vars PROVE Good'
  BY <1>10, RequesterAlone DEF vars
<1>11. ASSUME NEW r \in Unresolved, ~Present(r)
       PROVE  r \in taken \/ (got[r] = "partial" /\ r \in Disposable)
  <2>1. r \in accepted /\ got[r] # "full" BY <1>11 DEF Unresolved
  <2>2. entry[r] = "gone" BY <2>1, <1>11, <1>0, <1>a DEF ResultInv, DeliveredOrTaken, Present, Types
  <2> QED BY <2>1, <2>2, <1>0, <1>a DEF ResultInv, DeliveredOrTaken, Types
<1>12. ASSUME Answer PROVE Good'
  <2>1. UNCHANGED << entry, accepted, got, taken >> BY <1>12 DEF Answer
  <2>2. Unresolved' = Unresolved BY <2>1 DEF Unresolved
  <2>3. DeliveredOrTaken' BY <2>1 DEF ResultInv, DeliveredOrTaken
  <2>4. AutoWaitsForRest' BY <1>12, <2>2 DEF Answer, AutoWaitsForRest
  <2>5. ASSUME turn' = "ended" PROVE \A r \in accepted : got[r] = "full"
    BY <1>12, <2>5 DEF Answer, Unresolved
  <2>6. ASSUME turn' = "failed" PROVE Unresolved # {} /\ ~MayWait(Unresolved)
    BY <1>12, <2>6 DEF Answer
  <2>7. ASSUME turn' = "failed", ~(Cardinality(Unresolved) > MaxWaited)
        PROVE  \E r \in Unresolved : ~Present(r)
    <3>1. IsFiniteSet(Unresolved)
      <4>1. Unresolved \subseteq Runs BY <1>a DEF Unresolved
      <4> QED BY <4>1, RunsAssumption, FS_Subset
    <3>2. Cardinality(Unresolved) \in Nat /\ MaxWaited \in Nat
      BY <3>1, FS_CardinalityType, LimitsAssumption
    <3>3. Cardinality(Unresolved) <= MaxWaited BY <2>7, <3>2
    <3> QED BY <3>3, <2>6, <2>7 DEF MayWait
  <2>8. Unresolved \subseteq accepted BY DEF Unresolved
  <2>9. TurnGetsResults' BY <2>1, <2>2, <2>5, <2>7, <2>8, <1>11 DEF TurnGetsResults
  <2> QED BY <2>3, <2>4, <2>9
<1>13. ASSUME NEW r \in accepted, WaitReturns \/ AutoReturns, Pending(awaited) = {}, r \in awaited
       PROVE  Results(awaited)[r] # "no" \/ r \in taken
  <2>1. r \in Runs /\ entry[r] # "active" BY <1>13, <1>a DEF Pending, Active
  <2>2. CASE entry[r] = "ended" BY <2>1, <2>2, <1>13 DEF Results
  <2>3. CASE entry[r] # "ended"
    <3>1. entry[r] = "gone" BY <2>1, <2>3, <1>0 DEF ResultInv, DeliveredOrTaken, Types
    <3> QED BY <3>1, <2>1, <1>13 DEF ResultInv, DeliveredOrTaken, Results
  <2> QED BY <2>2, <2>3
\* What a wait of the turn removes, the turn has got.
<1>14. ASSUME Release(Consumed(awaited)), accepted' = accepted, taken' = taken,
              got' = Results(awaited)
       PROVE  DeliveredOrTaken'
  <2> SUFFICES ASSUME NEW r \in accepted
               PROVE  /\ entry'[r] # "none"
                      /\ entry'[r] = "gone" => r \in taken \/ (r \in Disposable /\ got'[r] # "no")
    BY <1>14 DEF DeliveredOrTaken
  <2>1. r \in Runs /\ entry'[r] = IF r \in Consumed(awaited) THEN "gone" ELSE entry[r]
    BY <1>14, <1>a DEF Release
  <2>2. CASE r \in Consumed(awaited)
    <3>1. r \in awaited /\ r \in Disposable /\ entry[r] = "ended" BY <2>2 DEF Consumed
    <3> QED BY <3>1, <2>1, <2>2, <1>14 DEF Results
  <2>3. CASE r \notin Consumed(awaited)
    <3>1. got[r] # "no" => got'[r] # "no" BY <2>1, <1>14 DEF Results
    <3> QED BY <3>1, <2>1, <2>3 DEF ResultInv, DeliveredOrTaken
  <2> QED BY <2>2, <2>3
<1>15. ASSUME WaitReturns PROVE Good'
  <2>1. turn' = "working" BY <1>15 DEF WaitReturns
  <2>2. DeliveredOrTaken' BY <1>15, <1>14 DEF WaitReturns
  <2> QED BY <2>1, <2>2 DEF AutoWaitsForRest, TurnGetsResults
<1>16. ASSUME AutoReturns PROVE Good'
  <2>1. turn = "auto" /\ awaited = Unresolved /\ UNCHANGED << accepted, taken >>
        /\ Release(Consumed(awaited))
    BY <1>16 DEF AutoReturns, ResultInv, AutoWaitsForRest
  <2>2. CASE Pending(awaited) = {}
    <3>1. turn' = "ended" /\ got' = Results(awaited) BY <1>16, <2>2 DEF AutoReturns
    <3>2. DeliveredOrTaken' BY <2>1, <3>1, <1>14
    <3>3. \A r \in accepted : r \in awaited => got'[r] # "no" \/ r \in taken
      BY <3>1, <2>2, <1>13, <1>16
    <3>4. \A r \in accepted : r \notin awaited => got'[r] = "full"
      BY <3>1, <2>1, <1>a DEF Unresolved, Results
    <3> QED BY <3>1, <3>2, <3>3, <3>4, <2>1 DEF AutoWaitsForRest, TurnGetsResults
  <2>3. CASE Pending(awaited) # {}
    <3>1. Consumed(awaited) = {} BY <2>3 DEF Consumed
    <3>2. got' = got BY <1>16, <2>3 DEF AutoReturns
    <3>3. \A r \in Runs : entry'[r] = entry[r] BY <2>1, <3>1 DEF Release
    <3>4. CASE UNCHANGED << turn, awaited >>
      BY <3>4, <3>2, <3>3, <2>1, RequesterAlone
    <3>5. CASE turn' = "failed" /\ \E r \in awaited : ~Present(r)
      <4>1. DeliveredOrTaken' BY <3>2, <3>3, <2>1, <1>a DEF ResultInv, DeliveredOrTaken
      <4>2. \E r \in accepted : r \in taken \/ (got[r] = "partial" /\ r \in Disposable)
        BY <3>5, <2>1, <1>11 DEF Unresolved
      <4> QED BY <4>1, <4>2, <3>2, <3>5, <2>1 DEF AutoWaitsForRest, TurnGetsResults
    <3> QED BY <1>16, <2>3, <3>1, <3>4, <3>5 DEF AutoReturns
  <2> QED BY <2>2, <2>3
<1> QED
  BY <1>0, <1>1, <1>2, <1>4, <1>5, <1>6, <1>7, <1>8, <1>9, <1>10, <1>12, <1>15, <1>16
     DEF Next, ResultInv

\* A turn ends with the results of its runs that nobody took, and fails only for a run that
\* was taken, a partial one it had removed itself, or too many (chat-subagent-completion.ts).
THEOREM ResultsReachTurn == Spec => []TurnGetsResults
<1>1. ResultInv => TurnGetsResults BY DEF ResultInv
<1> QED BY <1>1, ResultInvInit, ResultInvStep, PTL DEF Spec

=============================================================================
