--------------------------- MODULE ToolCallsProofs ---------------------------
(***************************************************************************)
(* What holds of tool calls for any calls, sessions, keys and permits.     *)
(* First the limiter, which implements Slots and lets nobody be overtaken: *)
(* its inductive invariant ties the three representations together, since  *)
(* the counter is the number of holders, the queue lists each of those who *)
(* wait once, and it is empty unless all permits are out.  Then the calls: *)
(* every step uses the limiter as the limiter allows, so that its theorems *)
(* carry over.  For the approvals the inductive invariant says where the   *)
(* lists come from: each entry goes back to an answer of the operator.     *)
(***************************************************************************)
EXTENDS ToolCalls, FiniteSetTheorems, SequenceTheorems, TLAPS

-----------------------------------------------------------------------------
(* The limiter. *)

ListedOnce == \A i, j \in DOMAIN pending : i # j => pending[i] # pending[j]
QueueIsWaiting ==
  \A c \in Callers : permit[c] = "waiting" <=> \E i \in DOMAIN pending : pending[i] = c
CountsHolders == active = Cardinality(Holding)
WaitsForAll == pending # << >> => active = Maximum

LimiterInv == LimiterTypeOK /\ ListedOnce /\ QueueIsWaiting /\ CountsHolders /\ WaitsForAll

-----------------------------------------------------------------------------
\* Callers that hold a permit are finitely many.
LEMMA HoldersFinite == IsFiniteSet(Holding) /\ Cardinality(Holding) \in Nat
<1>1. Holding \subseteq Callers BY DEF Holding
<1> QED BY <1>1, CallersAssumption, FS_Subset, FS_CardinalityType

\* Slots counts as Limiter does.
LEMMA SameCount == \A S : Promise!Cardinality(S) = Cardinality(S)
BY DEF Promise!Cardinality, Cardinality

LEMMA LimiterStarts == LimiterInit => LimiterInv
<1> SUFFICES ASSUME LimiterInit PROVE LimiterInv
  OBVIOUS
<1>1. LimiterTypeOK BY MaximumAssumption DEF LimiterInit, LimiterTypeOK
<1>2. ListedOnce /\ QueueIsWaiting /\ WaitsForAll
  BY DEF LimiterInit, ListedOnce, QueueIsWaiting, WaitsForAll
<1>3. Holding = {} BY DEF LimiterInit, Holding
<1>4. CountsHolders BY <1>3, FS_EmptySet DEF LimiterInit, CountsHolders
<1> QED BY <1>1, <1>2, <1>4 DEF LimiterInv

\* A request is served at once or joins the end of the queue.
LEMMA AcquireStep ==
  ASSUME LimiterInv, NEW c \in Callers, Acquire(c)
  PROVE  LimiterInv' /\ Promise!Ask(c)
<1> USE DEF LimiterInv, LimiterTypeOK
<1>1. c \notin Holding /\ c \notin Waiting BY DEF Acquire, Holding, Waiting
<1>2. active = Cardinality(Holding) BY DEF CountsHolders
<1>3. CASE active < Maximum
  <2>1. /\ active' = active + 1 /\ pending' = pending
        /\ permit' = [permit EXCEPT ![c] = "held"]
    BY <1>3 DEF Acquire
  <2>2. pending = << >> BY <1>3 DEF WaitsForAll
  <2>3. LimiterTypeOK' BY <2>1, <1>3, MaximumAssumption
  <2>4. Holding' = Holding \cup {c} /\ Waiting' = Waiting BY <2>1, <1>1 DEF Holding, Waiting
  <2>5. CountsHolders'
    BY <2>1, <2>4, <1>1, <1>2, HoldersFinite, FS_AddElement DEF CountsHolders
  <2>6. ListedOnce' /\ QueueIsWaiting' /\ WaitsForAll'
    BY <2>1, <2>2, <1>1 DEF ListedOnce, QueueIsWaiting, WaitsForAll, Waiting
  <2> QED BY <2>3, <2>4, <2>5, <2>6, <1>1, <1>2, <1>3, SameCount DEF Promise!Ask
<1>4. CASE ~(active < Maximum)
  <2>1. /\ pending' = Append(pending, c) /\ active' = active
        /\ permit' = [permit EXCEPT ![c] = "waiting"]
    BY <1>4 DEF Acquire
  <2>2. active = Maximum BY <1>4, MaximumAssumption
  <2>3. LimiterTypeOK' BY <2>1
  <2>4. Holding' = Holding /\ Waiting' = Waiting \cup {c}
    BY <2>1, <1>1 DEF Holding, Waiting
  <2>5. CountsHolders' BY <2>1, <2>4, <1>2 DEF CountsHolders
  <2>6. DOMAIN pending = 1 .. Len(pending) /\ Len(pending) \in Nat
    BY LenProperties
  <2>7. /\ DOMAIN pending' = 1 .. Len(pending) + 1
        /\ \A i \in DOMAIN pending : pending'[i] = pending[i]
        /\ pending'[Len(pending) + 1] = c
    BY <2>1, <2>6, AppendProperties
  <2>8. \A i \in DOMAIN pending : pending[i] # c
    BY <1>1 DEF QueueIsWaiting, Waiting
  <2>9. ListedOnce' BY <2>6, <2>7, <2>8 DEF ListedOnce
  <2>10. QueueIsWaiting' BY <2>1, <2>6, <2>7, <2>8 DEF QueueIsWaiting
  <2>11. WaitsForAll' BY <2>1, <2>2 DEF WaitsForAll
  <2> QED BY <2>3, <2>4, <2>5, <2>9, <2>10, <2>11, <1>1, <1>2, <1>4, SameCount DEF Promise!Ask
<1> QED BY <1>3, <1>4

\* Those who are cancelled leave the queue, the others keep their places in it.
LEMMA CancelStep ==
  ASSUME LimiterInv, NEW gone, Cancel(gone)
  PROVE  LimiterInv' /\ Promise!GiveUp /\ Waiting' = Waiting \ gone
<1> DEFINE stay == {i \in DOMAIN pending : pending[i] \notin gone}
<1> DEFINE n == Cardinality(stay)
<1> USE DEF LimiterInv, LimiterTypeOK
<1>1. PICK place \in [1 .. n -> stay] :
        /\ \A i, j \in DOMAIN place : i < j => place[i] < place[j]
        /\ \A i \in stay : \E j \in DOMAIN place : place[j] = i
        /\ pending' = [j \in 1 .. n |-> pending[place[j]]]
  BY DEF Cancel
<1>2. /\ gone \subseteq Waiting /\ active' = active
      /\ permit' = [c \in Callers |-> IF c \in gone THEN "none" ELSE permit[c]]
  BY DEF Cancel
<1>3. n \in Nat
  <2>1. DOMAIN pending = 1 .. Len(pending) /\ Len(pending) \in Nat BY LenProperties
  <2>2. IsFiniteSet(1 .. Len(pending)) BY <2>1, FS_Interval
  <2>3. stay \subseteq 1 .. Len(pending) BY <2>1
  <2> QED BY <2>2, <2>3, FS_Subset, FS_CardinalityType
<1>4. \A j \in 1 .. n : pending[place[j]] \in Callers /\ pending[place[j]] \notin gone
  BY <1>1, ElementOfSeq
<1> HIDE DEF n, stay
<1>5. pending' \in Seq(Callers)
  <2>1. pending' \in [1 .. n -> Callers] BY <1>1, <1>4
  <2> QED BY <2>1, <1>3, SeqDef
<1>6. LimiterTypeOK' BY <1>2, <1>5
<1>7. ListedOnce'
  <2> SUFFICES ASSUME NEW i \in 1 .. n, NEW j \in 1 .. n, i < j
               PROVE  pending[place[i]] # pending[place[j]]
    BY <1>1, <1>3 DEF ListedOnce
  <2>1. place[i] # place[j] /\ place[i] \in DOMAIN pending /\ place[j] \in DOMAIN pending
    BY <1>1, LenProperties DEF stay
  <2> QED BY <2>1 DEF ListedOnce
<1>8. QueueIsWaiting'
  <2> SUFFICES ASSUME NEW c \in Callers
               PROVE  permit'[c] = "waiting" <=> \E j \in 1 .. n : pending[place[j]] = c
    BY <1>1 DEF QueueIsWaiting
  <2>1. CASE c \in gone BY <2>1, <1>2, <1>4
  <2>2. CASE c \notin gone
    <3>1. permit'[c] = permit[c] BY <2>2, <1>2
    <3>2. permit[c] = "waiting" => \E j \in 1 .. n : pending[place[j]] = c
      <4> HAVE permit[c] = "waiting"
      <4>1. PICK i \in DOMAIN pending : pending[i] = c BY DEF QueueIsWaiting
      <4>2. i \in stay BY <4>1, <2>2 DEF stay
      <4> QED BY <4>1, <4>2, <1>1
    <3>3. ASSUME NEW j \in 1 .. n, pending[place[j]] = c PROVE permit[c] = "waiting"
      BY <3>3, <1>1 DEF QueueIsWaiting, stay
    <3> QED BY <3>1, <3>2, <3>3
  <2> QED BY <2>1, <2>2
<1>9. Holding' = Holding /\ Waiting' = Waiting \ gone BY <1>2 DEF Holding, Waiting
<1>10. CountsHolders' BY <1>2, <1>9 DEF CountsHolders
<1>11. WaitsForAll'
  <2> SUFFICES ASSUME pending' # << >> PROVE pending # << >>
    BY <1>2 DEF WaitsForAll
  <2>1. n # 0
    <3> SUFFICES ASSUME n = 0 PROVE FALSE OBVIOUS
    <3>1. pending' = << >> BY <1>1, <1>5, EmptySeq, SeqDef, LenProperties
    <3> QED BY <3>1
  <2>2. 1 \in 1 .. n BY <2>1, <1>3
  <2>3. place[1] \in DOMAIN pending BY <2>2, <1>1 DEF stay
  <2> QED BY <2>3
<1> QED BY <1>6, <1>7, <1>8, <1>9, <1>10, <1>11 DEF Promise!GiveUp

\* A release hands the permit to the head of the queue.
LEMMA ReleaseStep ==
  ASSUME LimiterInv, NEW c \in Callers, Release(c)
  PROVE  /\ LimiterInv' /\ Promise!Return(c)
         /\ permit'[c] = "none"
         /\ \A d \in Callers \ {c} : permit'[d] # "none" <=> permit[d] # "none"
<1> USE DEF LimiterInv, LimiterTypeOK
<1>1. permit[c] = "held" /\ c \in Holding BY DEF Release, Holding
<1>2. active = Cardinality(Holding) /\ active > 0
  <2>1. Cardinality(Holding) # 0 BY <1>1, HoldersFinite, FS_EmptySet
  <2> QED BY <2>1, HoldersFinite DEF CountsHolders
<1>3. GrantNext(c, active - 1) BY <1>2 DEF Release
<1>4. active - 1 \in 0 .. Maximum - 1 BY <1>2, MaximumAssumption
<1>5. Cardinality(Holding \ {c}) = active - 1 BY <1>1, <1>2, HoldersFinite, FS_RemoveElement
<1>6. IsFiniteSet(Holding \ {c}) BY HoldersFinite, FS_Subset
<1>7. CASE pending = << >>
  <2>1. /\ active' = active - 1 /\ pending' = pending
        /\ permit' = [d \in Callers |-> IF d = c THEN "none" ELSE permit[d]]
    BY <1>3, <1>7 DEF GrantNext
  <2>2. Holding' = Holding \ {c} /\ Waiting' = Waiting
    BY <2>1, <1>1 DEF Holding, Waiting
  <2>3. Waiting = {} BY <1>7 DEF QueueIsWaiting, Waiting
  <2>4. LimiterTypeOK' BY <2>1, <1>4, MaximumAssumption
  <2>5. CountsHolders' BY <2>1, <2>2, <1>5 DEF CountsHolders
  <2>6. ListedOnce' /\ WaitsForAll' BY <2>1, <1>7 DEF ListedOnce, WaitsForAll
  <2>7. QueueIsWaiting' BY <2>1, <2>2, <2>3, <1>7 DEF QueueIsWaiting, Waiting
  <2> QED BY <2>1, <2>2, <2>3, <2>4, <2>5, <2>6, <2>7, <1>1 DEF Promise!Return
<1>8. CASE pending # << >>
  <2> DEFINE h == Head(pending)
  <2>1. /\ active' = active - 1 + 1 /\ pending' = Tail(pending)
        /\ permit' = [d \in Callers |-> IF d = c THEN "none"
                                        ELSE IF d = h THEN "held" ELSE permit[d]]
    BY <1>3, <1>4, <1>8, MaximumAssumption DEF GrantNext
  <2>2. DOMAIN pending = 1 .. Len(pending) /\ Len(pending) \in Nat \ {0} /\ h = pending[1]
    BY <1>8, LenProperties, EmptySeq, HeadTailProperties
  <2>3. /\ Tail(pending) \in Seq(Callers) /\ DOMAIN Tail(pending) = 1 .. Len(pending) - 1
        /\ \A i \in 1 .. Len(pending) - 1 : Tail(pending)[i] = pending[i + 1]
    BY <1>8, <2>2, HeadTailProperties, LenProperties
  <2>4. h \in Callers /\ permit[h] = "waiting" /\ h # c
    BY <2>2, <1>1, ElementOfSeq DEF QueueIsWaiting
  <2> HIDE DEF h
  <2>5. active' = active BY <2>1
  <2>6. LimiterTypeOK' BY <2>1, <2>3, <2>4, <2>5
  <2>7. Holding' = (Holding \ {c}) \cup {h} /\ Waiting' = Waiting \ {h} /\ h \in Waiting
    BY <2>1, <2>4, <1>1 DEF Holding, Waiting
  <2>8. h \notin Holding BY <2>4 DEF Holding
  <2>9. CountsHolders'
    <3>1. h \notin Holding \ {c} BY <2>8
    <3>2. Cardinality((Holding \ {c}) \cup {h}) = active - 1 + 1
      BY <3>1, <1>5, <1>6, FS_AddElement
    <3> QED BY <3>2, <2>5, <2>7, <1>4 DEF CountsHolders
  <2>10. ListedOnce' BY <2>1, <2>2, <2>3 DEF ListedOnce
  <2>11. QueueIsWaiting'
    <3>0. \A d : (\E i \in DOMAIN pending' : pending'[i] = d)
                   <=> \E i \in 1 .. Len(pending) - 1 : pending[i + 1] = d
      BY <2>1, <2>3
    <3> SUFFICES ASSUME NEW d \in Callers
                 PROVE  permit'[d] = "waiting" <=>
                          \E i \in 1 .. Len(pending) - 1 : pending[i + 1] = d
      BY <3>0 DEF QueueIsWaiting
    <3>1. CASE d = c
      <4>1. permit'[c] # "waiting" BY <2>1, <2>4
      <4>2. permit[c] # "waiting" BY <1>1
      <4>3. \A i \in DOMAIN pending : pending[i] # c BY <4>2 DEF QueueIsWaiting
      <4>4. \A i \in 1 .. Len(pending) - 1 : i + 1 \in DOMAIN pending BY <2>2
      <4> QED BY <3>1, <4>1, <4>3, <4>4
    <3>2. CASE d = h
      <4>1. permit'[h] # "waiting" BY <2>1, <2>4
      <4>2. \A i \in 1 .. Len(pending) - 1 :
              i + 1 \in DOMAIN pending /\ 1 \in DOMAIN pending /\ i + 1 # 1
        BY <2>2
      <4>3. \A i \in 1 .. Len(pending) - 1 : pending[i + 1] # h BY <4>2, <2>2 DEF ListedOnce
      <4> QED BY <3>2, <4>1, <4>3
    <3>3. CASE d # c /\ d # h
      <4>1. permit'[d] = permit[d] BY <3>3, <2>1
      <4>2. ASSUME NEW i \in 1 .. Len(pending), pending[i] = d
            PROVE  i - 1 \in 1 .. Len(pending) - 1 /\ pending[(i - 1) + 1] = d
        BY <4>2, <3>3, <2>2
      <4>3. ASSUME NEW i \in 1 .. Len(pending) - 1, pending[i + 1] = d
            PROVE  i + 1 \in DOMAIN pending
        BY <2>2
      <4>4. permit[d] = "waiting" <=> \E i \in DOMAIN pending : pending[i] = d
        BY DEF QueueIsWaiting
      <4>5. (\E i \in DOMAIN pending : pending[i] = d)
              <=> \E i \in 1 .. Len(pending) - 1 : pending[i + 1] = d
        BY <4>2, <4>3, <2>2
      <4> QED BY <4>1, <4>4, <4>5
    <3> QED BY <3>1, <3>2, <3>3
  <2>12. WaitsForAll' BY <2>5, <1>8 DEF WaitsForAll
  <2>13. Promise!Return(c) BY <2>7, <1>1 DEF Promise!Return
  <2> QED BY <2>1, <2>4, <2>6, <2>9, <2>10, <2>11, <2>12, <2>13
<1> QED BY <1>7, <1>8

LEMMA LimiterUnchanged ==
  ASSUME LimiterInv, UNCHANGED limiterVars
  PROVE  LimiterInv' /\ UNCHANGED << Holding, Waiting >>
BY DEF LimiterInv, limiterVars, LimiterTypeOK, ListedOnce, QueueIsWaiting, CountsHolders,
       WaitsForAll, Holding, Waiting

-----------------------------------------------------------------------------
\* The inductive invariant, for any finite set of callers and any number of permits.
THEOREM LimiterInvariant == LimiterSpec => []LimiterInv
<1>1. LimiterInv /\ [LimiterNext]_limiterVars => LimiterInv'
  BY AcquireStep, ReleaseStep, CancelStep, LimiterUnchanged DEF LimiterNext
<1> QED BY <1>1, LimiterStarts, PTL DEF LimiterSpec

\* The limiter implements Slots: however releases, aborts and timeouts interleave, its
\* steps are steps of Slots, or change nothing there.
THEOREM LimiterImplementsSlots == LimiterSpec => KeepsSlots
<1>1. LimiterInit => Promise!SlotsInit
  BY DEF LimiterInit, Promise!SlotsInit, Holding, Waiting
<1>2. LimiterInv /\ [LimiterNext]_limiterVars => [Promise!SlotsNext]_(Promise!slotVars)
  <2> SUFFICES ASSUME LimiterInv, [LimiterNext]_limiterVars
               PROVE  [Promise!SlotsNext]_(Promise!slotVars)
    OBVIOUS
  <2>1. CASE UNCHANGED limiterVars BY <2>1, LimiterUnchanged DEF Promise!slotVars
  <2>2. ASSUME NEW c \in Callers, Acquire(c) \/ Release(c) PROVE Promise!SlotsNext
    BY <2>2, AcquireStep, ReleaseStep DEF Promise!SlotsNext
  <2>3. ASSUME NEW gone \in SUBSET Waiting, Cancel(gone) PROVE Promise!SlotsNext
    BY <2>3, CancelStep DEF Promise!SlotsNext
  <2> QED BY <2>1, <2>2, <2>3 DEF LimiterNext
<1> QED BY <1>1, <1>2, LimiterInvariant, PTL DEF LimiterSpec, KeepsSlots, Promise!SlotsSpec

\* Never more than the configured number of permits is out, and nobody waits while one is
\* free.
THEOREM PermitsAreUsed == LimiterSpec => []Promise!SlotsAreUsed
<1>1. LimiterInv => Promise!SlotsAreUsed
  BY MaximumAssumption, SameCount
  DEF LimiterInv, LimiterTypeOK, CountsHolders, WaitsForAll, QueueIsWaiting, Waiting,
      Promise!SlotsAreUsed
<1> QED BY <1>1, LimiterInvariant, PTL

\* Nobody who waits is overtaken by a caller that came later.
THEOREM NobodyIsOvertaken == LimiterSpec => ServedInOrder
<1> DEFINE InOrder == \A i, j \in DOMAIN pending :
             i < j /\ permit'[pending[j]] = "held" => permit'[pending[i]] # "waiting"
<1>1. LimiterInv /\ [LimiterNext]_limiterVars => [InOrder]_limiterVars
  <2> SUFFICES ASSUME LimiterInv, LimiterNext,
                      NEW i \in DOMAIN pending, NEW j \in DOMAIN pending, i < j,
                      permit'[pending[j]] = "held"
               PROVE  permit'[pending[i]] # "waiting"
    BY DEF LimiterInv
  <2>1. /\ pending[i] \in Callers /\ permit[pending[i]] = "waiting"
        /\ pending[j] \in Callers /\ permit[pending[j]] = "waiting"
        /\ pending[i] # pending[j]
    BY ElementOfSeq DEF LimiterInv, LimiterTypeOK, QueueIsWaiting, ListedOnce
  <2>2. ASSUME NEW c \in Callers, Acquire(c) PROVE FALSE
    BY <2>1, <2>2 DEF Acquire, LimiterInv, LimiterTypeOK
  <2>3. ASSUME NEW gone \in SUBSET Waiting, Cancel(gone) PROVE FALSE
    BY <2>1, <2>3 DEF Cancel
  <2>4. ASSUME NEW c \in Callers, Release(c) PROVE FALSE
    <3>1. permit[c] = "held" BY <2>4 DEF Release
    <3>2. PICK left : GrantNext(c, left) BY <2>4 DEF Release
    <3>3. pending[j] # c BY <2>1, <3>1
    <3>4. pending[j] = Head(pending) BY <3>2, <3>3, <2>1 DEF GrantNext
    <3>5. DOMAIN pending = 1 .. Len(pending) /\ Len(pending) \in Nat
      BY LenProperties DEF LimiterInv, LimiterTypeOK
    <3>6. pending # << >> /\ Head(pending) = pending[1] /\ 1 \in DOMAIN pending
      BY <3>5, HeadTailProperties DEF LimiterInv, LimiterTypeOK
    <3>7. j = 1 BY <3>4, <3>6 DEF LimiterInv, ListedOnce
    <3> QED BY <3>5, <3>7
  <2> QED BY <2>2, <2>3, <2>4 DEF LimiterNext
<1> QED BY <1>1, LimiterInvariant, PTL DEF LimiterSpec, ServedInOrder

-----------------------------------------------------------------------------
(* The tool calls. *)

\* What is allowed without a question was once allowed by the operator with that scope.
ListsAreConsented ==
  /\ \A e \in sessionAllowlist : \E d \in Calls :
       e = << SessionOf[d], KeyOf[d] >> /\ << d, "approve_session" >> \in consents
  /\ \A k \in alwaysAllowlist : \E d \in Calls :
       k = KeyOf[d] /\ << d, "approve_always" >> \in consents

ReadersOnly == \A c \in Calls : permit[c] # "none" <=> phase[c] = "reading"

ToolInv ==
  /\ LimiterInv /\ ToolTypeOK /\ ReadersOnly
  /\ RequestsAreAwaited /\ ListsAreConsented /\ OperatorDecides

-----------------------------------------------------------------------------
\* The steps of the calls are steps of the limiter, or leave it alone.
LEMMA UsesLimiter == [Next]_vars => [LimiterNext]_limiterVars
<1> SUFFICES ASSUME [Next]_vars PROVE [LimiterNext]_limiterVars
  OBVIOUS
<1>1. CASE UNCHANGED vars BY <1>1 DEF vars
<1>2. ASSUME NEW c \in Calls,
             Refused(c) \/ Enter(c) \/ AskOperator(c) \/ Timeout(c) \/ Finish(c)
                \/ \E decision \in Decisions : Answer(c, decision)
      PROVE  UNCHANGED limiterVars
  BY <1>2 DEF Refused, Enter, AskOperator, Timeout, Finish, Answer
<1>3. ASSUME NEW c \in Calls, Read(c) PROVE [LimiterNext]_limiterVars
  BY <1>3 DEF Read, LimiterNext, Calls
<1>4. ASSUME NEW c \in Calls, Expire(c) PROVE [LimiterNext]_limiterVars
  <2>1. Cancel({c}) BY <1>4 DEF Expire
  <2>2. {c} \in SUBSET Waiting BY <2>1 DEF Cancel
  <2> QED BY <2>1, <2>2 DEF LimiterNext
<1>5. ASSUME NEW c \in Calls, ReadDone(c) PROVE [LimiterNext]_limiterVars
  BY <1>5 DEF ReadDone, LimiterNext, Calls
<1>6. ASSUME NEW s \in Sessions, Abort(s) PROVE [LimiterNext]_limiterVars
  <2>1. PICK gone : Cancel(gone) BY <1>6 DEF Abort
  <2>2. gone \in SUBSET Waiting BY <2>1 DEF Cancel
  <2> QED BY <2>1, <2>2 DEF LimiterNext
<1>7. ASSUME NEW s \in Sessions, NextTurn(s) PROVE UNCHANGED limiterVars
  BY <1>7 DEF NextTurn
<1>8. ASSUME SetMode \/ Listen PROVE UNCHANGED limiterVars
  BY <1>8 DEF SetMode, Listen
<1> QED BY <1>1, <1>2, <1>3, <1>4, <1>5, <1>6, <1>7, <1>8 DEF Next

\* Tool calls keep to the limiter's specification.
THEOREM CallsUseLimiter == Spec => LimiterSpec
<1>1. Init => LimiterInit BY DEF Init
<1> QED BY <1>1, UsesLimiter, PTL DEF Spec, LimiterSpec

-----------------------------------------------------------------------------
(* One lemma for each kind of step. *)

\* Calls that were consented to stay so.
LEMMA ConsentStays ==
  ASSUME NEW c \in Calls, Consented(c), said'[c] = said[c], consents \subseteq consents'
  PROVE  Consented(c)'
BY DEF Consented

LEMMA StatusType ==
  ASSUME NEW decision \in Decisions
  PROVE  Status(decision) \in {Status(d) : d \in Decisions} /\ Status(decision) # "pending"
         /\ Status(decision) # "none"
BY DEF Status, Decisions

\* A call that is not made yet gets on its way, or fails.
LEMMA BeginStep ==
  ASSUME ToolInv, NEW c \in Calls, Refused(c) \/ Enter(c) \/ AskOperator(c)
  PROVE  ToolTypeOK' /\ ReadersOnly' /\ RequestsAreAwaited' /\ ListsAreConsented'
         /\ OperatorDecides'
<1> USE DEF ToolInv
<1>1. /\ phase[c] = "idle"
      /\ UNCHANGED << active, pending, permit, sessionAllowlist, alwaysAllowlist, mode,
                      listening, aborted, consents >>
      /\ request' = [request EXCEPT ![c] = request'[c]]
      /\ phase' = [phase EXCEPT ![c] = phase'[c]]
      /\ said' = [said EXCEPT ![c] = said'[c]]
      /\ \/ request'[c] = "none" /\ phase'[c] \in {"idle", "running"}
         \/ request'[c] = "pending" /\ phase'[c] = "asking"
      /\ said'[c] \in {"none", "free"}
  BY DEF Refused, Enter, AskOperator, ToolTypeOK, limiterVars
<1>2. ToolTypeOK' BY <1>1 DEF ToolTypeOK
<1>3. ReadersOnly' BY <1>1 DEF ReadersOnly, ToolTypeOK
<1>4. RequestsAreAwaited' BY <1>1 DEF RequestsAreAwaited, ToolTypeOK
<1>5. ListsAreConsented' BY <1>1 DEF ListsAreConsented
<1>6. OperatorDecides'
  <2> SUFFICES ASSUME NEW d \in Calls, phase'[d] \in {"running", "reading"}
               PROVE  Consented(d)' \/ (said'[d] = "free" /\ d \notin Forced)
    BY DEF OperatorDecides
  <2>1. CASE d # c
    <3>1. phase'[d] = phase[d] /\ said'[d] = said[d] BY <1>1, <2>1 DEF ToolTypeOK
    <3> QED BY <3>1, <1>1, ConsentStays DEF OperatorDecides
  <2>2. CASE d = c
    <3>1. Enter(c) BY <2>2, <1>1 DEF Refused, AskOperator, ToolTypeOK
    <3>2. CASE ~NeedsApproval(c)
      <4>1. said'[c] = "free" BY <3>1, <3>2 DEF Enter, ToolTypeOK
      <4> QED BY <4>1, <2>2, <3>2 DEF NeedsApproval
    <3>3. CASE NeedsApproval(c)
      <4>1. IsApproved(c) BY <3>1, <3>3 DEF Enter, NeedsApproval
      <4>2. Consented(c)' BY <4>1, <1>1 DEF IsApproved, ListsAreConsented, Consented
      <4> QED BY <4>2, <2>2
    <3> QED BY <3>2, <3>3
  <2> QED BY <2>1, <2>2
<1> QED BY <1>2, <1>3, <1>4, <1>5, <1>6

\* The operator answers.
LEMMA AnswerStep ==
  ASSUME ToolInv, NEW c \in Calls, NEW decision \in Decisions, Answer(c, decision)
  PROVE  ToolTypeOK' /\ ReadersOnly' /\ RequestsAreAwaited' /\ ListsAreConsented'
         /\ OperatorDecides'
<1> USE DEF ToolInv
<1>1. /\ request[c] = "pending" /\ phase[c] = "asking"
      /\ UNCHANGED << active, pending, permit, mode, listening, aborted >>
      /\ request' = [request EXCEPT ![c] = Status(decision)]
      /\ phase' = [phase EXCEPT ![c] = IF decision = "deny" THEN "idle" ELSE "running"]
      /\ said' = [said EXCEPT ![c] = decision]
  BY DEF Answer, ResolveApproval, Open, RequestsAreAwaited, limiterVars, ToolTypeOK
<1>2. /\ consents' = consents \cup
           (IF decision \in {"approve_session", "approve_always"}
            THEN {<< c, decision >>} ELSE {})
      /\ sessionAllowlist' = sessionAllowlist \cup
           (IF decision = "approve_session" THEN {<< SessionOf[c], KeyOf[c] >>} ELSE {})
      /\ alwaysAllowlist' = alwaysAllowlist \cup
           (IF decision = "approve_always" THEN {KeyOf[c]} ELSE {})
  BY DEF Answer, ResolveApproval, Allow
<1>3. ToolTypeOK'
  <2>1. SessionOf[c] \in Sessions BY CallsAssumption
  <2>2. Status(decision) \in {Status(d) : d \in Decisions} BY StatusType
  <2>3. request' \in [Calls -> {"none", "pending"} \cup {Status(d) : d \in Decisions}]
    BY <1>1, <2>2 DEF ToolTypeOK
  <2>4. /\ phase' \in [Calls -> {"idle", "asking", "running", "reading"}]
        /\ said' \in [Calls -> {"none", "free"} \cup Decisions]
    BY <1>1 DEF ToolTypeOK
  <2>5. /\ sessionAllowlist' \subseteq Sessions \X {KeyOf[d] : d \in Calls}
        /\ alwaysAllowlist' \subseteq {KeyOf[d] : d \in Calls}
        /\ consents' \subseteq Calls \X {"approve_session", "approve_always"}
    BY <1>2, <2>1 DEF ToolTypeOK
  <2> QED BY <1>1, <2>3, <2>4, <2>5 DEF ToolTypeOK
<1>4. ReadersOnly' BY <1>1 DEF ReadersOnly, ToolTypeOK
<1>5. RequestsAreAwaited' BY <1>1, StatusType DEF RequestsAreAwaited, ToolTypeOK
<1>6. ListsAreConsented'
  <2>1. ASSUME NEW e \in sessionAllowlist'
        PROVE  \E d \in Calls :
                 e = << SessionOf[d], KeyOf[d] >> /\ << d, "approve_session" >> \in consents'
    BY <2>1, <1>2 DEF ListsAreConsented
  <2>2. ASSUME NEW k \in alwaysAllowlist'
        PROVE  \E d \in Calls : k = KeyOf[d] /\ << d, "approve_always" >> \in consents'
    BY <2>2, <1>2 DEF ListsAreConsented
  <2> QED BY <2>1, <2>2 DEF ListsAreConsented
<1>7. OperatorDecides'
  <2> SUFFICES ASSUME NEW d \in Calls, phase'[d] \in {"running", "reading"}
               PROVE  Consented(d)' \/ (said'[d] = "free" /\ d \notin Forced)
    BY DEF OperatorDecides
  <2>1. CASE d # c
    <3>1. phase'[d] = phase[d] /\ said'[d] = said[d] BY <1>1, <2>1 DEF ToolTypeOK
    <3> QED BY <3>1, <1>2, ConsentStays DEF OperatorDecides
  <2>2. CASE d = c
    <3>1. decision # "deny" /\ said'[c] = decision BY <1>1, <2>2 DEF ToolTypeOK
    <3> QED BY <3>1, <2>2 DEF Consented
  <2> QED BY <2>1, <2>2
<1> QED BY <1>3, <1>4, <1>5, <1>6, <1>7

\* Requests are denied without the operator, readers ask for, get, or lose their permits,
\* and calls return: what is allowed, said and consented to stays, and no call that was not
\* already running begins to.
LEMMA QuietStep ==
  ASSUME ToolInv, ToolTypeOK', ReadersOnly', RequestsAreAwaited',
         UNCHANGED << sessionAllowlist, alwaysAllowlist, said, consents >>,
         \A c \in Calls : phase'[c] \in {"running", "reading"}
                            => phase[c] \in {"running", "reading"}
  PROVE  ListsAreConsented' /\ OperatorDecides'
<1>1. ListsAreConsented' BY DEF ToolInv, ListsAreConsented
<1>2. OperatorDecides'
  BY ConsentStays DEF ToolInv, OperatorDecides
<1> QED BY <1>1, <1>2

LEMMA TimeoutStep ==
  ASSUME ToolInv, NEW c \in Calls, Timeout(c)
  PROVE  ToolTypeOK' /\ ReadersOnly' /\ RequestsAreAwaited' /\ ListsAreConsented'
         /\ OperatorDecides'
<1> USE DEF ToolInv
<1>1. /\ request[c] = "pending" /\ phase[c] = "asking"
      /\ UNCHANGED << active, pending, permit, mode, listening, aborted, said, consents >>
      /\ request' = [request EXCEPT ![c] = "denied"]
      /\ phase' = [phase EXCEPT ![c] = "idle"]
      /\ UNCHANGED << sessionAllowlist, alwaysAllowlist >>
  BY DEF Timeout, ResolveApproval, RequestsAreAwaited, limiterVars, ToolTypeOK, Allow, Status
<1>2. "denied" \in {Status(d) : d \in Decisions} BY DEF Status, Decisions
<1>3. ToolTypeOK' BY <1>1, <1>2 DEF ToolTypeOK
<1>4. ReadersOnly' /\ RequestsAreAwaited'
  BY <1>1 DEF ReadersOnly, RequestsAreAwaited, ToolTypeOK
<1>5. \A d \in Calls : phase'[d] \in {"running", "reading"} => phase[d] \in {"running", "reading"}
  BY <1>1 DEF ToolTypeOK
<1> QED BY <1>1, <1>3, <1>4, <1>5, QuietStep

\* The turn is aborted: what waits, for the operator or for a permit, returns.
LEMMA AbortStep ==
  ASSUME ToolInv, NEW s \in Sessions, Abort(s)
  PROVE  ToolTypeOK' /\ ReadersOnly' /\ RequestsAreAwaited' /\ ListsAreConsented'
         /\ OperatorDecides'
<1> USE DEF ToolInv
<1> DEFINE gone == {c \in Calls : SessionOf[c] = s /\ permit[c] = "waiting"}
           denied == {c \in Calls : SessionOf[c] = s /\ request[c] = "pending"}
<1>1. /\ permit' = [c \in Calls |-> IF c \in gone THEN "none" ELSE permit[c]]
      /\ request' = [c \in Calls |-> IF c \in denied THEN "denied" ELSE request[c]]
      /\ phase' = [c \in Calls |-> IF c \in gone \cup denied THEN "idle" ELSE phase[c]]
      /\ aborted' = aborted \cup {s}
      /\ UNCHANGED << sessionAllowlist, alwaysAllowlist, mode, listening, said, consents >>
  BY DEF Abort, Cancel, Calls
<1>2. "denied" \in {Status(d) : d \in Decisions} BY DEF Status, Decisions
<1>3. ToolTypeOK' BY <1>1, <1>2 DEF ToolTypeOK
<1>4. ReadersOnly' BY <1>1 DEF ReadersOnly, RequestsAreAwaited, ToolTypeOK
<1>5. RequestsAreAwaited' BY <1>1 DEF ReadersOnly, RequestsAreAwaited, ToolTypeOK
<1>6. \A c \in Calls : phase'[c] \in {"running", "reading"} => phase[c] \in {"running", "reading"}
  BY <1>1
<1> QED BY <1>1, <1>3, <1>4, <1>5, <1>6, QuietStep

\* The steps of the handlers.
LEMMA HandlerStep ==
  ASSUME ToolInv, NEW c \in Calls, Read(c) \/ Expire(c) \/ ReadDone(c) \/ Finish(c)
  PROVE  ToolTypeOK' /\ ReadersOnly' /\ RequestsAreAwaited' /\ ListsAreConsented'
         /\ OperatorDecides'
<1> USE DEF ToolInv
<1>1. /\ phase[c] \in {"running", "reading"}
      /\ phase' = [phase EXCEPT ![c] = phase'[c]] /\ phase'[c] \in {"idle", "reading"}
      /\ UNCHANGED << request, sessionAllowlist, alwaysAllowlist, mode, listening, aborted,
                      said, consents >>
  BY DEF Read, Expire, ReadDone, Finish, ToolTypeOK
<1>2. ToolTypeOK' BY <1>1 DEF ToolTypeOK
<1>3. RequestsAreAwaited' BY <1>1 DEF RequestsAreAwaited, ToolTypeOK
<1>4. ReadersOnly'
  <2>1. CASE Read(c)
    <3>1. CASE SessionOf[c] \in aborted
      BY <2>1, <3>1 DEF Read, ReadersOnly, ToolTypeOK, limiterVars
    <3>2. CASE SessionOf[c] \notin aborted
      <4>1. Acquire(c) /\ phase' = [phase EXCEPT ![c] = "reading"]
        BY <2>1, <3>2 DEF Read
      <4>2. \E p \in {"held", "waiting"} : permit' = [permit EXCEPT ![c] = p]
        BY <4>1 DEF Acquire
      <4> QED BY <4>1, <4>2 DEF ReadersOnly, ToolTypeOK, LimiterInv, LimiterTypeOK, Calls
    <3> QED BY <3>1, <3>2
  <2>2. CASE Expire(c)
    <3>1. /\ permit' = [d \in Calls |-> IF d \in {c} THEN "none" ELSE permit[d]]
          /\ phase' = [phase EXCEPT ![c] = "idle"]
      BY <2>2 DEF Expire, Cancel, Calls
    <3> QED BY <3>1 DEF ReadersOnly, ToolTypeOK
  <2>3. CASE ReadDone(c)
    <3>1. Release(c) /\ phase' = [phase EXCEPT ![c] = "idle"] BY <2>3 DEF ReadDone
    <3>2. /\ permit'[c] = "none"
          /\ \A d \in Calls \ {c} : permit'[d] # "none" <=> permit[d] # "none"
      BY <3>1, ReleaseStep DEF Calls
    <3> QED BY <3>1, <3>2 DEF ReadersOnly, ToolTypeOK
  <2>4. CASE Finish(c)
    BY <2>4 DEF Finish, ReadersOnly, ToolTypeOK, limiterVars
  <2> QED BY <2>1, <2>2, <2>3, <2>4
<1>5. \A d \in Calls : phase'[d] \in {"running", "reading"} => phase[d] \in {"running", "reading"}
  BY <1>1 DEF ToolTypeOK
<1> QED BY <1>1, <1>2, <1>3, <1>4, <1>5, QuietStep

LEMMA EnvironmentStep ==
  ASSUME ToolInv, SetMode \/ Listen \/ (\E s \in Sessions : NextTurn(s)) \/ UNCHANGED vars
  PROVE  ToolTypeOK' /\ ReadersOnly' /\ RequestsAreAwaited' /\ ListsAreConsented'
         /\ OperatorDecides'
<1>1. /\ UNCHANGED << permit, phase, request, sessionAllowlist, alwaysAllowlist, said, consents >>
      /\ mode' \in {"ask", "always_allow"} /\ listening' \in BOOLEAN
      /\ aborted' \subseteq Sessions
  BY DEF SetMode, Listen, NextTurn, vars, toolVars, limiterVars, ToolInv, ToolTypeOK
<1>2. ToolTypeOK' BY <1>1 DEF ToolInv, ToolTypeOK
<1>3. ReadersOnly' /\ RequestsAreAwaited'
  BY <1>1 DEF ToolInv, ReadersOnly, RequestsAreAwaited
<1> QED BY <1>1, <1>2, <1>3, QuietStep

LEMMA ToolInductive == ToolInv /\ [Next]_vars => ToolInv'
<1> SUFFICES ASSUME ToolInv, [Next]_vars PROVE ToolInv'
  OBVIOUS
<1>1. LimiterInv'
  BY UsesLimiter, AcquireStep, ReleaseStep, CancelStep, LimiterUnchanged
  DEF ToolInv, LimiterNext
<1>2. ToolTypeOK' /\ ReadersOnly' /\ RequestsAreAwaited' /\ ListsAreConsented'
        /\ OperatorDecides'
  BY BeginStep, AnswerStep, TimeoutStep, AbortStep, HandlerStep, EnvironmentStep DEF Next
<1> QED BY <1>1, <1>2 DEF ToolInv

LEMMA ToolStarts == Init => ToolInv
<1> SUFFICES ASSUME Init PROVE ToolInv
  OBVIOUS
<1>1. LimiterInv BY LimiterStarts DEF Init
<1>2. ToolTypeOK BY DEF Init, ToolTypeOK
<1>3. ReadersOnly /\ RequestsAreAwaited
  BY DEF Init, LimiterInit, ReadersOnly, RequestsAreAwaited, Calls
<1>4. ListsAreConsented /\ OperatorDecides
  BY DEF Init, ListsAreConsented, OperatorDecides
<1> QED BY <1>1, <1>2, <1>3, <1>4 DEF ToolInv

-----------------------------------------------------------------------------
\* Every variable keeps its type, and exactly the reading calls have to do with the
\* limiter, whatever answers, aborts, timeouts and turns come in whichever order.
THEOREM TypeCorrect == Spec => []TypeOK
<1>1. ToolInv => TypeOK BY DEF ToolInv, TypeOK, LimiterInv, ReadersOnly
<1> QED BY <1>1, ToolStarts, ToolInductive, PTL DEF Spec

\* No call runs whose approval the policy asked for, unless the operator consented to it
\* or to its key with a scope that covers it.
THEOREM NothingRunsUnasked == Spec => []OperatorDecides
<1>1. ToolInv => OperatorDecides BY DEF ToolInv
<1> QED BY <1>1, ToolStarts, ToolInductive, PTL DEF Spec

\* The requests shown to the operator are those of the calls that wait.
THEOREM RequestsMatch == Spec => []RequestsAreAwaited
<1>1. ToolInv => RequestsAreAwaited BY DEF ToolInv
<1> QED BY <1>1, ToolStarts, ToolInductive, PTL DEF Spec

\* The lists grow by what is decided now, and by nothing else.
ListsFollow ==
  /\ sessionAllowlist' = sessionAllowlist \cup
       {<< SessionOf[c], KeyOf[c] >> : c \in DecidedNow("approved_session")}
  /\ alwaysAllowlist' = alwaysAllowlist \cup {KeyOf[c] : c \in DecidedNow("approved_always")}

\* A step that leaves the lists and approves no open request.
LEMMA ListsKept ==
  ASSUME UNCHANGED << sessionAllowlist, alwaysAllowlist >>,
         \A c \in Calls : request[c] = "pending" =>
           request'[c] \notin {"approved_session", "approved_always"}
  PROVE  ListsFollow
<1>1. DecidedNow("approved_session") = {} /\ DecidedNow("approved_always") = {}
  BY DEF DecidedNow
<1> QED BY <1>1 DEF ListsFollow

\* An answer decides one open request and widens at most one list, by its key.
LEMMA ListsWidened ==
  ASSUME ToolInv, NEW d \in Calls, NEW decision \in Decisions, ResolveApproval(d, decision)
  PROVE  ListsFollow
<1>1. /\ request[d] = "pending" /\ request' = [request EXCEPT ![d] = Status(decision)]
      /\ DOMAIN request = Calls
  BY DEF ResolveApproval, Open, ToolInv, ToolTypeOK
<1>2. \A status : DecidedNow(status) = IF status = Status(decision) THEN {d}
                                       ELSE {c \in Calls : c # d /\ request[c] = "pending"
                                                             /\ status = "pending"}
  <2>1. Status(decision) # "pending" BY DEF Status, Decisions
  <2>2. \A c \in Calls : request'[c] = IF c = d THEN Status(decision) ELSE request[c] BY <1>1
  <2> QED BY <1>1, <2>1, <2>2 DEF DecidedNow
<1>3. DecidedNow("approved_session") = (IF decision = "approve_session" THEN {d} ELSE {})
  BY <1>2 DEF Status, Decisions
<1>4. DecidedNow("approved_always") = (IF decision = "approve_always" THEN {d} ELSE {})
  BY <1>2 DEF Status, Decisions
<1>5. /\ sessionAllowlist' = sessionAllowlist \cup
           (IF decision = "approve_session" THEN {<< SessionOf[d], KeyOf[d] >>} ELSE {})
      /\ alwaysAllowlist' = alwaysAllowlist \cup
           (IF decision = "approve_always" THEN {KeyOf[d]} ELSE {})
  BY DEF ResolveApproval, Allow
<1> QED BY <1>3, <1>4, <1>5 DEF ListsFollow

\* A decision is not changed by what comes after it, and what comes after it allows nothing.
THEOREM DecisionsStand == Spec => DecisionIsFinal
<1> DEFINE Stands == \A c \in Calls :
             request[c] \notin {"none", "pending"} /\ request'[c] # request[c]
               => request'[c] \in {"none", "pending"} /\ phase[c] = "idle"
<1>1. ToolInv /\ [Next]_vars => [Stands]_vars
  <2> SUFFICES ASSUME ToolInv, Next, NEW c \in Calls,
                      request[c] \notin {"none", "pending"}, request'[c] # request[c]
               PROVE  request'[c] \in {"none", "pending"} /\ phase[c] = "idle"
    OBVIOUS
  <2>1. ASSUME NEW d \in Calls, Refused(d) \/ Enter(d) \/ AskOperator(d)
        PROVE  request'[c] \in {"none", "pending"} /\ phase[c] = "idle"
    BY <2>1 DEF Refused, Enter, AskOperator, ToolInv, ToolTypeOK
  <2>2. ASSUME NEW d \in Calls,
               Timeout(d) \/ \E decision \in Decisions : Answer(d, decision)
        PROVE  FALSE
    BY <2>2 DEF Timeout, Answer, ResolveApproval, Open, ToolInv, ToolTypeOK
  <2>3. ASSUME NEW d \in Calls, Read(d) \/ Expire(d) \/ ReadDone(d) \/ Finish(d)
        PROVE  FALSE
    BY <2>3 DEF Read, Expire, ReadDone, Finish
  <2>4. ASSUME NEW s \in Sessions, Abort(s) \/ NextTurn(s) PROVE FALSE
    BY <2>4 DEF Abort, NextTurn
  <2>5. ~(SetMode \/ Listen) BY DEF SetMode, Listen
  <2> QED BY <2>1, <2>2, <2>3, <2>4, <2>5 DEF Next
<1>2. ToolInv /\ [Next]_vars => [ListsFollow]_vars
  <2> SUFFICES ASSUME ToolInv, Next PROVE ListsFollow
    OBVIOUS
  <2>1. ASSUME NEW d \in Calls, Refused(d) \/ Enter(d) \/ AskOperator(d) PROVE ListsFollow
    <3>1. /\ UNCHANGED << sessionAllowlist, alwaysAllowlist >>
          /\ \A c \in Calls : request'[c] \in {"none", "pending", request[c]}
      BY <2>1 DEF Refused, Enter, AskOperator, ToolInv, ToolTypeOK
    <3> QED BY <3>1, ListsKept
  <2>2. ASSUME NEW d \in Calls,
               Timeout(d) \/ \E decision \in Decisions : Answer(d, decision)
        PROVE  ListsFollow
    BY <2>2, ListsWidened DEF Timeout, Answer, Decisions
  <2>3. ASSUME NEW d \in Calls, Read(d) \/ Expire(d) \/ ReadDone(d) \/ Finish(d)
        PROVE  ListsFollow
    <3>1. UNCHANGED << sessionAllowlist, alwaysAllowlist, request >>
      BY <2>3 DEF Read, Expire, ReadDone, Finish
    <3> QED BY <3>1, ListsKept
  <2>4. ASSUME NEW s \in Sessions, Abort(s) PROVE ListsFollow
    <3>1. /\ UNCHANGED << sessionAllowlist, alwaysAllowlist >>
          /\ \A c \in Calls : request'[c] \in {"denied", request[c]}
      BY <2>4 DEF Abort
    <3> QED BY <3>1, ListsKept
  <2>5. ASSUME SetMode \/ Listen \/ \E s \in Sessions : NextTurn(s) PROVE ListsFollow
    <3>1. UNCHANGED << sessionAllowlist, alwaysAllowlist, request >>
      BY <2>5 DEF SetMode, Listen, NextTurn
    <3> QED BY <3>1, ListsKept
  <2> QED BY <2>1, <2>2, <2>3, <2>4, <2>5 DEF Next
<1>3. ToolInv /\ [Next]_vars => [Stands /\ ListsFollow]_vars BY <1>1, <1>2
<1> QED BY <1>3, ToolStarts, ToolInductive, PTL DEF Spec, DecisionIsFinal, ListsFollow

\* The limiter keeps its promise in use.
THEOREM CallsKeepSlots == Spec => KeepsSlots
BY CallsUseLimiter, LimiterImplementsSlots

\* Readers are served in the order in which they came.
THEOREM ReadersServedInOrder == Spec => ServedInOrder
BY CallsUseLimiter, NobodyIsOvertaken

=============================================================================
