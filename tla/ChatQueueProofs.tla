-------------------------- MODULE ChatQueueProofs --------------------------
(***************************************************************************)
(* Theorems about ChatQueue for every number of follow-ups, capacity and   *)
(* bound, and every choice of the optional behaviours.  The inductive      *)
(* invariant IInv is checked by TLC through its conjuncts.                 *)
(***************************************************************************)
EXTENDS ChatQueue, FiniteSetTheorems, SequenceTheorems, TLAPS

-----------------------------------------------------------------------------
(* Lemmas about the operators on sequences and tables. *)

\* What a concatenation holds, index by index.
LEMMA ConcatAt ==
  ASSUME NEW S, NEW a \in Seq(S), NEW b \in Seq(S)
  PROVE  /\ a \o b \in Seq(S) /\ Len(a \o b) = Len(a) + Len(b)
         /\ \A l \in 1..Len(a) : (a \o b)[l] = a[l]
         /\ \A l \in 1..Len(b) : (a \o b)[Len(a)+l] = b[l]
  OBVIOUS

\* A concatenation keeps every element of its first part.
LEMMA ConcatKeeps ==
  ASSUME NEW S, NEW a \in Seq(S), NEW b \in Seq(S)
  PROVE  \A l \in DOMAIN a : \E j \in DOMAIN (a \o b) : (a \o b)[j] = a[l]
<1>1. DOMAIN a = 1..Len(a) /\ DOMAIN (a \o b) = 1..(Len(a) + Len(b))
  OBVIOUS
<1> QED BY <1>1, ConcatAt

\* r is s with m behind its first k elements: what comes later moves up by one.
SpliceOf(r, s, k, m) ==
  /\ Len(r) = Len(s) + 1
  /\ \A l \in 1..k : r[l] = s[l]
  /\ r[k+1] = m
  /\ \A l \in 1..Len(s) : l > k => r[l+1] = s[l]

\* InsertAt behind an element.
LEMMA InsertShape ==
  ASSUME NEW S, NEW s \in Seq(S), NEW k \in 1..Len(s), NEW m \in S
  PROVE  InsertAt(s, k+1, m) \in Seq(S) /\ SpliceOf(InsertAt(s, k+1, m), s, k, m)
<1> DEFINE a == SubSeq(s, 1, k)
           b == SubSeq(s, k+1, Len(s))
           c == a \o <<m>>
           r == c \o b
<1>0. InsertAt(s, k+1, m) = r
  <2>1. InsertAt(s, k+1, m) = (SubSeq(s, 1, (k+1)-1) \o <<m>>) \o SubSeq(s, k+1, Len(s))
    BY Zenon DEF InsertAt
  <2>2. (k + 1) - 1 = k
    OBVIOUS
  <2> QED BY <2>1, <2>2, Zenon
<1>1. a \in Seq(S) /\ Len(a) = k /\ \A l \in 1..k : a[l] = s[l]
  BY SubSeqProperties
<1>2. b \in Seq(S) /\ Len(b) = Len(s) - k /\ \A l \in 1..(Len(s)-k) : b[l] = s[k+l]
  BY SubSeqProperties
<1> HIDE DEF a, b
<1>3. c \in Seq(S) /\ Len(c) = k+1 /\ (\A l \in 1..k : c[l] = s[l]) /\ c[k+1] = m
  BY <1>1, ConcatAt, <<m>> \in Seq(S), Len(<<m>>) = 1
<1> HIDE DEF c
<1>4. r \in Seq(S) /\ Len(r) = Len(s)+1
  <2>1. r \in Seq(S) /\ Len(r) = Len(c) + Len(b)
    BY <1>2, <1>3, ConcatAt, Zenon
  <2> HIDE DEF r
  <2> QED BY <2>1, <1>2, <1>3
<1>5. (\A l \in 1..k : r[l] = s[l]) /\ r[k+1] = m
  <2>1. \A l \in 1..Len(c) : r[l] = c[l]
    BY <1>2, <1>3, ConcatAt
  <2> HIDE DEF r
  <2> QED BY <2>1, <1>3
<1>6. ASSUME NEW l \in 1..Len(s), l > k PROVE r[l+1] = s[l]
  <2>1. l - k \in 1..Len(b) /\ k + 1 + (l - k) = l + 1 /\ k + (l-k) = l
    BY <1>2, <1>6
  <2>2. r[k + 1 + (l - k)] = b[l - k] /\ b[l-k] = s[k + (l-k)]
    BY <1>2, <1>3, <2>1, ConcatAt
  <2> QED BY <2>1, <2>2
<1>7. SpliceOf(r, s, k, m)
  <2> HIDE DEF r
  <2> QED BY <1>4, <1>5, <1>6 DEF SpliceOf
<1> HIDE DEF r
<1> QED BY <1>0, <1>4, <1>7

\* It yields a sequence of the same type that keeps every element.
LEMMA InsertKeeps ==
  ASSUME NEW S, NEW s \in Seq(S), NEW k \in 1..Len(s), NEW m \in S
  PROVE  /\ InsertAt(s, k+1, m) \in Seq(S)
         /\ \A l \in DOMAIN s : \E j \in DOMAIN InsertAt(s, k+1, m) :
              InsertAt(s, k+1, m)[j] = s[l]
<1> DEFINE r == InsertAt(s, k+1, m)
<1>0. r \in Seq(S) /\ SpliceOf(r, s, k, m)
  BY InsertShape, Zenon
<1> HIDE DEF r
<1>1. /\ r \in Seq(S) /\ Len(r) = Len(s) + 1
      /\ \A l \in 1..k : r[l] = s[l]
      /\ \A l \in 1..Len(s) : l > k => r[l+1] = s[l]
  BY <1>0 DEF SpliceOf
<1>2. DOMAIN r = 1..(Len(s)+1) /\ DOMAIN s = 1..Len(s) /\ Len(s) \in Nat
  BY <1>1
<1>3. ASSUME NEW l \in DOMAIN s PROVE \E j \in DOMAIN r : r[j] = s[l]
  <2>1. CASE l <= k
    BY <2>1, <1>1, <1>2
  <2>2. CASE l > k
    <3>1. l \in 1..Len(s) /\ l+1 \in DOMAIN r
      BY <1>2
    <3> QED BY <3>1, <2>2, <1>1
  <2> QED BY <2>1, <2>2, <1>2
<1> QED BY <1>1, <1>3 DEF r

\* Every set of items is finite, so that its cardinality is a natural number.
LEMMA ItemSetsFinite ==
  ASSUME NEW S \in SUBSET Items PROVE IsFiniteSet(S) /\ Cardinality(S) \in Nat
<1>1. IsFiniteSet(Items)
  BY ItemsAssumption, FS_Interval DEF Items
<1> QED BY <1>1, FS_Subset, FS_CardinalityType

\* Entries that carry a valid sequence number are well typed.
LEMMA EntryParts ==
  /\ Absent \in Entry
  /\ \A e \in Entry : /\ e.mode \in {"absent", "queued", "steering"}
                      /\ e.materialized \in BOOLEAN /\ e.sequence \in 0 .. MaxSequence
                      /\ [e EXCEPT !.materialized = TRUE] \in Entry
                      /\ [e EXCEPT !.mode = "steering", !.materialized = FALSE] \in Entry
<1>1. MaxSequence \in Nat /\ 0 \in 0 .. MaxSequence
  BY BoundsAssumption
<1>2. Absent \in Entry
  BY <1>1 DEF Absent, Entry
<1>3. ASSUME NEW e \in Entry
      PROVE  /\ e.mode \in {"absent", "queued", "steering"}
             /\ e.materialized \in BOOLEAN /\ e.sequence \in 0 .. MaxSequence
             /\ [e EXCEPT !.materialized = TRUE] \in Entry
             /\ [e EXCEPT !.mode = "steering", !.materialized = FALSE] \in Entry
  BY <1>1 DEF Entry
<1> QED BY <1>2, <1>3

\* Dropping entries keeps the table well typed and touches nothing else.
LEMMA DropType ==
  ASSUME NEW entries \in [Items -> Entry], NEW S
  PROVE  /\ Drop(entries, S) \in [Items -> Entry]
         /\ \A i \in Items : /\ i \in S => Drop(entries, S)[i] = Absent
                             /\ i \notin S => Drop(entries, S)[i] = entries[i]
  BY EntryParts DEF Drop

\* Answering callers keeps the waiters well typed.
LEMMA SettledType ==
  ASSUME waiter \in [Items -> Outcome], NEW S, NEW outcome \in Outcome
  PROVE  Settled(S, outcome) \in [Items -> Outcome]
  BY DEF Settled

-----------------------------------------------------------------------------
(* The transcript only grows. *)

MessagesGrow ==
  /\ messages' \in Seq(Message)
  /\ \A i \in Items : Recorded(i) => Recorded(i)'

LEMMA AppendGrows ==
  ASSUME messages \in Seq(Message), NEW m \in Message, messages' = Append(messages, m)
  PROVE  MessagesGrow /\ \E k \in DOMAIN messages' : messages'[k] = m
<1>1. /\ messages' \in Seq(Message)
      /\ DOMAIN messages = 1 .. Len(messages) /\ DOMAIN messages' = 1 .. Len(messages) + 1
      /\ \A k \in 1 .. Len(messages) : messages'[k] = messages[k]
      /\ messages'[Len(messages) + 1] = m /\ Len(messages) \in Nat
  OBVIOUS
<1>2. \A i \in Items : Recorded(i) => Recorded(i)'
  BY <1>1 DEF Recorded, User
<1> QED BY <1>1, <1>2 DEF MessagesGrow

LEMMA StutterGrows ==
  ASSUME messages \in Seq(Message), messages' = messages
  PROVE  MessagesGrow
  BY DEF MessagesGrow, Recorded, User

LEMMA ConcatGrows ==
  ASSUME messages \in Seq(Message), NEW s \in Seq(Message), messages' = messages \o s
  PROVE  MessagesGrow
<1>1. messages' \in Seq(Message)
  OBVIOUS
<1>2. \A l \in DOMAIN messages : \E j \in DOMAIN messages' : messages'[j] = messages[l]
  BY ConcatKeeps
<1> QED BY <1>1, <1>2 DEF MessagesGrow, Recorded, User

LEMMA InsertGrows ==
  ASSUME messages \in Seq(Message), NEW m \in Message, NEW k \in DOMAIN messages,
         messages' = InsertAt(messages, k + 1, m)
  PROVE  MessagesGrow
<1>1. k \in 1 .. Len(messages)
  OBVIOUS
<1>2. /\ messages' \in Seq(Message)
      /\ \A l \in DOMAIN messages : \E j \in DOMAIN messages' : messages'[j] = messages[l]
  BY <1>1, InsertKeeps
<1> QED BY <1>2 DEF MessagesGrow, Recorded, User

LEMMA InsertAfterLastUserGrows ==
  ASSUME messages \in Seq(Message), NEW m \in Message, InsertAfterLastUser(m)
  PROVE  MessagesGrow
<1>1. CASE \E k \in DOMAIN messages : Answerable(k)
  <2>1. PICK k \in DOMAIN messages : messages' = InsertAt(messages, k + 1, m)
    BY <1>1 DEF InsertAfterLastUser
  <2> QED BY <2>1, InsertGrows
<1>2. CASE ~\E k \in DOMAIN messages : Answerable(k)
  BY <1>2, StutterGrows DEF InsertAfterLastUser
<1> QED BY <1>1, <1>2

LEMMA PersistInterruptedGrows ==
  ASSUME TypeOK, PersistInterrupted
  PROVE  MessagesGrow
<1>1. messages \in Seq(Message) /\ [kind |-> "interrupted", of |-> turn.item] \in Message
  BY DEF TypeOK, Message, Turn
<1>2. CASE \E k \in DOMAIN messages : LastUser(k) /\ InterruptedAt(k)
  BY <1>1, <1>2, StutterGrows DEF PersistInterrupted
<1>3. CASE ~\E k \in DOMAIN messages : LastUser(k) /\ InterruptedAt(k)
  BY <1>1, <1>3, InsertAfterLastUserGrows DEF PersistInterrupted
<1> QED BY <1>2, <1>3

LEMMA StopTurnGrows ==
  ASSUME TypeOK, StopTurn
  PROVE  MessagesGrow /\ controller' \in Controller
<1>1. messages \in Seq(Message)
  BY DEF TypeOK
<1>2. MessagesGrow
  BY <1>1, StutterGrows, PersistInterruptedGrows DEF StopTurn
<1>3. controller' \in Controller
  BY DEF StopTurn, TypeOK, Controller
<1> QED BY <1>2, <1>3

LEMMA RecordFailureGrows ==
  ASSUME TypeOK, NEW i \in Items, RecordFailure(i)
  PROVE  MessagesGrow
<1> DEFINE failure == [kind |-> "failure", of |-> i]
<1>1. messages \in Seq(Message) /\ failure \in Message
  BY DEF TypeOK, Message
<1>2. CASE Recorded(i)
  <2>1. PICK k \in DOMAIN messages : messages' = InsertAt(messages, k + 1, failure)
    BY <1>2 DEF RecordFailure
  <2> QED BY <1>1, <2>1, InsertGrows
<1>3. CASE ~Recorded(i)
  BY <1>1, <1>3, AppendGrows DEF RecordFailure
<1> QED BY <1>2, <1>3
-----------------------------------------------------------------------------
(* The inductive invariant. *)

\* The item runs, or its turn is over and its caller has yet to resume.
InTurn(i) == turn.item = i \/ \E k \in DOMAIN settling : settling[k].item = i

\* The message of every item that got a turn is in the transcript.
RunsAreRecorded == deletion # "gone" => \A i \in Items : InTurn(i) => Recorded(i)

IInv == TypeOK /\ QueueMirrorsTable /\ NoFollowUpLost /\ RunsAreRecorded

TablesOK == queue \in [Items -> Entry] /\ rows \in [Items -> Entry]

-----------------------------------------------------------------------------
(* Type correctness, one step per action. *)

LEMMA InitTypeOK == Init => TypeOK
<1> SUFFICES ASSUME Init PROVE TypeOK
  OBVIOUS
<1>1. /\ NumItems \in Nat /\ MaxSequence \in Nat
      /\ MaxRequests \in Nat /\ MaxCrashes \in Nat
  BY ItemsAssumption, BoundsAssumption
<1>2. TablesOK
  BY EntryParts DEF Init, TablesOK
<1>3. /\ counter \in 0 .. MaxSequence /\ accepted \in 0 .. NumItems
      /\ requests \in 0 .. MaxRequests /\ crashes \in 0 .. MaxCrashes
  BY <1>1 DEF Init
<1>4. messages \in Seq(Message)
      /\ settling \in Seq(FinishedTurn)
  BY DEF Init
<1> QED BY <1>2, <1>3, <1>4 DEF Init, TypeOK, TablesOK, NoTurn, Turn, Controller, Outcome, History

LEMMA SendDirectType == TypeOK /\ SendDirect => TypeOK'
<1> SUFFICES ASSUME TypeOK, SendDirect PROVE TypeOK'
  OBVIOUS
<1>1. requests' \in 0 .. MaxRequests
  BY BoundsAssumption DEF SendDirect, TypeOK
<1> QED BY <1>1 DEF SendDirect, TypeOK, NoTurn, queueVars, sessionVars, Turn

\* What acceptance does to the tables, the counters and the bookkeeping.
LEMMA AcceptType ==
  ASSUME TypeOK, NEW i \in Items, NEW mode \in {"queued", "steering"},
         NEW superseded \in SUBSET Items, Accept(i, mode, superseded)
  PROVE  /\ TablesOK' /\ counter' \in 0 .. MaxSequence /\ accepted' \in 0 .. NumItems
         /\ waiter' \in [Items -> Outcome]
         /\ history' \in History
<1> DEFINE entry == [mode |-> mode, materialized |-> FALSE, sequence |-> counter + 1]
<1>1. counter + 1 \in 0 .. MaxSequence
  BY BoundsAssumption DEF Accept, TypeOK
<1>2. entry \in Entry
  BY <1>1 DEF Entry
<1>3. Drop(queue, superseded) \in [Items -> Entry] /\ Drop(rows, superseded) \in [Items -> Entry]
  BY DropType DEF TypeOK
<1>4. /\ queue' = [Drop(queue, superseded) EXCEPT ![i] = entry]
      /\ rows' = [Drop(rows, superseded) EXCEPT ![i] = entry]
  BY DEF Accept
<1>5. TablesOK'
  <2> HIDE DEF entry
  <2> QED BY <1>2, <1>3, <1>4 DEF TablesOK
<1>6. Settled(superseded, "rejected") \in [Items -> Outcome]
  BY SettledType DEF TypeOK, Outcome
<1>7. waiter' \in [Items -> Outcome]
  BY <1>6 DEF Accept, Outcome
<1>8. accepted' \in 0 .. NumItems
  BY ItemsAssumption DEF Accept, Items
<1>9. history' \in History
  BY DEF Accept, Withdraw, TypeOK, History
<1> QED BY <1>1, <1>5, <1>7, <1>8, <1>9 DEF Accept

LEMMA EnqueueType ==
  ASSUME TypeOK, NEW i \in Items, NEW mode \in {"queued", "steering"},
         Enqueue(i, mode) \/ EnqueueGoalIteration(i)
  PROVE  TypeOK'
<1>1. PICK m \in {"queued", "steering"}, S \in SUBSET Items : Accept(i, m, S)
  BY DEF Enqueue, EnqueueGoalIteration, Queued
<1>2. /\ TablesOK' /\ counter' \in 0 .. MaxSequence /\ accepted' \in 0 .. NumItems
      /\ waiter' \in [Items -> Outcome]
      /\ history' \in History
  BY <1>1, AcceptType
<1>3. drainTimer' \in BOOLEAN /\ UNCHANGED << runVars, sessionVars, messages, requests, crashes >>
  BY DEF Enqueue, EnqueueGoalIteration, TypeOK
<1> QED BY <1>2, <1>3 DEF TypeOK, TablesOK, Outcome, runVars, sessionVars

LEMMA SteerType == ASSUME TypeOK, NEW i \in Items, Steer(i) PROVE TypeOK'
<1>1. TablesOK'
  BY EntryParts DEF Steer, TypeOK, TablesOK
<1>2. requests' \in 0 .. MaxRequests
  BY BoundsAssumption DEF Steer, TypeOK
<1>3. history' \in History
  BY DEF Steer, TypeOK, History
<1> QED BY <1>1, <1>2, <1>3 DEF Steer, TypeOK, TablesOK, runVars, sessionVars

LEMMA ReorderType == TypeOK /\ Reorder => TypeOK'
<1> SUFFICES ASSUME TypeOK, Reorder PROVE TypeOK'
  OBVIOUS
<1> DEFINE n == Cardinality(Visible)
<1>1. n \in Nat
  BY ItemSetsFinite DEF Visible, Queued
<1>2. counter + n \in 0 .. MaxSequence /\ counter' = counter + n
  BY <1>1, BoundsAssumption DEF Reorder, TypeOK
<1>3. PICK rank \in [Visible -> 1 .. n] :
        LET reordered == [i \in Items |-> IF i \in Visible
                                         THEN [queue[i] EXCEPT !.sequence = counter + rank[i]]
                                         ELSE queue[i]]
        IN /\ queue' = reordered
           /\ rows' = [i \in Items |-> IF i \in Queued THEN reordered[i] ELSE rows[i]]
  BY DEF Reorder
<1>4. \A i \in Visible : i \in Items /\ counter + rank[i] \in 0 .. MaxSequence
  <2> HIDE DEF n
  <2> QED BY <1>1, <1>2, BoundsAssumption DEF TypeOK, Visible, Queued
<1>5. \A i \in Visible : [queue[i] EXCEPT !.sequence = counter + rank[i]] \in Entry
  <2> TAKE i \in Visible
  <2>1. queue[i] \in Entry /\ counter + rank[i] \in 0 .. MaxSequence
    BY <1>4 DEF TypeOK
  <2> HIDE DEF n
  <2> QED BY <2>1 DEF Entry
<1>6. TablesOK'
  BY <1>3, <1>5 DEF TablesOK, TypeOK
<1>7. history' \in History
  BY DEF Reorder, TypeOK, History
<1>8. UNCHANGED << drainTimer, turn, lockQueue, controller, active, settling, messages,
                   waiter, resident, restored, orphan, deletion, accepted, requests,
                   crashes >>
  BY DEF Reorder, runVars, sessionVars, boundVars
<1>9. counter' \in 0 .. MaxSequence
  BY <1>2
<1> QED BY <1>6, <1>7, <1>8, <1>9 DEF TypeOK, TablesOK

\* What RemoveItems does to the tables.
LEMMA RemoveItemsType ==
  ASSUME TypeOK, NEW S, RemoveItems(S) PROVE TablesOK'
  BY DropType DEF TypeOK, RemoveItems, TablesOK

LEMMA WithdrawType ==
  ASSUME TypeOK, NEW S \in SUBSET Items, Withdraw(S)
  PROVE  history' \in History
  BY DEF Withdraw, TypeOK, History

LEMMA DeletePendingType == ASSUME TypeOK, NEW i \in Items, DeletePending(i) PROVE TypeOK'
<1>1. TablesOK'
  BY RemoveItemsType DEF DeletePending
<1>2. waiter' \in [Items -> Outcome]
  BY SettledType DEF DeletePending, TypeOK, Outcome
<1>3. history' \in History
  BY WithdrawType DEF DeletePending
<1>4. UNCHANGED << counter, drainTimer, turn, lockQueue, controller, active, settling,
                   messages, resident, restored, orphan, deletion, accepted, requests,
                   crashes >>
  BY DEF DeletePending, runVars, sessionVars, boundVars
<1> QED BY <1>1, <1>2, <1>3, <1>4 DEF TypeOK, TablesOK, Outcome

\* A refusal removes the goal iterations it supersedes, if any.
LEMMA RefusalRemoves ==
  ASSUME TypeOK, NEW byGoalLoop \in BOOLEAN, RefuseWhenFull(byGoalLoop)
  PROVE  /\ \E S \in SUBSET Queued :
              RemoveItems(S) /\ waiter' = Settled(S, "rejected") /\ Withdraw(S)
         /\ counter' = counter + 1 /\ counter < MaxSequence
         /\ UNCHANGED << drainTimer, turn, lockQueue, controller, active, settling, messages,
                         resident, restored, orphan, deletion, accepted, requests, crashes >>
<1> DEFINE S == IF byGoalLoop THEN {} ELSE Queued \cap GoalItems
<1>1. S \in SUBSET Queued
  OBVIOUS
<1>2. RemoveItems(S) /\ waiter' = Settled(S, "rejected") /\ Withdraw(S)
  BY DEF RefuseWhenFull
<1> QED BY <1>1, <1>2 DEF RefuseWhenFull, runVars, sessionVars, boundVars

LEMMA RefuseWhenFullType ==
  ASSUME TypeOK, NEW byGoalLoop \in BOOLEAN, RefuseWhenFull(byGoalLoop) PROVE TypeOK'
<1>1. PICK S \in SUBSET Queued :
        RemoveItems(S) /\ waiter' = Settled(S, "rejected") /\ Withdraw(S)
  BY RefusalRemoves
<1>2. TablesOK' /\ waiter' \in [Items -> Outcome] /\ history' \in History
  BY <1>1, RemoveItemsType, SettledType, WithdrawType DEF TypeOK, Outcome, Queued
<1>3. counter' \in 0 .. MaxSequence
  BY RefusalRemoves, BoundsAssumption DEF TypeOK
<1> QED BY <1>2, <1>3, RefusalRemoves DEF TypeOK, TablesOK

LEMMA DrainType ==
  ASSUME TypeOK, Drain PROVE TypeOK'
<1>1. CASE DrainEmpty
  <2>1. /\ drainTimer' \in BOOLEAN
        /\ UNCHANGED << queue, rows, counter, turn, lockQueue, controller, active, settling,
                        messages, waiter, resident, restored, orphan, deletion, accepted,
                        requests, crashes, history >>
    BY <1>1 DEF DrainEmpty, queueVars, runVars, sessionVars, boundVars
  <2> QED BY <2>1 DEF TypeOK
<1>2. ASSUME NEW i \in Items, DrainDrop(i) PROVE TypeOK'
  <2>1. TablesOK'
    BY <1>2, RemoveItemsType DEF DrainDrop
  <2>2. waiter' \in [Items -> Outcome]
    BY <1>2, SettledType DEF DrainDrop, TypeOK, Outcome
  <2>3. history' \in History
    BY <1>2 DEF DrainDrop, TypeOK, History
  <2>4. UNCHANGED << counter, drainTimer, turn, lockQueue, controller, active, settling,
                     messages, resident, restored, orphan, deletion, accepted, requests,
                     crashes >>
    BY <1>2 DEF DrainDrop, runVars, sessionVars, boundVars
  <2> QED BY <2>1, <2>2, <2>3, <2>4 DEF TypeOK, TablesOK, Outcome
<1>3. ASSUME NEW i \in Items, DrainAnswered(i) PROVE TypeOK'
  <2>1. TablesOK'
    BY <1>3, RemoveItemsType DEF DrainAnswered
  <2>2. waiter' \in [Items -> Outcome]
    BY <1>3, SettledType DEF DrainAnswered, TypeOK, Outcome
  <2>3. /\ resident' \in BOOLEAN
        /\ UNCHANGED << counter, drainTimer, turn, lockQueue, controller, active, settling,
                        messages, restored, orphan, deletion, accepted, requests, crashes,
                        history >>
    BY <1>3 DEF DrainAnswered, runVars, boundVars
  <2> QED BY <2>1, <2>2, <2>3 DEF TypeOK, TablesOK, Outcome
<1>4. ASSUME NEW i \in Items, DrainStart(i) PROVE TypeOK'
  <2>1. TablesOK'
    BY <1>4, EntryParts DEF DrainStart, TypeOK, TablesOK
  <2>2. User(i) \in Message
    BY DEF User, Message
  <2>3. messages' \in Seq(Message)
    BY <1>4, <2>2 DEF DrainStart, TypeOK
  <2> QED BY <1>4, <2>1, <2>3 DEF DrainStart, TypeOK, TablesOK, boundVars, Turn
<1> QED BY <1>1, <1>2, <1>3, <1>4 DEF Drain

LEMMA TurnStepType ==
  ASSUME TypeOK, TurnStep PROVE TypeOK'
<1>0. /\ User(Direct) \in Message /\ [kind |-> "reply", of |-> turn.item] \in Message
      /\ messages \in Seq(Message)
  BY DEF User, Message, TypeOK, Turn
<1>1. CASE TurnBegin
  <2>1. messages' \in Seq(Message)
    BY <1>0, <1>1 DEF TurnBegin
  <2>2. turn' \in Turn
    BY <1>1 DEF TurnBegin, TypeOK, Turn
  <2>3. /\ controller' = "live" /\ active' = TRUE /\ resident' = TRUE
        /\ UNCHANGED << queue, rows, counter, accepted, requests, crashes, drainTimer,
                        lockQueue, settling, waiter, restored, orphan, deletion, history >>
    BY <1>1 DEF TurnBegin, queueVars, boundVars
  <2> QED BY <2>1, <2>2, <2>3 DEF TypeOK, Controller
<1>2. CASE TurnRefused
  <2>1. turn' \in Turn
    BY <1>2 DEF TurnRefused, TypeOK, Turn
  <2>2. /\ resident' \in BOOLEAN
        /\ UNCHANGED << queue, rows, counter, accepted, requests, crashes, drainTimer,
                        lockQueue, controller, active, settling, messages, waiter,
                        restored, orphan, deletion, history >>
    BY <1>2 DEF TurnRefused, SessionExists, TypeOK, queueVars, boundVars
  <2> QED BY <2>1, <2>2 DEF TypeOK
<1>3. CASE TurnReply \/ TurnAbortFinish
  <2>1. messages' \in Seq(Message)
    BY <1>0, <1>3, PersistInterruptedGrows DEF TurnReply, TurnAbortFinish, MessagesGrow
  <2>2. turn' \in Turn
    BY <1>3 DEF TurnReply, TurnAbortFinish, TypeOK, Turn
  <2>3. waiter' \in [Items -> Outcome]
    BY <1>3, SettledType DEF TurnReply, TurnAbortFinish, TypeOK, Outcome
  <2>4. /\ controller' = "none" /\ active' = FALSE
        /\ UNCHANGED << queue, rows, counter, resident, restored, orphan, deletion, accepted,
                        requests, crashes, drainTimer, lockQueue, settling, history >>
    BY <1>3 DEF TurnReply, TurnAbortFinish, queueVars, sessionVars, boundVars
  <2> QED BY <2>1, <2>2, <2>3, <2>4 DEF TypeOK, Outcome, Controller
<1>4. CASE Throw
  <2>1. turn' \in Turn
    BY <1>4 DEF Throw, TypeOK, Turn
  <2>2. resident' \in BOOLEAN /\ controller' \in Controller
    BY <1>4 DEF Throw, TypeOK, Controller
  <2>3. UNCHANGED << queue, rows, counter, accepted, requests, crashes, drainTimer, lockQueue,
                     active, settling, messages, waiter, restored, orphan, deletion,
                     history >>
    BY <1>4 DEF Throw, queueVars, boundVars
  <2> QED BY <2>1, <2>2, <2>3 DEF TypeOK
<1> QED BY <1>1, <1>2, <1>3, <1>4 DEF TurnStep

\* The absorbed messages form a sequence of messages.
LEMMA AbsorbAppends ==
  ASSUME TypeOK, Absorb
  PROVE  \E s \in Seq(Message) :
           /\ messages' = messages \o s
           /\ \A i \in Steering : ~Recorded(i) => \E k \in DOMAIN s : s[k] = User(i)
<1> DEFINE new == {i \in Steering : ~Recorded(i)}
           n == Cardinality(new)
<1>1. PICK order \in [1 .. n -> new] :
        /\ \A k, l \in 1 .. n : k < l => Before(order[k], order[l])
        /\ messages' = messages \o [k \in 1 .. n |-> User(order[k])]
  BY DEF Absorb
<1> DEFINE s == [k \in 1 .. n |-> User(order[k])]
<1>2. n \in Nat /\ IsFiniteSet(new) /\ new \subseteq Items
  BY ItemSetsFinite DEF Steering, Queued
<1>3. \A i \in Items : User(i) \in Message
  BY DEF User, Message
<1>4. s \in Seq(Message)
  <2> HIDE DEF n
  <2> QED BY <1>2, <1>3
<1>5. ASSUME NEW i \in new PROVE \E k \in 1 .. n : order[k] = i
  <2>1. ASSUME NEW k \in 1 .. n, NEW l \in 1 .. n, k < l PROVE order[k] # order[l]
    <3>1. Before(order[k], order[l])
      BY <1>1, <2>1
    <3>2. order[k] \in Items
      BY <1>2
    <3>3. queue[order[k]].sequence \in Nat
      BY <3>2, BoundsAssumption DEF TypeOK, Entry
    <3> QED BY <3>1, <3>2, <3>3 DEF Before, Items
  <2>2. SUFFICES ASSUME \A k \in 1 .. n : order[k] # i PROVE FALSE
    OBVIOUS
  <2> HIDE DEF new
  <2>3. order \in [1 .. n -> new \ {i}]
    BY <2>2, <1>2
  <2>4. IsFiniteSet(new \ {i}) /\ Cardinality(new \ {i}) = n - 1
    BY <1>2, FS_RemoveElement
  <2>5. IsFiniteSet(1 .. n) /\ Cardinality(1 .. n) = n
    BY <1>2, FS_Interval
  <2> HIDE DEF n
  <2>6. \E k, l \in 1 .. n : k # l /\ order[k] = order[l]
    BY <2>3, <2>4, <2>5, <1>2, FS_PigeonHole
  <2> QED BY <2>6, <2>1, <1>2
<1>6. \A k \in 1 .. n : s[k] = User(order[k]) /\ k \in DOMAIN s
  OBVIOUS
<1> HIDE DEF s
<1>7. \A i \in Steering : ~Recorded(i) => \E k \in DOMAIN s : s[k] = User(i)
  BY <1>5, <1>6
<1> QED BY <1>1, <1>4, <1>7 DEF s

LEMMA AbsorbType == ASSUME TypeOK, Absorb PROVE TypeOK'
<1>1. TablesOK'
  BY RemoveItemsType DEF Absorb
<1>2. messages' \in Seq(Message)
  BY AbsorbAppends, ConcatGrows DEF MessagesGrow, TypeOK
<1>3. turn' \in Turn
  BY DEF Absorb, TypeOK, Steering, Queued, Turn
<1>4. UNCHANGED << resident, restored, orphan, deletion, accepted, requests, crashes, counter,
                   drainTimer, lockQueue, controller, active, settling, waiter, history >>
  BY DEF Absorb, sessionVars, boundVars
<1> QED BY <1>1, <1>2, <1>3, <1>4 DEF TypeOK, TablesOK

LEMMA TurnEndType == ASSUME TypeOK, TurnEnd PROVE TypeOK'
<1>1. [item |-> turn.item, outcome |-> turn.phase] \in FinishedTurn
  BY DEF TurnEnd, TypeOK, FinishedTurn, Turn
<1>2. settling' \in Seq(FinishedTurn)
  BY <1>1 DEF TurnEnd, TypeOK, FinishedTurn
<1>3. turn' \in Turn
  BY DEF TurnEnd, NoTurn, Turn
<1>4. UNCHANGED << queue, rows, counter, resident, restored, orphan, deletion, accepted,
                   requests, crashes, drainTimer, lockQueue, controller, active, messages,
                   waiter, history >>
  BY DEF TurnEnd, queueVars, sessionVars, boundVars
<1> QED BY <1>2, <1>3, <1>4 DEF TypeOK, FinishedTurn

\* The oldest finished turn, and what is left behind it.
LEMMA SettlingHead ==
  ASSUME TypeOK, settling # << >>
  PROVE  /\ Head(settling) \in FinishedTurn /\ Head(settling) = settling[1] /\ 1 \in DOMAIN settling
         /\ Tail(settling) \in Seq(FinishedTurn)
         /\ \A k \in DOMAIN Tail(settling) :
              k + 1 \in DOMAIN settling /\ Tail(settling)[k] = settling[k + 1]
<1>1. settling \in Seq(FinishedTurn)
  BY DEF TypeOK
<1>2. /\ settling[1] \in FinishedTurn /\ Tail(settling) \in Seq(FinishedTurn)
      /\ Len(Tail(settling)) = Len(settling) - 1
      /\ \A k \in 1 .. Len(Tail(settling)) : Tail(settling)[k] = settling[k + 1]
      /\ Len(settling) \in Nat /\ Len(settling) > 0
  BY <1>1, HeadTailProperties, EmptySeq
<1>3. Head(settling) = settling[1]
  BY <1>1
<1>4. /\ DOMAIN settling = 1 .. Len(settling)
      /\ DOMAIN Tail(settling) = 1 .. Len(Tail(settling))
  BY <1>1, <1>2
<1> QED BY <1>2, <1>3, <1>4

LEMMA SettleGrows == ASSUME TypeOK, Settle PROVE MessagesGrow
<1>1. messages \in Seq(Message) /\ Head(settling).item \in Items \cup {Direct}
  BY SettlingHead DEF TypeOK, Settle, FinishedTurn
<1>2. CASE Head(settling).outcome = "threw" /\ Head(settling).item # Direct
  BY <1>1, <1>2, RecordFailureGrows DEF Settle
<1>3. CASE ~(Head(settling).outcome = "threw" /\ Head(settling).item # Direct)
  BY <1>1, <1>3, StutterGrows DEF Settle
<1> QED BY <1>2, <1>3

LEMMA SettleType == ASSUME TypeOK, Settle PROVE TypeOK'
<1>1. TablesOK'
  BY RemoveItemsType DEF Settle
<1>2. messages' \in Seq(Message)
  BY SettleGrows DEF MessagesGrow
<1>3. waiter' \in [Items -> Outcome]
  BY SettledType DEF Settle, TypeOK, Outcome
<1>4. settling' \in Seq(FinishedTurn)
  BY SettlingHead DEF Settle
<1>5. /\ drainTimer' = TRUE
      /\ UNCHANGED << resident, restored, orphan, deletion, accepted, requests, crashes,
                      counter, turn, lockQueue, controller, active, history >>
  BY DEF Settle, sessionVars, boundVars
<1> QED BY <1>1, <1>2, <1>3, <1>4, <1>5 DEF TypeOK, TablesOK, Outcome, FinishedTurn

LEMMA StopType == ASSUME TypeOK, Stop \/ AbortRequest PROVE TypeOK'
<1>1. messages' \in Seq(Message) /\ controller' \in Controller
  BY StopTurnGrows DEF Stop, AbortRequest, MessagesGrow, TypeOK, Controller
<1>2. UNCHANGED << queue, rows, counter, resident, restored, orphan, deletion, accepted,
                   requests, crashes, drainTimer, turn, lockQueue, active, settling, waiter,
                   history >>
  BY DEF Stop, AbortRequest, queueVars, sessionVars, boundVars
<1> QED BY <1>1, <1>2 DEF TypeOK

LEMMA OtherHoldersType == ASSUME TypeOK, OtherHolders PROVE TypeOK'
<1>1. CASE RequestAgentUpdate
  <2>1. requests' \in 0 .. MaxRequests /\ lockQueue' \subseteq {"agentUpdate", "goalCommand"}
    BY <1>1, BoundsAssumption DEF RequestAgentUpdate, TypeOK
  <2>2. UNCHANGED << queue, rows, counter, resident, restored, orphan, deletion, accepted,
                     crashes, drainTimer, turn, controller, active, settling, messages,
                     waiter, history >>
    BY <1>1 DEF RequestAgentUpdate, queueVars, sessionVars
  <2> QED BY <2>1, <2>2 DEF TypeOK
<1>2. CASE AgentUpdated
  <2>1. /\ lockQueue' \subseteq {"agentUpdate", "goalCommand"} /\ resident' \in BOOLEAN
        /\ UNCHANGED << queue, rows, counter, accepted, requests, crashes, drainTimer, turn,
                        controller, active, settling, messages, waiter, restored, orphan,
                        deletion, history >>
    BY <1>2 DEF AgentUpdated, TypeOK, SessionExists, queueVars, boundVars
  <2> QED BY <2>1 DEF TypeOK
<1>3. CASE GoalCommand
  <2>1. TablesOK'
    BY <1>3, RemoveItemsType DEF GoalCommand
  <2>2. waiter' \in [Items -> Outcome]
    BY <1>3, SettledType DEF GoalCommand, TypeOK, Outcome
  <2>3. history' \in History
    BY <1>3, WithdrawType DEF GoalCommand, Queued
  <2>4. messages' \in Seq(Message) /\ controller' \in Controller
    BY <1>3, StopTurnGrows DEF GoalCommand, MessagesGrow
  <2>5. requests' \in 0 .. MaxRequests /\ lockQueue' \subseteq {"agentUpdate", "goalCommand"}
    BY <1>3, BoundsAssumption DEF GoalCommand, TypeOK
  <2>6. UNCHANGED << resident, restored, orphan, deletion, counter, drainTimer, turn, active,
                     settling, accepted, crashes >>
    BY <1>3 DEF GoalCommand, sessionVars
  <2> QED BY <2>1, <2>2, <2>3, <2>4, <2>5, <2>6 DEF TypeOK, TablesOK, Outcome
<1>4. CASE GoalCommandTurn
  <2>1. turn' \in Turn
    BY <1>4 DEF GoalCommandTurn, NoTurn, Turn
  <2>2. /\ lockQueue' \subseteq {"agentUpdate", "goalCommand"}
        /\ UNCHANGED << queue, rows, counter, resident, restored, orphan, deletion, accepted,
                        requests, crashes, drainTimer, controller, active, settling,
                        messages, waiter, history >>
    BY <1>4 DEF GoalCommandTurn, TypeOK, queueVars, sessionVars, boundVars
  <2> QED BY <2>1, <2>2 DEF TypeOK
<1> QED BY <1>1, <1>2, <1>3, <1>4 DEF OtherHolders

LEMMA StatusExpireType == ASSUME TypeOK, StatusExpire PROVE TypeOK'
<1>1. /\ active' = FALSE
      /\ UNCHANGED << queue, rows, counter, resident, restored, orphan, deletion, accepted,
                      requests, crashes, drainTimer, turn, lockQueue, controller, settling,
                      messages, waiter, history >>
  BY DEF StatusExpire, queueVars, sessionVars, boundVars
<1> QED BY <1>1 DEF TypeOK

LEMMA RestartType == ASSUME TypeOK, Restart PROVE TypeOK'
<1>0. << >> \in Seq(FinishedTurn) /\ 0 \in 0 .. MaxSequence
  BY BoundsAssumption
<1>5. [i \in Items |-> Absent] \in [Items -> Entry]
  BY EntryParts
<1>1. CASE Crash
  <2>1. crashes' \in 0 .. MaxCrashes
    BY <1>1, BoundsAssumption DEF Crash, TypeOK
  <2>2. waiter' \in [Items -> Outcome]
    BY <1>1, SettledType DEF Crash, TypeOK, Outcome
  <2>3. turn' \in Turn
    BY <1>1 DEF Crash, NoTurn, Turn
  <2>4. orphan' \in BOOLEAN /\ deletion' \in {"none", "waiting", "releasing", "gone"}
    BY <1>1 DEF Crash, TypeOK
  <2>5. /\ queue' = [i \in Items |-> Absent] /\ counter' = 0 /\ drainTimer' = FALSE
        /\ lockQueue' = {} /\ controller' = "none" /\ active' = FALSE /\ settling' = << >>
        /\ resident' = FALSE /\ restored' = FALSE
        /\ UNCHANGED << rows, messages, accepted, requests, history >>
    BY <1>1 DEF Crash
  <2> QED BY <1>0, <1>5, <2>1, <2>2, <2>3, <2>4, <2>5 DEF TypeOK, Outcome, FinishedTurn, Controller
<1>2. CASE Restore
  <2>1. queue' \in [Items -> Entry]
    BY <1>2 DEF Restore, TypeOK
  <2>2. counter' \in 0 .. MaxSequence
    BY <1>2 DEF Restore, TypeOK, Entry
  <2>3. drainTimer' \in BOOLEAN
    BY <1>2 DEF Restore, TypeOK
  <2>4. /\ restored' = TRUE
        /\ UNCHANGED << turn, lockQueue, controller, active, settling, accepted, requests,
                        crashes, rows, messages, waiter, resident, orphan, deletion, history >>
    BY <1>2 DEF Restore, runVars, boundVars
  <2> QED BY <2>1, <2>2, <2>3, <2>4 DEF TypeOK
<1>3. CASE OpenSession
  <2>1. messages \in Seq(Message) /\ [kind |-> "recovered", of |-> Direct] \in Message
    BY DEF TypeOK, Message
  <2>2. messages' \in Seq(Message)
    BY <1>3, <2>1, InsertAfterLastUserGrows DEF OpenSession, MessagesGrow
  <2>3. /\ resident' = TRUE /\ orphan' = FALSE
        /\ UNCHANGED << queue, rows, counter, turn, lockQueue, controller, active, settling,
                        accepted, requests, crashes, drainTimer, waiter, restored, deletion,
                        history >>
    BY <1>3 DEF OpenSession, queueVars, runVars, boundVars
  <2> QED BY <2>2, <2>3 DEF TypeOK
<1>4. ASSUME NEW i \in Items, CrashMaterializing(i) PROVE TypeOK'
  <2>1. crashes' \in 0 .. MaxCrashes
    BY <1>4, BoundsAssumption DEF CrashMaterializing, TypeOK
  <2>2. waiter' \in [Items -> Outcome]
    BY <1>4, SettledType DEF CrashMaterializing, TypeOK, Outcome
  <2>3. User(i) \in Message
    BY DEF User, Message
  <2>4. messages' \in Seq(Message)
    BY <1>4, <2>3 DEF CrashMaterializing, TypeOK
  <2>5. deletion' \in {"none", "waiting", "releasing", "gone"}
    BY <1>4 DEF CrashMaterializing, TypeOK
  <2>6. /\ queue' = [j \in Items |-> Absent] /\ counter' = 0 /\ drainTimer' = FALSE
        /\ controller' = "none" /\ settling' = << >>
        /\ resident' = FALSE /\ restored' = FALSE /\ orphan' = FALSE
        /\ UNCHANGED << rows, turn, lockQueue, active, accepted, requests, history >>
    BY <1>4 DEF CrashMaterializing
  <2> QED BY <1>0, <1>5, <2>1, <2>2, <2>4, <2>5, <2>6 DEF TypeOK, Outcome, FinishedTurn, Controller
<1> QED BY <1>1, <1>2, <1>3, <1>4 DEF Restart

LEMMA DeleteType == ASSUME TypeOK, Delete PROVE TypeOK'
<1>1. CASE DeleteBegin
  <2>1. waiter' \in [Items -> Outcome]
    BY <1>1, SettledType DEF DeleteBegin, TypeOK, Outcome
  <2>2. /\ deletion' = "waiting" /\ controller' \in Controller
        /\ UNCHANGED << queue, rows, counter, accepted, requests, crashes, drainTimer, turn,
                        lockQueue, active, settling, messages, resident, restored, orphan,
                        history >>
    BY <1>1 DEF DeleteBegin, TypeOK, queueVars, boundVars, Controller
  <2> QED BY <2>1, <2>2 DEF TypeOK, Outcome
<1>2. CASE DeleteIdle
  <2>1. /\ deletion' = "releasing"
        /\ UNCHANGED << queue, rows, counter, turn, lockQueue, controller, active, settling,
                        accepted, requests, crashes, drainTimer, messages, waiter, resident,
                        restored, orphan, history >>
    BY <1>2 DEF DeleteIdle, queueVars, runVars, boundVars
  <2> QED BY <2>1 DEF TypeOK
<1>3. CASE DeleteWipe
  <2>1. history' \in History
    BY <1>3, WithdrawType DEF DeleteWipe
  <2>2. /\ queue' = [i \in Items |-> Absent] /\ rows' = [i \in Items |-> Absent]
        /\ drainTimer' = FALSE /\ messages' = << >> /\ resident' = FALSE /\ orphan' = FALSE
        /\ deletion' = "gone"
        /\ UNCHANGED << turn, lockQueue, controller, active, settling, accepted, requests,
                        crashes, counter, waiter, restored >>
    BY <1>3 DEF DeleteWipe, runVars, boundVars
  <2>3. [i \in Items |-> Absent] \in [Items -> Entry]
    BY EntryParts
  <2>4. << >> \in Seq(Message)
    OBVIOUS
  <2> QED BY <2>1, <2>2, <2>3, <2>4 DEF TypeOK
<1> QED BY <1>1, <1>2, <1>3 DEF Delete

LEMMA NextTypeOK == TypeOK /\ [Next]_vars => TypeOK'
<1> SUFFICES ASSUME TypeOK, [Next]_vars PROVE TypeOK'
  OBVIOUS
<1>1. CASE QueueRequest
  BY <1>1, SendDirectType, RefuseWhenFullType, ReorderType, EnqueueType, SteerType,
     DeletePendingType DEF QueueRequest
<1>2. CASE Next /\ ~QueueRequest
  BY <1>2, DrainType, TurnStepType, AbsorbType, TurnEndType, SettleType, StopType,
     OtherHoldersType, StatusExpireType, RestartType, DeleteType DEF Next
<1>3. CASE UNCHANGED vars
  BY <1>3 DEF vars, TypeOK, queueVars, runVars, sessionVars, boundVars
<1> QED BY <1>1, <1>2, <1>3

\* Every variable keeps its type, for every instance.
THEOREM TypeCorrect == Spec => []TypeOK
<1> QED BY InitTypeOK, NextTypeOK, PTL DEF Spec

-----------------------------------------------------------------------------
(* Memory mirrors the table. *)

\* The invariant, item by item.
LEMMA MirrorRule ==
  ASSUME TablesOK',
         \A i \in Items : queue'[i].mode # "absent" => rows'[i] = queue'[i],
         restored' => \A i \in Items : rows'[i] = queue'[i]
  PROVE  QueueMirrorsTable'
<1>1. restored' => rows' = queue'
  BY DEF TablesOK
<1> QED BY <1>1 DEF QueueMirrorsTable, Queued

\* A step that changes the same entries alike in memory and in the table.
LEMMA MirrorAlike ==
  ASSUME TypeOK, QueueMirrorsTable, TablesOK', restored' = restored,
         \A i \in Items : \/ queue'[i] = queue[i] /\ rows'[i] = rows[i]
                          \/ rows'[i] = queue'[i]
  PROVE  QueueMirrorsTable'
<1>1. \A i \in Items : queue'[i].mode # "absent" => rows'[i] = queue'[i]
  BY DEF QueueMirrorsTable, Queued
<1>2. restored' => \A i \in Items : rows'[i] = queue'[i]
  BY DEF QueueMirrorsTable
<1> QED BY <1>1, <1>2, MirrorRule

LEMMA RemoveItemsMirrors ==
  ASSUME TypeOK, QueueMirrorsTable, NEW S, RemoveItems(S), restored' = restored
  PROVE  QueueMirrorsTable'
<1>1. \A i \in Items : \/ queue'[i] = queue[i] /\ rows'[i] = rows[i]
                       \/ rows'[i] = queue'[i]
  BY DropType DEF RemoveItems, TypeOK
<1> QED BY <1>1, RemoveItemsType, MirrorAlike

\* Acceptance writes the same entry to both.
LEMMA AcceptMirrors ==
  ASSUME TypeOK, QueueMirrorsTable, NEW i \in Items, NEW mode \in {"queued", "steering"},
         NEW superseded \in SUBSET Items, Accept(i, mode, superseded), restored' = restored
  PROVE  QueueMirrorsTable'
<1> DEFINE entry == [mode |-> mode, materialized |-> FALSE, sequence |-> counter + 1]
<1>1. /\ queue' = [Drop(queue, superseded) EXCEPT ![i] = entry]
      /\ rows' = [Drop(rows, superseded) EXCEPT ![i] = entry]
  BY DEF Accept
<1> HIDE DEF entry
<1>2. \A j \in Items : \/ queue'[j] = queue[j] /\ rows'[j] = rows[j]
                       \/ rows'[j] = queue'[j]
  BY <1>1 DEF Drop
<1> QED BY <1>2, AcceptType, MirrorAlike

LEMMA QueueRequestMirrors ==
  ASSUME TypeOK, QueueMirrorsTable, QueueRequest
  PROVE  QueueMirrorsTable'
<1>1. CASE SendDirect
  BY <1>1 DEF SendDirect, QueueMirrorsTable, Queued, queueVars, sessionVars
<1>6. ASSUME NEW byGoalLoop \in BOOLEAN, RefuseWhenFull(byGoalLoop) PROVE QueueMirrorsTable'
  BY <1>6, RefusalRemoves, RemoveItemsMirrors
<1>2. CASE Reorder
  <2>1. TablesOK' /\ restored' = restored
    BY <1>2, ReorderType DEF Reorder, TypeOK, TablesOK, sessionVars
  <2>2. \A i \in Items : \/ queue'[i] = queue[i] /\ rows'[i] = rows[i]
                         \/ rows'[i] = queue'[i]
    BY <1>2 DEF Reorder, Visible
  <2> QED BY <2>1, <2>2, MirrorAlike
<1>3. ASSUME NEW i \in Items, NEW mode \in {"queued", "steering"},
             Enqueue(i, mode) \/ EnqueueGoalIteration(i)
      PROVE  QueueMirrorsTable'
  <2>1. PICK m \in {"queued", "steering"}, S \in SUBSET Items : Accept(i, m, S)
    BY <1>3 DEF Enqueue, EnqueueGoalIteration, Queued
  <2>2. restored' = restored
    BY <1>3 DEF Enqueue, EnqueueGoalIteration, sessionVars
  <2> QED BY <2>1, <2>2, AcceptMirrors
<1>4. ASSUME NEW i \in Items, Steer(i) PROVE QueueMirrorsTable'
  <2>1. TablesOK' /\ restored' = restored
    BY <1>4, SteerType DEF Steer, TypeOK, TablesOK, sessionVars
  <2>2. \A j \in Items : \/ queue'[j] = queue[j] /\ rows'[j] = rows[j]
                         \/ rows'[j] = queue'[j]
    <3>1. PICK entry : /\ queue' = [queue EXCEPT ![i] = entry]
                       /\ rows' = [rows EXCEPT ![i] = entry]
      BY <1>4 DEF Steer
    <3> QED BY <3>1 DEF TypeOK
  <2> QED BY <2>1, <2>2, MirrorAlike
<1>5. ASSUME NEW i \in Items, DeletePending(i) PROVE QueueMirrorsTable'
  BY <1>5, RemoveItemsMirrors DEF DeletePending, sessionVars
<1> QED BY <1>1, <1>2, <1>3, <1>4, <1>5, <1>6 DEF QueueRequest

LEMMA DrainMirrors == ASSUME TypeOK, QueueMirrorsTable, Drain PROVE QueueMirrorsTable'
<1>1. CASE DrainEmpty
  BY <1>1 DEF DrainEmpty, QueueMirrorsTable, Queued, queueVars, sessionVars
<1>2. ASSUME NEW i \in Items, DrainDrop(i) \/ DrainAnswered(i) PROVE QueueMirrorsTable'
  BY <1>2, RemoveItemsMirrors DEF DrainDrop, DrainAnswered, sessionVars
<1>3. ASSUME NEW i \in Items, DrainStart(i) PROVE QueueMirrorsTable'
  <2>1. TablesOK' /\ restored' = restored
    BY <1>3, EntryParts DEF DrainStart, TypeOK, TablesOK
  <2>2. \A j \in Items : \/ queue'[j] = queue[j] /\ rows'[j] = rows[j]
                         \/ rows'[j] = queue'[j]
    BY <1>3 DEF DrainStart, TypeOK
  <2> QED BY <2>1, <2>2, MirrorAlike
<1> QED BY <1>1, <1>2, <1>3 DEF Drain

LEMMA RestartMirrors == ASSUME TypeOK, QueueMirrorsTable, Restart PROVE QueueMirrorsTable'
<1>0. Absent.mode = "absent"
  BY DEF Absent
<1>1. CASE Crash
  BY <1>0, <1>1 DEF Crash, QueueMirrorsTable, Queued
<1>2. CASE Restore
  <2>1. TablesOK'
    BY <1>2, RestartType DEF Restart, TypeOK, TablesOK
  <2>2. \A i \in Items : rows'[i] = queue'[i]
    BY <1>2 DEF Restore, QueueMirrorsTable
  <2> QED BY <2>1, <2>2, MirrorRule
<1>3. CASE OpenSession
  BY <1>3 DEF OpenSession, QueueMirrorsTable, Queued, queueVars
<1>4. ASSUME NEW i \in Items, CrashMaterializing(i) PROVE QueueMirrorsTable'
  BY <1>0, <1>4 DEF CrashMaterializing, QueueMirrorsTable, Queued
<1> QED BY <1>1, <1>2, <1>3, <1>4 DEF Restart

LEMMA NextMirrors == TypeOK /\ QueueMirrorsTable /\ [Next]_vars => QueueMirrorsTable'
<1> SUFFICES ASSUME TypeOK, QueueMirrorsTable, [Next]_vars PROVE QueueMirrorsTable'
  OBVIOUS
<1>1. CASE QueueRequest \/ Drain \/ Restart
  BY <1>1, QueueRequestMirrors, DrainMirrors, RestartMirrors
<1>2. CASE Absorb \/ Settle \/ GoalCommand
  BY <1>2, RemoveItemsMirrors DEF Absorb, Settle, GoalCommand, sessionVars
<1>3. CASE TurnStep \/ TurnEnd \/ Stop \/ AbortRequest
  <2>1. UNCHANGED << queue, rows, restored >>
    BY <1>3, Zenon DEF TurnStep, TurnBegin, TurnRefused, TurnReply, TurnAbortFinish, Throw,
       TurnEnd, Stop, AbortRequest, queueVars, sessionVars
  <2> QED BY <2>1 DEF QueueMirrorsTable, Queued
<1>4. CASE RequestAgentUpdate \/ AgentUpdated \/ GoalCommandTurn \/ StatusExpire
  BY <1>4 DEF RequestAgentUpdate, AgentUpdated, GoalCommandTurn, StatusExpire,
     QueueMirrorsTable, Queued, queueVars, sessionVars
<1>5. CASE Delete
  <2>1. CASE DeleteBegin \/ DeleteIdle
    BY <2>1 DEF DeleteBegin, DeleteIdle, QueueMirrorsTable, Queued, queueVars
  <2>2. CASE DeleteWipe
    BY <2>2 DEF DeleteWipe, QueueMirrorsTable, Queued, Absent
  <2> QED BY <1>5, <2>1, <2>2 DEF Delete
<1>6. CASE UNCHANGED vars
  BY <1>6 DEF vars, QueueMirrorsTable, Queued, queueVars, sessionVars
<1> QED BY <1>1, <1>2, <1>3, <1>4, <1>5, <1>6 DEF Next, OtherHolders

\* Every queued entry is in the table as it is in memory, whatever the requests, turns
\* and restarts: the writes to pending_chat_messages never miss one of pendingChatQueues.
THEOREM MemoryMirrorsTable == Spec => []QueueMirrorsTable
<1>1. Init => QueueMirrorsTable
  BY DEF Init, QueueMirrorsTable
<1> QED BY <1>1, TypeCorrect, NextMirrors, PTL DEF Spec

-----------------------------------------------------------------------------
(* No accepted follow-up is lost. *)

Accounted == history.withdrawn \cup history.dropped

\* What every step but the deletion does: the transcript keeps its messages, an item
\* that leaves the table is accounted for, and a newly accepted one is in it.
Accounts ==
  /\ MessagesGrow
  /\ Accounted \subseteq Accounted'
  /\ \A i \in Items : rows[i] # Absent => rows'[i] # Absent \/ i \in Accounted' \/ Recorded(i)'
  /\ \A i \in 1 .. accepted' : i \in 1 .. accepted \/ rows'[i] # Absent

\* Nor does a step give a turn to an item whose message is not recorded.
RecordsRuns == \A i \in Items : InTurn(i)' => InTurn(i) \/ Recorded(i)'

\* Steps that leave the table and the bookkeeping alone.
LEMMA QuietAccounts ==
  ASSUME MessagesGrow, UNCHANGED << rows, accepted, history >>
  PROVE  Accounts
  BY DEF Accounts, Accounted

\* Steps that withdraw or drop what they remove.
LEMMA RemoveAccounts ==
  ASSUME TypeOK, MessagesGrow, NEW S, RemoveItems(S), accepted' = accepted,
         Accounted \subseteq Accounted',
         \A i \in S \cap Items : rows[i] # Absent => i \in Accounted' \/ Recorded(i)'
  PROVE  Accounts
<1>1. \A i \in Items : i \notin S => rows'[i] = rows[i]
  BY DropType DEF RemoveItems, TypeOK
<1> QED BY <1>1 DEF Accounts

LEMMA KeepRule ==
  ASSUME TypeOK, NoFollowUpLost, RunsAreRecorded, Accounts, RecordsRuns,
         deletion' # "gone" => deletion # "gone", accepted' \in 0 .. NumItems
  PROVE  NoFollowUpLost' /\ RunsAreRecorded'
<1>1. NoFollowUpLost'
  <2> SUFFICES ASSUME deletion' # "gone", NEW i \in 1 .. accepted'
               PROVE  i \in Accounted' \/ rows'[i] # Absent \/ Recorded(i)'
    BY DEF NoFollowUpLost, Accounted
  <2>1. i \in Items
    BY ItemsAssumption DEF Items
  <2>2. CASE i \in 1 .. accepted
    BY <2>1, <2>2 DEF NoFollowUpLost, Accounts, Accounted, MessagesGrow
  <2>3. CASE i \notin 1 .. accepted
    BY <2>3 DEF Accounts
  <2> QED BY <2>2, <2>3
<1>2. RunsAreRecorded'
  BY DEF RunsAreRecorded, RecordsRuns, Accounts, MessagesGrow
<1> QED BY <1>1, <1>2

LEMMA SameRuns ==
  ASSUME turn'.item \in {turn.item, Direct}, settling' = settling
  PROVE  RecordsRuns
  BY DEF RecordsRuns, InTurn, Items, Direct

\* Steps that touch neither the transcript, the table nor the bookkeeping.
LEMMA IdleStep ==
  ASSUME TypeOK, UNCHANGED << messages, rows, accepted, history, settling >>,
         turn'.item \in {turn.item, Direct}
  PROVE  Accounts /\ RecordsRuns
<1>1. MessagesGrow
  BY StutterGrows DEF TypeOK
<1> QED BY <1>1, QuietAccounts, SameRuns

LEMMA QueueRequestAccounts ==
  ASSUME TypeOK, QueueRequest PROVE Accounts /\ RecordsRuns
<1>1. CASE SendDirect
  BY <1>1, IdleStep DEF SendDirect, NoTurn, queueVars, runVars, boundVars
<1>2. MessagesGrow /\ RecordsRuns
  <2>1. messages' = messages /\ settling' = settling /\ turn'.item \in {turn.item, Direct}
    BY Zenon DEF QueueRequest, SendDirect, RefuseWhenFull, Reorder, Enqueue,
       EnqueueGoalIteration, Steer, DeletePending, runVars, NoTurn
  <2> QED BY <2>1, StutterGrows, SameRuns DEF TypeOK
<1>3. CASE Reorder
  <2>1. ASSUME NEW i \in Items, rows[i] # Absent PROVE rows'[i] # Absent
    <3>1. CASE i \in Queued
      <4>1. PICK n : rows'[i] \in {queue[i], [queue[i] EXCEPT !.sequence = n]}
        BY <1>3, <3>1 DEF Reorder
      <4>2. queue[i] \in Entry /\ queue[i].mode # "absent"
        BY <3>1 DEF Queued, TypeOK
      <4> QED BY <4>1, <4>2 DEF Entry, Absent
    <3>2. CASE i \notin Queued
      BY <1>3, <2>1, <3>2 DEF Reorder
    <3> QED BY <3>1, <3>2
  <2> QED BY <2>1, <1>2, <1>3 DEF Reorder, Accounts, Accounted, boundVars, TypeOK, History
<1>4. ASSUME NEW i \in Items, NEW mode \in {"queued", "steering"},
             Enqueue(i, mode) \/ EnqueueGoalIteration(i)
      PROVE  Accounts
  <2>1. PICK m \in {"queued", "steering"}, S \in SUBSET Items : Accept(i, m, S)
    BY <1>4 DEF Enqueue, EnqueueGoalIteration, Queued
  <2>2. Accounted' = Accounted \cup S
    BY <2>1 DEF Accept, Withdraw, Accounted, TypeOK, History
  <2>3. rows'[i] # Absent /\ \A j \in Items : j # i /\ j \notin S => rows'[j] = rows[j]
    BY <2>1, DropType DEF Accept, TypeOK, Absent
  <2>4. accepted' = i /\ i = accepted + 1
    BY <1>4, <2>1 DEF Accept, Enqueue, EnqueueGoalIteration
  <2>5. \A j \in 1 .. accepted' : j \in 1 .. accepted \/ j = i
    BY <2>4 DEF TypeOK
  <2> QED BY <1>2, <2>2, <2>3, <2>5 DEF Accounts
<1>5. ASSUME NEW i \in Items, Steer(i) PROVE Accounts
  <2>1. \A j \in Items : rows[j] # Absent => rows'[j] # Absent
    BY <1>5 DEF Steer, TypeOK, Absent
  <2> QED BY <2>1, <1>2, <1>5 DEF Steer, Accounts, Accounted, TypeOK, History
<1>6. ASSUME NEW i \in Items, DeletePending(i) PROVE Accounts
  <2>1. Accounted' = Accounted \cup {i} /\ accepted' = accepted
    BY <1>6 DEF DeletePending, Withdraw, Accounted, TypeOK, History, boundVars
  <2> QED BY <2>1, <1>2, <1>6, RemoveAccounts DEF DeletePending
<1>7. ASSUME NEW byGoalLoop \in BOOLEAN, RefuseWhenFull(byGoalLoop) PROVE Accounts
  <2>1. PICK S \in SUBSET Queued : RemoveItems(S) /\ Withdraw(S)
    BY <1>7, RefusalRemoves
  <2>2. Accounted' = Accounted \cup S /\ accepted' = accepted
    BY <1>7, <2>1, RefusalRemoves DEF Withdraw, Accounted, TypeOK, History
  <2> QED BY <2>1, <2>2, <1>2, RemoveAccounts
<1> QED BY <1>1, <1>2, <1>3, <1>4, <1>5, <1>6, <1>7 DEF QueueRequest

LEMMA DrainAccounts == ASSUME TypeOK, Drain PROVE Accounts /\ RecordsRuns
<1>1. CASE DrainEmpty
  BY <1>1, IdleStep DEF DrainEmpty, queueVars, runVars, boundVars
<1>2. ASSUME NEW i \in Items, DrainDrop(i) PROVE Accounts /\ RecordsRuns
  <2>1. MessagesGrow /\ RecordsRuns
    BY <1>2, StutterGrows, SameRuns DEF DrainDrop, runVars, TypeOK
  <2>2. Accounted' = Accounted \cup {i} /\ accepted' = accepted
    BY <1>2 DEF DrainDrop, Accounted, TypeOK, History, boundVars
  <2> QED BY <2>1, <2>2, <1>2, RemoveAccounts DEF DrainDrop
<1>3. ASSUME NEW i \in Items, DrainAnswered(i) PROVE Accounts /\ RecordsRuns
  <2>1. MessagesGrow /\ RecordsRuns
    BY <1>3, StutterGrows, SameRuns DEF DrainAnswered, runVars, TypeOK
  <2>2. Accounted' = Accounted /\ accepted' = accepted
    BY <1>3 DEF DrainAnswered, Accounted, boundVars
  <2>3. Recorded(i)'
    BY <1>3, <2>1 DEF DrainAnswered, Answered, Recorded, MessagesGrow
  <2> QED BY <2>1, <2>2, <2>3, <1>3, RemoveAccounts DEF DrainAnswered
<1>4. ASSUME NEW i \in Items, DrainStart(i) PROVE Accounts /\ RecordsRuns
  <2>1. messages \in Seq(Message) /\ User(i) \in Message
    BY DEF TypeOK, User, Message
  <2>2. MessagesGrow /\ Recorded(i)'
    <3>1. CASE Recorded(i)
      BY <1>4, <2>1, <3>1, StutterGrows DEF DrainStart, MessagesGrow
    <3>2. CASE ~Recorded(i)
      <4>1. messages' = Append(messages, User(i))
        BY <1>4, <3>2 DEF DrainStart
      <4>2. MessagesGrow /\ \E k \in DOMAIN messages' : messages'[k] = User(i)
        BY <4>1, <2>1, AppendGrows
      <4> QED BY <4>2 DEF Recorded, User
    <3> QED BY <3>1, <3>2
  <2>3. RecordsRuns
    BY <1>4, <2>2 DEF DrainStart, RecordsRuns, InTurn
  <2>4. \A j \in Items : rows[j] # Absent => rows'[j] # Absent
    BY <1>4 DEF DrainStart, TypeOK, Absent, IsHead, Queued
  <2>5. UNCHANGED << accepted, history >>
    BY <1>4 DEF DrainStart, boundVars
  <2> QED BY <2>2, <2>3, <2>4, <2>5 DEF Accounts, Accounted
<1> QED BY <1>1, <1>2, <1>3, <1>4 DEF Drain

LEMMA TurnStepAccounts ==
  ASSUME TypeOK, TurnStep \/ TurnEnd PROVE Accounts /\ RecordsRuns
<1>1. UNCHANGED << rows, accepted, history >>
  BY DEF TurnStep, TurnBegin, TurnRefused, TurnReply, TurnAbortFinish, Throw, TurnEnd,
     queueVars, boundVars
<1>2. MessagesGrow
  <2>1. /\ messages \in Seq(Message) /\ User(Direct) \in Message
        /\ [kind |-> "reply", of |-> turn.item] \in Message
    BY DEF TypeOK, Message, User, Turn
  <2>2. CASE TurnBegin \/ TurnReply
    BY <2>1, <2>2, AppendGrows, StutterGrows DEF TurnBegin, TurnReply
  <2>3. CASE TurnAbortFinish
    BY <2>3, PersistInterruptedGrows DEF TurnAbortFinish
  <2>4. CASE TurnRefused \/ Throw \/ TurnEnd
    BY <2>1, <2>4, StutterGrows DEF TurnRefused, Throw, TurnEnd
  <2> QED BY <2>2, <2>3, <2>4 DEF TurnStep
<1>3. CASE TurnStep
  <2>1. settling' = settling
    BY <1>3 DEF TurnStep, TurnBegin, TurnRefused, TurnReply, TurnAbortFinish, Throw
  <2>2. turn'.item = turn.item
    BY <1>3 DEF TurnStep, TurnBegin, TurnRefused, TurnReply, TurnAbortFinish, Throw, TypeOK,
       Turn
  <2> QED BY <1>1, <1>2, <2>1, <2>2, QuietAccounts, SameRuns
<1>4. CASE TurnEnd
  <2> DEFINE finished == [item |-> turn.item, outcome |-> turn.phase]
  <2>1. settling' = Append(settling, finished) /\ turn'.item = Direct
    BY <1>4 DEF TurnEnd, NoTurn
  <2>2. finished \in FinishedTurn /\ finished.item = turn.item
    BY <1>4 DEF TurnEnd, TypeOK, Turn, FinishedTurn
  <2> HIDE DEF finished
  <2>3. \A k \in DOMAIN settling' :
          settling'[k] = finished \/ (k \in DOMAIN settling /\ settling'[k] = settling[k])
    BY <2>1, <2>2 DEF TypeOK
  <2>4. RecordsRuns
    BY <2>1, <2>2, <2>3 DEF RecordsRuns, InTurn, Items, Direct
  <2> QED BY <1>1, <1>2, <2>4, QuietAccounts
<1> QED BY <1>3, <1>4

LEMMA AbsorbAccounts == ASSUME TypeOK, Absorb PROVE Accounts /\ RecordsRuns
<1>1. PICK s \in Seq(Message) :
        /\ messages' = messages \o s
        /\ \A i \in Steering : ~Recorded(i) => \E k \in DOMAIN s : s[k] = User(i)
  BY AbsorbAppends
<1>2. MessagesGrow
  BY <1>1, ConcatGrows DEF TypeOK
<1>3. \A i \in Steering : i \in Items /\ Recorded(i)'
  <2> TAKE i \in Steering
  <2>1. CASE Recorded(i)
    BY <1>2, <2>1 DEF MessagesGrow, Steering, Queued
  <2>2. CASE ~Recorded(i)
    <3>1. PICK k \in DOMAIN s : s[k] = User(i)
      BY <1>1, <2>2
    <3>2. /\ Len(messages) + k \in DOMAIN messages'
          /\ messages'[Len(messages) + k] = s[k]
      BY <1>1 DEF TypeOK
    <3> QED BY <3>1, <3>2 DEF Recorded, User, Steering, Queued
  <2> QED BY <2>1, <2>2
<1>4. UNCHANGED << accepted, history, settling >> /\ turn'.item = turn.item
  BY DEF Absorb, boundVars, TypeOK, Turn
<1>5. Accounts
  BY <1>2, <1>3, <1>4, RemoveAccounts DEF Absorb, Accounted
<1> QED BY <1>4, <1>5, SameRuns

\* The row of a finished turn goes only when its message is recorded.
LEMMA SettleAccounts ==
  ASSUME TypeOK, RunsAreRecorded, deletion # "gone", Settle
  PROVE  Accounts /\ RecordsRuns
<1> DEFINE item == Head(settling).item
<1>1. RemoveItems({item} \ {Direct}) /\ UNCHANGED << accepted, history, turn >>
  BY DEF Settle, boundVars
<1>2. InTurn(item)
  BY SettlingHead DEF Settle, InTurn
<1>3. \A i \in ({item} \ {Direct}) \cap Items : Recorded(i)'
  BY <1>2, SettleGrows DEF RunsAreRecorded, MessagesGrow
<1>4. Accounts
  BY <1>1, <1>3, SettleGrows, RemoveAccounts DEF Accounted
<1>5. RecordsRuns
  BY <1>1, SettlingHead DEF Settle, RecordsRuns, InTurn
<1> QED BY <1>4, <1>5

LEMMA OtherStepsAccount ==
  ASSUME TypeOK, Stop \/ AbortRequest \/ OtherHolders \/ StatusExpire
  PROVE  Accounts /\ RecordsRuns
<1>1. CASE Stop \/ AbortRequest
  <2>1. MessagesGrow
    BY <1>1, StopTurnGrows, StutterGrows DEF Stop, AbortRequest, TypeOK
  <2> QED BY <1>1, <2>1, QuietAccounts, SameRuns DEF Stop, AbortRequest, queueVars, boundVars
<1>2. CASE RequestAgentUpdate \/ AgentUpdated \/ GoalCommandTurn \/ StatusExpire
  BY <1>2, IdleStep DEF RequestAgentUpdate, AgentUpdated, GoalCommandTurn, StatusExpire,
     NoTurn, queueVars, boundVars
<1>3. CASE GoalCommand
  <2> DEFINE goals == Queued \cap GoalItems
  <2>1. MessagesGrow /\ RecordsRuns
    BY <1>3, StopTurnGrows, SameRuns DEF GoalCommand
  <2>2. Accounted' = Accounted \cup goals /\ accepted' = accepted /\ RemoveItems(goals)
    BY <1>3 DEF GoalCommand, Withdraw, Accounted, TypeOK, History
  <2> HIDE DEF goals
  <2>3. Accounts
    BY <2>1, <2>2, RemoveAccounts
  <2> QED BY <2>1, <2>3
<1> QED BY <1>1, <1>2, <1>3 DEF OtherHolders

LEMMA RestartAccounts == ASSUME TypeOK, Restart PROVE Accounts /\ RecordsRuns
<1>1. UNCHANGED << rows, accepted, history >>
  BY DEF Restart, Crash, Restore, OpenSession, CrashMaterializing, queueVars, boundVars
<1>2. MessagesGrow
  <2>1. messages \in Seq(Message) /\ [kind |-> "recovered", of |-> Direct] \in Message
    BY DEF TypeOK, Message
  <2>2. CASE Crash \/ Restore
    BY <2>1, <2>2, StutterGrows DEF Crash, Restore
  <2>3. CASE OpenSession
    BY <2>1, <2>3, StutterGrows, InsertAfterLastUserGrows DEF OpenSession
  <2>4. ASSUME NEW i \in Items, CrashMaterializing(i) PROVE MessagesGrow
    BY <2>1, <2>4, AppendGrows DEF CrashMaterializing, User, Message
  <2> QED BY <2>2, <2>3, <2>4 DEF Restart
<1>3. RecordsRuns
  BY DEF Restart, Crash, Restore, OpenSession, CrashMaterializing, runVars, NoTurn, Direct,
     RecordsRuns, InTurn, Items
<1> QED BY <1>1, <1>2, <1>3, QuietAccounts

\* No step revives a deleted session.
LEMMA GoneStays == [Next]_vars /\ deletion = "gone" => deletion' = "gone"
<1> SUFFICES ASSUME [Next]_vars, deletion = "gone" PROVE deletion' = "gone"
  OBVIOUS
<1>1. CASE QueueRequest \/ Drain
  BY <1>1, Zenon DEF QueueRequest, SendDirect, RefuseWhenFull, Reorder, Enqueue,
     EnqueueGoalIteration, Steer, DeletePending, Drain, DrainEmpty, DrainDrop, DrainAnswered,
     DrainStart, sessionVars
<1>2. CASE TurnStep \/ Absorb \/ TurnEnd \/ Settle \/ Stop \/ AbortRequest
  BY <1>2, Zenon DEF TurnStep, TurnBegin, TurnRefused, TurnReply, TurnAbortFinish, Throw,
     Absorb, TurnEnd, Settle, Stop, AbortRequest, sessionVars
<1>3. CASE OtherHolders \/ StatusExpire
  BY <1>3, Zenon DEF OtherHolders, RequestAgentUpdate, AgentUpdated, GoalCommand,
     GoalCommandTurn, StatusExpire, sessionVars
<1>4. CASE Restart \/ Delete
  BY <1>4 DEF Restart, Crash, Restore, OpenSession, CrashMaterializing, Delete, DeleteBegin,
     DeleteIdle, DeleteWipe
<1>5. CASE UNCHANGED vars
  BY <1>5 DEF vars, sessionVars
<1> QED BY <1>1, <1>2, <1>3, <1>4, <1>5 DEF Next

LEMMA NextKeeps ==
  TypeOK /\ NoFollowUpLost /\ RunsAreRecorded /\ [Next]_vars
    => NoFollowUpLost' /\ RunsAreRecorded'
<1> SUFFICES ASSUME TypeOK, NoFollowUpLost, RunsAreRecorded, [Next]_vars
             PROVE  NoFollowUpLost' /\ RunsAreRecorded'
  OBVIOUS
<1>1. CASE deletion' = "gone"
  BY <1>1 DEF NoFollowUpLost, RunsAreRecorded
<1>2. CASE deletion' # "gone"
  <2>1. deletion # "gone" /\ ~DeleteWipe
    BY <1>2, GoneStays DEF DeleteWipe
  <2>2. Accounts /\ RecordsRuns
    <3>1. CASE Next /\ ~Delete
      BY <2>1, <3>1, QueueRequestAccounts, DrainAccounts, TurnStepAccounts, AbsorbAccounts,
         SettleAccounts, OtherStepsAccount, RestartAccounts DEF Next
    <3>2. CASE Delete \/ UNCHANGED vars
      BY <2>1, <3>2, IdleStep DEF Delete, DeleteBegin, DeleteIdle, vars, queueVars, runVars,
         boundVars
    <3> QED BY <3>1, <3>2
  <2>3. accepted' \in 0 .. NumItems
    BY NextTypeOK DEF TypeOK
  <2> QED BY <1>2, <2>1, <2>2, <2>3, KeepRule
<1> QED BY <1>1, <1>2

\* No accepted follow-up vanishes, whatever crashes, fails or is stopped.
THEOREM NothingIsLost == Spec => []NoFollowUpLost
<1>1. Init => NoFollowUpLost /\ RunsAreRecorded
  BY DEF Init, NoFollowUpLost, RunsAreRecorded, InTurn, NoTurn, Items, Direct
<1> QED BY <1>1, TypeCorrect, NextKeeps, PTL DEF Spec

\* The inductive invariant holds of the specification.
THEOREM Invariant == Spec => []IInv
<1>1. Init => IInv
  BY InitTypeOK DEF Init, IInv, NoFollowUpLost, RunsAreRecorded, InTurn, NoTurn, Items, Direct,
     QueueMirrorsTable
<1>2. IInv /\ [Next]_vars => IInv'
  BY NextTypeOK, NextMirrors, NextKeeps DEF IInv
<1> QED BY <1>1, <1>2, PTL DEF Spec

-----------------------------------------------------------------------------
(* Queued work is scheduled. *)

\* What a step does to the guard of QueuedWorkIsScheduled: the timer is set, or the guard
\* fails, or nothing it depends on changes.
Rearms ==
  \/ drainTimer' \/ Locked' \/ settling' # << >> \/ ~restored' \/ Queued' = {}
  \/ /\ Queued' \subseteq Queued
     /\ UNCHANGED << drainTimer, turn, lockQueue, settling, restored >>

NoAgentUpdate == "agentUpdate" \notin lockQueue

LEMMA DroppedFromQueue ==
  ASSUME TypeOK, NEW S, RemoveItems(S) PROVE Queued' \subseteq Queued
BY DropType DEF RemoveItems, TypeOK, Queued, Absent

LEMMA RearmsRule ==
  ASSUME QueuedWorkIsScheduled, Rearms PROVE QueuedWorkIsScheduled'
BY DEF QueuedWorkIsScheduled, Rearms, Locked

LEMMA QueueRequestRearms == ASSUME TypeOK, QueueRequest PROVE Rearms
<1>1. CASE SendDirect
  BY <1>1 DEF SendDirect, Rearms, Locked, NoTurn
<1>2. ASSUME NEW byGoalLoop \in BOOLEAN, RefuseWhenFull(byGoalLoop) PROVE Rearms
  <2>1. PICK S \in SUBSET Queued : RemoveItems(S)
    BY <1>2, RefusalRemoves
  <2> QED BY <1>2, <2>1, RefusalRemoves, DroppedFromQueue DEF Rearms
<1>3. CASE Reorder
  <2>1. \A i \in Items : queue'[i].mode = queue[i].mode
    BY <1>3 DEF Reorder, TypeOK, Entry
  <2> QED BY <1>3, <2>1 DEF Reorder, Rearms, Queued, runVars, sessionVars
<1>4. ASSUME NEW i \in Items, NEW mode \in {"queued", "steering"},
             Enqueue(i, mode) \/ EnqueueGoalIteration(i) \/ Steer(i)
      PROVE  Rearms
  BY <1>4 DEF Enqueue, EnqueueGoalIteration, Steer, Rearms, Locked, runVars
<1>5. ASSUME NEW i \in Items, DeletePending(i) PROVE Rearms
  BY <1>5, DroppedFromQueue DEF DeletePending, Rearms, runVars, sessionVars
<1> QED BY <1>1, <1>2, <1>3, <1>4, <1>5 DEF QueueRequest

LEMMA NextRearms ==
  ASSUME TypeOK, QueueMirrorsTable, NoAgentUpdate, [Next]_vars PROVE Rearms
<1>1. CASE QueueRequest
  BY <1>1, QueueRequestRearms
<1>2. CASE Drain
  <2>1. CASE DrainEmpty
    BY <2>1 DEF DrainEmpty, Rearms, Queued, queueVars
  <2>2. ASSUME NEW i \in Items, DrainDrop(i) PROVE Rearms
    BY <2>2, DroppedFromQueue DEF DrainDrop, Rearms, runVars, sessionVars
  <2>3. ASSUME NEW i \in Items, DrainAnswered(i) PROVE Rearms
    BY <2>3, DroppedFromQueue DEF DrainAnswered, Rearms, runVars
  <2>4. ASSUME NEW i \in Items, DrainStart(i) PROVE Rearms
    BY <2>4 DEF DrainStart, Rearms, Locked
  <2> QED BY <1>2, <2>1, <2>2, <2>3, <2>4 DEF Drain
<1>3. CASE TurnStep
  BY <1>3 DEF TurnStep, TurnBegin, TurnRefused, TurnReply, TurnAbortFinish, Throw, Rearms,
     Locked, TypeOK, Turn
<1>4. CASE Absorb
  BY <1>4 DEF Absorb, Rearms, Locked, TypeOK, Turn
<1>5. CASE TurnEnd
  BY <1>5 DEF TurnEnd, Rearms, TypeOK
<1>6. CASE Settle
  BY <1>6 DEF Settle, Rearms
<1>7. CASE Stop \/ AbortRequest \/ StatusExpire \/ UNCHANGED vars
  BY <1>7 DEF Stop, AbortRequest, StatusExpire, vars, Rearms, Queued, queueVars, runVars,
     sessionVars
<1>8. CASE OtherHolders
  BY <1>8 DEF OtherHolders, RequestAgentUpdate, AgentUpdated, GoalCommand, GoalCommandTurn,
     NoAgentUpdate, NoTurn, Rearms, Locked, Queued
<1>9. CASE Restart
  <2>1. CASE Restore
    <3>1. drainTimer' \/ \A i \in Items : rows[i] = Absent
      BY <2>1 DEF Restore
    <3>2. CASE \A i \in Items : rows[i] = Absent
      <4>1. Queued = {}
        BY <3>2 DEF QueueMirrorsTable, Queued, Absent
      <4>2. Queued' = {}
        BY <2>1, <3>2, <4>1 DEF Restore, Queued, Absent
      <4> QED BY <4>2 DEF Rearms
    <3> QED BY <3>1, <3>2 DEF Rearms
  <2>2. CASE OpenSession \/ Crash \/ \E i \in Items : CrashMaterializing(i)
    BY <2>2 DEF OpenSession, Crash, CrashMaterializing, Rearms, Queued, Absent, queueVars, runVars
  <2> QED BY <1>9, <2>1, <2>2 DEF Restart
<1>10. CASE Delete
  BY <1>10 DEF Delete, DeleteBegin, DeleteIdle, DeleteWipe, Rearms, Queued, Absent, queueVars,
     runVars
<1> QED BY <1>1, <1>2, <1>3, <1>4, <1>5, <1>6, <1>7, <1>8, <1>9, <1>10 DEF Next

\* Queued work always has something that will start it: unless the session's agent is updated
\* while follow-ups wait, for which the gateway schedules no drain.
THEOREM QueuedWorkStarts ==
  ASSUME "agentUpdate" \notin Enabled PROVE Spec => []QueuedWorkIsScheduled
<1> DEFINE Armed == NoAgentUpdate /\ QueuedWorkIsScheduled
<1>1. Init => Armed
  BY DEF Init, NoAgentUpdate, QueuedWorkIsScheduled, Queued, Absent
<1>2. TypeOK /\ QueueMirrorsTable /\ Armed /\ [Next]_vars => Armed'
  <2> SUFFICES ASSUME TypeOK, QueueMirrorsTable, Armed, [Next]_vars PROVE Armed'
    OBVIOUS
  <2>1. QueuedWorkIsScheduled'
    BY NextRearms, RearmsRule
  <2>2. NoAgentUpdate'
    <3>1. lockQueue' \subseteq lockQueue \cup {"goalCommand"}
      BY Zenon DEF Next, QueueRequest, SendDirect, RefuseWhenFull, Reorder, Enqueue,
         EnqueueGoalIteration, Steer, DeletePending, Drain, DrainEmpty, DrainDrop,
         DrainAnswered, DrainStart, TurnStep, TurnBegin, TurnRefused, TurnReply,
         TurnAbortFinish, Throw, Absorb, TurnEnd, Settle, Stop, AbortRequest, OtherHolders,
         RequestAgentUpdate, AgentUpdated, GoalCommand, GoalCommandTurn, StatusExpire,
         Restart, Crash, Restore, OpenSession, CrashMaterializing, Delete, DeleteBegin,
         DeleteIdle, DeleteWipe, runVars, vars
    <3> QED BY <3>1 DEF NoAgentUpdate
  <2> QED BY <2>1, <2>2
<1> QED BY <1>1, <1>2, TypeCorrect, MemoryMirrorsTable, PTL DEF Spec

-----------------------------------------------------------------------------
(* Awaited callers have owners. *)

\* Somebody will answer the caller of the item.
Owned(i) == i \in Queued \cup turn.absorbed \/ InTurn(i)

\* Absorbed items are owned by a turn that runs, and a turn that is over owns nothing.
RunningTurnOwns ==
  /\ turn.absorbed # {} => turn.phase = "running"
  /\ turn.phase = "none" => turn.item = Direct
\* Nobody awaits what a deletion is about to clear, nor what is only in the table.
NobodyAwaits ==
  /\ deletion \in {"waiting", "releasing"} => \A i \in Queued : waiter[i] # "waiting"
  /\ \A i \in Items : rows[i] # Absent /\ waiter[i] = "waiting" => i \in Queued
OwnerInv == (\A i \in Items : waiter[i] = "waiting" => Owned(i)) /\ RunningTurnOwns /\ NobodyAwaits

\* A caller goes on waiting only if it waited, and is answered when its item is removed.
Waits(i) == waiter[i] = "waiting"

\* Steps that leave the turns alone, and answer the callers of what they remove.
LEMMA OwnerRule ==
  ASSUME TypeOK, OwnerInv,
         UNCHANGED << turn, settling >>, deletion' \in {deletion, "none"},
         \A i \in Items : Waits(i)' => Waits(i) \/ i \in Queued',
         \A i \in Items : Waits(i)' /\ i \in Queued => i \in Queued',
         \A i \in Items : Waits(i)' /\ i \in Queued' =>
           (Waits(i) /\ i \in Queued) \/ deletion = "none",
         \A i \in Items : rows'[i] # Absent => rows[i] # Absent \/ i \in Queued'
  PROVE  OwnerInv'
<1>1. \A i \in Items : Waits(i)' => Owned(i)'
  BY DEF OwnerInv, Owned, InTurn, Waits
<1>2. RunningTurnOwns'
  BY DEF OwnerInv, RunningTurnOwns
<1>3. NobodyAwaits'
  <2>1. ASSUME deletion' \in {"waiting", "releasing"}, NEW i \in Queued'
        PROVE  waiter'[i] # "waiting"
    BY <2>1 DEF OwnerInv, NobodyAwaits, Waits, Queued
  <2>2. ASSUME NEW i \in Items, rows'[i] # Absent, waiter'[i] = "waiting" PROVE i \in Queued'
    BY <2>2 DEF OwnerInv, NobodyAwaits, Waits
  <2> QED BY <2>1, <2>2 DEF NobodyAwaits
<1> QED BY <1>1, <1>2, <1>3 DEF OwnerInv, Waits

LEMMA RemovedEntries ==
  ASSUME TypeOK, NEW S, RemoveItems(S)
  PROVE  /\ \A i \in Items : i \in Queued' <=> i \in Queued /\ i \notin S
         /\ \A i \in Items : rows'[i] # Absent <=> rows[i] # Absent /\ i \notin S
<1>1. \A i \in Items : i \in Queued' <=> i \in Queued /\ i \notin S
  BY DropType DEF RemoveItems, TypeOK, Queued, Absent
<1>2. \A i \in Items : rows'[i] # Absent <=> rows[i] # Absent /\ i \notin S
  BY DropType DEF RemoveItems, TypeOK
<1> QED BY <1>1, <1>2

\* What removing items and answering their callers does to each item.
LEMMA AnsweredRemoval ==
  ASSUME TypeOK, NEW S, RemoveItems(S), NEW outcome \in Outcome, outcome # "waiting",
         waiter' = Settled(S, outcome)
  PROVE  /\ \A i \in Items : Waits(i)' <=> Waits(i) /\ i \notin S
         /\ \A i \in Items : i \in Queued' <=> i \in Queued /\ i \notin S
         /\ \A i \in Items : rows'[i] # Absent <=> rows[i] # Absent /\ i \notin S
<1>1. \A i \in Items : Waits(i)' <=> Waits(i) /\ i \notin S
  BY DEF Settled, TypeOK, Waits
<1> QED BY <1>1, RemovedEntries

\* Steps that answer the callers of what they remove, and leave the turns alone.
LEMMA RemovalOwns ==
  ASSUME TypeOK, OwnerInv, NEW S, RemoveItems(S), waiter' = Settled(S, "rejected"),
         UNCHANGED << turn, settling, deletion >>
  PROVE  OwnerInv'
<1>1. /\ \A i \in Items : Waits(i)' <=> Waits(i) /\ i \notin S
      /\ \A i \in Items : i \in Queued' <=> i \in Queued /\ i \notin S
      /\ \A i \in Items : rows'[i] # Absent <=> rows[i] # Absent /\ i \notin S
  BY AnsweredRemoval DEF Outcome
<1> QED BY <1>1, OwnerRule

LEMMA AcceptOwns ==
  ASSUME TypeOK, OwnerInv, NEW i \in Items, NEW mode \in {"queued", "steering"},
         NEW S \in SUBSET Queued, Accept(i, mode, S), UNCHANGED << turn, settling, deletion >>,
         deletion = "none" \/ i \in GoalItems
  PROVE  OwnerInv'
<1>1. \A j \in Items : Waits(j)' => (j # i /\ Waits(j) /\ j \notin S) \/ (j = i /\ i \in AwaitedItems)
  BY DEF Accept, Settled, TypeOK, Waits
<1>2. \A j \in Items : j \in Queued' <=> j = i \/ (j \in Queued /\ j \notin S)
  BY DropType DEF Accept, TypeOK, Queued, Absent
<1>3. \A j \in Items : rows'[j] # Absent => j = i \/ rows[j] # Absent
  BY DropType DEF Accept, TypeOK
<1>4. i \in GoalItems => i \notin AwaitedItems
  BY KindsAssumption
<1> QED BY <1>1, <1>2, <1>3, <1>4, OwnerRule

LEMMA QueueRequestOwns ==
  ASSUME TypeOK, OwnerInv, QueueRequest PROVE OwnerInv'
<1>1. CASE SendDirect
  BY <1>1 DEF SendDirect, NoTurn, OwnerInv, Owned, InTurn, RunningTurnOwns, NobodyAwaits, Locked,
     Queued, Items, Direct, queueVars, sessionVars
<1>2. ASSUME NEW byGoalLoop \in BOOLEAN, RefuseWhenFull(byGoalLoop) PROVE OwnerInv'
  BY <1>2, RefusalRemoves, RemovalOwns
<1>3. CASE Reorder
  <2>1. Queued' = Queued /\ \A i \in Items : i \in Queued \/ rows'[i] = rows[i]
    BY <1>3 DEF Reorder, Queued, TypeOK, Entry
  <2>2. UNCHANGED << turn, settling, deletion, waiter >>
    BY <1>3 DEF Reorder, runVars, sessionVars
  <2> QED BY <2>1, <2>2, OwnerRule DEF Waits, Queued
<1>4. ASSUME NEW i \in Items, NEW mode \in {"queued", "steering"}, Enqueue(i, mode)
      PROVE  OwnerInv'
  BY <1>4, AcceptOwns DEF Enqueue, runVars, sessionVars
<1>5. ASSUME NEW i \in Items, EnqueueGoalIteration(i) PROVE OwnerInv'
  BY <1>5, AcceptOwns DEF EnqueueGoalIteration, runVars, sessionVars
<1>6. ASSUME NEW i \in Items, Steer(i) PROVE OwnerInv'
  <2>1. Queued' = Queued
    BY <1>6 DEF Steer, Queued, TypeOK
  <2>2. \A j \in Items : j \in Queued' \/ rows'[j] = rows[j]
    BY <1>6, <2>1 DEF Steer, TypeOK
  <2>3. UNCHANGED << turn, settling, deletion, waiter >>
    BY <1>6 DEF Steer, runVars, sessionVars
  <2> QED BY <2>1, <2>2, <2>3, OwnerRule DEF Waits, Queued
<1>7. ASSUME NEW i \in Items, DeletePending(i) PROVE OwnerInv'
  BY <1>7, RemovalOwns DEF DeletePending, runVars, sessionVars
<1> QED BY <1>1, <1>2, <1>3, <1>4, <1>5, <1>6, <1>7 DEF QueueRequest

LEMMA DrainOwns == ASSUME TypeOK, OwnerInv, Drain PROVE OwnerInv'
<1>1. CASE DrainEmpty
  BY <1>1, OwnerRule DEF DrainEmpty, Waits, Queued, queueVars, runVars, sessionVars
<1>2. ASSUME NEW i \in Items, DrainDrop(i) PROVE OwnerInv'
  BY <1>2, RemovalOwns DEF DrainDrop, runVars, sessionVars
<1>3. ASSUME NEW i \in Items, DrainAnswered(i) PROVE OwnerInv'
  <2>1. /\ \A j \in Items : Waits(j)' <=> Waits(j) /\ j \notin {i}
        /\ \A j \in Items : j \in Queued' <=> j \in Queued /\ j \notin {i}
        /\ \A j \in Items : rows'[j] # Absent <=> rows[j] # Absent /\ j \notin {i}
    BY <1>3, AnsweredRemoval DEF DrainAnswered, Outcome
  <2> QED BY <1>3, <2>1, OwnerRule DEF DrainAnswered, runVars
<1>4. ASSUME NEW i \in Items, DrainStart(i) PROVE OwnerInv'
  <2>1. Queued' = Queued
    BY <1>4 DEF DrainStart, Queued, TypeOK
  <2>2. \A j \in Items : j \in Queued' \/ rows'[j] = rows[j]
    BY <1>4, <2>1 DEF DrainStart, TypeOK, IsHead
  <2>3. /\ UNCHANGED << settling, deletion, waiter >> /\ turn.phase = "none"
        /\ turn' = [phase |-> "starting", item |-> i, absorbed |-> {}]
    BY <1>4 DEF DrainStart, DrainFires, Locked
  <2> QED BY <2>1, <2>2, <2>3
      DEF OwnerInv, Owned, InTurn, RunningTurnOwns, NobodyAwaits, Items, Direct
<1> QED BY <1>1, <1>2, <1>3, <1>4 DEF Drain

\* A turn answers the callers of what it absorbed when it ends.
LEMMA TurnStepOwns ==
  ASSUME TypeOK, OwnerInv, TurnStep, "lateThrow" \notin Enabled PROVE OwnerInv'
<1>1. /\ Queued' = Queued /\ UNCHANGED << rows, settling, deletion >> /\ turn'.item = turn.item
  BY DEF TurnStep, TurnBegin, TurnRefused, TurnReply, TurnAbortFinish, Throw, TypeOK, Turn, Queued,
     queueVars, sessionVars
<1>2. \A i \in Items : Waits(i)' => Waits(i) /\ (i \in turn.absorbed => i \in turn'.absorbed)
  <2>1. CASE TurnReply \/ TurnAbortFinish
    BY <2>1 DEF TurnReply, TurnAbortFinish, Settled, Waits, TypeOK
  <2>2. CASE TurnBegin \/ TurnRefused \/ Throw
    BY <2>2 DEF TurnBegin, TurnRefused, Throw, Waits, TypeOK, Turn
  <2> QED BY <2>1, <2>2 DEF TurnStep
<1>3. RunningTurnOwns'
  <2>1. turn.phase # "none" /\ turn'.phase # "none"
    BY DEF TurnStep, TurnBegin, TurnRefused, TurnReply, TurnAbortFinish, Throw, TypeOK, Turn
  <2>2. turn'.absorbed # {} => turn'.phase = "running"
    BY DEF TurnStep, TurnBegin, TurnRefused, TurnReply, TurnAbortFinish, Throw, TypeOK, Turn,
       OwnerInv, RunningTurnOwns
  <2> QED BY <2>1, <2>2 DEF RunningTurnOwns
<1> QED BY <1>1, <1>2, <1>3 DEF OwnerInv, Owned, InTurn, NobodyAwaits, Waits, Queued

LEMMA AbsorbOwns == ASSUME TypeOK, OwnerInv, Absorb PROVE OwnerInv'
<1>1. /\ \A i \in Items : i \in Queued' <=> i \in Queued /\ i \notin Steering
      /\ \A i \in Items : rows'[i] # Absent <=> rows[i] # Absent /\ i \notin Steering
  BY RemovedEntries, Zenon DEF Absorb
<1>2. /\ UNCHANGED << settling, deletion, waiter >> /\ turn.phase = "running"
      /\ turn'.phase = turn.phase /\ turn'.item = turn.item
      /\ turn'.absorbed = turn.absorbed \cup Steering
  BY DEF Absorb, sessionVars, TypeOK, Turn
<1> QED BY <1>1, <1>2 DEF OwnerInv, Owned, InTurn, RunningTurnOwns, NobodyAwaits, Queued

LEMMA TurnEndOwns == ASSUME TypeOK, OwnerInv, TurnEnd PROVE OwnerInv'
<1> DEFINE finished == [item |-> turn.item, outcome |-> turn.phase]
<1>1. /\ settling' = Append(settling, finished) /\ finished.item = turn.item
      /\ finished \in FinishedTurn /\ turn.absorbed = {}
  BY DEF TurnEnd, OwnerInv, RunningTurnOwns, FinishedTurn, TypeOK, Turn
<1> HIDE DEF finished
<1>2. /\ \A k \in DOMAIN settling : k \in DOMAIN settling' /\ settling'[k] = settling[k]
      /\ \E k \in DOMAIN settling' : settling'[k] = finished
  <2>1. settling \in Seq(FinishedTurn) /\ Len(settling) \in Nat
    BY DEF TypeOK
  <2>2. /\ DOMAIN settling = 1 .. Len(settling) /\ DOMAIN settling' = 1 .. Len(settling) + 1
        /\ \A k \in 1 .. Len(settling) : settling'[k] = settling[k]
        /\ settling'[Len(settling) + 1] = finished
    BY <1>1, <2>1
  <2> QED BY <2>1, <2>2
<1>3. \A i \in Items : InTurn(i) => InTurn(i)'
  BY <1>1, <1>2 DEF InTurn
<1>4. Queued' = Queued /\ UNCHANGED << rows, waiter, deletion >> /\ turn' = NoTurn
  BY DEF TurnEnd, Queued, queueVars, sessionVars
<1> QED BY <1>1, <1>3, <1>4 DEF OwnerInv, Owned, RunningTurnOwns, NobodyAwaits, NoTurn

LEMMA SettleOwns == ASSUME TypeOK, OwnerInv, Settle PROVE OwnerInv'
<1> DEFINE item == Head(settling).item
           outcome == IF Head(settling).outcome = "threw" THEN "rejected" ELSE "resolved"
<1>1. /\ RemoveItems({item} \ {Direct}) /\ waiter' = Settled({item}, outcome)
      /\ settling # << >> /\ settling' = Tail(settling) /\ UNCHANGED << turn, deletion >>
  BY DEF Settle, sessionVars
<1>2. \A i \in Items : InTurn(i) => InTurn(i)' \/ i = item
  <2> SUFFICES ASSUME NEW i \in Items, NEW k \in DOMAIN settling, settling[k].item = i, i # item
               PROVE  \E l \in DOMAIN Tail(settling) : Tail(settling)[l].item = i
    BY <1>1 DEF InTurn
  <2>1. settling \in Seq(FinishedTurn) /\ k \in 1 .. Len(settling) /\ k # 1
    BY <1>1, SettlingHead DEF TypeOK
  <2>2. k - 1 \in 1 .. Len(settling) - 1 /\ Len(Tail(settling)) = Len(settling) - 1
    BY <1>1, <2>1, HeadTailProperties
  <2>3. k - 1 \in DOMAIN Tail(settling) /\ Tail(settling)[k - 1] = settling[k]
    BY <1>1, <2>1, <2>2, SettlingHead, HeadTailProperties
  <2> QED BY <2>3
<1>3. \A i \in Items : Waits(i)' <=> Waits(i) /\ i # item
  BY <1>1 DEF Settled, TypeOK, Waits
<1>4. /\ \A i \in Items : i \in Queued' <=> i \in Queued /\ i # item
      /\ \A i \in Items : rows'[i] # Absent <=> rows[i] # Absent /\ i # item
  <2>1. /\ \A i \in Items : i \in Queued' <=> i \in Queued /\ i \notin {item} \ {Direct}
        /\ \A i \in Items : rows'[i] # Absent <=> rows[i] # Absent /\ i \notin {item} \ {Direct}
    BY <1>1, RemovedEntries, Zenon
  <2>2. \A i \in Items : i \in {item} \ {Direct} <=> i = item
    BY DEF Items, Direct
  <2> QED BY <2>1, <2>2
<1> HIDE DEF item, outcome
<1> QED BY <1>1, <1>2, <1>3, <1>4
    DEF OwnerInv, Owned, RunningTurnOwns, NobodyAwaits, Waits, Queued

LEMMA OtherStepsOwn ==
  ASSUME TypeOK, OwnerInv, Stop \/ AbortRequest \/ OtherHolders \/ StatusExpire
  PROVE  OwnerInv'
<1>1. CASE GoalCommand
  <2> DEFINE goals == Queued \cap GoalItems
  <2>1. RemoveItems(goals) /\ waiter' = Settled(goals, "rejected")
    BY <1>1 DEF GoalCommand
  <2>2. UNCHANGED << turn, settling, deletion >>
    BY <1>1 DEF GoalCommand, sessionVars
  <2> HIDE DEF goals
  <2> QED BY <2>1, <2>2, RemovalOwns
<1>2. CASE GoalCommandTurn
  <2>1. /\ Queued' = Queued /\ UNCHANGED << rows, settling, deletion, waiter >>
        /\ turn.phase = "none" /\ turn' = [NoTurn EXCEPT !.phase = "starting"]
    BY <1>2 DEF GoalCommandTurn, Queued, queueVars, sessionVars
  <2> QED BY <2>1
      DEF OwnerInv, Owned, InTurn, RunningTurnOwns, NobodyAwaits, NoTurn, Items, Direct, Queued
<1>3. CASE Stop \/ AbortRequest \/ RequestAgentUpdate \/ AgentUpdated \/ StatusExpire
  <2>1. Queued' = Queued /\ UNCHANGED << rows, turn, settling, deletion, waiter >>
    BY <1>3 DEF Stop, AbortRequest, RequestAgentUpdate, AgentUpdated, StatusExpire, Queued,
       queueVars, sessionVars
  <2> QED BY <2>1, OwnerRule DEF Waits, Queued
<1> QED BY <1>1, <1>2, <1>3 DEF OtherHolders

LEMMA RestartOwns == ASSUME TypeOK, OwnerInv, Restart PROVE OwnerInv'
<1>1. CASE Crash \/ \E i \in Items : CrashMaterializing(i)
  <2>1. waiter' = Settled(Items, "lost")
    BY <1>1 DEF Crash, CrashMaterializing
  <2>2. \A i \in Items : waiter'[i] # "waiting"
    BY <2>1 DEF Settled
  <2>3. turn'.absorbed = {} /\ (turn'.phase = "none" => turn'.item = Direct)
    BY <1>1 DEF Crash, CrashMaterializing, NoTurn, DrainFires, Locked, OwnerInv, RunningTurnOwns
  <2> QED BY <2>2, <2>3 DEF OwnerInv, RunningTurnOwns, NobodyAwaits, Queued
<1>2. CASE Restore
  <2>1. /\ UNCHANGED << turn, settling, deletion, waiter, rows >>
        /\ \A i \in Items : i \in Queued => i \in Queued'
        /\ \A i \in Items : i \in Queued' => i \in Queued \/ rows[i] # Absent
    BY <1>2 DEF Restore, Queued, runVars, Absent
  <2> QED BY <2>1, OwnerRule DEF Waits, OwnerInv, NobodyAwaits
<1>3. CASE OpenSession
  <2>1. Queued' = Queued /\ UNCHANGED << rows, turn, settling, deletion, waiter >>
    BY <1>3 DEF OpenSession, Queued, queueVars, runVars
  <2> QED BY <2>1, OwnerRule DEF Waits, Queued
<1> QED BY <1>1, <1>2, <1>3 DEF Restart

LEMMA DeleteOwns == ASSUME TypeOK, OwnerInv, Delete PROVE OwnerInv'
<1>1. CASE DeleteBegin
  <2>1. /\ Queued' = Queued /\ UNCHANGED << rows, turn, settling >>
        /\ waiter' = Settled(Queued, "rejected")
    BY <1>1 DEF DeleteBegin, Queued, queueVars
  <2>2. \A i \in Items : Waits(i)' <=> Waits(i) /\ i \notin Queued
    BY <2>1 DEF Settled, TypeOK, Waits
  <2> QED BY <2>1, <2>2
      DEF OwnerInv, Owned, InTurn, RunningTurnOwns, NobodyAwaits, Waits, Queued
<1>2. CASE DeleteIdle
  BY <1>2 DEF DeleteIdle, OwnerInv, Owned, InTurn, RunningTurnOwns, NobodyAwaits, Queued,
     queueVars, runVars
<1>3. CASE DeleteWipe
  <2>1. /\ UNCHANGED << turn, settling, waiter >> /\ deletion = "releasing" /\ deletion' = "gone"
        /\ \A i \in Items : rows'[i] = Absent
    BY <1>3 DEF DeleteWipe, runVars
  <2>2. \A i \in Queued : waiter[i] # "waiting"
    BY <2>1 DEF OwnerInv, NobodyAwaits
  <2> QED BY <2>1, <2>2 DEF OwnerInv, Owned, InTurn, RunningTurnOwns, NobodyAwaits, Queued
<1> QED BY <1>1, <1>2, <1>3 DEF Delete

\* A caller that awaits a follow-up is always somebody's to answer, unless a turn may fail
\* after it absorbed steering, which forgets the callers of what it absorbed.
THEOREM CallersHaveOwners ==
  ASSUME "lateThrow" \notin Enabled PROVE Spec => []AwaitedCallerHasOwner
<1>1. Init => OwnerInv
  BY DEF Init, OwnerInv, Owned, RunningTurnOwns, NobodyAwaits, NoTurn, Queued, Absent
<1>2. TypeOK /\ OwnerInv /\ [Next]_vars => OwnerInv'
  <2> SUFFICES ASSUME TypeOK, OwnerInv, [Next]_vars PROVE OwnerInv'
    OBVIOUS
  <2>1. CASE UNCHANGED vars
    <3>1. Queued' = Queued /\ UNCHANGED << rows, turn, settling, deletion, waiter >>
      BY <2>1 DEF vars, Queued, queueVars, runVars, sessionVars
    <3> QED BY <3>1, OwnerRule DEF Waits, Queued
  <2> QED BY <2>1, QueueRequestOwns, DrainOwns, TurnStepOwns, AbsorbOwns, TurnEndOwns,
             SettleOwns, OtherStepsOwn, RestartOwns, DeleteOwns DEF Next
<1>3. OwnerInv => AwaitedCallerHasOwner
  BY DEF OwnerInv, AwaitedCallerHasOwner, Owned, InTurn
<1> QED BY <1>1, <1>2, <1>3, TypeCorrect, PTL DEF Spec
=============================================================================
