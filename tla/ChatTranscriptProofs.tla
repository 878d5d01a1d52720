------------------------ MODULE ChatTranscriptProofs ------------------------
(***************************************************************************)
(* What the transcript of ChatQueue says, for every number of follow-ups,  *)
(* capacity and bound.  ChatQueue implements FollowUps: each step delivers *)
(* follow-ups, withdraws them, accepts the next one, or changes nothing of *)
(* what was promised.  And the answers and the order in the transcript are *)
(* kept by whatever is appended or inserted.                               *)
(***************************************************************************)
EXTENDS ChatQueueProofs

-----------------------------------------------------------------------------
(* What a step may record. *)

\* No message of a follow-up outside S appears.
RecordsOnly(S) == \A i \in Items : Recorded(i)' => Recorded(i) \/ i \in S

\* A message that is no follow-up's, or that of one in S.
Harmless(m, S) == \A i \in Items : m = User(i) => i \in S

LEMMA StutterRecords == ASSUME messages' = messages PROVE RecordsOnly({})
BY DEF RecordsOnly, Recorded, User

LEMMA AppendRecords ==
  ASSUME messages \in Seq(Message), NEW m \in Message, NEW S, Harmless(m, S),
         messages' = Append(messages, m)
  PROVE  RecordsOnly(S)
<1>1. \A l \in DOMAIN messages' : messages'[l] = m \/ (l \in DOMAIN messages /\ messages'[l] = messages[l])
  OBVIOUS
<1> QED BY <1>1 DEF RecordsOnly, Recorded, User, Harmless

LEMMA ConcatRecords ==
  ASSUME messages \in Seq(Message), NEW s \in Seq(Message), NEW S,
         \A k \in DOMAIN s : Harmless(s[k], S), messages' = messages \o s
  PROVE  RecordsOnly(S)
<1>1. ASSUME NEW l \in DOMAIN messages'
      PROVE  \/ l \in DOMAIN messages /\ messages'[l] = messages[l]
             \/ \E k \in DOMAIN s : messages'[l] = s[k]
  <2>1. /\ DOMAIN messages = 1 .. Len(messages) /\ DOMAIN s = 1 .. Len(s)
        /\ DOMAIN messages' = 1 .. Len(messages) + Len(s)
        /\ Len(messages) \in Nat /\ Len(s) \in Nat
    OBVIOUS
  <2>2. CASE l <= Len(messages)
    BY <2>1, <2>2, ConcatAt
  <2>3. CASE l > Len(messages)
    <3>1. l - Len(messages) \in 1 .. Len(s) /\ Len(messages) + (l - Len(messages)) = l
      BY <2>1, <2>3
    <3> QED BY <2>1, <3>1, ConcatAt
  <2> QED BY <2>1, <2>2, <2>3
<1> QED BY <1>1 DEF RecordsOnly, Recorded, User, Harmless

\* InsertAt adds the new message and no other.
LEMMA InsertAdds ==
  ASSUME NEW S, NEW s \in Seq(S), NEW k \in 1 .. Len(s), NEW m \in S
  PROVE  \A j \in DOMAIN InsertAt(s, k + 1, m) :
           \/ InsertAt(s, k + 1, m)[j] = m
           \/ \E l \in DOMAIN s : InsertAt(s, k + 1, m)[j] = s[l]
<1> DEFINE r == InsertAt(s, k + 1, m)
<1>0. r \in Seq(S) /\ SpliceOf(r, s, k, m)
  BY InsertShape, Zenon
<1> HIDE DEF r
<1>1. /\ r \in Seq(S) /\ Len(r) = Len(s) + 1
      /\ (\A l \in 1 .. k : r[l] = s[l]) /\ r[k + 1] = m
      /\ \A l \in 1 .. Len(s) : l > k => r[l + 1] = s[l]
  BY <1>0 DEF SpliceOf
<1>2. DOMAIN r = 1 .. (Len(s) + 1) /\ DOMAIN s = 1 .. Len(s) /\ Len(s) \in Nat
  BY <1>1
<1>3. ASSUME NEW j \in DOMAIN r PROVE r[j] = m \/ \E l \in DOMAIN s : r[j] = s[l]
  <2>1. CASE j <= k + 1
    BY <2>1, <1>1, <1>2
  <2>2. CASE j > k + 1
    <3>1. j - 1 \in 1 .. Len(s) /\ j - 1 > k /\ (j - 1) + 1 = j /\ j - 1 \in DOMAIN s
      BY <2>2, <1>2
    <3> QED BY <3>1, <1>1
  <2> QED BY <2>1, <2>2, <1>2
<1> QED BY <1>3 DEF r

LEMMA InsertRecords ==
  ASSUME messages \in Seq(Message), NEW m \in Message, NEW k \in DOMAIN messages,
         Harmless(m, {}), messages' = InsertAt(messages, k + 1, m)
  PROVE  RecordsOnly({})
<1>1. k \in 1 .. Len(messages) OBVIOUS
<1>2. \A j \in DOMAIN messages' :
        messages'[j] = m \/ \E l \in DOMAIN messages : messages'[j] = messages[l]
  BY <1>1, InsertAdds
<1> QED BY <1>2 DEF RecordsOnly, Recorded, User, Harmless

\* A message that answers.
LEMMA AnswersAreHarmless ==
  ASSUME NEW m \in Message, m.kind # "user", NEW S PROVE Harmless(m, S)
BY DEF Harmless, User

LEMMA InsertAfterLastUserRecords ==
  ASSUME messages \in Seq(Message), NEW m \in Message, m.kind # "user", InsertAfterLastUser(m)
  PROVE  RecordsOnly({})
<1>1. CASE \E k \in DOMAIN messages : Answerable(k)
  <2>1. PICK k \in DOMAIN messages : messages' = InsertAt(messages, k + 1, m)
    BY <1>1 DEF InsertAfterLastUser
  <2> QED BY <2>1, AnswersAreHarmless, InsertRecords
<1>2. CASE ~\E k \in DOMAIN messages : Answerable(k)
  BY <1>2, StutterRecords DEF InsertAfterLastUser
<1> QED BY <1>1, <1>2

LEMMA PersistInterruptedRecords ==
  ASSUME TypeOK, PersistInterrupted PROVE RecordsOnly({})
<1> DEFINE m == [kind |-> "interrupted", of |-> turn.item]
<1>1. messages \in Seq(Message) /\ m \in Message /\ m.kind # "user"
  BY DEF TypeOK, Message, Turn
<1>2. CASE \E k \in DOMAIN messages : LastUser(k) /\ InterruptedAt(k)
  BY <1>2, StutterRecords DEF PersistInterrupted
<1>3. CASE ~\E k \in DOMAIN messages : LastUser(k) /\ InterruptedAt(k)
  BY <1>1, <1>3, InsertAfterLastUserRecords DEF PersistInterrupted
<1> QED BY <1>2, <1>3

LEMMA StopTurnRecords == ASSUME TypeOK, StopTurn PROVE RecordsOnly({})
BY StutterRecords, PersistInterruptedRecords DEF StopTurn

LEMMA SettleRecords == ASSUME TypeOK, Settle PROVE RecordsOnly({})
<1> DEFINE item == Head(settling).item
           failure == [kind |-> "failure", of |-> item]
<1>1. messages \in Seq(Message) /\ item \in Items \cup {Direct}
  BY SettlingHead DEF TypeOK, Settle, FinishedTurn
<1>2. failure \in Message /\ failure.kind # "user"
  BY <1>1 DEF Message
<1>3. CASE Head(settling).outcome = "threw" /\ item # Direct
  <2>1. RecordFailure(item) BY <1>3 DEF Settle
  <2>2. CASE Recorded(item)
    <3>1. PICK k \in DOMAIN messages : messages' = InsertAt(messages, k + 1, failure)
      BY <2>1, <2>2 DEF RecordFailure
    <3> QED BY <3>1, <1>1, <1>2, AnswersAreHarmless, InsertRecords
  <2>3. CASE ~Recorded(item)
    <3>1. messages' = Append(messages, failure) BY <2>1, <2>3 DEF RecordFailure
    <3> QED BY <3>1, <1>1, <1>2, AnswersAreHarmless, AppendRecords
  <2> QED BY <2>2, <2>3
<1>4. CASE ~(Head(settling).outcome = "threw" /\ item # Direct)
  BY <1>4, StutterRecords DEF Settle
<1> QED BY <1>3, <1>4

-----------------------------------------------------------------------------
(* The books: what is in the table and in the transcript was accepted, and   *)
(* what is in the table has not been withdrawn or dropped.                   *)

Present == {i \in Items : rows[i] # Absent}

BooksBalance ==
  /\ \A i \in Present : i <= accepted /\ i \notin Accounted
  /\ \A i \in Items : Recorded(i) \/ i \in Accounted => i <= accepted

Books == TypeOK /\ QueueMirrorsTable /\ (deletion # "gone" => BooksBalance)

\* What a step does while the session is there: it accepts at most one follow-up, delivers
\* and withdraws only what is in the table, never both, and removes what it withdraws.
Moves ==
  /\ accepted' \in {accepted, accepted + 1}
  /\ \/ RecordsOnly({})
     \/ accepted' = accepted /\ Accounted' = Accounted
  /\ \A i \in Items : Recorded(i) => Recorded(i)'
  /\ RecordsOnly(Present)
  /\ Accounted \subseteq Accounted' /\ Accounted' \subseteq Accounted \cup Present
  /\ \A i \in Present' : \/ i \in Present /\ (i \in Accounted' => i \in Accounted)
                         \/ accepted' # accepted /\ i = accepted'

LEMMA QueuedIsPresent == ASSUME TypeOK, QueueMirrorsTable PROVE Queued \subseteq Present
BY DEF TypeOK, QueueMirrorsTable, Queued, Present, Absent

LEMMA MovesBalance ==
  ASSUME TypeOK, BooksBalance, Moves PROVE BooksBalance'
<1>1. accepted \in Nat BY DEF TypeOK
<1>2. ASSUME NEW i \in Items, Recorded(i)' \/ i \in Accounted' PROVE i <= accepted'
  <2>1. Recorded(i) \/ i \in Accounted \/ i \in Present
    BY <1>2 DEF Moves, RecordsOnly
  <2>2. i <= accepted BY <2>1 DEF BooksBalance
  <2> QED BY <1>1, <2>2 DEF Moves, Items
<1>3. ASSUME NEW i \in Present' PROVE i <= accepted' /\ i \notin Accounted'
  <2>0. i \in Items BY DEF Present
  <2>1. CASE i \in Present /\ (i \in Accounted' => i \in Accounted)
    BY <1>1, <2>0, <2>1 DEF BooksBalance, Moves, Items
  <2>2. CASE accepted' # accepted /\ i = accepted'
    <3>1. i = accepted + 1 BY <2>2 DEF Moves
    <3>2. i \notin Accounted /\ i \notin Present BY <1>1, <2>0, <3>1 DEF BooksBalance
    <3> QED BY <2>2, <3>2, <1>1, <3>1 DEF Moves
  <2> QED BY <2>1, <2>2 DEF Moves
<1> QED BY <1>2, <1>3 DEF BooksBalance

-----------------------------------------------------------------------------
(* Such a step is one that FollowUps allows. *)

LEMMA MovesRefine ==
  ASSUME TypeOK, TypeOK', BooksBalance, Moves, deletion # "gone", deletion' # "gone"
  PROVE  [Promise!Next]_(Promise!vars)
<1>1. accepted \in Nat /\ Promise!Items = Items /\ Items \subseteq Nat
  BY DEF TypeOK, Promise!Items, Items
<1>2. Promise!Pending = {i \in Items : i <= accepted /\ ~Recorded(i) /\ i \notin Accounted}
  <2>1. \A i \in Items : (i \in Promise!Pending) <=> (i <= accepted /\ ~Recorded(i) /\ i \notin Accounted)
    BY <1>1 DEF Promise!Pending, Accounted
  <2>2. Promise!Pending \subseteq Items BY <1>1 DEF Promise!Pending
  <2> QED BY <2>1, <2>2, Zenon
<1>3. CASE RecordsOnly({}) /\ accepted' = accepted + 1
  <2> DEFINE S == {j \in Present : j \in Accounted' /\ ~Recorded(j)}
             i == accepted'
  <2>1. i \in Items /\ i = accepted + 1 /\ ~Recorded(i) /\ i \notin Accounted /\ i \notin Present
    BY <1>1, <1>3 DEF BooksBalance, TypeOK, Items
  <2>2. S \in SUBSET Promise!Pending
    BY <1>2 DEF BooksBalance, Present
  <2>3. Promise!Accept(i, S)
    BY <1>1, <1>3, <2>1 DEF Promise!Accept, Moves, RecordsOnly, Accounted, BooksBalance, Present
  <2> HIDE DEF S, i
  <2> QED BY <1>1, <2>1, <2>2, <2>3 DEF Promise!Accept, Promise!Next
<1>4. CASE RecordsOnly({}) /\ accepted' = accepted
  <2> DEFINE S == {j \in Present : j \in Accounted' /\ ~Recorded(j)}
  <2>1. S \in SUBSET Promise!Pending
    BY <1>2 DEF BooksBalance, Present
  <2>2. Promise!Become(S, "withdrawn")
    BY <1>1, <1>4 DEF Promise!Become, Moves, RecordsOnly, Accounted, BooksBalance, Present
  <2>3. CASE S = {}
    BY <1>1, <2>2, <2>3 DEF Promise!Become, Promise!vars
  <2>4. CASE S # {}
    BY <2>1, <2>2, <2>4 DEF Promise!Withdraw, Promise!Next
  <2> QED BY <2>3, <2>4
<1>5. CASE accepted' = accepted /\ Accounted' = Accounted
  <2> DEFINE S == {j \in Present : Recorded(j)' /\ ~Recorded(j)}
  <2>1. S \in SUBSET Promise!Pending
    BY <1>2 DEF BooksBalance, Present
  <2>2. Promise!Become(S, "delivered")
    BY <1>1, <1>5 DEF Promise!Become, Moves, RecordsOnly, Accounted, BooksBalance, Present
  <2>3. CASE S = {}
    BY <1>1, <2>2, <2>3 DEF Promise!Become, Promise!vars
  <2>4. CASE S # {}
    BY <2>1, <2>2, <2>4 DEF Promise!Deliver, Promise!Next
  <2> QED BY <2>3, <2>4
<1> QED BY <1>3, <1>4, <1>5 DEF Moves

-----------------------------------------------------------------------------
(* Every step of an open session moves so, one step per action. *)

\* Steps that accept and withdraw nothing.
LEMMA QuietMoves ==
  ASSUME MessagesGrow, NEW S \in SUBSET Present, RecordsOnly(S), Present' \subseteq Present,
         accepted' = accepted, Accounted' = Accounted
  PROVE  Moves
BY DEF Moves, MessagesGrow, RecordsOnly

\* Steps that touch neither the table nor the bookkeeping.
LEMMA IdleMoves ==
  ASSUME MessagesGrow, RecordsOnly({}), UNCHANGED << rows, accepted, history >>
  PROVE  Moves
<1>1. Present' \subseteq Present /\ Accounted' = Accounted BY DEF Present, Accounted
<1> QED BY <1>1, QuietMoves

LEMMA RemovesPresent ==
  ASSUME TypeOK, NEW S, RemoveItems(S) PROVE Present' \subseteq Present \ S
BY DropType DEF RemoveItems, TypeOK, Present

\* Steps that withdraw or drop what they remove.
LEMMA RemoveMoves ==
  ASSUME TypeOK, MessagesGrow, RecordsOnly({}), NEW S \in SUBSET Present, RemoveItems(S),
         accepted' = accepted, Accounted' = Accounted \cup S
  PROVE  Moves
<1>1. Present' \subseteq Present \ S BY RemovesPresent
<1> QED BY <1>1 DEF Moves, MessagesGrow, RecordsOnly

LEMMA AcceptMoves ==
  ASSUME TypeOK, QueueMirrorsTable, NEW i \in Items, i = accepted + 1,
         NEW mode \in {"queued", "steering"}, NEW S \in SUBSET Queued, Accept(i, mode, S),
         messages' = messages
  PROVE  Moves
<1>1. Accounted' = Accounted \cup S
  BY DEF Accept, Withdraw, Accounted, TypeOK, History
<1>2. S \subseteq Present BY QueuedIsPresent
<1>3. \A j \in Items : j # i /\ rows'[j] # Absent => j \in Present \ S
  BY DropType DEF Accept, TypeOK, Present
<1>4. accepted' = i /\ i # accepted BY DEF Accept, TypeOK
<1>5. \A j \in Present' : j # i => j \in Present \ S BY <1>3 DEF Present
<1>6. MessagesGrow /\ RecordsOnly({}) BY StutterGrows, StutterRecords DEF TypeOK
<1> QED BY <1>1, <1>2, <1>4, <1>5, <1>6 DEF Moves, MessagesGrow, RecordsOnly

LEMMA QueueRequestMoves ==
  ASSUME TypeOK, QueueMirrorsTable, QueueRequest PROVE Moves
<1>1. MessagesGrow /\ RecordsOnly({})
  <2>1. messages' = messages
    BY Zenon DEF QueueRequest, SendDirect, RefuseWhenFull, Reorder, Enqueue,
       EnqueueGoalIteration, Steer, DeletePending
  <2> QED BY <2>1, StutterGrows, StutterRecords DEF TypeOK
<1>2. CASE SendDirect
  BY <1>1, <1>2, IdleMoves DEF SendDirect, queueVars, boundVars
<1>3. CASE Reorder
  <2>1. \A i \in Items : i \in Queued \/ rows'[i] = rows[i] BY <1>3 DEF Reorder
  <2>2. Present' \subseteq Present BY <2>1, QueuedIsPresent DEF Present
  <2>3. accepted' = accepted /\ Accounted' = Accounted
    BY <1>3 DEF Reorder, boundVars, Accounted, TypeOK, History
  <2> QED BY <1>1, <2>2, <2>3, QuietMoves
<1>4. ASSUME NEW i \in Items, NEW mode \in {"queued", "steering"}, Enqueue(i, mode)
      PROVE  Moves
  BY <1>4, AcceptMoves DEF Enqueue
<1>5. ASSUME NEW i \in Items, EnqueueGoalIteration(i) PROVE Moves
  BY <1>5, AcceptMoves DEF EnqueueGoalIteration
<1>6. ASSUME NEW i \in Items, Steer(i) PROVE Moves
  <2>1. \A j \in Items : j = i \/ rows'[j] = rows[j] BY <1>6 DEF Steer, TypeOK
  <2>2. i \in Present BY <1>6, QueuedIsPresent DEF Steer
  <2>3. Present' \subseteq Present BY <2>1, <2>2 DEF Present
  <2>4. accepted' = accepted /\ Accounted' = Accounted
    BY <1>6 DEF Steer, Accounted, TypeOK, History
  <2> QED BY <1>1, <2>3, <2>4, QuietMoves
<1>7. ASSUME NEW i \in Items, DeletePending(i) PROVE Moves
  <2>1. {i} \in SUBSET Present BY <1>7, QueuedIsPresent DEF DeletePending, Visible
  <2>2. Accounted' = Accounted \cup {i} /\ accepted' = accepted
    BY <1>7 DEF DeletePending, Withdraw, Accounted, TypeOK, History, boundVars
  <2> QED BY <1>1, <1>7, <2>1, <2>2, RemoveMoves DEF DeletePending
<1>8. ASSUME NEW byGoalLoop \in BOOLEAN, RefuseWhenFull(byGoalLoop) PROVE Moves
  <2>1. PICK S \in SUBSET Queued : RemoveItems(S) /\ Withdraw(S)
    BY <1>8, RefusalRemoves
  <2>2. S \in SUBSET Present BY QueuedIsPresent
  <2>3. Accounted' = Accounted \cup S /\ accepted' = accepted
    BY <1>8, <2>1, RefusalRemoves DEF Withdraw, Accounted, TypeOK, History
  <2> QED BY <1>1, <2>1, <2>2, <2>3, RemoveMoves
<1> QED BY <1>2, <1>3, <1>4, <1>5, <1>6, <1>7, <1>8 DEF QueueRequest

LEMMA DrainMoves == ASSUME TypeOK, QueueMirrorsTable, Drain PROVE Moves
<1>0. MessagesGrow BY DrainAccounts DEF Accounts
<1>1. CASE DrainEmpty
  BY <1>0, <1>1, StutterRecords, IdleMoves DEF DrainEmpty, queueVars, boundVars
<1>2. ASSUME NEW i \in Items, DrainDrop(i) PROVE Moves
  <2>1. {i} \in SUBSET Present BY <1>2, QueuedIsPresent DEF DrainDrop, IsHead
  <2>2. Accounted' = Accounted \cup {i} /\ accepted' = accepted
    BY <1>2 DEF DrainDrop, Accounted, TypeOK, History, boundVars
  <2>3. RecordsOnly({}) BY <1>2, StutterRecords DEF DrainDrop
  <2> QED BY <1>0, <1>2, <2>1, <2>2, <2>3, RemoveMoves DEF DrainDrop
<1>3. ASSUME NEW i \in Items, DrainAnswered(i) PROVE Moves
  <2>1. Present' \subseteq Present BY <1>3, RemovesPresent DEF DrainAnswered
  <2>2. Accounted' = Accounted /\ accepted' = accepted
    BY <1>3 DEF DrainAnswered, Accounted, boundVars
  <2>3. RecordsOnly({}) BY <1>3, StutterRecords DEF DrainAnswered
  <2> QED BY <1>0, <2>1, <2>2, <2>3, QuietMoves
<1>4. ASSUME NEW i \in Items, DrainStart(i) PROVE Moves
  <2>1. {i} \in SUBSET Present BY <1>4, QueuedIsPresent DEF DrainStart, IsHead
  <2>2. RecordsOnly({i})
    <3>1. CASE Recorded(i)
      BY <1>4, <3>1 DEF DrainStart, RecordsOnly, Recorded, User
    <3>2. CASE ~Recorded(i)
      <4>1. messages' = Append(messages, User(i)) BY <1>4, <3>2 DEF DrainStart
      <4>2. messages \in Seq(Message) /\ User(i) \in Message /\ Harmless(User(i), {i})
        BY DEF TypeOK, User, Message, Harmless
      <4> QED BY <4>1, <4>2, AppendRecords
    <3> QED BY <3>1, <3>2
  <2>3. Present' \subseteq Present
    <3>1. \A j \in Items : j = i \/ rows'[j] = rows[j] BY <1>4 DEF DrainStart, TypeOK
    <3> QED BY <2>1, <3>1 DEF Present
  <2>4. accepted' = accepted /\ Accounted' = Accounted
    BY <1>4 DEF DrainStart, boundVars, Accounted
  <2> QED BY <1>0, <2>1, <2>2, <2>3, <2>4, QuietMoves
<1> QED BY <1>1, <1>2, <1>3, <1>4 DEF Drain

LEMMA TurnMoves == ASSUME TypeOK, TurnStep \/ TurnEnd PROVE Moves
<1>1. UNCHANGED << rows, accepted, history >>
  BY DEF TurnStep, TurnBegin, TurnRefused, TurnReply, TurnAbortFinish, Throw, TurnEnd,
     queueVars, boundVars
<1>2. MessagesGrow BY TurnStepAccounts DEF Accounts
<1>3. RecordsOnly({})
  <2> DEFINE reply == [kind |-> "reply", of |-> turn.item]
  <2>1. /\ messages \in Seq(Message) /\ User(Direct) \in Message /\ reply \in Message
        /\ Harmless(User(Direct), {}) /\ Harmless(reply, {})
    BY DEF TypeOK, Message, User, Turn, Harmless, Items, Direct
  <2>2. CASE TurnBegin
    BY <2>1, <2>2, AppendRecords, StutterRecords DEF TurnBegin
  <2>3. CASE TurnReply
    BY <2>1, <2>3, AppendRecords DEF TurnReply
  <2>4. CASE TurnAbortFinish
    BY <2>4, PersistInterruptedRecords DEF TurnAbortFinish
  <2>5. CASE TurnRefused \/ Throw \/ TurnEnd
    BY <2>5, StutterRecords DEF TurnRefused, Throw, TurnEnd
  <2> QED BY <2>2, <2>3, <2>4, <2>5 DEF TurnStep
<1> QED BY <1>1, <1>2, <1>3, IdleMoves

\* A turn absorbs steering items only, and every one it absorbs is in the table.
LEMMA AbsorbMoves == ASSUME TypeOK, QueueMirrorsTable, Absorb PROVE Moves
<1> DEFINE new == {i \in Steering : ~Recorded(i)}
           n == Cardinality(new)
<1>1. PICK order \in [1 .. n -> new] :
        messages' = messages \o [k \in 1 .. n |-> User(order[k])]
  BY DEF Absorb
<1> DEFINE s == [k \in 1 .. n |-> User(order[k])]
<1>2. n \in Nat /\ new \subseteq Items BY ItemSetsFinite DEF Steering, Queued
<1>3. \A i \in Items : User(i) \in Message BY DEF User, Message
<1>4. s \in Seq(Message) /\ DOMAIN s = 1 .. n
  <2> HIDE DEF n
  <2> QED BY <1>2, <1>3
<1>5. \A k \in 1 .. n : s[k] = User(order[k]) /\ order[k] \in Steering OBVIOUS
<1>6. \A k \in 1 .. n : Harmless(s[k], Steering) BY <1>5 DEF Harmless, User
<1> HIDE DEF s, n
<1>7. RecordsOnly(Steering)
  <2>1. messages' = messages \o s BY <1>1 DEF s
  <2> QED BY <2>1, <1>4, <1>6, ConcatRecords DEF TypeOK
<1>8. Steering \in SUBSET Present BY QueuedIsPresent DEF Steering
<1>9. Present' \subseteq Present BY RemovesPresent DEF Absorb
<1>10. MessagesGrow /\ accepted' = accepted /\ Accounted' = Accounted
  BY AbsorbAccounts DEF Accounts, Absorb, boundVars, Accounted
<1> QED BY <1>7, <1>8, <1>9, <1>10, QuietMoves

LEMMA SettleMoves == ASSUME TypeOK, Settle PROVE Moves
<1>1. PICK S : RemoveItems(S) BY DEF Settle
<1>2. Present' \subseteq Present BY <1>1, RemovesPresent
<1>3. accepted' = accepted /\ Accounted' = Accounted BY DEF Settle, boundVars, Accounted
<1> QED BY <1>2, <1>3, SettleGrows, SettleRecords, QuietMoves

LEMMA OtherMoves ==
  ASSUME TypeOK, QueueMirrorsTable, Stop \/ AbortRequest \/ OtherHolders \/ StatusExpire
  PROVE  Moves
<1>0. MessagesGrow BY OtherStepsAccount DEF Accounts
<1>1. RecordsOnly({})
  BY StopTurnRecords, StutterRecords
  DEF Stop, AbortRequest, OtherHolders, RequestAgentUpdate, AgentUpdated, GoalCommand,
      GoalCommandTurn, StatusExpire
<1>2. CASE GoalCommand
  <2> DEFINE goals == Queued \cap GoalItems
  <2>1. Accounted' = Accounted \cup goals /\ accepted' = accepted /\ RemoveItems(goals)
    BY <1>2 DEF GoalCommand, Withdraw, Accounted, TypeOK, History
  <2>2. goals \in SUBSET Present BY QueuedIsPresent
  <2> HIDE DEF goals
  <2> QED BY <1>0, <1>1, <2>1, <2>2, RemoveMoves
<1>3. CASE ~GoalCommand
  <2>1. UNCHANGED << rows, accepted, history >>
    BY <1>3 DEF Stop, AbortRequest, OtherHolders, RequestAgentUpdate, AgentUpdated,
       GoalCommandTurn, StatusExpire, queueVars, boundVars
  <2> QED BY <1>0, <1>1, <2>1, IdleMoves
<1> QED BY <1>2, <1>3

LEMMA RestartMoves == ASSUME TypeOK, QueueMirrorsTable, Restart PROVE Moves
<1>1. UNCHANGED << rows, accepted, history >>
  BY DEF Restart, Crash, Restore, OpenSession, CrashMaterializing, queueVars, boundVars
<1>2. MessagesGrow BY RestartAccounts DEF Accounts
<1>3. CASE Crash \/ Restore
  BY <1>1, <1>2, <1>3, StutterRecords, IdleMoves DEF Crash, Restore
<1>4. CASE OpenSession
  <2> DEFINE m == [kind |-> "recovered", of |-> Direct]
  <2>1. messages \in Seq(Message) /\ m \in Message /\ m.kind # "user"
    BY DEF TypeOK, Message
  <2>2. RecordsOnly({})
    BY <1>4, <2>1, StutterRecords, InsertAfterLastUserRecords DEF OpenSession
  <2> QED BY <1>1, <1>2, <2>2, IdleMoves
<1>5. ASSUME NEW i \in Items, CrashMaterializing(i) PROVE Moves
  <2>1. /\ messages \in Seq(Message) /\ User(i) \in Message /\ Harmless(User(i), {i})
        /\ messages' = Append(messages, User(i))
    BY <1>5 DEF TypeOK, User, Message, Harmless, CrashMaterializing
  <2>2. RecordsOnly({i}) BY <2>1, AppendRecords
  <2>3. {i} \in SUBSET Present BY <1>5, QueuedIsPresent DEF CrashMaterializing, IsHead
  <2>4. Present' \subseteq Present /\ Accounted' = Accounted /\ accepted' = accepted
    BY <1>1 DEF Present, Accounted
  <2> QED BY <1>2, <2>2, <2>3, <2>4, QuietMoves
<1> QED BY <1>3, <1>4, <1>5 DEF Restart

LEMMA OpenSessionMoves ==
  ASSUME TypeOK, QueueMirrorsTable, [Next]_vars, deletion' # "gone"
  PROVE  Moves /\ deletion # "gone"
<1>1. deletion # "gone" BY GoneStays
<1>2. CASE Next /\ ~Delete
  BY <1>1, <1>2, QueueRequestMoves, DrainMoves, TurnMoves, AbsorbMoves, SettleMoves,
     OtherMoves, RestartMoves DEF Next
<1>3. CASE Delete \/ UNCHANGED vars
  <2>1. messages' = messages /\ UNCHANGED << rows, accepted, history >>
    BY <1>3 DEF Delete, DeleteBegin, DeleteIdle, DeleteWipe, vars, queueVars, boundVars
  <2> QED BY <1>1, <2>1, StutterGrows, StutterRecords, IdleMoves DEF TypeOK
<1> QED BY <1>2, <1>3

-----------------------------------------------------------------------------
LEMMA BooksInit == Init => Books
BY InitTypeOK
DEF Init, Books, QueueMirrorsTable, BooksBalance, Present, Recorded, Accounted

LEMMA BooksStep == Books /\ [Next]_vars => Books'
<1> SUFFICES ASSUME Books, [Next]_vars PROVE Books' OBVIOUS
<1>1. TypeOK' /\ QueueMirrorsTable' BY NextTypeOK, NextMirrors DEF Books
<1>2. ASSUME deletion' # "gone" PROVE BooksBalance'
  BY <1>2, OpenSessionMoves, MovesBalance DEF Books
<1> QED BY <1>1, <1>2 DEF Books

\* The queue keeps its promise: every follow-up accepted stays pending until its message is
\* delivered to the transcript or it is withdrawn, neither is ever undone, and only pending
\* ones are delivered or withdrawn, until the session is deleted.
THEOREM QueueKeepsPromise == Spec => KeepsPromise
<1>1. Init => Promise!Init
  BY ItemsAssumption DEF Init, Promise!Init, Promise!Items, Items
<1>2. Books /\ Books' /\ [Next]_vars => [Promise!Next]_(Promise!vars)
  <2> SUFFICES ASSUME Books, Books', [Next]_vars PROVE [Promise!Next]_(Promise!vars)
    OBVIOUS
  <2>1. CASE deletion' # "gone"
    BY <2>1, OpenSessionMoves, MovesRefine DEF Books
  <2>2. CASE deletion = "gone"
    BY <2>2, GoneStays DEF Promise!Next
  <2>3. CASE deletion # "gone" /\ deletion' = "gone"
    BY <2>3 DEF Promise!Next, Promise!Close
  <2> QED BY <2>1, <2>2, <2>3
<1> QED BY <1>1, <1>2, BooksInit, BooksStep, PTL DEF Spec, KeepsPromise, Promise!Spec
-----------------------------------------------------------------------------
(* One message more: whether it is appended or inserted, what was there keeps *)
(* its order.                                                                 *)

Reply(i) == [kind |-> "reply", of |-> i]

\* The transcript gets m behind its first k messages.
SplicedAt(k, m) == messages' \in Seq(Message) /\ SpliceOf(messages', messages, k, m)
Spliced(m) == \E k \in 0 .. Len(messages) : SplicedAt(k, m)

\* What stops, recoveries and failures do to the transcript: at most one message more,
\* which is neither a user's nor a reply.
Notes ==
  \/ messages' = messages
  \/ \E m \in Message : m.kind \notin {"user", "reply"} /\ Spliced(m)

LEMMA AppendSplices ==
  ASSUME messages \in Seq(Message), NEW m \in Message, messages' = Append(messages, m)
  PROVE  SplicedAt(Len(messages), m) /\ Spliced(m)
<1>1. SplicedAt(Len(messages), m) BY DEF SplicedAt, SpliceOf
<1>2. Len(messages) \in 0 .. Len(messages) OBVIOUS
<1> QED BY <1>1, <1>2 DEF Spliced

LEMMA InsertSplices ==
  ASSUME messages \in Seq(Message), NEW m \in Message, NEW k \in DOMAIN messages,
         messages' = InsertAt(messages, k + 1, m)
  PROVE  SplicedAt(k, m) /\ Spliced(m)
<1>1. k \in 1 .. Len(messages) /\ k \in 0 .. Len(messages) OBVIOUS
<1>2. SplicedAt(k, m) BY <1>1, InsertShape, Zenon DEF SplicedAt
<1> QED BY <1>1, <1>2 DEF Spliced

LEMMA InsertAfterLastUserNotes ==
  ASSUME messages \in Seq(Message), NEW m \in Message, m.kind \notin {"user", "reply"},
         InsertAfterLastUser(m)
  PROVE  Notes
<1>1. CASE \E k \in DOMAIN messages : Answerable(k)
  <2>1. PICK k \in DOMAIN messages : messages' = InsertAt(messages, k + 1, m)
    BY <1>1 DEF InsertAfterLastUser
  <2> QED BY <2>1, InsertSplices DEF Notes
<1>2. CASE ~\E k \in DOMAIN messages : Answerable(k)
  BY <1>2 DEF InsertAfterLastUser, Notes
<1> QED BY <1>1, <1>2

LEMMA StopTurnNotes == ASSUME TypeOK, StopTurn \/ PersistInterrupted PROVE Notes
<1> DEFINE m == [kind |-> "interrupted", of |-> turn.item]
<1>1. messages \in Seq(Message) /\ m \in Message /\ m.kind \notin {"user", "reply"}
  BY DEF TypeOK, Message, Turn
<1>2. PersistInterrupted => Notes
  BY <1>1, InsertAfterLastUserNotes DEF PersistInterrupted, Notes
<1> QED BY <1>2 DEF StopTurn, Notes

LEMMA SettleNotes == ASSUME TypeOK, Settle PROVE Notes
<1> DEFINE item == Head(settling).item
           failure == [kind |-> "failure", of |-> item]
<1>1. messages \in Seq(Message) /\ item \in Items \cup {Direct}
  BY SettlingHead DEF TypeOK, Settle, FinishedTurn
<1>2. failure \in Message /\ failure.kind \notin {"user", "reply"}
  BY <1>1 DEF Message
<1>3. CASE Head(settling).outcome = "threw" /\ item # Direct
  <2>1. RecordFailure(item) BY <1>3 DEF Settle
  <2>2. Spliced(failure)
    <3>1. CASE Recorded(item)
      <4>1. PICK k \in DOMAIN messages : messages' = InsertAt(messages, k + 1, failure)
        BY <2>1, <3>1 DEF RecordFailure
      <4> QED BY <4>1, <1>1, <1>2, InsertSplices
    <3>2. CASE ~Recorded(item)
      <4>1. messages' = Append(messages, failure) BY <2>1, <3>2 DEF RecordFailure
      <4> QED BY <4>1, <1>1, <1>2, AppendSplices
    <3> QED BY <3>1, <3>2
  <2> QED BY <1>2, <2>2 DEF Notes
<1>4. CASE ~(Head(settling).outcome = "threw" /\ item # Direct)
  BY <1>4 DEF Settle, Notes
<1> QED BY <1>3, <1>4

\* Every step that absorbs no steering: whose message or reply it appends, if any.
LEMMA NextSpeaks ==
  ASSUME TypeOK, [Next]_vars, ~Absorb
  PROVE  \/ Notes
         \/ \E i \in Items : /\ DrainStart(i) \/ CrashMaterializing(i)
                             /\ ~Recorded(i) /\ messages' = Append(messages, User(i))
         \/ TurnBegin /\ messages' = Append(messages, User(Direct))
         \/ TurnReply
         \/ DeleteWipe
<1>1. CASE QueueRequest \/ TurnEnd \/ AbortRequest \/ StatusExpire \/ UNCHANGED vars
  <2>1. messages' = messages
    BY <1>1, Zenon DEF QueueRequest, SendDirect, RefuseWhenFull, Reorder, Enqueue,
       EnqueueGoalIteration, Steer, DeletePending, TurnEnd, AbortRequest, StatusExpire, vars
  <2> QED BY <2>1 DEF Notes
<1>2. CASE Drain
  <2>1. CASE DrainEmpty \/ \E i \in Items : DrainDrop(i) \/ DrainAnswered(i)
    BY <2>1 DEF DrainEmpty, DrainDrop, DrainAnswered, Notes
  <2>2. ASSUME NEW i \in Items, DrainStart(i), ~Recorded(i)
        PROVE  messages' = Append(messages, User(i))
    BY <2>2 DEF DrainStart
  <2>3. ASSUME NEW i \in Items, DrainStart(i), Recorded(i) PROVE Notes
    BY <2>3 DEF DrainStart, Notes
  <2> QED BY <1>2, <2>1, <2>2, <2>3 DEF Drain
<1>3. CASE TurnStep
  <2>1. CASE TurnBegin BY <2>1 DEF TurnBegin, Notes
  <2>2. CASE TurnRefused \/ Throw BY <2>2 DEF TurnRefused, Throw, Notes
  <2>3. CASE TurnAbortFinish BY <2>3, StopTurnNotes DEF TurnAbortFinish
  <2> QED BY <1>3, <2>1, <2>2, <2>3 DEF TurnStep
<1>4. CASE Settle BY <1>4, SettleNotes
<1>5. CASE Stop BY <1>5, StopTurnNotes DEF Stop
<1>6. CASE OtherHolders
  <2>1. CASE GoalCommand BY <2>1, StopTurnNotes DEF GoalCommand
  <2>2. CASE ~GoalCommand
    BY <1>6, <2>2 DEF OtherHolders, RequestAgentUpdate, AgentUpdated, GoalCommandTurn, Notes
  <2> QED BY <2>1, <2>2
<1>7. CASE Restart
  <2>1. CASE Crash \/ Restore BY <2>1 DEF Crash, Restore, Notes
  <2>2. CASE OpenSession
    <3>1. messages \in Seq(Message) /\ [kind |-> "recovered", of |-> Direct] \in Message
      BY DEF TypeOK, Message
    <3> QED BY <2>2, <3>1, InsertAfterLastUserNotes DEF OpenSession, Notes
  <2>3. ASSUME NEW i \in Items, CrashMaterializing(i)
        PROVE  ~Recorded(i) /\ messages' = Append(messages, User(i))
    BY <2>3 DEF CrashMaterializing
  <2> QED BY <1>7, <2>1, <2>2, <2>3 DEF Restart
<1>8. CASE Delete
  BY <1>8 DEF Delete, DeleteBegin, DeleteIdle, Notes
<1> QED BY <1>1, <1>2, <1>3, <1>4, <1>5, <1>6, <1>7, <1>8 DEF Next

\* How a step moves the turn that holds the mutex.
LEMMA NextTurn ==
  ASSUME TypeOK, [Next]_vars
  PROVE  \/ turn' = turn \/ Absorb
         \/ TurnBegin /\ turn'.item = turn.item /\ turn'.phase = "running"
         \/ turn'.item = turn.item /\ turn'.phase \in {"replied", "threw"}
         \/ turn'.item = Direct /\ turn'.phase \in {"none", "starting"}
         \/ \E i \in Items : DrainStart(i)
<1> USE DEF runVars
<1>0. turn \in Turn BY DEF TypeOK
<1>1. CASE QueueRequest
  <2>1. CASE SendDirect BY <2>1 DEF SendDirect, NoTurn
  <2>2. CASE ~SendDirect
    BY <1>1, <2>2, Zenon DEF QueueRequest, RefuseWhenFull, Reorder, Enqueue,
       EnqueueGoalIteration, Steer, DeletePending
  <2> QED BY <2>1, <2>2
<1>2. CASE Drain BY <1>2, Zenon DEF Drain, DrainEmpty, DrainDrop, DrainAnswered
<1>3. CASE TurnStep
  BY <1>0, <1>3
  DEF TurnStep, TurnBegin, TurnRefused, TurnReply, TurnAbortFinish, Throw, Turn
<1>4. CASE TurnEnd BY <1>4 DEF TurnEnd, NoTurn
<1>5. CASE OtherHolders
  BY <1>5 DEF OtherHolders, RequestAgentUpdate, AgentUpdated, GoalCommand, GoalCommandTurn,
     NoTurn
<1>6. CASE Restart
  BY <1>6 DEF Restart, Crash, Restore, OpenSession, CrashMaterializing, NoTurn
<1>7. CASE Delete BY <1>7 DEF Delete, DeleteBegin, DeleteIdle, DeleteWipe
<1>8. CASE Absorb \/ Settle \/ Stop \/ AbortRequest \/ StatusExpire \/ UNCHANGED vars
  BY <1>8, Zenon DEF Settle, Stop, AbortRequest, StatusExpire, vars
<1> QED BY <1>1, <1>2, <1>3, <1>4, <1>5, <1>6, <1>7, <1>8 DEF Next

-----------------------------------------------------------------------------
(* A stopped turn stays answered. *)

\* The last message is not a user's.
Closed == messages = << >> \/ messages[Len(messages)].kind # "user"

\* While a turn runs its session is in memory, so that a stop always reaches the
\* transcript; and once it has been stopped nobody but it could record a user message.
StopInv ==
  deletion # "gone" /\ turn.phase = "running" =>
    resident /\ (controller = "stopped" => Closed)

LEMMA NotesClose ==
  ASSUME messages \in Seq(Message), Closed, Notes PROVE Closed'
<1>1. CASE messages' = messages BY <1>1 DEF Closed
<1>2. ASSUME NEW m \in Message, m.kind # "user", NEW k \in 0 .. Len(messages),
             SplicedAt(k, m)
      PROVE  Closed'
  <2>1. /\ Len(messages) \in Nat /\ Len(messages') = Len(messages) + 1
        /\ messages'[k + 1] = m
        /\ \A l \in 1 .. Len(messages) : l > k => messages'[l + 1] = messages[l]
    BY <1>2 DEF SplicedAt, SpliceOf
  <2>2. CASE k = Len(messages)
    BY <2>1, <2>2, <1>2 DEF Closed
  <2>3. CASE k # Len(messages)
    <3>1. Len(messages) \in 1 .. Len(messages) /\ Len(messages) > k BY <2>1, <2>3
    <3>2. messages'[Len(messages) + 1] = messages[Len(messages)] BY <2>1, <3>1
    <3>3. messages # << >> BY <3>1
    <3> QED BY <2>1, <3>2, <3>3 DEF Closed
  <2> QED BY <2>2, <2>3
<1> QED BY <1>1, <1>2 DEF Notes, Spliced

\* Behind a stop the latest user message has an answer.
LEMMA StopCloses ==
  ASSUME TypeOK, turn.phase # "starting", PersistInterrupted PROVE Closed'
<1> DEFINE m == [kind |-> "interrupted", of |-> turn.item]
<1>1. messages \in Seq(Message) /\ m \in Message /\ m.kind # "user"
  BY DEF TypeOK, Message, Turn
<1>2. \A k \in DOMAIN messages : Answerable(k) <=> messages[k].kind = "user"
  BY DEF Answerable
<1>3. DOMAIN messages = 1 .. Len(messages) /\ Len(messages) \in Nat
  BY <1>1
<1>4. messages # << >> => Len(messages) \in DOMAIN messages
  BY <1>1
<1>5. ASSUME NEW k, LastUser(k), Len(messages) # k PROVE Closed
  <2>1. k \in DOMAIN messages /\ Len(messages) > k BY <1>3, <1>5 DEF LastUser
  <2> QED BY <1>2, <1>3, <1>4, <1>5, <2>1 DEF LastUser, Closed
<1>6. CASE \E k \in DOMAIN messages : LastUser(k) /\ InterruptedAt(k)
  <2>1. PICK k \in DOMAIN messages : LastUser(k) /\ InterruptedAt(k) BY <1>6
  <2>2. Len(messages) # k BY <2>1, <1>3 DEF InterruptedAt
  <2>3. Closed BY <2>1, <2>2, <1>5
  <2>4. messages' = messages BY <1>6 DEF PersistInterrupted
  <2> QED BY <2>3, <2>4 DEF Closed
<1>7. CASE ~\E k \in DOMAIN messages : LastUser(k) /\ InterruptedAt(k)
  <2>1. InsertAfterLastUser(m) BY <1>7 DEF PersistInterrupted
  <2>2. CASE \E k \in DOMAIN messages : Answerable(k)
    <3>1. PICK k \in DOMAIN messages : LastUser(k) /\ messages' = InsertAt(messages, k + 1, m)
      BY <2>1, <2>2 DEF InsertAfterLastUser
    <3>2. SplicedAt(k, m) BY <1>1, <3>1, InsertSplices
    <3>3. CASE Len(messages) # k
      <4>1. Closed BY <3>1, <3>3, <1>5
      <4>2. Spliced(m) BY <1>1, <3>1, InsertSplices
      <4>3. messages' = messages \/ m.kind \notin {"user", "reply"} OBVIOUS
      <4> QED BY <1>1, <4>1, <4>2, <4>3, NotesClose DEF Notes
    <3>4. CASE Len(messages) = k
      BY <1>1, <1>3, <3>2, <3>4 DEF SplicedAt, SpliceOf, Closed
    <3> QED BY <3>3, <3>4
  <2>3. CASE ~\E k \in DOMAIN messages : Answerable(k)
    <3>1. messages' = messages BY <2>1, <2>3 DEF InsertAfterLastUser
    <3>2. Closed BY <1>2, <1>4, <2>3 DEF Closed
    <3> QED BY <3>1, <3>2 DEF Closed
  <2> QED BY <2>2, <2>3
<1> QED BY <1>6, <1>7

LEMMA StopInvStep == TypeOK /\ StopInv /\ [Next]_vars => StopInv'
<1> SUFFICES ASSUME TypeOK, StopInv, [Next]_vars,
                    deletion' # "gone", turn'.phase = "running"
             PROVE  resident' /\ (controller' = "stopped" => Closed')
  BY DEF StopInv
<1> USE DEF queueVars, runVars, sessionVars, boundVars
<1>0. deletion # "gone" BY GoneStays
<1>1. CASE turn.phase # "running"
  <2>1. CASE TurnBegin BY <2>1 DEF TurnBegin
  <2>2. CASE Absorb BY <1>1, <2>2 DEF Absorb
  <2>3. ASSUME NEW i \in Items PROVE ~DrainStart(i) BY DEF DrainStart
  <2> QED BY <1>1, <2>1, <2>2, <2>3, NextTurn
<1>2. CASE turn.phase = "running"
  <2>0. resident /\ (controller = "stopped" => Closed) BY <1>0, <1>2 DEF StopInv
  <2>1. Locked BY <1>2 DEF Locked
  <2>2. CASE QueueRequest \/ TurnEnd \/ AbortRequest \/ StatusExpire \/ UNCHANGED vars
    <3>1. CASE AbortRequest BY <2>0, <3>1 DEF AbortRequest
    <3>2. CASE ~AbortRequest
      <4>1. resident' = resident /\ messages' = messages /\ controller' = controller
        BY <2>2, <3>2, Zenon
        DEF QueueRequest, SendDirect, RefuseWhenFull, Reorder, Enqueue, EnqueueGoalIteration,
            Steer, DeletePending, TurnEnd, StatusExpire, vars
      <4> QED BY <2>0, <4>1 DEF Closed
    <3> QED BY <3>1, <3>2
  <2>3. CASE Drain
    BY <2>0, <2>1, <2>3
    DEF Drain, DrainEmpty, DrainDrop, DrainAnswered, DrainStart, DrainFires
  <2>4. CASE TurnStep
    <3>1. turn \in Turn BY DEF TypeOK
    <3> QED
      BY <1>2, <2>4, <3>1
      DEF TurnStep, TurnBegin, TurnRefused, TurnReply, TurnAbortFinish, Throw, Turn
  <2>10. CASE Restart
    <3>1. ~Crash BY DEF Crash, NoTurn
    <3>2. \A i \in Items : ~CrashMaterializing(i)
      BY <2>1 DEF CrashMaterializing, DrainFires
    <3> QED BY <1>2, <2>0, <2>10, <3>1, <3>2 DEF Restart, Restore, OpenSession, Closed
  <2>5. CASE Absorb BY <2>0, <2>5 DEF Absorb
  <2>6. CASE Settle
    BY <2>0, <2>6, SettleNotes, NotesClose DEF Settle, TypeOK
  <2>7. CASE StopTurn /\ resident' = resident
    BY <1>2, <2>0, <2>7, StopCloses DEF StopTurn, Closed
  <2>8. CASE Stop \/ GoalCommand BY <2>7, <2>8 DEF Stop, GoalCommand
  <2>9. CASE RequestAgentUpdate \/ AgentUpdated \/ GoalCommandTurn \/ Delete
    BY <1>0, <1>2, <2>0, <2>9
    DEF RequestAgentUpdate, AgentUpdated, GoalCommandTurn, Delete, DeleteBegin, DeleteIdle,
        DeleteWipe, Closed
  <2> QED
    BY <2>2, <2>3, <2>4, <2>5, <2>6, <2>8, <2>9, <2>10 DEF Next, OtherHolders
<1> QED BY <1>1, <1>2

\* Once a running turn is stopped, by its user or by the end of its goal, the latest user
\* message keeps an answer behind it, so that a restart does not run the stopped turn again.
THEOREM StoppedStaysAnswered == Spec => []StoppedTurnStaysAnswered
<1>1. Init => StopInv BY DEF Init, StopInv, NoTurn
<1>2. TypeOK /\ StopInv => StoppedTurnStaysAnswered
  <2> SUFFICES ASSUME TypeOK, StopInv, turn.phase = "running", controller = "stopped",
                      deletion # "gone", NEW k \in DOMAIN messages, LastUser(k)
               PROVE  k + 1 \in DOMAIN messages
    BY DEF StoppedTurnStaysAnswered
  <2>1. messages \in Seq(Message) /\ messages[k].kind = "user" /\ k \in 1 .. Len(messages)
    BY DEF TypeOK, LastUser, Answerable
  <2>2. k # Len(messages) BY <2>1 DEF StopInv, Closed
  <2> QED BY <2>1, <2>2
<1> QED BY <1>1, <1>2, StopInvStep, TypeCorrect, PTL DEF Spec
-----------------------------------------------------------------------------
(* The index of each message after one more. *)

Up(l, k) == IF l <= k THEN l ELSE l + 1

LEMMA SpliceIndex ==
  ASSUME messages \in Seq(Message), NEW m \in Message, NEW k \in 0 .. Len(messages),
         SplicedAt(k, m)
  PROVE  /\ k + 1 \in DOMAIN messages' /\ messages'[k + 1] = m
         /\ \A l \in DOMAIN messages :
              Up(l, k) \in DOMAIN messages' /\ messages'[Up(l, k)] = messages[l]
         /\ \A j \in DOMAIN messages' \ {k + 1} : \E l \in DOMAIN messages : j = Up(l, k)
         /\ \A l, n \in DOMAIN messages :
              (l < n <=> Up(l, k) < Up(n, k)) /\ (l = n <=> Up(l, k) = Up(n, k))
<1>1. /\ DOMAIN messages = 1 .. Len(messages) /\ DOMAIN messages' = 1 .. Len(messages')
      /\ Len(messages) \in Nat /\ Len(messages') = Len(messages) + 1
  BY DEF SplicedAt, SpliceOf
<1>2. ASSUME NEW l \in DOMAIN messages
      PROVE  Up(l, k) \in DOMAIN messages' /\ messages'[Up(l, k)] = messages[l]
  <2>1. CASE l <= k
    <3>1. l \in 1 .. k /\ Up(l, k) = l /\ l \in DOMAIN messages' BY <1>1, <2>1 DEF Up
    <3> QED BY <3>1 DEF SplicedAt, SpliceOf
  <2>2. CASE l > k
    <3>1. l \in 1 .. Len(messages) /\ Up(l, k) = l + 1 /\ l + 1 \in DOMAIN messages'
      BY <1>1, <2>2 DEF Up
    <3> QED BY <2>2, <3>1 DEF SplicedAt, SpliceOf
  <2> QED BY <1>1, <2>1, <2>2
<1>3. ASSUME NEW j \in DOMAIN messages' \ {k + 1} PROVE \E l \in DOMAIN messages : j = Up(l, k)
  <2>1. CASE j <= k BY <1>1, <2>1 DEF Up
  <2>2. CASE j > k + 1
    <3>1. j - 1 \in DOMAIN messages /\ j = Up(j - 1, k) BY <1>1, <2>2 DEF Up
    <3> QED BY <3>1
  <2> QED BY <1>1, <2>1, <2>2
<1>4. \A l, n \in DOMAIN messages :
        (l < n <=> Up(l, k) < Up(n, k)) /\ (l = n <=> Up(l, k) = Up(n, k))
  BY <1>1 DEF Up
<1>5. k + 1 \in DOMAIN messages' /\ messages'[k + 1] = m BY <1>1 DEF SplicedAt, SpliceOf
<1> QED BY <1>2, <1>3, <1>4, <1>5

\* The message of i stands before that of j.
Precedes(i, j) ==
  \E k, l \in DOMAIN messages : k < l /\ messages[k] = User(i) /\ messages[l] = User(j)

LEMMA SpliceKeepsOrder ==
  ASSUME messages \in Seq(Message), NEW m \in Message, Spliced(m), NEW i, NEW j,
         Precedes(i, j)
  PROVE  Precedes(i, j)'
<1>1. PICK k \in 0 .. Len(messages) : SplicedAt(k, m) BY DEF Spliced
<1>2. PICK a, b \in DOMAIN messages : a < b /\ messages[a] = User(i) /\ messages[b] = User(j)
  BY DEF Precedes
<1>3. /\ Up(a, k) \in DOMAIN messages' /\ Up(b, k) \in DOMAIN messages'
      /\ Up(a, k) < Up(b, k)
      /\ messages'[Up(a, k)] = messages[a] /\ messages'[Up(b, k)] = messages[b]
  BY <1>1, <1>2, SpliceIndex
<1> QED BY <1>2, <1>3 DEF Precedes, User

LEMMA SpliceRecords ==
  ASSUME messages \in Seq(Message), NEW m \in Message, Spliced(m), NEW i, m # User(i),
         Recorded(i)'
  PROVE  Recorded(i)
<1>1. PICK k \in 0 .. Len(messages) : SplicedAt(k, m) BY DEF Spliced
<1>2. PICK j \in DOMAIN messages' : messages'[j] = User(i) BY DEF Recorded, User
<1>3. j # k + 1 BY <1>1, <1>2, SpliceIndex
<1>4. PICK l \in DOMAIN messages : j = Up(l, k) BY <1>1, <1>3, SpliceIndex
<1>5. messages[l] = User(i) BY <1>1, <1>2, <1>4, SpliceIndex
<1> QED BY <1>5 DEF Recorded

LEMMA NotesKeepOrder ==
  ASSUME messages \in Seq(Message), Notes, NEW i, NEW j
  PROVE  /\ Precedes(i, j) => Precedes(i, j)'
         /\ Recorded(j)' => Recorded(j)
<1>1. CASE messages' = messages BY <1>1 DEF Precedes, Recorded, User
<1>2. ASSUME NEW m \in Message, m.kind # "user", Spliced(m)
      PROVE  /\ Precedes(i, j) => Precedes(i, j)'
             /\ Recorded(j)' => Recorded(j)
  BY <1>2, SpliceKeepsOrder, SpliceRecords, User(j).kind = "user" DEF User
<1> QED BY <1>1, <1>2 DEF Notes
-----------------------------------------------------------------------------
(* Follow-ups are recorded in the order of acceptance. *)

\* No client steers or reorders, this process has not been restarted, and the session is there.
Calm == crashes = 0 /\ Enabled \cap {"steer", "reorder"} = {} /\ deletion # "gone"

\* The queue is in the order of acceptance, and what comes next goes behind all of it.
QueueInOrder ==
  /\ restored
  /\ \A i \in Items \ Queued : queue[i] = Absent
  /\ \A i \in Queued : queue[i].mode = "queued" /\ queue[i].sequence <= counter
  /\ \A i, j \in Queued : i < j => queue[i].sequence < queue[j].sequence
RecordedInOrder ==
  \A i, j \in Items : i < j /\ Recorded(j) => i \in Accounted \/ Precedes(i, j)

\* FollowUpsInOrder needs both: an item is recorded when it heads the queue, which must by
\* then hold none that was accepted before it.
OrderInv == Calm => QueueInOrder /\ RecordedInOrder

\* What stays queued keeps its place.
Stays(S) ==
  \A j \in S : /\ j \in Queued
               /\ queue'[j].mode = queue[j].mode /\ queue'[j].sequence = queue[j].sequence
Clears == \A i \in Items \ Queued' : queue'[i] = Absent \/ queue'[i] = queue[i]
QueueKept == counter' >= counter /\ Stays(Queued') /\ Clears
QueueGrows ==
  LET i == accepted + 1
  IN /\ counter' = counter + 1 /\ i \in Items
     /\ queue'[i].mode = "queued" /\ queue'[i].sequence = counter + 1
     /\ Stays(Queued' \ {i}) /\ Clears

LEMMA RemovalKeeps ==
  ASSUME TypeOK, NEW S, RemoveItems(S), counter' \in {counter, counter + 1} PROVE QueueKept
<1>1. \A i \in Items : queue'[i] = Absent \/ (queue'[i] = queue[i])
  BY DropType DEF TypeOK, RemoveItems
<1>2. counter \in Nat BY DEF TypeOK
<1> QED BY <1>1, <1>2 DEF QueueKept, Stays, Clears, Queued, Absent

LEMMA SameQueueKept ==
  ASSUME TypeOK, queue' = queue, counter' = counter PROVE QueueKept
<1>1. counter \in Nat BY DEF TypeOK
<1> QED BY <1>1 DEF QueueKept, Stays, Clears, Queued

LEMMA AcceptQueues ==
  ASSUME TypeOK, NEW i \in Items, NEW S, i = accepted + 1, Accept(i, "queued", S)
  PROVE  QueueGrows
<1>1. Drop(queue, S) \in [Items -> Entry] BY DropType DEF TypeOK
<1>2. \A j \in Items : Drop(queue, S)[j] = Absent \/ Drop(queue, S)[j] = queue[j]
  BY DropType DEF TypeOK
<1>3. /\ queue'[i].mode = "queued" /\ queue'[i].sequence = counter + 1
      /\ \A j \in Items \ {i} : queue'[j] = Drop(queue, S)[j]
      /\ counter' = counter + 1
  BY <1>1 DEF Accept
<1>4. \A j \in Queued' \ {i} : j \in Items /\ queue'[j] = queue[j] /\ j \in Queued
  BY <1>2, <1>3 DEF Queued, Absent
<1>5. i \in Queued' BY <1>3 DEF Queued
<1>6. Clears BY <1>2, <1>3, <1>5 DEF Clears
<1> QED BY <1>3, <1>4, <1>6 DEF QueueGrows, Stays

LEMMA NextQueues ==
  ASSUME TypeOK, [Next]_vars, Calm, Calm', QueueInOrder
  PROVE  (QueueKept \/ QueueGrows) /\ restored'
<1> USE DEF queueVars, runVars, sessionVars, boundVars
<1>0. /\ "steer" \notin Enabled /\ "reorder" \notin Enabled /\ counter \in Nat /\ restored
      /\ crashes' = crashes /\ deletion' # "gone" /\ crashes \in Nat
  BY DEF Calm, TypeOK, QueueInOrder
<1>1. CASE QueueRequest
  <2>0. restored' = restored
    BY <1>1, Zenon DEF QueueRequest, SendDirect, Reorder, RefuseWhenFull, Enqueue,
       EnqueueGoalIteration, Steer, DeletePending
  <2>1. CASE SendDirect
    <3>1. queue' = queue /\ counter' = counter BY <2>1, Zenon DEF SendDirect
    <3> QED BY <1>0, <2>0, <3>1, SameQueueKept
  <2>2. ASSUME NEW byGoalLoop \in BOOLEAN, RefuseWhenFull(byGoalLoop) PROVE QueueKept
    BY <2>2, RemovalKeeps DEF RefuseWhenFull
  <2>3. ASSUME NEW i \in Items, NEW mode \in {"queued", "steering"}, Enqueue(i, mode)
        PROVE  QueueGrows
    <3>1. mode = "queued" /\ i = accepted + 1 BY <1>0, <2>3 DEF Enqueue
    <3>2. Accept(i, "queued", Queued \cap GoalItems) BY <2>3, <3>1 DEF Enqueue
    <3> QED BY <3>1, <3>2, AcceptQueues
  <2>4. ASSUME NEW i \in Items, EnqueueGoalIteration(i) PROVE QueueGrows
    BY <2>4, AcceptQueues DEF EnqueueGoalIteration
  <2>5. ASSUME NEW i \in Items, DeletePending(i) PROVE QueueKept
    BY <2>5, RemovalKeeps DEF DeletePending
  <2>6. ~Reorder /\ \A i \in Items : ~Steer(i) BY <1>0 DEF Reorder, Steer
  <2> QED BY <1>0, <1>1, <2>0, <2>1, <2>2, <2>3, <2>4, <2>5, <2>6 DEF QueueRequest
<1>2. CASE Drain
  <2>1. CASE DrainEmpty BY <1>0, <2>1, SameQueueKept DEF DrainEmpty
  <2>2. ASSUME NEW i \in Items, DrainDrop(i) PROVE QueueKept /\ restored'
    BY <1>0, <2>2, RemovalKeeps DEF DrainDrop
  <2>3. ASSUME NEW i \in Items, DrainAnswered(i) PROVE QueueKept /\ restored'
    BY <1>0, <2>3, RemovalKeeps DEF DrainAnswered
  <2>4. ASSUME NEW i \in Items, DrainStart(i) PROVE QueueKept /\ restored'
    <3>1. /\ queue' = [queue EXCEPT ![i].materialized = TRUE] /\ counter' = counter
          /\ restored' = restored /\ i \in Queued
      BY <2>4 DEF DrainStart, IsHead
    <3>2. \A j \in Items : queue'[j].mode = queue[j].mode /\ queue'[j].sequence = queue[j].sequence
      BY <3>1 DEF TypeOK, Entry
    <3>3. \A j \in Items : j \in Queued' <=> j \in Queued BY <3>2 DEF Queued
    <3>4. \A j \in Items \ {i} : queue'[j] = queue[j] BY <3>1 DEF TypeOK
    <3>5. Clears BY <3>1, <3>3, <3>4 DEF Clears
    <3>6. Stays(Queued') BY <3>2, <3>3 DEF Stays, Queued
    <3> QED BY <1>0, <3>1, <3>5, <3>6 DEF QueueKept
  <2> QED BY <1>2, <2>1, <2>2, <2>3, <2>4, <1>0 DEF Drain, DrainEmpty
<1>3. CASE TurnStep \/ TurnEnd \/ Stop \/ AbortRequest \/ StatusExpire \/ UNCHANGED vars
  <2>1. queue' = queue /\ counter' = counter /\ restored' = restored
    BY <1>3, Zenon
    DEF TurnStep, TurnBegin, TurnRefused, TurnReply, TurnAbortFinish, Throw, TurnEnd, Stop,
        AbortRequest, StatusExpire, vars
  <2> QED BY <1>0, <2>1, SameQueueKept
<1>4. CASE Absorb BY <1>0, <1>4, RemovalKeeps DEF Absorb
<1>5. CASE Settle BY <1>0, <1>5, RemovalKeeps DEF Settle
<1>6. CASE OtherHolders
  <2>1. CASE GoalCommand BY <1>0, <2>1, RemovalKeeps DEF GoalCommand
  <2>2. CASE ~GoalCommand
    <3>1. queue' = queue /\ counter' = counter /\ restored' = restored
      BY <1>6, <2>2, Zenon DEF OtherHolders, RequestAgentUpdate, AgentUpdated, GoalCommandTurn
    <3> QED BY <1>0, <3>1, SameQueueKept
  <2> QED BY <2>1, <2>2
<1>7. CASE Restart
  <2>1. ~Crash /\ ~Restore /\ \A i \in Items : ~CrashMaterializing(i)
    BY <1>0 DEF Crash, Restore, CrashMaterializing
  <2>2. CASE OpenSession BY <1>0, <2>2, SameQueueKept DEF OpenSession
  <2> QED BY <1>7, <2>1, <2>2 DEF Restart
<1>8. CASE Delete
  <2>1. ~DeleteWipe BY <1>0 DEF DeleteWipe
  <2>2. queue' = queue /\ counter' = counter /\ restored' = restored
    BY <1>8, <2>1, Zenon DEF Delete, DeleteBegin, DeleteIdle
  <2> QED BY <1>0, <2>2, SameQueueKept
<1> QED BY <1>1, <1>2, <1>3, <1>4, <1>5, <1>6, <1>7, <1>8 DEF Next
\* A head that is recorded leaves none behind: all earlier ones are recorded or gone.
LEMMA HeadIsOldest ==
  ASSUME TypeOK, Calm, QueueInOrder, QueueMirrorsTable, NoFollowUpLost, BooksBalance,
         NEW j \in Items, IsHead(j), NEW i \in Items, i < j
  PROVE  i \in Accounted \/ Recorded(i)
<1>1. i \notin Queued
  <2> SUFFICES ASSUME i \in Queued PROVE FALSE OBVIOUS
  <2>1. queue[i].sequence < queue[j].sequence BY DEF QueueInOrder, IsHead
  <2>2. Before(j, i) BY DEF IsHead, Items
  <2>3. queue[i].sequence \in Nat /\ queue[j].sequence \in Nat BY DEF TypeOK, Entry
  <2> QED BY <2>1, <2>2, <2>3 DEF Before, Items
<1>2. rows[i] = Absent
  BY <1>1 DEF QueueInOrder, QueueMirrorsTable
<1>3. i \in 1 .. accepted
  <2>1. j \in Present BY QueuedIsPresent DEF IsHead
  <2> QED BY <2>1 DEF BooksBalance, Items, TypeOK
<1> QED BY <1>2, <1>3 DEF NoFollowUpLost, Accounted, Calm

LEMMA QueueOrderStep ==
  ASSUME TypeOK, BooksBalance, Calm, QueueInOrder, QueueMirrorsTable, QueueKept \/ QueueGrows,
         restored', TypeOK'
  PROVE  QueueInOrder'
<1>0. counter \in Nat /\ accepted \in Nat /\ \A i \in Items : queue[i].sequence \in Nat
  BY DEF TypeOK, Entry
<1>3. \A i \in Items \ Queued' : queue'[i] = Absent
  BY DEF QueueKept, QueueGrows, Clears, QueueInOrder, Queued
<1>1. CASE QueueKept
  <2>1. /\ counter' \in Nat /\ counter' >= counter
        /\ \A i \in Queued' : /\ i \in Queued /\ i \in Items /\ queue'[i].mode = queue[i].mode
                              /\ queue'[i].sequence = queue[i].sequence
    BY <1>0, <1>1 DEF QueueKept, Stays, Queued, TypeOK
  <2>2. \A i \in Queued' : queue'[i].mode = "queued" /\ queue'[i].sequence <= counter'
    BY <1>0, <2>1 DEF QueueInOrder
  <2>3. \A i, j \in Queued' : i < j => queue'[i].sequence < queue'[j].sequence
    BY <2>1 DEF QueueInOrder
  <2> QED BY <1>3, <2>2, <2>3 DEF QueueInOrder
<1>2. CASE QueueGrows
  <2> DEFINE new == accepted + 1
  <2>1. /\ counter' = counter + 1
        /\ queue'[new].mode = "queued" /\ queue'[new].sequence = counter + 1
    BY <1>2 DEF QueueGrows
  <2>2. \A i \in Queued' \ {new} :
          /\ i \in Queued /\ queue'[i].mode = "queued"
          /\ queue'[i].sequence = queue[i].sequence /\ queue[i].sequence <= counter
    BY <1>2 DEF QueueGrows, Stays, QueueInOrder
  <2>3. \A i \in Queued : i < new /\ i \in Items
    BY <1>0, QueuedIsPresent DEF BooksBalance, Queued, Items
  <2>4. \A i \in Queued' : i \in Items BY DEF Queued
  <2> HIDE DEF new
  <2>5. \A i \in Queued' : queue'[i].mode = "queued" /\ queue'[i].sequence <= counter'
    BY <1>0, <2>1, <2>2, <2>4
  <2>6. ASSUME NEW i \in Queued', NEW j \in Queued', i < j
        PROVE  queue'[i].sequence < queue'[j].sequence
    <3>1. i # new
      <4> SUFFICES ASSUME i = new PROVE FALSE OBVIOUS
      <4>1. j # new /\ j \in Queued BY <2>2, <2>6, <2>4 DEF Items
      <4> QED BY <4>1, <2>3, <2>6, <2>4 DEF Items
    <3>2. CASE j = new BY <1>0, <2>1, <2>2, <2>3, <3>1, <3>2
    <3>3. CASE j # new BY <2>2, <2>6, <3>1, <3>3 DEF QueueInOrder
    <3> QED BY <3>2, <3>3
  <2> QED BY <1>3, <2>5, <2>6 DEF QueueInOrder
<1> QED BY <1>1, <1>2

LEMMA RecordedOrderStep ==
  ASSUME TypeOK, BooksBalance, Calm, QueueInOrder, QueueMirrorsTable, NoFollowUpLost,
         RecordedInOrder, [Next]_vars, Calm'
  PROVE  RecordedInOrder'
<1>0. /\ messages \in Seq(Message) /\ Accounted \subseteq Accounted' /\ ~DeleteWipe
      /\ \A i \in Items \cup {Direct} : User(i) \in Message
  BY OpenSessionMoves DEF TypeOK, Moves, Calm, DeleteWipe, User, Message
<1> SUFFICES ASSUME NEW i \in Items, NEW j \in Items, i < j, Recorded(j)'
             PROVE  i \in Accounted' \/ Precedes(i, j)'
  BY DEF RecordedInOrder
<1>1. ASSUME NEW m \in Message, messages' = Append(messages, m), m # User(j)
      PROVE  i \in Accounted' \/ Precedes(i, j)'
  <2>1. Spliced(m) BY <1>0, <1>1, AppendSplices
  <2>2. Recorded(j) BY <1>0, <1>1, <2>1, SpliceRecords
  <2> QED BY <1>0, <2>1, <2>2, SpliceKeepsOrder DEF RecordedInOrder
<1>2. CASE Notes
  BY <1>0, <1>2, NotesKeepOrder DEF RecordedInOrder
<1>3. ASSUME NEW n \in Items, DrainStart(n) \/ CrashMaterializing(n),
             messages' = Append(messages, User(n))
      PROVE  i \in Accounted' \/ Precedes(i, j)'
  <2>1. CASE n # j
    <3>1. User(n) # User(j) BY <2>1 DEF User
    <3> QED BY <1>0, <1>1, <1>3, <3>1
  <2>2. CASE n = j
    <3>1. i \in Accounted \/ Recorded(i)
      BY <1>3, <2>2, HeadIsOldest DEF DrainStart, CrashMaterializing
    <3>2. ASSUME Recorded(i) PROVE Precedes(i, j)'
      <4>1. PICK k \in DOMAIN messages : messages[k] = User(i) BY <3>2 DEF Recorded
      <4>2. /\ k < Len(messages) + 1 /\ k \in DOMAIN messages'
            /\ Len(messages) + 1 \in DOMAIN messages'
            /\ messages'[k] = User(i) /\ messages'[Len(messages) + 1] = User(j)
        BY <1>0, <1>3, <2>2, <4>1
      <4> QED BY <4>2 DEF Precedes, User
    <3> QED BY <1>0, <3>1, <3>2
  <2> QED BY <2>1, <2>2
<1>4. CASE messages' = Append(messages, User(Direct))
  <2>1. User(Direct) # User(j) BY DEF User, Direct, Items
  <2> QED BY <1>0, <1>1, <1>4, <2>1
<1>5. CASE TurnReply
  <2>1. Reply(turn.item) \in Message /\ Reply(turn.item) # User(j)
    BY DEF Reply, User, Message, TypeOK, Turn
  <2>2. messages' = Append(messages, Reply(turn.item)) BY <1>5 DEF TurnReply, Reply
  <2> QED BY <1>1, <2>1, <2>2
<1>6. ~Absorb
  BY DEF Absorb, Steering, QueueInOrder
<1> QED BY <1>0, <1>2, <1>3, <1>4, <1>5, <1>6, NextSpeaks

LEMMA CrashesCount ==
  ASSUME TypeOK, [Next]_vars PROVE crashes' \in {crashes, crashes + 1}
<1>1. CASE QueueRequest
  BY <1>1, Zenon DEF QueueRequest, SendDirect, Reorder, RefuseWhenFull, Enqueue,
     EnqueueGoalIteration, Steer, DeletePending, Accept, boundVars
<1>2. CASE Drain \/ TurnStep
  BY <1>2, Zenon DEF Drain, DrainEmpty, DrainDrop, DrainAnswered, DrainStart, TurnStep,
     TurnBegin, TurnRefused, TurnReply, TurnAbortFinish, Throw, boundVars
<1>3. CASE Absorb \/ TurnEnd \/ Settle \/ Stop \/ AbortRequest \/ OtherHolders \/ StatusExpire
  BY <1>3, Zenon DEF Absorb, TurnEnd, Settle, Stop, AbortRequest, OtherHolders,
     RequestAgentUpdate, AgentUpdated, GoalCommand, GoalCommandTurn, StatusExpire, boundVars
<1>4. CASE Restart
  BY <1>4 DEF Restart, Crash, Restore, OpenSession, CrashMaterializing, boundVars
<1>5. CASE Delete \/ UNCHANGED vars
  BY <1>5, Zenon DEF Delete, DeleteBegin, DeleteIdle, DeleteWipe, vars, boundVars
<1> QED BY <1>1, <1>2, <1>3, <1>4, <1>5 DEF Next

LEMMA OrderInvStep == IInv /\ Books /\ OrderInv /\ [Next]_vars => OrderInv'
<1> SUFFICES ASSUME IInv, Books, OrderInv, [Next]_vars, Calm'
             PROVE  QueueInOrder' /\ RecordedInOrder'
  BY DEF OrderInv
<1>1. TypeOK /\ QueueMirrorsTable /\ NoFollowUpLost BY DEF IInv
<1>2. crashes = 0
  <2>1. crashes \in Nat /\ crashes' = 0 BY <1>1 DEF TypeOK, Calm
  <2>2. crashes' \in {crashes, crashes + 1} BY <1>1, CrashesCount
  <2> QED BY <2>1, <2>2
<1>3. Calm
  <2>1. deletion # "gone" BY GoneStays DEF Calm
  <2>2. Enabled \cap {"steer", "reorder"} = {} BY DEF Calm
  <2> QED BY <1>2, <2>1, <2>2 DEF Calm
<1>4. BooksBalance /\ QueueInOrder /\ RecordedInOrder BY <1>3 DEF Calm, Books, OrderInv
<1>5. TypeOK' BY <1>1, NextTypeOK
<1> QED BY <1>1, <1>3, <1>4, <1>5, NextQueues, QueueOrderStep, RecordedOrderStep

\* In one process, unless the clients steer or reorder, an item is recorded after every
\* earlier one, whatever failing turns, goals and stops come between.
THEOREM RecordedInOrderOfAcceptance == Spec => []FollowUpsInOrder
<1>1. Init => OrderInv
  BY DEF Init, OrderInv, QueueInOrder, RecordedInOrder, Queued, Absent, Recorded
<1>2. OrderInv => FollowUpsInOrder
  BY DEF OrderInv, Calm, RecordedInOrder, FollowUpsInOrder, Accounted, Precedes
<1> QED BY <1>1, <1>2, OrderInvStep, Invariant, BooksInit, BooksStep, PTL DEF Spec
-----------------------------------------------------------------------------
(* An answered turn is not repeated. *)

\* One message of the item at most, and each of its replies after it.
Said(i) ==
  /\ \A k, l \in DOMAIN messages : messages[k] = User(i) /\ messages[l] = User(i) => k = l
  /\ \A l \in DOMAIN messages, k \in Replies(i) : messages[l] = User(i) => l < k
\* A reply directly behind the item's own message; one reply at most.
Adjacent(i) == \E k \in Replies(i) : k > 1 /\ messages[k - 1] = User(i)
Single(i) == \A k, l \in Replies(i) : k = l

\* Why a queued item whose answer stands behind its message is never started: as long as
\* its row is there it is marked materialized, so that the drain looks for the answer, and
\* finds it.
RepeatInv(i) ==
  /\ Said(i)
  /\ rows[i].mode # "steering"
  /\ rows[i] # Absent \/ Replies(i) # {} \/ turn.item = i => i <= accepted
  /\ rows[i] # Absent /\ (Replies(i) # {} \/ turn.item = i)
       => Recorded(i) /\ rows[i].materialized
  /\ Adjacent(i)
       => Single(i) /\ (turn.item = i => turn.phase \notin {"starting", "running"})

\* What another's message leaves as it was.
Undisturbed(i) ==
  /\ Said(i) => Said(i)'
  /\ Replies(i)' # {} => Replies(i) # {}
  /\ Recorded(i) => Recorded(i)'
  /\ Adjacent(i)' => Adjacent(i)
  /\ Single(i) => Single(i)'

LEMMA SameUndisturbed == ASSUME messages' = messages, NEW i PROVE Undisturbed(i)
BY DEF Undisturbed, Said, Replies, Recorded, Adjacent, Single, User

LEMMA SpliceUndisturbed ==
  ASSUME messages \in Seq(Message), NEW m \in Message, Spliced(m), NEW i,
         m # User(i), m # Reply(i)
  PROVE  Undisturbed(i)
<1>1. PICK k \in 0 .. Len(messages) : SplicedAt(k, m) BY DEF Spliced
<1>2. DOMAIN messages \subseteq Nat /\ k \in Nat /\ DOMAIN messages' \subseteq Nat
  BY <1>1 DEF SplicedAt
<1>3. \A l \in DOMAIN messages :
        Up(l, k) \in DOMAIN messages' /\ messages'[Up(l, k)] = messages[l]
  BY <1>1, SpliceIndex
<1>4. \A l, n \in DOMAIN messages :
        (l < n <=> Up(l, k) < Up(n, k)) /\ (l = n <=> Up(l, k) = Up(n, k))
  BY <1>1, SpliceIndex
<1>5. \A j \in DOMAIN messages' : messages'[j] \in {User(i), Reply(i)} =>
        \E l \in DOMAIN messages : j = Up(l, k) /\ messages[l] = messages'[j]
  <2>1. \A j \in DOMAIN messages' \ {k + 1} : \E l \in DOMAIN messages : j = Up(l, k)
    BY <1>1, SpliceIndex
  <2>2. messages'[k + 1] = m BY <1>1, SpliceIndex
  <2> QED BY <1>3, <2>1, <2>2
<1>6. \A j \in DOMAIN messages' : messages'[j] = User(i) =>
        \E l \in DOMAIN messages : j = Up(l, k) /\ messages[l] = User(i)
  BY <1>5
<1>7. /\ \A l \in Replies(i) : l \in DOMAIN messages /\ Up(l, k) \in Replies(i)'
      /\ \A j \in Replies(i)' : \E l \in Replies(i) : j = Up(l, k)
  BY <1>3, <1>5 DEF Replies, Reply
<1>8. Said(i) => Said(i)'
  <2> SUFFICES ASSUME Said(i) PROVE Said(i)' OBVIOUS
  <2>1. \A a, b \in DOMAIN messages' :
          messages'[a] = User(i) /\ messages'[b] = User(i) => a = b
    BY <1>4, <1>6 DEF Said
  <2>2. \A b \in DOMAIN messages', a \in Replies(i)' : messages'[b] = User(i) => b < a
    BY <1>4, <1>6, <1>7 DEF Said
  <2> QED BY <2>1, <2>2 DEF Said, User
<1>9. Recorded(i) => Recorded(i)' BY <1>3 DEF Recorded, User
<1>10. Single(i) => Single(i)' BY <1>4, <1>7 DEF Single
<1>11. ASSUME Adjacent(i)' PROVE Adjacent(i)
  <2>1. PICK j \in Replies(i)' : j > 1 /\ messages'[j - 1] = User(i)
    BY <1>11 DEF Adjacent, User
  <2>2. j \in DOMAIN messages' /\ j - 1 \in DOMAIN messages'
    BY <1>1, <2>1 DEF Replies, SplicedAt
  <2>3. PICK l \in Replies(i) : j = Up(l, k) BY <1>7
  <2>4. PICK n \in DOMAIN messages : j - 1 = Up(n, k) /\ messages[n] = User(i)
    BY <1>6, <2>1, <2>2
  <2>5. l \in DOMAIN messages BY <1>7
  <2>6. n = l - 1 /\ l > 1
    <3>1. l \in Nat /\ n \in Nat /\ n >= 1 /\ j \in Nat
      BY <1>2, <2>2, <2>5
    <3> QED BY <1>2, <2>3, <2>4, <3>1 DEF Up
  <2> QED BY <2>4, <2>6 DEF Adjacent
<1> QED BY <1>7, <1>8, <1>9, <1>10, <1>11 DEF Undisturbed

LEMMA NotesUndisturbed ==
  ASSUME messages \in Seq(Message), Notes, NEW i PROVE Undisturbed(i)
<1>1. ASSUME NEW m \in Message, m.kind \notin {"user", "reply"}
      PROVE  m # User(i) /\ m # Reply(i)
  BY <1>1 DEF User, Reply
<1> QED BY <1>1, SameUndisturbed, SpliceUndisturbed DEF Notes
\* What a step does to the transcript of one item.
Tells(i) ==
  /\ Said(i)'
  /\ Replies(i)' # {} => Replies(i) # {} \/ turn.item = i
  /\ Recorded(i) => Recorded(i)' \/ DeleteWipe
  /\ Adjacent(i)' => Single(i)' /\ (Adjacent(i) \/ TurnReply)

LEMMA UndisturbedTells ==
  ASSUME NEW i, RepeatInv(i), Undisturbed(i) PROVE Tells(i)
BY DEF RepeatInv, Undisturbed, Tells

\* The transcript with m at the end.
LEMMA AppendIndex ==
  ASSUME messages \in Seq(Message), NEW m \in Message, messages' = Append(messages, m)
  PROVE  /\ Len(messages) \in Nat /\ DOMAIN messages = 1 .. Len(messages)
         /\ DOMAIN messages' = 1 .. Len(messages) + 1
         /\ \A l \in DOMAIN messages : l \in DOMAIN messages' /\ messages'[l] = messages[l]
         /\ messages'[Len(messages) + 1] = m
         /\ \A l \in DOMAIN messages' : l = Len(messages) + 1 \/ l \in DOMAIN messages
OBVIOUS

\* The item's own message comes when it has neither message nor reply.
LEMMA OwnMessageTells ==
  ASSUME messages \in Seq(Message), NEW i \in Items, ~Recorded(i), Replies(i) = {},
         messages' = Append(messages, User(i))
  PROVE  Tells(i)
<1>1. User(i) \in Message /\ User(i) # Reply(i) BY DEF User, Message, Reply
<1>2. Replies(i)' = {}
  BY <1>1, AppendIndex DEF Replies, Reply
<1>3. \A k \in DOMAIN messages' : messages'[k] = User(i) => k = Len(messages) + 1
  BY <1>1, AppendIndex DEF Recorded
<1> QED BY <1>2, <1>3 DEF Tells, Said, Adjacent, Recorded, User

\* A reply to the item's turn: the first one, when its message is the last.
LEMMA OwnReplyTells ==
  ASSUME messages \in Seq(Message), NEW i \in Items, RepeatInv(i), TurnReply, turn.item = i
  PROVE  Tells(i)
<1>0. /\ Reply(i) \in Message /\ User(i) # Reply(i)
      /\ messages' = Append(messages, Reply(i)) /\ turn.phase = "running"
  BY DEF User, Message, Reply, TurnReply
<1> DEFINE n == Len(messages) + 1
<1>1. /\ n \in Nat \ {0} /\ DOMAIN messages = 1 .. n - 1 /\ DOMAIN messages' = 1 .. n
      /\ \A l \in DOMAIN messages : messages'[l] = messages[l]
      /\ messages'[n] = Reply(i)
  BY <1>0, AppendIndex
<1> HIDE DEF n
<1>2. Replies(i)' = Replies(i) \cup {n}
  <2>1. \A l : l \in DOMAIN messages' <=> l \in DOMAIN messages \/ l = n BY <1>1
  <2>2. \A l : l \in Replies(i)' <=> l \in Replies(i) \cup {n}
    BY <1>1, <2>1, Zenon DEF Replies, Reply
  <2> QED BY <2>2, Zenon
<1>3. \A k \in DOMAIN messages' : messages'[k] = User(i) => k \in DOMAIN messages /\ messages[k] = User(i)
  BY <1>0, <1>1
<1>4. \A k \in Replies(i) : k \in DOMAIN messages BY DEF Replies
<1>5. Said(i)'
  <2>0. Said(i) BY DEF RepeatInv
  <2>1. \A a, b \in DOMAIN messages' :
          messages'[a] = User(i) /\ messages'[b] = User(i) => a = b
    BY <1>3, <2>0 DEF Said
  <2>2. \A b \in DOMAIN messages', a \in Replies(i)' : messages'[b] = User(i) => b < a
    BY <1>1, <1>2, <1>3, <2>0 DEF Said
  <2> QED BY <2>1, <2>2 DEF Said, User
<1>6. ASSUME Adjacent(i)' PROVE Single(i)'
  <2>0. ~Adjacent(i) BY <1>0 DEF RepeatInv
  <2>1. PICK k \in Replies(i)' : k > 1 /\ messages'[k - 1] = User(i)
    BY <1>6 DEF Adjacent, User
  <2>2. CASE k \in Replies(i)
    <3>1. k \in 1 .. n - 1 /\ k - 1 \in DOMAIN messages BY <1>1, <1>4, <2>1, <2>2
    <3>2. messages[k - 1] = User(i) BY <1>1, <2>1, <3>1
    <3> QED BY <2>0, <2>1, <2>2, <3>2 DEF Adjacent
  <2>3. CASE k = n
    <3>1. n - 1 \in DOMAIN messages /\ messages[n - 1] = User(i) BY <1>1, <2>1, <2>3
    <3>2. \A a \in Replies(i) : n - 1 < a BY <3>1 DEF RepeatInv, Said
    <3>3. Replies(i) = {} BY <1>1, <1>4, <3>2
    <3> QED BY <1>2, <3>3 DEF Single
  <2> QED BY <1>2, <2>1, <2>2, <2>3
<1>7. Recorded(i) => Recorded(i)' BY <1>1 DEF Recorded, User
<1> QED BY <1>5, <1>6, <1>7 DEF Tells

LEMMA NextTells ==
  ASSUME TypeOK, QueueMirrorsTable, [Next]_vars, ~Absorb, NEW i \in Items, RepeatInv(i)
  PROVE  Tells(i)
<1>0. messages \in Seq(Message) BY DEF TypeOK
<1>1. ASSUME NEW m \in Message, messages' = Append(messages, m), m # User(i), m # Reply(i)
      PROVE  Tells(i)
  BY <1>0, <1>1, AppendSplices, SpliceUndisturbed, UndisturbedTells
<1>2. CASE Notes BY <1>0, <1>2, NotesUndisturbed, UndisturbedTells
<1>3. ASSUME NEW n \in Items, DrainStart(n) \/ CrashMaterializing(n),
             ~Recorded(n), messages' = Append(messages, User(n))
      PROVE  Tells(i)
  <2>1. CASE n = i
    <3>1. rows[i] # Absent
      BY <1>3, <2>1, QueuedIsPresent DEF DrainStart, CrashMaterializing, IsHead, Present
    <3>2. Replies(i) = {} BY <1>3, <2>1, <3>1 DEF RepeatInv
    <3> QED BY <1>0, <1>3, <2>1, <3>2, OwnMessageTells
  <2>2. CASE n # i
    <3>1. User(n) \in Message /\ User(n) # User(i) /\ User(n) # Reply(i)
      BY <2>2 DEF User, Message, Reply
    <3> QED BY <1>1, <1>3, <3>1
  <2> QED BY <2>1, <2>2
<1>4. CASE messages' = Append(messages, User(Direct))
  <2>1. User(Direct) \in Message /\ User(Direct) # User(i) /\ User(Direct) # Reply(i)
    BY DEF User, Message, Reply, Direct, Items
  <2> QED BY <1>1, <1>4, <2>1
<1>5. CASE TurnReply
  <2>1. CASE turn.item = i BY <1>0, <1>5, <2>1, OwnReplyTells
  <2>2. CASE turn.item # i
    <3>1. /\ Reply(turn.item) \in Message /\ Reply(turn.item) # User(i)
          /\ Reply(turn.item) # Reply(i)
      BY <2>2 DEF Reply, User, Message, TypeOK, Turn
    <3>2. messages' = Append(messages, Reply(turn.item)) BY <1>5 DEF TurnReply, Reply
    <3> QED BY <1>1, <3>1, <3>2
  <2> QED BY <2>1, <2>2
<1>6. CASE DeleteWipe
  <2>1. messages' = << >> /\ DOMAIN messages' = {} BY <1>6 DEF DeleteWipe
  <2>2. Replies(i)' = {} BY <2>1 DEF Replies
  <2> QED BY <1>6, <2>1, <2>2 DEF Tells, Said, Adjacent
<1> QED BY <1>2, <1>3, <1>4, <1>5, <1>6, NextSpeaks
\* What a step does to the row of an item, when nobody steers.
RowMoves(i) ==
  \/ rows'[i] = Absent
  \/ /\ rows[i] # Absent /\ rows'[i].mode = rows[i].mode
     /\ rows[i].materialized => rows'[i].materialized
  \/ i = accepted + 1 /\ accepted' = i /\ rows'[i].mode = "queued"

LEMMA RemovalMovesRows ==
  ASSUME TypeOK, NEW S, RemoveItems(S), NEW i \in Items PROVE RowMoves(i)
<1>1. rows'[i] = Absent \/ rows'[i] = rows[i] BY DropType DEF TypeOK, RemoveItems
<1> QED BY <1>1 DEF RowMoves

LEMMA AcceptMovesRows ==
  ASSUME TypeOK, NEW j \in Items, NEW S, j = accepted + 1, Accept(j, "queued", S),
         NEW i \in Items
  PROVE  RowMoves(i)
<1>1. /\ Drop(rows, S) \in [Items -> Entry]
      /\ Drop(rows, S)[i] = Absent \/ Drop(rows, S)[i] = rows[i]
  BY DropType DEF TypeOK
<1>2. /\ i # j => rows'[i] = Drop(rows, S)[i]
      /\ rows'[j].mode = "queued" /\ accepted' = j
  BY <1>1 DEF Accept
<1> QED BY <1>1, <1>2 DEF RowMoves

\* The row of an item that is started is there, and marked materialized; its message is recorded.
LEMMA StartsMarked ==
  ASSUME TypeOK, QueueMirrorsTable, NEW i \in Items, DrainStart(i)
  PROVE  /\ rows[i] # Absent /\ rows'[i].mode = rows[i].mode /\ rows'[i].materialized
         /\ Recorded(i)'
<1>1. i \in Queued /\ rows[i] = queue[i] /\ rows[i] # Absent
  BY QueuedIsPresent DEF DrainStart, IsHead, QueueMirrorsTable, Present
<1>2. rows'[i] = [queue[i] EXCEPT !.materialized = TRUE] /\ queue[i] \in Entry
  BY DEF DrainStart, TypeOK
<1>3. Recorded(i)'
  <2>1. CASE Recorded(i) BY <2>1 DEF DrainStart, Recorded, User
  <2>2. CASE ~Recorded(i)
    <3>1. messages \in Seq(Message) /\ User(i) \in Message /\ messages' = Append(messages, User(i))
      BY <2>2 DEF TypeOK, User, Message, DrainStart
    <3>2. Len(messages) + 1 \in DOMAIN messages' /\ messages'[Len(messages) + 1] = User(i)
      BY <3>1, AppendIndex
    <3> QED BY <3>2 DEF Recorded, User
  <2> QED BY <2>1, <2>2
<1> QED BY <1>1, <1>2, <1>3 DEF Entry

LEMMA NextMovesRows ==
  ASSUME TypeOK, QueueMirrorsTable, [Next]_vars, ~Absorb, "steer" \notin Enabled, NEW i \in Items
  PROVE  RowMoves(i)
<1> USE DEF queueVars
<1>0. rows' = rows => RowMoves(i) BY DEF RowMoves
<1>1. CASE QueueRequest
  <2>1. CASE SendDirect
    <3>1. rows' = rows BY <2>1, Zenon DEF SendDirect
    <3> QED BY <1>0, <3>1
  <2>2. ASSUME NEW byGoalLoop \in BOOLEAN, RefuseWhenFull(byGoalLoop) PROVE RowMoves(i)
    BY <2>2, RemovalMovesRows DEF RefuseWhenFull
  <2>3. ASSUME NEW j \in Items, NEW mode \in {"queued", "steering"}, Enqueue(j, mode)
        PROVE  RowMoves(i)
    <3>1. mode = "queued" /\ j = accepted + 1 BY <2>3 DEF Enqueue
    <3>2. Accept(j, "queued", Queued \cap GoalItems) BY <2>3, <3>1 DEF Enqueue
    <3> QED BY <3>1, <3>2, AcceptMovesRows
  <2>4. ASSUME NEW j \in Items, EnqueueGoalIteration(j) PROVE RowMoves(i)
    BY <2>4, AcceptMovesRows DEF EnqueueGoalIteration
  <2>5. ASSUME NEW j \in Items, DeletePending(j) PROVE RowMoves(i)
    BY <2>5, RemovalMovesRows DEF DeletePending
  <2>6. \A j \in Items : ~Steer(j) BY DEF Steer
  <2>7. CASE Reorder
    <3>1. /\ i \notin Queued => rows'[i] = rows[i]
          /\ i \in Queued => \/ rows'[i] = queue[i]
                             \/ \E s : rows'[i] = [queue[i] EXCEPT !.sequence = s]
      BY <2>7 DEF Reorder
    <3>2. i \in Queued => rows[i] = queue[i] /\ rows[i] # Absent
      BY QueuedIsPresent DEF QueueMirrorsTable, Present
    <3>3. rows[i] \in Entry BY DEF TypeOK
    <3>4. \A s : /\ [rows[i] EXCEPT !.sequence = s].mode = rows[i].mode
                 /\ [rows[i] EXCEPT !.sequence = s].materialized = rows[i].materialized
      BY <3>3 DEF Entry
    <3> QED BY <3>1, <3>2, <3>4 DEF RowMoves
  <2> QED BY <1>1, <2>1, <2>2, <2>3, <2>4, <2>5, <2>6, <2>7 DEF QueueRequest
<1>2. CASE Drain
  <2>1. ASSUME NEW j \in Items, DrainDrop(j) PROVE RowMoves(i)
    BY <2>1, RemovalMovesRows DEF DrainDrop
  <2>2. ASSUME NEW j \in Items, DrainAnswered(j) PROVE RowMoves(i)
    BY <2>2, RemovalMovesRows DEF DrainAnswered
  <2>3. ASSUME NEW j \in Items, DrainStart(j) PROVE RowMoves(i)
    <3>1. CASE i # j
      <4>1. rows'[i] = rows[i] BY <2>3, <3>1 DEF DrainStart, TypeOK
      <4> QED BY <4>1 DEF RowMoves
    <3>2. CASE i = j
      BY <2>3, <3>2, StartsMarked DEF RowMoves
    <3> QED BY <3>1, <3>2
  <2>4. CASE DrainEmpty BY <1>0, <2>4 DEF DrainEmpty
  <2> QED BY <1>2, <2>1, <2>2, <2>3, <2>4 DEF Drain
<1>3. CASE TurnStep \/ TurnEnd \/ Stop \/ AbortRequest \/ StatusExpire \/ UNCHANGED vars
  <2>1. rows' = rows
    BY <1>3, Zenon
    DEF TurnStep, TurnBegin, TurnRefused, TurnReply, TurnAbortFinish, Throw, TurnEnd, Stop,
        AbortRequest, StatusExpire, vars
  <2> QED BY <1>0, <2>1
<1>4. CASE Settle BY <1>4, RemovalMovesRows DEF Settle
<1>5. CASE OtherHolders
  <2>1. CASE GoalCommand BY <2>1, RemovalMovesRows DEF GoalCommand
  <2>2. CASE ~GoalCommand
    <3>1. rows' = rows
      BY <1>5, <2>2, Zenon DEF OtherHolders, RequestAgentUpdate, AgentUpdated, GoalCommandTurn
    <3> QED BY <1>0, <3>1
  <2> QED BY <2>1, <2>2
<1>6. CASE Restart
  <2>1. rows' = rows
    BY <1>6, Zenon DEF Restart, Crash, Restore, OpenSession, CrashMaterializing
  <2> QED BY <1>0, <2>1
<1>7. CASE Delete
  <2>1. CASE DeleteWipe BY <2>1 DEF DeleteWipe, RowMoves
  <2>2. CASE ~DeleteWipe
    <3>1. rows' = rows BY <1>7, <2>2, Zenon DEF Delete, DeleteBegin, DeleteIdle
    <3> QED BY <1>0, <3>1
  <2> QED BY <2>1, <2>2
<1> QED BY <1>1, <1>2, <1>3, <1>4, <1>5, <1>6, <1>7 DEF Next

LEMMA AcceptedCounts ==
  ASSUME TypeOK, [Next]_vars PROVE accepted' \in {accepted, accepted + 1}
<1> USE DEF boundVars
<1>1. CASE QueueRequest
  <2>1. CASE SendDirect \/ Reorder BY <2>1, Zenon DEF SendDirect, Reorder
  <2>2. ASSUME NEW byGoalLoop \in BOOLEAN, RefuseWhenFull(byGoalLoop) PROVE accepted' = accepted
    BY <2>2, RefusalRemoves
  <2>3. ASSUME NEW i \in Items, NEW mode \in {"queued", "steering"},
               Enqueue(i, mode) \/ EnqueueGoalIteration(i)
        PROVE  accepted' = accepted + 1
    BY <2>3 DEF Enqueue, EnqueueGoalIteration, Accept
  <2>4. ASSUME NEW i \in Items, Steer(i) \/ DeletePending(i) PROVE accepted' = accepted
    BY <2>4, Zenon DEF Steer, DeletePending
  <2> QED BY <1>1, <2>1, <2>2, <2>3, <2>4 DEF QueueRequest
<1>2. CASE Drain \/ TurnStep
  BY <1>2, Zenon DEF Drain, DrainEmpty, DrainDrop, DrainAnswered, DrainStart, TurnStep,
     TurnBegin, TurnRefused, TurnReply, TurnAbortFinish, Throw
<1>3. CASE Absorb \/ TurnEnd \/ Settle \/ Stop \/ AbortRequest \/ OtherHolders \/ StatusExpire
  BY <1>3, Zenon DEF Absorb, TurnEnd, Settle, Stop, AbortRequest, OtherHolders,
     RequestAgentUpdate, AgentUpdated, GoalCommand, GoalCommandTurn, StatusExpire
<1>4. CASE Restart \/ Delete \/ UNCHANGED vars
  BY <1>4, Zenon DEF Restart, Crash, Restore, OpenSession, CrashMaterializing, Delete,
     DeleteBegin, DeleteIdle, DeleteWipe, vars
<1> QED BY <1>1, <1>2, <1>3, <1>4 DEF Next
LEMMA AdjacentIsAnswered ==
  ASSUME TypeOK, NEW i, Adjacent(i) PROVE Answered(i)
<1>1. PICK k \in Replies(i) : k > 1 /\ messages[k - 1] = User(i) BY DEF Adjacent
<1>2. messages \in Seq(Message) /\ k \in DOMAIN messages /\ messages[k].kind = "reply"
  BY <1>1 DEF Replies, TypeOK
<1>3. k - 1 \in DOMAIN messages /\ (k - 1) + 1 = k BY <1>1, <1>2
<1> QED BY <1>1, <1>2, <1>3 DEF Answered

LEMMA RepeatStep ==
  ASSUME TypeOK, QueueMirrorsTable, [Next]_vars, "steer" \notin Enabled,
         \A i \in Items : RepeatInv(i), NEW i \in Items
  PROVE  RepeatInv(i)'
<1>0. ~Absorb
  BY DEF Absorb, Steering, QueueMirrorsTable, RepeatInv, Queued
<1>1. Tells(i) BY <1>0, NextTells
<1>2. RowMoves(i) BY <1>0, NextMovesRows
<1>3. accepted' \in {accepted, accepted + 1} /\ accepted \in Nat /\ i \in Nat
  BY AcceptedCounts DEF TypeOK, Items
<1>4. \/ turn'.item = turn.item
      \/ turn'.item = Direct
      \/ DrainStart(i) /\ turn'.item = i
      \/ turn'.item # i
  <2>1. ASSUME NEW j \in Items, DrainStart(j) PROVE turn'.item = j
    BY <2>1 DEF DrainStart
  <2> QED BY <1>0, <2>1, NextTurn
<1>5. Direct # i BY DEF Direct, Items
<1>6. rows'[i].mode # "steering"
  BY <1>2 DEF RowMoves, RepeatInv, Absent
<1>7. ASSUME rows'[i] # Absent \/ Replies(i)' # {} \/ turn'.item = i PROVE i <= accepted'
  <2>1. CASE rows'[i] # Absent BY <1>2, <1>3, <2>1 DEF RowMoves, RepeatInv
  <2>2. CASE Replies(i)' # {} BY <1>1, <1>3, <2>2 DEF Tells, RepeatInv
  <2>3. CASE turn'.item = i
    <3>1. turn.item = i \/ rows[i] # Absent BY <1>4, <1>5, <2>3, StartsMarked
    <3> QED BY <1>3, <3>1 DEF RepeatInv
  <2> QED BY <1>7, <2>1, <2>2, <2>3
<1>8. ASSUME rows'[i] # Absent, Replies(i)' # {} \/ turn'.item = i
      PROVE  Recorded(i)' /\ rows'[i].materialized
  <2>1. CASE DrainStart(i) BY <2>1, StartsMarked
  <2>2. CASE ~DrainStart(i)
    <3>1. Replies(i) # {} \/ turn.item = i
      BY <1>1, <1>4, <1>5, <1>8, <2>2 DEF Tells
    <3>2. i <= accepted BY <3>1 DEF RepeatInv
    <3>3. rows[i] # Absent /\ (rows[i].materialized => rows'[i].materialized)
      BY <1>2, <1>3, <1>8, <3>2 DEF RowMoves
    <3>4. Recorded(i) /\ rows[i].materialized BY <3>1, <3>3 DEF RepeatInv
    <3>5. ~DeleteWipe BY <1>8 DEF DeleteWipe
    <3> QED BY <1>1, <3>3, <3>4, <3>5 DEF Tells
  <2> QED BY <2>1, <2>2
<1>9. ASSUME Adjacent(i)'
      PROVE  Single(i)' /\ (turn'.item = i => turn'.phase \notin {"starting", "running"})
  <2>1. Single(i)' /\ (Adjacent(i) \/ TurnReply) BY <1>1, <1>9 DEF Tells
  <2>2. CASE TurnReply
    <3>1. turn'.phase = "replied" BY <2>2 DEF TurnReply, TypeOK, Turn
    <3> QED BY <2>1, <3>1
  <2>3. CASE Adjacent(i)
    <3>1. turn.item = i => turn.phase \notin {"starting", "running"} BY <2>3 DEF RepeatInv
    <3>2. ~DrainStart(i)
      <4> SUFFICES ASSUME DrainStart(i) PROVE FALSE OBVIOUS
      <4>1. rows[i] # Absent /\ rows[i] = queue[i]
        BY StartsMarked DEF DrainStart, IsHead, QueueMirrorsTable
      <4>2. Replies(i) # {} BY <2>3 DEF Adjacent
      <4>3. queue[i].materialized BY <4>1, <4>2 DEF RepeatInv
      <4>4. Answered(i) BY <2>3, AdjacentIsAnswered
      <4> QED BY <4>3, <4>4 DEF DrainStart
    <3>3. ASSUME NEW j \in Items, DrainStart(j), turn'.item = i PROVE FALSE
      BY <3>2, <3>3 DEF DrainStart
    <3>4. turn'.item = i => turn'.phase \notin {"starting", "running"}
      BY <1>0, <1>5, <3>1, <3>3, NextTurn DEF TurnBegin
    <3> QED BY <2>1, <3>4
  <2> QED BY <2>1, <2>2, <2>3
<1>10. Said(i)' BY <1>1 DEF Tells
<1> QED BY <1>6, <1>7, <1>8, <1>9, <1>10 DEF RepeatInv

\* A turn whose answer directly follows its message is not run again, across restarts before
\* the row is removed, failures, stops and direct turns in between, unless clients steer.
THEOREM AnsweredOnce ==
  ASSUME "steer" \notin Enabled PROVE Spec => []AnsweredTurnNotRepeated
<1> DEFINE Inv == \A i \in Items : RepeatInv(i)
<1>1. Init => Inv
  BY DEF Init, RepeatInv, Said, Adjacent, Replies, NoTurn, Absent, Direct, Items
<1>2. TypeOK /\ QueueMirrorsTable /\ Inv /\ [Next]_vars => Inv'
  BY RepeatStep
<1>3. Inv => AnsweredTurnNotRepeated
  <2> SUFFICES ASSUME Inv, NEW i \in Items, NEW k \in Replies(i),
                      k > 1, messages[k - 1] = User(i)
               PROVE  Cardinality(Replies(i)) = 1
    BY DEF AnsweredTurnNotRepeated
  <2>1. Adjacent(i) BY DEF Adjacent
  <2>2. Single(i) BY <2>1 DEF RepeatInv
  <2>3. Replies(i) = {k} BY <2>2 DEF Single
  <2> QED BY <2>3, FS_Singleton
<1> HIDE DEF Inv
<1> QED BY <1>1, <1>2, <1>3, TypeCorrect, MemoryMirrorsTable, PTL DEF Spec
=============================================================================
