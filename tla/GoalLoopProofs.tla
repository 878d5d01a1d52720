--------------------------- MODULE GoalLoopProofs ---------------------------
(***************************************************************************)
(* Theorems about GoalLoop for every budget, failure limit and number of   *)
(* requests and restarts.  The handlers are functions on a record of the   *)
(* state; the lemmas go up through them, from the fields each changes to   *)
(* what the loop decides, and end in one case per action.                  *)
(***************************************************************************)
EXTENDS GoalLoop, FiniteSetTheorems, SequenceTheorems, TLAPS

-----------------------------------------------------------------------------
(* Filtering a sequence. *)

\* Each element that is kept comes from a place of its own.
LEMMA KeepShape ==
  ASSUME NEW S, NEW s \in Seq(S), NEW T
  PROVE  /\ Keep(s, T) \in Seq(S)
         /\ \E f \in Injection(DOMAIN Keep(s, T), DOMAIN s) :
              \A n \in DOMAIN Keep(s, T) : Keep(s, T)[n] = s[f[n]]
<1> DEFINE K == {i \in DOMAIN s : s[i] \in T}
           N == Cardinality(K)
           upto(i) == {j \in K : j <= i}
           nth(n) == CHOOSE i \in K : Cardinality(upto(i)) = n
           r == [n \in 1 .. N |-> s[nth(n)]]
<1>0. Keep(s, T) = r BY DEF Keep
<1>1. K \subseteq 1 .. Len(s) /\ Len(s) \in Nat /\ DOMAIN s = 1 .. Len(s)
  OBVIOUS
<1>2. IsFiniteSet(K) /\ N \in Nat
  <2>1. IsFiniteSet(1 .. Len(s)) BY <1>1, FS_Interval
  <2>2. IsFiniteSet(K)
    <3> HIDE DEF K
    <3> QED BY <1>1, <2>1, FS_Subset
  <2> QED BY <2>2, FS_CardinalityType
<1>3. \A i \in K : upto(i) \in SUBSET K /\ i \in upto(i) /\ i \in Nat
  BY <1>1
<1>4. \A i \in K : IsFiniteSet(upto(i)) /\ Cardinality(upto(i)) \in 1 .. N
  <2> SUFFICES ASSUME NEW i \in K PROVE IsFiniteSet(upto(i)) /\ Cardinality(upto(i)) \in 1 .. N
    OBVIOUS
  <2>1. IsFiniteSet(upto(i)) /\ Cardinality(upto(i)) <= N
    BY <1>2, <1>3, FS_Subset, Zenon
  <2>2. Cardinality(upto(i)) \in Nat /\ Cardinality(upto(i)) # 0
    BY <1>3, <2>1, FS_CardinalityType, FS_EmptySet, Zenon
  <2> HIDE DEF upto, K, N
  <2> QED BY <1>2, <2>1, <2>2
<1>5. \A i, j \in K : i < j => Cardinality(upto(i)) # Cardinality(upto(j))
  <2> SUFFICES ASSUME NEW i \in K, NEW j \in K, i < j,
                      Cardinality(upto(i)) = Cardinality(upto(j))
               PROVE  FALSE
    OBVIOUS
  <2>1. upto(i) \subseteq upto(j) /\ j \notin upto(i) /\ j \in upto(j) BY <1>1
  <2>2. upto(i) = upto(j) BY <1>4, <2>1, FS_Subset
  <2> QED BY <2>1, <2>2
<1> DEFINE rank == [i \in K |-> Cardinality(upto(i))]
<1>6. rank \in Injection(K, 1 .. N)
  <2>1. rank \in [K -> 1 .. N] BY <1>4
  <2>2. \A i, j \in K : rank[i] = rank[j] => i = j
    <3> SUFFICES ASSUME NEW i \in K, NEW j \in K, rank[i] = rank[j] PROVE i = j OBVIOUS
    <3>1. Cardinality(upto(i)) = Cardinality(upto(j)) OBVIOUS
    <3>2. i \in Nat /\ j \in Nat BY <1>3
    <3> HIDE DEF K, upto, rank
    <3>3. ~(i < j) /\ ~(j < i) BY <1>5, <3>1
    <3> QED BY <3>2, <3>3
  <2> HIDE DEF rank, K, N
  <2> QED BY <2>1, <2>2 DEF Injection, IsInjective
<1>7. rank \in Surjection(K, 1 .. N)
  <2>1. IsFiniteSet(1 .. N) /\ Cardinality(1 .. N) = N
    BY <1>2, FS_Interval
  <2> QED BY <1>6, <2>1, FS_Injection
<1>8. \A n \in 1 .. N : \E i \in K : Cardinality(upto(i)) = n
  BY <1>7 DEF Surjection
<1>9. \A n \in 1 .. N : nth(n) \in K /\ Cardinality(upto(nth(n))) = n
  BY <1>8
<1> HIDE DEF nth, upto, rank
<1>10. \A n \in 1 .. N : nth(n) \in DOMAIN s /\ s[nth(n)] \in S
  BY <1>9
<1>11. DOMAIN r = 1 .. N /\ \A n \in 1 .. N : r[n] = s[nth(n)]
  OBVIOUS
<1>12. r \in Seq(S)
  <2> HIDE DEF N, K
  <2> QED BY <1>2, <1>10
<1>13. \E f \in Injection(DOMAIN r, DOMAIN s) : \A n \in DOMAIN r : r[n] = s[f[n]]
  <2> DEFINE f == [n \in 1 .. N |-> nth(n)]
  <2>1. f \in [1 .. N -> DOMAIN s] BY <1>10
  <2>2. \A m, n \in 1 .. N : f[m] = f[n] => m = n BY <1>9
  <2>3. f \in Injection(1 .. N, DOMAIN s)
    <3> HIDE DEF f, N
    <3> QED BY <2>1, <2>2 DEF Injection, IsInjective
  <2> QED BY <1>11, <2>3
<1> HIDE DEF r
<1> QED BY <1>0, <1>12, <1>13

-----------------------------------------------------------------------------
(* Counting what waits. *)

ItemCount(items) == Cardinality(QueuedIterations(items))
OwnCount(holders) == Cardinality(OwnIterations(holders))
WorkOf(w) == ItemCount(w.queue) + OwnCount(w.turns)

\* A set of places that maps one to one into another is no larger.
LEMMA CountInto ==
  ASSUME NEW n \in Nat, NEW P \in SUBSET (1 .. n), NEW Q, NEW f \in Injection(Q, P)
  PROVE  IsFiniteSet(P) /\ IsFiniteSet(Q) /\ Cardinality(Q) <= Cardinality(P)
<1>1. IsFiniteSet(1 .. n) BY FS_Interval
<1>2. IsFiniteSet(P) BY <1>1, FS_Subset
<1> QED BY <1>2, FS_Injection

LEMMA CountsAreNumbers ==
  ASSUME NEW A, NEW B, NEW q \in Seq(A), NEW t \in Seq(B)
  PROVE  ItemCount(q) \in Nat /\ OwnCount(t) \in Nat
<1>1. \A s \in Seq(A) \cup Seq(B) : Len(s) \in Nat /\ DOMAIN s = 1 .. Len(s) OBVIOUS
<1>2. QueuedIterations(q) \subseteq 1 .. Len(q) BY <1>1 DEF QueuedIterations
<1>3. OwnIterations(t) \subseteq 1 .. Len(t) BY <1>1 DEF OwnIterations
<1>4. IsFiniteSet(1 .. Len(q)) /\ IsFiniteSet(1 .. Len(t)) BY <1>1, FS_Interval
<1>5. IsFiniteSet(QueuedIterations(q)) /\ IsFiniteSet(OwnIterations(t))
  BY <1>2, <1>3, <1>4, FS_Subset
<1> QED BY <1>5, FS_CardinalityType DEF ItemCount, OwnCount

LEMMA CountOfKeep ==
  ASSUME NEW A, NEW q \in Seq(A), NEW T
  PROVE  ItemCount(Keep(q, T)) <= ItemCount(q)
<1> DEFINE r == Keep(q, T)
           P == QueuedIterations(q)
           Q == QueuedIterations(r)
<1>1. PICK f \in Injection(DOMAIN r, DOMAIN q) : \A n \in DOMAIN r : r[n] = q[f[n]]
  BY KeepShape
<1>2. Len(q) \in Nat /\ P \in SUBSET (1 .. Len(q)) /\ Q \subseteq DOMAIN r
  BY DEF QueuedIterations
<1>3. \A n \in Q : f[n] \in P
  BY <1>1 DEF QueuedIterations, Injection
<1> DEFINE g == [n \in Q |-> f[n]]
<1>4. g \in [Q -> P] BY <1>3
<1>5. \A m, n \in Q : g[m] = g[n] => m = n BY <1>1, <1>2 DEF Injection, IsInjective
<1> HIDE DEF r, P, Q, g
<1>6. g \in Injection(Q, P) BY <1>4, <1>5 DEF Injection, IsInjective
<1> QED BY <1>2, <1>6, CountInto DEF ItemCount, P, Q, r

\* An element at the end adds nothing unless it is an iteration.
LEMMA CountOfAppend ==
  ASSUME NEW A, NEW q \in Seq(A), NEW e \in A
  PROVE  e.kind # "iteration" => ItemCount(Append(q, e)) = ItemCount(q)
<1> SUFFICES ASSUME e.kind # "iteration" PROVE ItemCount(Append(q, e)) = ItemCount(q)
  OBVIOUS
<1>1. QueuedIterations(Append(q, e)) = QueuedIterations(q) BY DEF QueuedIterations
<1> QED BY <1>1 DEF ItemCount

LEMMA OwnCountOfAppend ==
  ASSUME NEW B, NEW t \in Seq(B), NEW e \in B
  PROVE  e.kind # "iteration" => OwnCount(Append(t, e)) = OwnCount(t)
<1> SUFFICES ASSUME e.kind # "iteration" PROVE OwnCount(Append(t, e)) = OwnCount(t)
  OBVIOUS
<1>1. OwnIterations(Append(t, e)) = OwnIterations(t) BY DEF OwnIterations
<1> QED BY <1>1 DEF OwnCount

LEMMA OwnCountOfTail ==
  ASSUME NEW B, NEW t \in Seq(B), t # << >>
  PROVE  OwnCount(Tail(t)) <= OwnCount(t)
<1> DEFINE P == OwnIterations(t)
           Q == OwnIterations(Tail(t))
           g == [i \in Q |-> i + 1]
<1>1. Len(t) \in Nat /\ P \in SUBSET (1 .. Len(t)) /\ Q \subseteq 1 .. Len(t)
  BY DEF OwnIterations
<1>2. \A i \in Q : i + 1 \in P BY DEF OwnIterations
<1>3. g \in [Q -> P] BY <1>2
<1>4. \A i, j \in Q : g[i] = g[j] => i = j BY <1>1
<1> HIDE DEF P, Q, g
<1>5. g \in Injection(Q, P) BY <1>3, <1>4 DEF Injection, IsInjective
<1> QED BY <1>1, <1>5, CountInto DEF OwnCount, P, Q

-----------------------------------------------------------------------------
(* The states of the loop as records, and what two of them may have in common. *)

Goals == {"none", "active", "paused", "blocked", "complete"}
Answers == {"none", "plain", "done", "blocked"}
RunStates == {r \in Runs : r.exists \/ r = NoRun}
Judges == [on : BOOLEAN, same : BOOLEAN, run : Runs, latest : BOOLEAN]
Records == [goal : Goals, run : RunStates, judge : Judges, requested : BOOLEAN,
            answer : Answers, resident : BOOLEAN, queue : Seq(QueuedItem),
            turns : Seq(Holders), settling : Seq(Holders)]
\* Nothing is requested unless a judgment runs.
States == {w \in Records : w.requested => w.judge.on}

\* The same turns, as far as they are told apart here: their phases may differ.
SameHolders(s, t) ==
  DOMAIN t = DOMAIN s /\ \A i \in DOMAIN s : t[i].kind = s[i].kind /\ t[i].drained = s[i].drained

LEMMA HoldersOfKind ==
  ASSUME NEW kind \in {"user", "iteration", "command", "kickoff"}
  PROVE  Turn(kind) \in Holders
BY DEF Turn, Holders

LEMMA NewRunIsRun ==
  /\ NewRun \in RunStates /\ NoRun \in RunStates /\ NewRun \in Runs /\ NoRun \in Runs
  /\ NewRun.exists /\ ~NoRun.exists /\ Idle \in Judges
  /\ NewRun.iterations = 0 /\ NewRun.failures = 0 /\ NewRun.stop = "no"
  /\ NoRun.iterations = 0 /\ NoRun.failures = 0 /\ NoRun.stop = "no"
BY DEF NewRun, NoRun, RunStates, Runs, Idle, Judges

LEMMA SameHoldersCount ==
  ASSUME NEW s, NEW t, SameHolders(s, t)
  PROVE  OwnCount(t) = OwnCount(s)
<1>1. OwnIterations(t) = OwnIterations(s) BY DEF SameHolders, OwnIterations
<1> QED BY <1>1 DEF OwnCount

\* One turn that changes its phase only.
LEMMA PhaseFields ==
  ASSUME NEW s \in Seq(Holders), s # << >>,
         NEW phase \in {"starting", "running", "stopped", "ending", "answered", "failed"}
  PROVE  LET t == [s EXCEPT ![1].phase = phase] IN t \in Seq(Holders) /\ SameHolders(s, t)
<1> DEFINE h == [s[1] EXCEPT !.phase = phase]
           t == [s EXCEPT ![1] = h]
<1>1. s \in [1 .. Len(s) -> Holders] /\ Len(s) \in Nat /\ 1 \in DOMAIN s OBVIOUS
<1>2. h \in Holders /\ h.kind = s[1].kind /\ h.drained = s[1].drained
  BY <1>1 DEF Holders
<1> HIDE DEF h
<1>3. t \in [1 .. Len(s) -> Holders] BY <1>1, <1>2
<1>4. t \in Seq(Holders) /\ DOMAIN t = DOMAIN s BY <1>1, <1>3
<1>5. SameHolders(s, t) BY <1>1, <1>2, <1>4 DEF SameHolders
<1> QED BY <1>4, <1>5 DEF h

-----------------------------------------------------------------------------
(* The operations on the queue, on the turns and on the run. *)

\* What an operation that neither starts nor ends a judgment leaves alone.
Beside(w, v) == v.requested = w.requested /\ v.resident = w.resident /\ v.judge.on = w.judge.on
\* A judged answer that is still the last one has not changed.
SameAnswer(w, v) == v.judge.latest => w.judge.latest /\ v.answer = w.answer
OldJudge(w, v) == v.judge.same = w.judge.same /\ v.judge.run = w.judge.run

LEMMA SayFields ==
  ASSUME NEW w \in Records, NEW what \in Answers
  PROVE  LET v == Say(w, what)
         IN /\ v \in Records /\ Beside(w, v) /\ OldJudge(w, v) /\ ~v.judge.latest
            /\ v.goal = w.goal /\ v.run = w.run /\ v.answer = what
            /\ v.queue = w.queue /\ v.turns = w.turns /\ v.settling = w.settling
BY DEF Records, Judges, Say, Beside, OldJudge

LEMMA StartTurnFields ==
  ASSUME NEW w \in Records, NEW kind \in {"user", "iteration", "command", "kickoff"}
  PROVE  LET v == StartTurn(w, kind)
         IN /\ v \in Records /\ v.turns = Append(w.turns, Turn(kind))
            /\ v.goal = w.goal /\ v.run = w.run /\ v.answer = w.answer /\ v.judge = w.judge
            /\ v.queue = w.queue /\ v.requested = w.requested /\ v.resident = w.resident
            /\ v.settling = w.settling
<1> DEFINE v == StartTurn(w, kind)
<1>1. Turn(kind) \in Holders /\ w.turns \in Seq(Holders) BY HoldersOfKind DEF Records
<1>2. Append(w.turns, Turn(kind)) \in Seq(Holders) BY <1>1
<1>3. v = [w EXCEPT !.turns = Append(w.turns, Turn(kind))] BY DEF StartTurn
<1> QED BY <1>2, <1>3 DEF Records

LEMMA KeepFields ==
  ASSUME NEW w \in Records, NEW v \in {WithoutIterations(w), Untaken(w)}
  PROVE  /\ v \in Records
         /\ ItemCount(v.queue) <= ItemCount(w.queue)
         /\ v.goal = w.goal /\ v.run = w.run /\ v.answer = w.answer /\ v.judge = w.judge
         /\ v.turns = w.turns /\ v.requested = w.requested /\ v.resident = w.resident
         /\ v.settling = w.settling
<1>1. w.queue \in Seq(QueuedItem) BY DEF Records
<1>2. PICK T : v = [w EXCEPT !.queue = Keep(w.queue, T)]
  BY DEF WithoutIterations, Untaken
<1>3. Keep(w.queue, T) \in Seq(QueuedItem) BY <1>1, KeepShape
<1>4. ItemCount(Keep(w.queue, T)) <= ItemCount(w.queue) BY <1>1, CountOfKeep
<1> QED BY <1>2, <1>3, <1>4 DEF Records

LEMMA EnqueueFields ==
  ASSUME NEW w \in Records, NEW kind \in {"user", "iteration"}
  PROVE  LET v == Enqueue(w, kind)
         IN /\ v \in Records
            /\ kind = "user" => ItemCount(v.queue) <= ItemCount(w.queue)
            /\ v.goal = w.goal /\ v.run = w.run /\ v.answer = w.answer /\ v.judge = w.judge
            /\ v.turns = w.turns /\ v.requested = w.requested /\ v.resident = w.resident
            /\ v.settling = w.settling
<1> DEFINE u == IF kind = "iteration" THEN w ELSE WithoutIterations(w)
           v == Enqueue(w, kind)
<1>1. /\ u \in Records /\ ItemCount(u.queue) <= ItemCount(w.queue)
      /\ u.goal = w.goal /\ u.run = w.run /\ u.answer = w.answer /\ u.judge = w.judge
      /\ u.turns = w.turns /\ u.requested = w.requested /\ u.resident = w.resident
      /\ u.settling = w.settling
  <2>1. CASE kind = "iteration"
    <3>1. w.queue \in Seq(QueuedItem) /\ w.turns \in Seq(Holders) BY DEF Records
    <3>2. ItemCount(w.queue) \in Nat BY <3>1, CountsAreNumbers
    <3> QED BY <2>1, <3>2
  <2>2. CASE kind # "iteration" BY <2>2, KeepFields
  <2> QED BY <2>1, <2>2
<1>2. v = [u EXCEPT !.queue = Append(u.queue, Item(kind))] BY DEF Enqueue
<1> HIDE DEF u, v
<1>3. u.queue \in Seq(QueuedItem) /\ Item(kind) \in QueuedItem
  BY <1>1 DEF Records, Item, QueuedItem
<1>4. Item(kind).kind = kind BY DEF Item
<1>5. Append(u.queue, Item(kind)) \in Seq(QueuedItem)
  BY <1>3
<1>6. /\ v \in Records /\ v.queue = Append(u.queue, Item(kind))
      /\ v.goal = u.goal /\ v.run = u.run /\ v.answer = u.answer /\ v.judge = u.judge
      /\ v.turns = u.turns /\ v.requested = u.requested /\ v.resident = u.resident
      /\ v.settling = u.settling
  BY <1>1, <1>2, <1>5 DEF Records
<1>7. kind = "user" => ItemCount(v.queue) <= ItemCount(w.queue)
  BY <1>1, <1>3, <1>4, <1>6, CountOfAppend
<1> QED BY <1>1, <1>6, <1>7 DEF v

LEMMA StopTurnFields ==
  ASSUME NEW w \in Records
  PROVE  LET v == StopTurn(w)
         IN /\ v \in Records /\ Beside(w, v) /\ OldJudge(w, v) /\ SameAnswer(w, v)
            /\ SameHolders(w.turns, v.turns)
            /\ v.goal = w.goal /\ v.run = w.run /\ v.queue = w.queue /\ v.settling = w.settling
<1> DEFINE v == StopTurn(w)
           t == [w.turns EXCEPT ![1].phase = "stopped"]
           u == [w EXCEPT !.turns = t]
<1>1. CASE v = w BY <1>1 DEF Beside, OldJudge, SameAnswer, SameHolders
<1>2. CASE v # w
  <2>1. w.turns # << >> /\ v = Say(u, "none") BY <1>2 DEF StopTurn
  <2>2. t \in Seq(Holders) /\ SameHolders(w.turns, t) BY <2>1, PhaseFields DEF Records
  <2> HIDE DEF t
  <2>3. /\ u \in Records /\ u.turns = t /\ u.goal = w.goal /\ u.run = w.run /\ u.queue = w.queue
        /\ u.judge = w.judge /\ u.requested = w.requested /\ u.resident = w.resident
        /\ u.settling = w.settling
    BY <2>2 DEF Records
  <2>4. "none" \in Answers BY DEF Answers
  <2> HIDE DEF u, v
  <2> QED BY <2>1, <2>2, <2>3, <2>4, SayFields DEF Beside, OldJudge, SameAnswer, v
<1> QED BY <1>1, <1>2

LEMMA DetachFields ==
  ASSUME NEW w \in Records, NEW new \in RunStates
  PROVE  LET v == Detach(w, new)
         IN /\ v \in Records /\ Beside(w, v) /\ v.run = new
            /\ v.judge.latest = w.judge.latest
            /\ ~w.judge.on => v.judge = w.judge
            /\ v.goal = w.goal /\ v.answer = w.answer /\ v.queue = w.queue
            /\ v.turns = w.turns /\ v.settling = w.settling
BY DEF Records, Judges, RunStates, Detach, Beside

LEMMA ReserveFields ==
  ASSUME NEW w \in Records
  PROVE  LET v == Reserve(w)
         IN /\ v \in Records
            /\ v.run.failures = w.run.failures /\ v.run.exists = w.run.exists
            /\ v.run.stop = "no"
            /\ v.run.iterations = IF w.run.exists THEN w.run.iterations + 1 ELSE 0
            /\ v.goal = w.goal /\ v.answer = w.answer /\ v.judge = w.judge /\ v.queue = w.queue
            /\ v.turns = w.turns /\ v.requested = w.requested /\ v.resident = w.resident
<1>1. w.run \in RunStates /\ w.run \in Runs BY DEF Records, RunStates
<1>2. CASE ~w.run.exists
  <2>1. w.run = NoRun BY <1>1, <1>2 DEF RunStates
  <2>2. Reserve(w) = w BY <1>2 DEF Reserve
  <2> QED BY <1>2, <2>1, <2>2, NewRunIsRun
<1>3. CASE w.run.exists
  <2> DEFINE new == [w.run EXCEPT !.iterations = @ + 1, !.stop = "no"]
  <2>0. w.run.iterations + 1 \in Nat BY <1>1 DEF Runs
  <2>1. /\ new \in Runs /\ new.failures = w.run.failures /\ new.exists
        /\ new.stop = "no" /\ new.iterations = w.run.iterations + 1
    BY <1>1, <1>3, <2>0 DEF Runs
  <2>2. Reserve(w) = [w EXCEPT !.run = new] BY <1>3 DEF Reserve, Records
  <2> HIDE DEF new
  <2>3. new \in RunStates BY <2>1 DEF RunStates
  <2> DEFINE v == Reserve(w)
  <2>4. v = [w EXCEPT !.run = new] BY <2>2
  <2> HIDE DEF v
  <2>5. /\ v \in Records /\ v.run = new
        /\ v.goal = w.goal /\ v.answer = w.answer /\ v.judge = w.judge /\ v.queue = w.queue
        /\ v.turns = w.turns /\ v.requested = w.requested /\ v.resident = w.resident
    BY <2>3, <2>4 DEF Records
  <2> QED BY <1>3, <2>1, <2>5 DEF v
<1> QED BY <1>2, <1>3

LEMMA RecordOutcomeFields ==
  ASSUME NEW w \in Records, NEW ok \in BOOLEAN
  PROVE  LET v == RecordOutcome(w, ok)
         IN /\ v \in Records
            /\ v.run.iterations = w.run.iterations /\ v.run.exists = w.run.exists
            /\ v.run.stop = w.run.stop
            /\ v.goal = w.goal /\ v.answer = w.answer /\ v.judge = w.judge /\ v.queue = w.queue
            /\ v.turns = w.turns /\ v.requested = w.requested /\ v.resident = w.resident
<1>1. w.run \in RunStates /\ w.run \in Runs BY DEF Records, RunStates
<1>2. CASE ~w.run.exists BY <1>2 DEF RecordOutcome
<1>3. CASE w.run.exists
  <2> DEFINE new == [w.run EXCEPT !.failures = IF ok THEN 0 ELSE @ + 1]
  <2>1. /\ new \in Runs /\ new.iterations = w.run.iterations
        /\ new.exists /\ new.stop = w.run.stop
    BY <1>1, <1>3 DEF Runs
  <2>2. RecordOutcome(w, ok) = [w EXCEPT !.run = new] BY <1>3 DEF RecordOutcome, Records
  <2> HIDE DEF new
  <2>3. new \in RunStates BY <2>1 DEF RunStates
  <2> DEFINE v == RecordOutcome(w, ok)
  <2>4. v = [w EXCEPT !.run = new] BY <2>2
  <2> HIDE DEF v
  <2>5. /\ v \in Records /\ v.run = new
        /\ v.goal = w.goal /\ v.answer = w.answer /\ v.judge = w.judge /\ v.queue = w.queue
        /\ v.turns = w.turns /\ v.requested = w.requested /\ v.resident = w.resident
    BY <2>3, <2>4 DEF Records
  <2> QED BY <1>3, <2>1, <2>5 DEF v
<1> QED BY <1>2, <1>3

-----------------------------------------------------------------------------
(* What the loop may do to the session. *)

\* Nothing is queued or started.
Idles(w, v) ==
  /\ v \in Records /\ Beside(w, v) /\ SameAnswer(w, v)
  /\ v.queue = w.queue /\ SameHolders(w.turns, v.turns)
\* The run is paused, for this reason.
Pauses(w, v, reason) ==
  /\ Idles(w, v) /\ v.goal = "paused"
  /\ v.run.exists = w.run.exists /\ v.run.iterations = w.run.iterations
  /\ v.run.failures = w.run.failures
  /\ v.run.stop = IF w.run.exists THEN reason ELSE "no"
\* The run is dropped; the goal is complete, or what it was.
Drops(w, v) ==
  /\ Idles(w, v) /\ v.goal \in {w.goal, "complete"} /\ v.run = NoRun
  /\ v.answer = w.answer /\ v.turns = w.turns
\* One more iteration of the run is queued or started.
Iterates(w, v) ==
  /\ v \in Records /\ v.goal = w.goal /\ v.answer = w.answer /\ v.judge = w.judge
  /\ v.requested = w.requested /\ v.resident = w.resident
  /\ v.run.exists = w.run.exists /\ v.run.failures = w.run.failures /\ v.run.stop = "no"
  /\ v.run.iterations = IF w.run.exists THEN w.run.iterations + 1 ELSE 0
  /\ v.turns \in {w.turns, Append(w.turns, Turn("iteration"))}

StopReasons == {"no", "blocked", "max_iterations", "max_duration", "error"}

LEMMA IdlesItself == ASSUME NEW w \in Records PROVE Idles(w, w)
BY DEF Idles, Beside, SameAnswer, SameHolders

LEMMA PauseLoopFields ==
  ASSUME NEW w \in Records, NEW reason \in StopReasons
  PROVE  Pauses(w, PauseLoop(w, reason), reason)
<1> DEFINE m == MarkStopped(w, reason)
           u == [m EXCEPT !.goal = "paused"]
           v == PauseLoop(w, reason)
<1>1. v = StopTurn(u) BY DEF PauseLoop
<1>2. w.run \in Runs /\ (w.run.exists \/ w.run = NoRun) BY DEF Records, RunStates
<1>3. /\ m \in Records
      /\ m.run.exists = w.run.exists /\ m.run.iterations = w.run.iterations
      /\ m.run.failures = w.run.failures
      /\ m.run.stop = IF w.run.exists THEN reason ELSE "no"
      /\ m.answer = w.answer /\ m.judge = w.judge /\ m.queue = w.queue
      /\ m.turns = w.turns /\ m.requested = w.requested /\ m.resident = w.resident
  <2>1. CASE ~w.run.exists
    <3>1. m = w BY <2>1 DEF MarkStopped
    <3> QED BY <1>2, <2>1, <3>1, NewRunIsRun
  <2>2. CASE w.run.exists
    <3> DEFINE new == [w.run EXCEPT !.stop = reason]
    <3>1. /\ new \in Runs /\ new.exists /\ new.iterations = w.run.iterations
          /\ new.failures = w.run.failures /\ new.stop = reason
      BY <1>2, <2>2 DEF Runs, StopReasons
    <3>2. m = [w EXCEPT !.run = new] BY <2>2 DEF MarkStopped, Records
    <3> HIDE DEF new, m
    <3>3. new \in RunStates BY <3>1 DEF RunStates
    <3>4. /\ m \in Records /\ m.run = new
          /\ m.answer = w.answer /\ m.judge = w.judge /\ m.queue = w.queue
          /\ m.turns = w.turns /\ m.requested = w.requested /\ m.resident = w.resident
      BY <3>2, <3>3 DEF Records
    <3> QED BY <2>2, <3>1, <3>4
  <2> QED BY <2>1, <2>2
<1> HIDE DEF m
<1>4. /\ u \in Records /\ u.goal = "paused" /\ u.run = m.run
      /\ u.answer = m.answer /\ u.judge = m.judge /\ u.queue = m.queue
      /\ u.turns = m.turns /\ u.requested = m.requested /\ u.resident = m.resident
  BY <1>3 DEF Records, Goals
<1> HIDE DEF u, v
<1>5. /\ v \in Records /\ Beside(u, v) /\ SameAnswer(u, v) /\ SameHolders(u.turns, v.turns)
      /\ v.goal = u.goal /\ v.run = u.run /\ v.queue = u.queue
  BY <1>1, <1>4, StopTurnFields
<1> QED BY <1>3, <1>4, <1>5 DEF Pauses, Idles, Beside, SameAnswer, v

LEMMA ResetLoopDrops ==
  ASSUME NEW w \in Records
  PROVE  /\ Drops(w, ResetLoop(w)) /\ ResetLoop(w).goal = w.goal
         /\ ~w.judge.on => ResetLoop(w).judge = w.judge
<1> DEFINE v == ResetLoop(w)
<1>1. v = Detach(w, NoRun) BY DEF ResetLoop
<1> HIDE DEF v
<1>2. /\ v \in Records /\ Beside(w, v) /\ v.run = NoRun
      /\ v.judge.latest = w.judge.latest /\ (~w.judge.on => v.judge = w.judge)
      /\ v.goal = w.goal /\ v.answer = w.answer /\ v.queue = w.queue /\ v.turns = w.turns
  BY <1>1, NewRunIsRun, DetachFields
<1> QED BY <1>2 DEF Drops, Idles, SameAnswer, SameHolders, v

LEMMA ResetAndComplete ==
  ASSUME NEW w \in Records
  PROVE  LET v == [ResetLoop(w) EXCEPT !.goal = "complete"]
         IN Drops(w, v) /\ v.goal = "complete" /\ (~w.judge.on => v.judge = w.judge)
<1> DEFINE u == ResetLoop(w)
           v == [u EXCEPT !.goal = "complete"]
<1>1. Drops(w, u) /\ (~w.judge.on => u.judge = w.judge) BY ResetLoopDrops
<1> HIDE DEF u
<1>2. /\ v \in Records /\ v.goal = "complete" /\ v.run = u.run
      /\ v.answer = u.answer /\ v.judge = u.judge /\ v.queue = u.queue
      /\ v.turns = u.turns /\ v.requested = u.requested /\ v.resident = u.resident
  BY <1>1 DEF Drops, Idles, Records, Goals
<1> HIDE DEF v
<1>3. Drops(w, v)
  BY <1>1, <1>2 DEF Drops, Idles, Beside, SameAnswer, SameHolders
<1> QED BY <1>1, <1>2, <1>3 DEF u, v

LEMMA IterateFields ==
  ASSUME NEW w \in Records
  PROVE  Iterates(w, Iterate(w))
<1> DEFINE u == Reserve(w)
           v == Iterate(w)
<1>1. v = IF u.turns # << >> THEN Enqueue(u, "iteration") ELSE StartTurn(u, "iteration")
  BY DEF Iterate, Locked
<1>2. /\ u \in Records
      /\ u.run.failures = w.run.failures /\ u.run.exists = w.run.exists
      /\ u.run.stop = "no"
      /\ u.run.iterations = IF w.run.exists THEN w.run.iterations + 1 ELSE 0
      /\ u.goal = w.goal /\ u.answer = w.answer /\ u.judge = w.judge /\ u.queue = w.queue
      /\ u.turns = w.turns /\ u.requested = w.requested /\ u.resident = w.resident
  BY ReserveFields
<1> HIDE DEF u, v
<1>3. CASE u.turns # << >>
  <2>1. v = Enqueue(u, "iteration") BY <1>1, <1>3
  <2>2. /\ v \in Records 
        /\ v.goal = u.goal /\ v.run = u.run /\ v.answer = u.answer /\ v.judge = u.judge
        /\ v.turns = u.turns /\ v.requested = u.requested /\ v.resident = u.resident
    BY <1>2, <2>1, EnqueueFields
  <2> QED BY <1>2, <2>2 DEF Iterates, v
<1>4. CASE u.turns = << >>
  <2>1. v = StartTurn(u, "iteration") BY <1>1, <1>4
  <2>2. /\ v \in Records /\ v.turns = Append(u.turns, Turn("iteration"))
        /\ v.goal = u.goal /\ v.run = u.run /\ v.answer = u.answer /\ v.judge = u.judge
        /\ v.queue = u.queue /\ v.requested = u.requested /\ v.resident = u.resident
    BY <1>2, <2>1, StartTurnFields
  <2> QED BY <1>2, <1>4, <2>2 DEF Iterates, v
<1> QED BY <1>3, <1>4

LEMMA KickOffFields ==
  ASSUME NEW w \in Records
  PROVE  LET v == KickOff(w)
         IN /\ v \in Records /\ Beside(w, v) /\ v.goal = w.goal /\ v.answer = w.answer
            /\ v.judge.latest = w.judge.latest
            /\ w.run.exists \/ ~w.judge.on => v.judge = w.judge
            /\ v.run.exists /\ v.run.stop = "no"
            /\ v.run.failures = IF w.run.exists THEN w.run.failures ELSE 0
            /\ v.run.iterations = IF w.run.exists THEN w.run.iterations + 1 ELSE 1
            /\ v.turns \in {w.turns, Append(w.turns, Turn("iteration"))}
<1> DEFINE b == IF w.run.exists THEN w ELSE RegisterStart(w)
           u == Reserve(b)
           v == KickOff(w)
<1>1. v = IF u.resident /\ (u.turns # << >> \/ HasPending(u)) THEN Enqueue(u, "iteration")
          ELSE StartTurn(u, "iteration")
  BY DEF KickOff, Locked
<1>2. /\ b \in Records /\ Beside(w, b) /\ b.run.exists
      /\ b.run = IF w.run.exists THEN w.run ELSE NewRun
      /\ b.judge.latest = w.judge.latest
      /\ w.run.exists \/ ~w.judge.on => b.judge = w.judge
      /\ b.goal = w.goal /\ b.answer = w.answer /\ b.queue = w.queue /\ b.turns = w.turns
  <2>1. CASE w.run.exists BY <2>1 DEF Beside
  <2>2. CASE ~w.run.exists
    <3>1. b = Detach(w, NewRun) BY <2>2 DEF RegisterStart
    <3> HIDE DEF b
    <3>2. /\ b \in Records /\ Beside(w, b) /\ b.run = NewRun
          /\ b.judge.latest = w.judge.latest /\ (~w.judge.on => b.judge = w.judge)
          /\ b.goal = w.goal /\ b.answer = w.answer /\ b.queue = w.queue /\ b.turns = w.turns
      BY <3>1, NewRunIsRun, DetachFields
    <3> QED BY <2>2, <3>2, NewRunIsRun
  <2> QED BY <2>1, <2>2
<1> HIDE DEF b
<1>3. /\ u \in Records /\ u.run.exists
      /\ u.run.failures = (IF w.run.exists THEN w.run.failures ELSE 0)
      /\ u.run.iterations = (IF w.run.exists THEN w.run.iterations + 1 ELSE 1)
      /\ u.run.stop = "no"
      /\ u.goal = w.goal /\ u.answer = w.answer /\ u.judge = b.judge /\ u.queue = w.queue
      /\ u.turns = w.turns /\ Beside(w, u)
  BY <1>2, ReserveFields, NewRunIsRun DEF Beside
<1> HIDE DEF u, v
<1>4. CASE u.resident /\ (u.turns # << >> \/ HasPending(u))
  <2>1. v = Enqueue(u, "iteration") BY <1>1, <1>4
  <2>2. /\ v \in Records
        /\ v.goal = u.goal /\ v.run = u.run /\ v.answer = u.answer /\ v.judge = u.judge
        /\ v.turns = u.turns /\ v.requested = u.requested /\ v.resident = u.resident
    BY <1>3, <2>1, EnqueueFields
  <2> QED BY <1>2, <1>3, <2>2 DEF Beside, v
<1>5. CASE ~(u.resident /\ (u.turns # << >> \/ HasPending(u)))
  <2>1. v = StartTurn(u, "iteration") BY <1>1, <1>5
  <2>2. /\ v \in Records /\ v.turns = Append(u.turns, Turn("iteration"))
        /\ v.goal = u.goal /\ v.run = u.run /\ v.answer = u.answer /\ v.judge = u.judge
        /\ v.queue = u.queue /\ v.requested = u.requested /\ v.resident = u.resident
    BY <1>3, <2>1, StartTurnFields
  <2> QED BY <1>2, <1>3, <1>5, <2>2 DEF Beside, v
<1> QED BY <1>4, <1>5

-----------------------------------------------------------------------------
(* What the loop decides. *)

\* The reason is a checkpoint that the run s has reached.
HasReason(s, reason) ==
  /\ reason \in Checkpoints
  /\ reason = "max_iterations" => s.stop = "max_iterations" \/ s.iterations >= Limit
  /\ reason = "error" => s.failures >= MaxFailures
GoesOn(s) == s.stop = "no" /\ s.failures < MaxFailures /\ s.iterations < Limit

LEMMA DecideCases ==
  ASSUME NEW w \in Records, NEW s \in Runs
  PROVE  LET v == Decide(w, s)
         IN \/ \E reason \in Checkpoints : HasReason(s, reason) /\ Pauses(w, v, reason)
            \/ s.stop # "no" /\ Drops(w, v) /\ v.goal = w.goal
            \/ GoesOn(s) /\ Iterates(w, v)
<1> DEFINE v == Decide(w, s)
           for(reason) == HasReason(s, reason) /\ v = PauseLoop(w, reason)
<1>1. \/ for("max_iterations") \/ for("max_duration") \/ for("error")
      \/ s.stop # "no" /\ v = ResetLoop(w)
      \/ GoesOn(s) /\ v = Iterate(w)
  <2>1. s.failures \in Nat /\ s.iterations \in Nat /\ Limit \in Nat /\ MaxFailures \in Nat
    BY LimitAssumption DEF Runs
  <2> QED BY <2>1 DEF Decide, HasReason, GoesOn, Checkpoints
<1>2. ASSUME NEW reason, for(reason)
      PROVE  \E rs \in Checkpoints : HasReason(s, rs) /\ Pauses(w, v, rs)
  <2>1. reason \in Checkpoints /\ reason \in StopReasons
    BY <1>2 DEF HasReason, Checkpoints, StopReasons
  <2>2. Pauses(w, v, reason) BY <1>2, <2>1, PauseLoopFields
  <2> QED BY <1>2, <2>1, <2>2
<1>3. ASSUME s.stop # "no", v = ResetLoop(w)
      PROVE  Drops(w, v) /\ v.goal = w.goal
  BY <1>3, ResetLoopDrops
<1>4. ASSUME GoesOn(s), v = Iterate(w) PROVE Iterates(w, v)
  BY <1>4, IterateFields
<1> HIDE DEF v
<1> QED BY <1>1, <1>2, <1>3, <1>4 DEF v

\* The session with the run that the loop looks at.
Begun(w) == IF w.run.exists THEN w ELSE RegisterStart(w)

LEMMA BegunFields ==
  ASSUME NEW w \in Records, ~w.judge.on
  PROVE  LET b == Begun(w)
         IN /\ b \in Records /\ b.run.exists
            /\ b.run = IF w.run.exists THEN w.run ELSE NewRun
            /\ b.goal = w.goal /\ b.answer = w.answer /\ b.judge = w.judge /\ b.queue = w.queue
            /\ b.turns = w.turns /\ b.requested = w.requested /\ b.resident = w.resident
<1> DEFINE b == Begun(w)
<1>1. CASE w.run.exists BY <1>1 DEF Begun
<1>2. CASE ~w.run.exists
  <2>1. b = Detach(w, NewRun) BY <1>2 DEF Begun, RegisterStart
  <2> HIDE DEF b
  <2>2. /\ b \in Records /\ Beside(w, b) /\ b.run = NewRun /\ b.judge = w.judge
        /\ b.goal = w.goal /\ b.answer = w.answer /\ b.queue = w.queue /\ b.turns = w.turns
    BY <2>1, NewRunIsRun, DetachFields
  <2> QED BY <1>2, <2>2, NewRunIsRun DEF Beside, b
<1> QED BY <1>1, <1>2

\* The judge is asked about a plain answer of the session.
Asks(w, v) ==
  /\ v \in Records /\ v.goal = w.goal /\ v.run = w.run /\ v.answer = w.answer
  /\ v.queue = w.queue /\ v.turns = w.turns /\ v.requested = w.requested
  /\ v.resident = w.resident /\ v.judge.on /\ v.judge.same
  /\ v.resident /\ v.answer = "plain"
Open(w) == w.goal = "active" /\ LastAnswer(w) \notin {"done", "blocked"}
\* The goal is not active, or the answer says that it is reached.
Ends(w, v) ==
  \/ w.goal # "active" /\ Drops(w, v) /\ v.goal = w.goal
  \/ w.goal = "active" /\ LastAnswer(w) = "done" /\ Drops(w, v) /\ v.goal = "complete"
\* The cases of Consider, b being the session with its run.
Considered(w, b, v) ==
  \/ Ends(w, v)
  \/ w.goal = "active" /\ ~Open(w) /\ Pauses(b, v, "blocked")
  \/ Open(w) /\ v = b
  \/ Open(w) /\ Asks(b, v)
  \/ Open(w) /\ \E reason \in Checkpoints : HasReason(b.run, reason) /\ Pauses(b, v, reason)
  \/ Open(w) /\ b.run.stop # "no" /\ Drops(b, v) /\ v.goal = w.goal
  \/ Open(w) /\ GoesOn(b.run) /\ Iterates(b, v)

LEMMA ConsiderCases ==
  ASSUME NEW w \in Records, ~w.judge.on
  PROVE  Considered(w, Begun(w), Consider(w))
<1> DEFINE b == Begun(w)
           v == Consider(w)
<1>0. /\ b \in Records /\ b.run.exists
      /\ b.goal = w.goal /\ b.answer = w.answer /\ b.judge = w.judge /\ b.queue = w.queue
      /\ b.turns = w.turns /\ b.requested = w.requested /\ b.resident = w.resident
  BY BegunFields
<1>1. ~b.judge.on /\ LastAnswer(b) = LastAnswer(w) BY <1>0 DEF LastAnswer
<1>2. CASE w.goal # "active"
  <2>1. v = ResetLoop(w) BY <1>2 DEF Consider
  <2>2. Drops(w, v) /\ v.goal = w.goal BY <2>1, ResetLoopDrops
  <2> HIDE DEF b, v
  <2> QED BY <1>2, <2>2 DEF Considered, Ends, b, v
<1>3. CASE w.goal = "active" /\ LastAnswer(w) = "done"
  <2>1. v = [ResetLoop(b) EXCEPT !.goal = "complete"] BY <1>3 DEF Consider, Begun
  <2>2. Drops(b, v) /\ v.goal = "complete" BY <1>0, <1>1, <2>1, ResetAndComplete
  <2> HIDE DEF b, v
  <2>3. Drops(w, v)
    BY <1>0, <2>2 DEF Drops, Idles, Beside, SameAnswer, SameHolders
  <2> QED BY <1>3, <2>2, <2>3 DEF Considered, Ends, b, v
<1>4. CASE w.goal = "active" /\ LastAnswer(w) = "blocked"
  <2>1. v = PauseLoop(b, "blocked") BY <1>4 DEF Consider, Begun
  <2>2. Pauses(b, v, "blocked") BY <1>0, <2>1, PauseLoopFields DEF StopReasons
  <2> HIDE DEF b, v
  <2> QED BY <1>4, <2>2 DEF Considered, Open, b, v
<1>5. CASE Open(w) /\ b.queue # << >>
  <2>1. v = b BY <1>5 DEF Consider, Begun, Open
  <2> QED BY <1>5, <2>1 DEF Considered
<1>6. CASE Open(w) /\ b.queue = << >> /\ b.run.failures = 0 /\ LastAnswer(b) = "plain"
  <2> DEFINE j == [Idle EXCEPT !.on = TRUE, !.same = TRUE, !.latest = TRUE]
  <2>1. v = [b EXCEPT !.judge = j] BY <1>6 DEF Consider, Begun, Open
  <2>2. j \in Judges /\ j.on /\ j.same
    BY NewRunIsRun DEF Idle, Judges
  <2> HIDE DEF b, v, j
  <2>3. /\ v \in Records /\ v.judge = j /\ v.goal = b.goal /\ v.run = b.run
        /\ v.answer = b.answer /\ v.queue = b.queue /\ v.turns = b.turns
        /\ v.requested = b.requested /\ v.resident = b.resident
    BY <1>0, <2>1, <2>2 DEF Records
  <2>4. Asks(b, v) BY <1>6, <2>2, <2>3 DEF Asks, LastAnswer
  <2> QED BY <1>6, <2>4 DEF Considered, b, v
<1>7. CASE Open(w) /\ b.queue = << >> /\ ~(b.run.failures = 0 /\ LastAnswer(b) = "plain")
  <2>1. v = Decide(b, b.run) BY <1>7 DEF Consider, Begun, Open
  <2>2. b.run \in Runs BY <1>0 DEF Records, RunStates
  <2> HIDE DEF b, v
  <2> QED BY <1>0, <1>7, <2>1, <2>2, DecideCases DEF Considered, b, v
<1> QED BY <1>2, <1>3, <1>4, <1>5, <1>6, <1>7 DEF Open

-----------------------------------------------------------------------------
(* What the loop keeps.  A handler ends with a look of the loop at the session; what    *)
(* holds before that look is a little less than what holds after it.                    *)

RunMid(w) ==
  /\ w.run.stop = "max_iterations" => w.run.iterations >= Limit
  /\ w.run.iterations <= Limit
  /\ w.goal = "active" => w.run.stop = "no"
\* A recorded outcome may contradict a stop reason, until the run of a goal that is not
\* active is dropped.
RunSound(w) == RunMid(w) /\ (w.run.stop = "error" => w.run.failures >= MaxFailures)
JudgeSound(w) == w.judge.on => w.judge.same /\ w.goal = "active"
Kickless(w) == \A i \in DOMAIN w.turns : w.turns[i].kind # "kickoff"
\* A judged answer is a plain one as long as it is the last one.
Fresh(w) == w.judge.on => w.resident /\ (w.judge.latest => w.answer = "plain")

LEMMA HoldersKept ==
  ASSUME NEW w, NEW v, SameHolders(w.turns, v.turns)
  PROVE  Kickless(w) => Kickless(v)
BY DEF SameHolders, Kickless

\* An iteration that starts is not a kick-off.
LEMMA IterationsAreKickless ==
  ASSUME NEW w \in Records, NEW v, v.turns \in {w.turns, Append(w.turns, Turn("iteration"))}
  PROVE  Kickless(w) => Kickless(v)
<1>1. w.turns \in Seq(Holders) BY DEF Records
<1>2. Turn("iteration").kind # "kickoff" /\ Turn("iteration") \in Holders
  BY HoldersOfKind DEF Turn
<1> QED BY <1>1, <1>2 DEF Kickless

LEMMA ConsiderKeeps ==
  ASSUME NEW w \in States, ~w.judge.on
  PROVE  LET v == Consider(w)
         IN /\ v \in States
            /\ Kickless(w) => Kickless(v)
            /\ RunMid(w) => RunSound(v) /\ JudgeSound(v)
            /\ Fresh(v)
<1> DEFINE b == Begun(w)
           v == Consider(w)
           Kept == /\ v \in States
                   /\ Kickless(w) => Kickless(v)
                   /\ RunMid(w) => RunSound(v) /\ JudgeSound(v)
                   /\ Fresh(v)
<1>0. w \in Records /\ ~w.requested BY DEF States, Records
<1>1. /\ b \in Records /\ b.run.exists
      /\ b.run = IF w.run.exists THEN w.run ELSE NewRun
      /\ b.goal = w.goal /\ b.answer = w.answer /\ b.judge = w.judge /\ b.queue = w.queue
      /\ b.turns = w.turns /\ b.requested = w.requested /\ b.resident = w.resident
  BY <1>0, BegunFields
<1>2. Considered(w, b, v) BY <1>0, ConsiderCases
<1>3. RunMid(w) => RunMid(b) BY <1>1, NewRunIsRun, LimitAssumption DEF RunMid
<1>4. w.run \in Runs /\ b.run \in Runs /\ Limit \in Nat /\ MaxFailures \in Nat /\ Limit > 0
  BY <1>0, <1>1, LimitAssumption DEF Records, RunStates
<1> HIDE DEF b, v
<1>5. ASSUME NEW u \in {w, b}, Idles(u, v)
      PROVE  v \in States /\ ~v.judge.on /\ (Kickless(w) => Kickless(v))
  <2>1. v \in Records /\ ~v.requested /\ ~v.judge.on /\ SameHolders(w.turns, v.turns)
    BY <1>0, <1>1, <1>5 DEF Idles, Beside
  <2> QED BY <2>1, HoldersKept DEF States
<1>6. ASSUME Ends(w, v) PROVE Kept
  <2>1. Idles(w, v) /\ v.goal # "active" /\ v.run = NoRun BY <1>6 DEF Ends, Drops
  <2>2. RunSound(v) BY <1>4, <2>1, NewRunIsRun DEF RunSound, RunMid
  <2> QED BY <1>5, <2>1, <2>2 DEF JudgeSound, Fresh
<1>7. ASSUME NEW reason, reason = "blocked" \/ HasReason(b.run, reason), Pauses(b, v, reason)
      PROVE  Kept
  <2>1. Idles(b, v) /\ v.goal = "paused" BY <1>7 DEF Pauses
  <2>2. /\ v.run.stop = reason /\ v.run.iterations = b.run.iterations
        /\ v.run.failures = b.run.failures
    BY <1>1, <1>7 DEF Pauses
  <2>3. RunMid(w) => RunSound(v)
    BY <1>3, <1>7, <2>1, <2>2 DEF RunSound, RunMid, HasReason
  <2> QED BY <1>5, <2>1, <2>3 DEF JudgeSound, Fresh
<1>8. ASSUME Open(w), v = b PROVE Kept
  <2>1. RunMid(w) => RunSound(v) BY <1>1, <1>3, <1>8 DEF RunSound, RunMid, Open
  <2>2. Idles(b, v) BY <1>1, <1>8, IdlesItself
  <2> QED BY <1>1, <1>5, <1>8, <2>1, <2>2 DEF JudgeSound, Fresh
<1>9. ASSUME Open(w), Asks(b, v) PROVE Kept
  <2>1. RunMid(w) => RunSound(v) BY <1>1, <1>3, <1>9 DEF RunSound, RunMid, Open, Asks
  <2> QED BY <1>0, <1>1, <1>9, <2>1 DEF JudgeSound, Fresh, Asks, Open, States, Kickless
<1>10. ASSUME Open(w), Drops(b, v), v.goal = w.goal PROVE Kept
  <2>1. Idles(b, v) /\ v.run = NoRun BY <1>10 DEF Drops
  <2>2. RunSound(v) BY <1>4, <2>1, NewRunIsRun DEF RunSound, RunMid
  <2> QED BY <1>5, <2>1, <2>2 DEF JudgeSound, Fresh
<1>11. ASSUME Open(w), GoesOn(b.run), Iterates(b, v) PROVE Kept
  <2>1. RunMid(w) => RunSound(v)
    BY <1>1, <1>4, <1>11 DEF RunSound, RunMid, GoesOn, Iterates, Runs
  <2>2. v \in Records /\ ~v.requested /\ ~v.judge.on
    BY <1>0, <1>1, <1>11 DEF Iterates
  <2>3. Kickless(b) => Kickless(v) BY <1>1, <1>11, IterationsAreKickless DEF Iterates
  <2> QED BY <1>1, <2>1, <2>2, <2>3 DEF JudgeSound, Fresh, States, Kickless
<1> HIDE DEF Kept
<1>12. Kept
  BY <1>2, <1>6, <1>7, <1>8, <1>9, <1>10, <1>11, Zenon DEF Considered
<1> QED BY <1>12 DEF Kept, v

LEMMA ScheduleKeeps ==
  ASSUME NEW w \in States
  PROVE  LET v == MaybeSchedule(w)
         IN /\ v \in States
            /\ Kickless(w) => Kickless(v)
            /\ RunMid(w) /\ JudgeSound(w) => RunSound(v) /\ JudgeSound(v)
            /\ Fresh(w) => Fresh(v)
<1>1. CASE ~w.judge.on BY <1>1, ConsiderKeeps DEF MaybeSchedule
<1>2. CASE w.judge.on
  <2> DEFINE v == MaybeSchedule(w)
  <2>1. v = [w EXCEPT !.requested = TRUE] BY <1>2 DEF MaybeSchedule
  <2> HIDE DEF v
  <2>2. /\ v \in Records /\ v.requested /\ v.goal = w.goal /\ v.run = w.run
        /\ v.judge = w.judge /\ v.answer = w.answer /\ v.turns = w.turns
        /\ v.resident = w.resident
    BY <2>1 DEF States, Records
  <2>3. v \in States BY <1>2, <2>2 DEF States
  <2>4. RunMid(w) /\ JudgeSound(w) => RunSound(v) /\ JudgeSound(v)
    BY <1>2, <2>2 DEF RunSound, RunMid, JudgeSound
  <2>5. (Kickless(w) => Kickless(v)) /\ (Fresh(w) => Fresh(v))
    BY <2>2 DEF Kickless, Fresh
  <2> QED BY <2>3, <2>4, <2>5 DEF v
<1> QED BY <1>1, <1>2

LEMMA FinishKeeps ==
  ASSUME NEW w \in Records, NEW again \in BOOLEAN
  PROVE  LET v == FinishJudgment(w, again)
         IN /\ v \in States
            /\ Kickless(w) => Kickless(v)
            /\ RunSound(w) => RunSound(v) /\ JudgeSound(v)
            /\ Fresh(v)
<1> DEFINE u == [w EXCEPT !.judge = Idle, !.requested = FALSE]
           v == FinishJudgment(w, again)
<1>1. v = u \/ v = MaybeSchedule(u) BY DEF FinishJudgment
<1>2. /\ u \in Records /\ ~u.requested /\ ~u.judge.on /\ u.goal = w.goal /\ u.run = w.run
      /\ u.turns = w.turns
  BY NewRunIsRun DEF Records, Idle
<1> HIDE DEF u, v
<1>3. u \in States BY <1>2 DEF States
<1>4. /\ (Kickless(w) => Kickless(u)) /\ (RunSound(w) => RunSound(u) /\ JudgeSound(u))
      /\ Fresh(u)
  BY <1>2 DEF Kickless, RunSound, RunMid, JudgeSound, Fresh
<1>5. CASE v = u BY <1>3, <1>4, <1>5 DEF v
<1>6. CASE v = MaybeSchedule(u) BY <1>3, <1>4, <1>6, ScheduleKeeps DEF RunSound, v
<1> QED BY <1>1, <1>5, <1>6

LEMMA DecideKeeps ==
  ASSUME NEW w \in Records, NEW s \in Runs
  PROVE  LET v == Decide(w, s)
         IN /\ v \in Records
            /\ Kickless(w) => Kickless(v)
            /\ RunSound(w) /\ s = w.run => RunSound(v)
<1> DEFINE v == Decide(w, s)
           Kept == /\ v \in Records
                   /\ Kickless(w) => Kickless(v)
                   /\ RunSound(w) /\ s = w.run => RunSound(v)
<1>0. w.run \in Runs /\ Limit \in Nat /\ MaxFailures \in Nat /\ Limit > 0
  BY LimitAssumption DEF Records, RunStates
<1>1. \/ \E reason \in Checkpoints : HasReason(s, reason) /\ Pauses(w, v, reason)
      \/ s.stop # "no" /\ Drops(w, v) /\ v.goal = w.goal
      \/ GoesOn(s) /\ Iterates(w, v)
  BY DecideCases
<1> HIDE DEF v
<1>2. ASSUME Idles(w, v) PROVE v \in Records /\ (Kickless(w) => Kickless(v))
  BY <1>2, HoldersKept DEF Idles
<1>3. ASSUME NEW reason \in Checkpoints, HasReason(s, reason), Pauses(w, v, reason)
      PROVE  Kept
  <2>1. Idles(w, v) /\ v.goal = "paused" BY <1>3 DEF Pauses
  <2>2. /\ v.run.stop = (IF w.run.exists THEN reason ELSE "no")
        /\ v.run.iterations = w.run.iterations /\ v.run.failures = w.run.failures
    BY <1>3 DEF Pauses
  <2>3. RunSound(w) /\ s = w.run => RunSound(v)
    BY <1>3, <2>1, <2>2 DEF RunSound, RunMid, HasReason
  <2> QED BY <1>2, <2>1, <2>3
<1>4. ASSUME Drops(w, v) PROVE Kept
  <2>1. Idles(w, v) /\ v.run = NoRun BY <1>4 DEF Drops
  <2>2. RunSound(v) BY <1>0, <2>1, NewRunIsRun DEF RunSound, RunMid
  <2> QED BY <1>2, <2>1, <2>2
<1>5. ASSUME GoesOn(s), Iterates(w, v) PROVE Kept
  <2>1. RunSound(w) /\ s = w.run => RunSound(v)
    BY <1>0, <1>5 DEF RunSound, RunMid, GoesOn, Iterates, Runs
  <2>2. v \in Records /\ (Kickless(w) => Kickless(v))
    BY <1>5, IterationsAreKickless DEF Iterates
  <2> QED BY <2>1, <2>2
<1> HIDE DEF Kept
<1>6. Kept BY <1>1, <1>3, <1>4, <1>5, Zenon
<1> QED BY <1>6 DEF Kept, v

-----------------------------------------------------------------------------
(* The invariants. *)

TypeInv ==
  /\ State \in States
  /\ recovered \in BOOLEAN /\ overlapped \in BOOLEAN
  /\ requests \in 0 .. MaxRequests /\ crashes \in 0 .. MaxCrashes

\* A kick-off is due only to the turn that runs, for a run that has not used up its budget,
\* and neither a judgment nor a restart nor the end of an earlier turn is under way.
KickoffFirst(w, back) ==
  \A i \in DOMAIN w.turns : w.turns[i].kind = "kickoff" =>
    /\ i = 1 /\ back /\ ~w.judge.on /\ w.settling = << >>
    /\ w.run.exists /\ w.run.iterations < Limit
SoundInv ==
  ~overlapped => RunSound(State) /\ JudgeSound(State) /\ KickoffFirst(State, recovered)

\* What a step keeps of the three.
Keeps ==
  /\ TypeInv'
  /\ SoundInv => SoundInv'
  /\ Fresh(State) => Fresh(State)'

LEMMA StateFields ==
  /\ State.goal = goal /\ State.run = run /\ State.judge = judge
  /\ State.requested = requested /\ State.answer = answer /\ State.resident = resident
  /\ State.queue = queue /\ State.turns = turns /\ State.settling = settling
BY DEF State

LEMMA TypeInvIsTypeOK ==
  ASSUME TypeInv
  PROVE  TypeOK
<1>1. State \in Records /\ (requested => judge.on) BY StateFields DEF TypeInv, States
<1>2. /\ goal \in Goals /\ run \in RunStates /\ judge \in Judges /\ requested \in BOOLEAN
      /\ answer \in Answers /\ resident \in BOOLEAN /\ queue \in Seq(QueuedItem)
      /\ turns \in Seq(Holders) /\ settling \in Seq(Holders)
  BY <1>1, StateFields DEF Records
<1> QED BY <1>1, <1>2 DEF TypeInv, TypeOK, Goals, RunStates, Judges, Answers

\* A step that becomes w has w as its next state.
LEMMA BecomesState ==
  ASSUME NEW w \in Records, Become(w)
  PROVE  State' = w
BY DEF Become, State, Records

\* The loop is where it was; the session may have become resident and answered.
SameLoop(w, v) ==
  /\ v \in Records /\ v.goal = w.goal /\ v.run = w.run /\ v.requested = w.requested
  /\ v.judge.on = w.judge.on /\ v.judge.same = w.judge.same
  /\ SameAnswer(w, v) /\ (w.resident => v.resident)

LEMMA SameLoopKeeps ==
  ASSUME NEW w \in States, NEW v, SameLoop(w, v)
  PROVE  /\ v \in States
         /\ RunMid(w) => RunMid(v)
         /\ RunSound(w) => RunSound(v)
         /\ JudgeSound(w) => JudgeSound(v)
         /\ Fresh(w) => Fresh(v)
BY DEF SameLoop, SameAnswer, States, RunSound, RunMid, JudgeSound, Fresh

\* A handler that only keeps the counters, with what it has to establish.
LEMMA HandlerKeeps ==
  ASSUME TypeInv, NEW w \in States, State' = w,
         UNCHANGED << requests, crashes, overlapped >>, recovered' \in BOOLEAN,
         SoundInv /\ ~overlapped =>
           RunSound(w) /\ JudgeSound(w) /\ KickoffFirst(w, recovered'),
         Fresh(State) => Fresh(w)
  PROVE  Keeps
<1>1. TypeInv' BY DEF TypeInv
<1>2. SoundInv => SoundInv' BY DEF SoundInv
<1> QED BY <1>1, <1>2 DEF Keeps

LEMMA KicklessIsFirst ==
  ASSUME NEW w, NEW back, Kickless(w)
  PROVE  KickoffFirst(w, back)
BY DEF Kickless, KickoffFirst

\* A step beside the loop: kick-offs are where they were, or gone.
LEMMA BesideTheLoop ==
  ASSUME TypeInv, NEW w, State' = w, SameLoop(State, w),
         UNCHANGED << recovered, requests, crashes, overlapped >>,
         Kickless(w) \/ (SameHolders(State.turns, w.turns) /\ w.settling = State.settling)
  PROVE  Keeps
<1>1. /\ w \in States /\ (RunSound(State) => RunSound(w))
      /\ JudgeSound(State) => JudgeSound(w)
      /\ Fresh(State) => Fresh(w)
  BY SameLoopKeeps DEF TypeInv
<1>2. KickoffFirst(State, recovered) => KickoffFirst(w, recovered)
  <2>1. CASE Kickless(w) BY <2>1, KicklessIsFirst
  <2>2. CASE SameHolders(State.turns, w.turns) /\ w.settling = State.settling
    BY <2>2 DEF KickoffFirst, SameHolders, SameLoop
  <2> QED BY <2>1, <2>2
<1> QED BY <1>1, <1>2, HandlerKeeps DEF SoundInv, TypeInv

LEMMA InitKeeps == Init => TypeInv /\ SoundInv /\ Fresh(State)
<1> SUFFICES ASSUME Init PROVE TypeInv /\ SoundInv /\ Fresh(State)
  OBVIOUS
<1>1. /\ goal \in {"none", "active"} /\ run \in {NoRun, NewRun}
      /\ judge = Idle /\ requested = FALSE
      /\ answer = "none" /\ resident = FALSE
      /\ queue = << >> /\ turns = << >> /\ settling = << >>
      /\ recovered \in BOOLEAN /\ requests = 0 /\ crashes \in {0, MaxCrashes}
      /\ overlapped = FALSE
  BY DEF Init
<1>2. ~Idle.on BY DEF Idle
<1>3. << >> \in Seq(QueuedItem) /\ << >> \in Seq(Holders) OBVIOUS
<1>4. State \in Records
  BY <1>1, <1>3, NewRunIsRun DEF State, Records, Goals, Answers
<1>5. State \in States BY <1>1, <1>4, StateFields DEF States
<1>6. TypeInv
  <2>1. MaxRequests \in Nat /\ MaxCrashes \in Nat BY BoundsAssumption
  <2>2. requests \in 0 .. MaxRequests /\ crashes \in 0 .. MaxCrashes BY <1>1, <2>1
  <2> QED BY <1>1, <1>5, <2>2, Zenon DEF TypeInv
<1>7. SoundInv
  BY <1>1, <1>2, StateFields, NewRunIsRun, LimitAssumption
     DEF SoundInv, RunSound, RunMid, JudgeSound, KickoffFirst
<1>8. Fresh(State) BY <1>1, <1>2, StateFields DEF Fresh
<1> QED BY <1>6, <1>7, <1>8

-----------------------------------------------------------------------------
(* The judgment and the turns. *)

LEMMA JudgedKeeps ==
  ASSUME TypeInv, NEW verdict \in {"continue", "done"}, Judged(verdict)
  PROVE  Keeps
<1> DEFINE w == State
           s == IF judge.same THEN run ELSE judge.run
           decided == Decide(w, s)
           complete == [ResetLoop(w) EXCEPT !.goal = "complete"]
<1>0. w \in States /\ w \in Records BY DEF TypeInv, States
<1>1. PICK u \in {w, complete, decided}, again \in BOOLEAN : Become(FinishJudgment(u, again))
  BY DEF Judged
<1>2. judge.on /\ UNCHANGED << recovered, requests, crashes, overlapped >> BY DEF Judged
<1>3. SoundInv /\ ~overlapped => RunSound(w) /\ JudgeSound(w) /\ Kickless(w)
  BY <1>2, StateFields DEF SoundInv, KickoffFirst, Kickless
<1>4. /\ u \in Records
      /\ Kickless(w) => Kickless(u)
      /\ SoundInv /\ ~overlapped => RunSound(u)
  <2>1. CASE u = w BY <1>0, <1>3, <2>1
  <2>2. CASE u = complete
    <3>1. Drops(w, u) /\ u.goal = "complete" BY <1>0, <2>2, ResetAndComplete
    <3>2. u \in Records /\ u.turns = w.turns /\ u.run = NoRun BY <3>1 DEF Drops, Idles
    <3>3. RunSound(u)
      BY <3>1, <3>2, NewRunIsRun, LimitAssumption DEF RunSound, RunMid
    <3> QED BY <3>2, <3>3 DEF Kickless
  <2>3. CASE u = decided
    <3>1. s \in Runs /\ (JudgeSound(w) => s = w.run)
      BY <1>0, <1>2, StateFields DEF Records, RunStates, Judges, JudgeSound
    <3>2. /\ u \in Records
          /\ Kickless(w) => Kickless(u)
          /\ RunSound(w) /\ s = w.run => RunSound(u)
      BY <1>0, <2>3, <3>1, DecideKeeps
    <3> QED BY <1>3, <3>1, <3>2
  <2> QED BY <1>1, <2>1, <2>2, <2>3
<1> DEFINE v == FinishJudgment(u, again)
<1>5. /\ v \in States
      /\ Kickless(u) => Kickless(v)
      /\ RunSound(u) => RunSound(v) /\ JudgeSound(v)
      /\ Fresh(v)
  BY <1>4, FinishKeeps
<1>6. State' = v BY <1>1, <1>5, BecomesState DEF States
<1> HIDE DEF v, w
<1>7. SoundInv /\ ~overlapped => RunSound(v) /\ JudgeSound(v) /\ KickoffFirst(v, recovered')
  BY <1>3, <1>4, <1>5, KicklessIsFirst
<1> QED BY <1>2, <1>5, <1>6, <1>7, HandlerKeeps DEF TypeInv

LEMMA TakeHeadKeeps ==
  ASSUME TypeInv, TakeHead
  PROVE  Keeps
<1> DEFINE e == [queue[1] EXCEPT !.state = "taken"]
           q == [queue EXCEPT ![1] = e]
           h == [Turn(Head(queue).kind) EXCEPT !.drained = TRUE]
           t == << h >>
<1>0. State \in Records BY DEF TypeInv, States
<1>1. /\ queue # << >> /\ queue' = q /\ turns' = t /\ resident' = TRUE
      /\ UNCHANGED << goal, run, judge, requested, answer, settling, recovered, requests,
                      crashes, overlapped >>
  BY DEF TakeHead
<1>2. queue \in Seq(QueuedItem) /\ queue[1] \in QueuedItem /\ Head(queue) = queue[1]
      /\ DOMAIN queue = 1 .. Len(queue) /\ Len(queue) \in Nat /\ Len(queue) >= 1
  BY <1>0, <1>1, StateFields DEF Records
<1>3. q \in Seq(QueuedItem)
  <2>1. e \in QueuedItem BY <1>2 DEF QueuedItem
  <2> HIDE DEF e
  <2>2. q \in [1 .. Len(queue) -> QueuedItem] BY <1>2, <2>1
  <2> QED BY <1>2, <2>2
<1>4. h \in Holders /\ h.kind # "kickoff" BY <1>2 DEF QueuedItem, Turn, Holders
<1> HIDE DEF q, h
<1>5. State' \in Records BY <1>0, <1>1, <1>3, <1>4 DEF State, Records
<1>6. SameLoop(State, State') BY <1>1, <1>5, StateFields DEF SameLoop, SameAnswer, State
<1>7. Kickless(State') BY <1>1, <1>4 DEF Kickless, State
<1> QED BY <1>1, <1>6, <1>7, BesideTheLoop

LEMMA PhaseKeeps ==
  ASSUME TypeInv, BeginTurn \/ EndModel
  PROVE  Keeps /\ SameHolders(State.turns, State'.turns) /\ queue' = queue
<1>0. State \in Records BY DEF TypeInv, States
<1>1. PICK phase \in {"running", "ending"} :
        /\ turns # << >> /\ turns' = [turns EXCEPT ![1].phase = phase]
        /\ resident' \in {resident, TRUE}
        /\ UNCHANGED << goal, run, judge, requested, answer, queue, settling, recovered,
                        requests, crashes, overlapped >>
  BY DEF BeginTurn, EndModel
<1>2. turns' \in Seq(Holders) /\ SameHolders(turns, turns')
  BY <1>0, <1>1, PhaseFields, StateFields DEF Records
<1>3. State' \in Records BY <1>0, <1>1, <1>2 DEF State, Records
<1>4. SameLoop(State, State') BY <1>1, <1>3, StateFields DEF SameLoop, SameAnswer, State
<1>5. SameHolders(State.turns, State'.turns) /\ State'.settling = State.settling
  BY <1>1, <1>2, StateFields DEF State
<1> QED BY <1>1, <1>4, <1>5, BesideTheLoop

\* The state in which the turn has its answer.
LEMMA AnswerFields ==
  ASSUME TypeInv, NEW outcome \in Outcomes, AnswerTurn(outcome)
  PROVE  \E w : /\ State' = w /\ SameLoop(State, w) /\ SameHolders(State.turns, w.turns)
                /\ w.settling = State.settling
                /\ QueuedIterations(w.queue) = QueuedIterations(State.queue)
<1> DEFINE phase == IF outcome = "fails" THEN "failed" ELSE "answered"
           t == [turns EXCEPT ![1].phase = phase]
           item(i) == IF Head(turns).drained /\ queue[i].state = "taken"
                      THEN [queue[i] EXCEPT !.state = "answered"] ELSE queue[i]
           q == [i \in DOMAIN queue |-> item(i)]
           w == [State EXCEPT !.turns = t, !.queue = q]
<1>0. State \in Records BY DEF TypeInv, States
<1>1. turns # << >> /\ turns \in Seq(Holders) /\ queue \in Seq(QueuedItem)
  BY <1>0, StateFields DEF AnswerTurn, Records
<1>2. PICK v \in {w} \cup {Say(w, what) : what \in Answers} : Become(v)
  <2>1. w = [State EXCEPT
               !.turns[1].phase = IF outcome = "fails" THEN "failed" ELSE "answered",
               !.queue = [i \in DOMAIN @ |-> IF Head(turns).drained /\ @[i].state = "taken"
                                             THEN [@[i] EXCEPT !.state = "answered"] ELSE @[i]]]
    BY StateFields DEF State
  <2> HIDE DEF w
  <2> QED BY <2>1 DEF AnswerTurn, Outcomes, Answers
<1> HIDE DEF w
<1>3. t \in Seq(Holders) /\ SameHolders(turns, t) BY <1>1, PhaseFields
<1>4. /\ q \in Seq(QueuedItem) /\ DOMAIN q = DOMAIN queue
      /\ \A i \in DOMAIN queue : q[i].kind = queue[i].kind
  <2>1. ASSUME NEW i \in DOMAIN queue
        PROVE  item(i) \in QueuedItem /\ item(i).kind = queue[i].kind
    <3>1. queue[i] \in QueuedItem BY <1>1
    <3>2. [queue[i] EXCEPT !.state = "answered"] \in QueuedItem BY <3>1 DEF QueuedItem
    <3> QED BY <3>1, <3>2 DEF QueuedItem
  <2>2. DOMAIN queue = 1 .. Len(queue) /\ Len(queue) \in Nat BY <1>1
  <2> HIDE DEF item
  <2>3. q \in [1 .. Len(queue) -> QueuedItem] BY <2>1, <2>2
  <2> QED BY <2>1, <2>2, <2>3
<1> HIDE DEF t, q
<1>5. QueuedIterations(q) = QueuedIterations(queue) BY <1>4 DEF QueuedIterations
<1>6. /\ w \in Records /\ w.turns = t /\ w.queue = q /\ w.settling = State.settling
      /\ w.goal = State.goal /\ w.run = State.run /\ w.answer = State.answer
      /\ w.judge = State.judge /\ w.requested = State.requested /\ w.resident = State.resident
  BY <1>0, <1>3, <1>4 DEF Records, w
<1>7. /\ v \in Records /\ v.turns = t /\ v.queue = q /\ v.settling = State.settling
      /\ SameLoop(State, v)
  <2>1. CASE v = w BY <1>6, <2>1 DEF SameLoop, SameAnswer
  <2>2. ASSUME NEW what \in Answers, v = Say(w, what)
        PROVE  /\ v \in Records /\ v.turns = t /\ v.queue = q /\ v.settling = State.settling
               /\ SameLoop(State, v)
    BY <1>6, <2>2, SayFields DEF SameLoop, SameAnswer, Beside, OldJudge
  <2> QED BY <1>2, <2>1, <2>2
<1>8. State' = v BY <1>2, <1>7, BecomesState
<1> QED BY <1>3, <1>5, <1>7, <1>8, StateFields

LEMMA AnswerTurnKeeps ==
  ASSUME TypeInv, NEW outcome \in Outcomes, AnswerTurn(outcome)
  PROVE  Keeps
<1>1. UNCHANGED << recovered, requests, crashes, overlapped >> BY DEF AnswerTurn
<1> QED BY <1>1, AnswerFields, BesideTheLoop

LEMMA CommandWorksKeeps ==
  ASSUME TypeInv, CommandWorks
  PROVE  Keeps
<1> DEFINE h == [turns[1] EXCEPT !.kind = "command"]
           t == [turns EXCEPT ![1] = h]
           w == [State EXCEPT !.turns = t]
           v == KickOff(w)
<1>0. State \in Records /\ (requested => judge.on)
  BY StateFields DEF TypeInv, States
<1>1. /\ turns # << >> /\ turns[1].kind = "kickoff" /\ Become(v)
      /\ UNCHANGED << recovered, requests, crashes, overlapped >>
  <2>1. w = [State EXCEPT !.turns[1].kind = "command"] BY StateFields DEF State
  <2> HIDE DEF w
  <2> QED BY <2>1 DEF CommandWorks
<1>2. turns \in Seq(Holders) /\ 1 \in DOMAIN turns /\ turns \in [1 .. Len(turns) -> Holders]
      /\ Len(turns) \in Nat
  BY <1>0, <1>1, StateFields DEF Records
<1>3. h \in Holders /\ h.kind = "command" BY <1>2 DEF Holders
<1> HIDE DEF h
<1>4. t \in Seq(Holders) /\ DOMAIN t = DOMAIN turns
      /\ \A i \in DOMAIN t : t[i].kind = IF i = 1 THEN "command" ELSE turns[i].kind
  <2>1. t \in [1 .. Len(turns) -> Holders] BY <1>2, <1>3
  <2> QED BY <1>2, <1>3, <2>1
<1> HIDE DEF t
<1>5. /\ w \in Records /\ w.turns = t /\ w.goal = goal /\ w.run = run /\ w.answer = answer
      /\ w.judge = judge /\ w.requested = requested /\ w.resident = resident
  BY <1>0, <1>4, StateFields DEF Records
<1> HIDE DEF w
<1>6. /\ v \in Records /\ Beside(w, v) /\ v.goal = w.goal /\ v.answer = w.answer
      /\ v.judge.latest = w.judge.latest
      /\ w.run.exists \/ ~w.judge.on => v.judge = w.judge
      /\ v.run.stop = "no"
      /\ v.run.iterations = IF w.run.exists THEN w.run.iterations + 1 ELSE 1
      /\ v.turns \in {w.turns, Append(w.turns, Turn("iteration"))}
  BY <1>5, KickOffFields
<1>7. State' = v BY <1>1, <1>6, BecomesState
<1> HIDE DEF v
<1>8. v \in States BY <1>0, <1>5, <1>6 DEF States, Beside
<1>9. Fresh(State) => Fresh(v) BY <1>5, <1>6, StateFields DEF Fresh, Beside
<1>10. ASSUME SoundInv, ~overlapped
       PROVE  RunSound(v) /\ JudgeSound(v) /\ KickoffFirst(v, recovered')
  <2>1. /\ ~judge.on /\ run.exists /\ run.iterations < Limit
        /\ \A i \in DOMAIN turns : turns[i].kind = "kickoff" => i = 1
    BY <1>1, <1>2, <1>10, StateFields DEF SoundInv, KickoffFirst
  <2>2. run \in Runs BY <1>0, StateFields DEF Records, RunStates
  <2>3. RunSound(v) /\ JudgeSound(v)
    BY <1>5, <1>6, <2>1, <2>2, LimitAssumption DEF RunSound, RunMid, JudgeSound, Beside, Runs
  <2>4. Kickless(w) BY <1>4, <1>5, <2>1 DEF Kickless
  <2>5. Kickless(v) BY <1>5, <1>6, <2>4, IterationsAreKickless
  <2> QED BY <2>3, <2>5, KicklessIsFirst
<1> QED BY <1>1, <1>7, <1>8, <1>9, <1>10, HandlerKeeps DEF TypeInv

\* The turn that runs leaves the mutex; a kick-off was its own.
LEMMA EndTurnKeeps ==
  ASSUME TypeInv, NEW threw \in BOOLEAN, EndTurn(threw)
  PROVE  Keeps /\ State' \in Records /\ State.turns # << >>
         /\ State'.turns = Tail(State.turns) /\ State'.queue = State.queue
<1> DEFINE h == IF threw THEN [turns[1] EXCEPT !.phase = "threw"] ELSE turns[1]
           t == Tail(turns)
<1>0. State \in Records /\ State \in States BY DEF TypeInv, States
<1>1. /\ turns # << >> /\ turns' = t /\ settling' = Append(settling, h)
      /\ requests' = requests \/ (requests < MaxRequests /\ requests' = requests + 1)
      /\ UNCHANGED << goal, run, judge, requested, answer, resident, queue, recovered,
                      crashes, overlapped >>
  BY DEF EndTurn
<1>2. turns \in Seq(Holders) /\ turns[1] \in Holders /\ settling \in Seq(Holders)
  BY <1>0, <1>1, StateFields DEF Records
<1>3. h \in Holders BY <1>2 DEF Holders
<1>4. t \in Seq(Holders) /\ \A i \in DOMAIN t : i + 1 \in DOMAIN turns /\ t[i] = turns[i + 1]
      /\ i + 1 # 1
  BY <1>1, <1>2
<1> HIDE DEF t, h
<1>5. State' \in Records
  <2>1. Append(settling, h) \in Seq(Holders) BY <1>2, <1>3
  <2> QED BY <1>0, <1>1, <1>4, <2>1 DEF State, Records
<1>6. SameLoop(State, State') BY <1>1, <1>5, StateFields DEF SameLoop, SameAnswer, State
<1>7. KickoffFirst(State, recovered) => Kickless(State')
  BY <1>1, <1>4, StateFields DEF KickoffFirst, Kickless, State
<1>8. /\ State' \in States /\ (RunSound(State) => RunSound(State'))
      /\ JudgeSound(State) => JudgeSound(State')
      /\ Fresh(State) => Fresh(State')
  BY <1>0, <1>6, SameLoopKeeps
<1>9. TypeInv'
  <2>1. requests' \in 0 .. MaxRequests BY <1>1, BoundsAssumption DEF TypeInv
  <2> QED BY <1>1, <1>8, <2>1 DEF TypeInv
<1>10. SoundInv => SoundInv' BY <1>1, <1>7, <1>8, KicklessIsFirst DEF SoundInv
<1>11. Keeps BY <1>8, <1>9, <1>10 DEF Keeps
<1> QED BY <1>1, <1>5, <1>11, StateFields DEF State, t

\* What leaves the queue when an item is done with.
LEMMA CleanedFields ==
  ASSUME NEW w \in Records, NEW v \in {Untaken(w), Cleaned(w)}
  PROVE  /\ SameLoop(w, v) /\ ItemCount(v.queue) <= ItemCount(w.queue)
         /\ v.answer = w.answer /\ v.resident = w.resident /\ v.turns = w.turns
         /\ v.settling = w.settling
<1>1. CASE v = w
  <2>1. w.queue \in Seq(QueuedItem) /\ w.turns \in Seq(Holders) BY DEF Records
  <2>2. ItemCount(w.queue) \in Nat BY <2>1, CountsAreNumbers
  <2> QED BY <1>1, <2>2 DEF SameLoop, SameAnswer
<1>2. CASE v = Untaken(w)
  BY <1>2, KeepFields DEF SameLoop, SameAnswer
<1> QED BY <1>1, <1>2 DEF Cleaned

\* The first of the turns that settle goes.
LEMMA SettlingFields ==
  ASSUME NEW w \in Records, w.settling # << >>
  PROVE  LET v == [w EXCEPT !.settling = Tail(@)]
         IN /\ SameLoop(w, v) /\ v.queue = w.queue /\ v.turns = w.turns
            /\ Head(w.settling) \in Holders
<1> DEFINE v == [w EXCEPT !.settling = Tail(w.settling)]
<1>1. w.settling \in Seq(Holders) BY DEF Records
<1>2. Tail(w.settling) \in Seq(Holders) /\ Head(w.settling) \in Holders BY <1>1
<1>3. [w EXCEPT !.settling = Tail(@)] = v BY DEF Records
<1> QED BY <1>2, <1>3 DEF Records, SameLoop, SameAnswer

LEMMA SettledFields ==
  ASSUME NEW w \in Records, NEW turn
  PROVE  \E u \in Records :
           /\ Settled(w, turn) = MaybeSchedule(u)
           /\ u.run.iterations = w.run.iterations /\ u.run.stop = w.run.stop
           /\ u.goal = w.goal /\ u.answer = w.answer /\ u.judge = w.judge
           /\ u.queue = w.queue /\ u.turns = w.turns /\ u.requested = w.requested
           /\ u.resident = w.resident
<1> DEFINE ok == turn.phase = "answered"
           u == IF turn.kind = "iteration" THEN RecordOutcome(w, ok) ELSE w
<1>1. Settled(w, turn) = MaybeSchedule(u) BY DEF Settled
<1>2. ok \in BOOLEAN OBVIOUS
<1> HIDE DEF ok
<1>3. CASE turn.kind = "iteration" BY <1>1, <1>2, <1>3, RecordOutcomeFields
<1>4. CASE turn.kind # "iteration" BY <1>1, <1>4
<1> QED BY <1>3, <1>4

LEMMA SettledKeeps ==
  ASSUME NEW w \in States, NEW turn
  PROVE  LET v == Settled(w, turn)
         IN /\ v \in States
            /\ Kickless(w) => Kickless(v)
            /\ RunMid(w) /\ JudgeSound(w) => RunSound(v) /\ JudgeSound(v)
            /\ Fresh(w) => Fresh(v)
<1>0. w \in Records BY DEF States
<1>1. PICK u \in Records :
        /\ Settled(w, turn) = MaybeSchedule(u)
        /\ u.run.iterations = w.run.iterations /\ u.run.stop = w.run.stop
        /\ u.goal = w.goal /\ u.answer = w.answer /\ u.judge = w.judge
        /\ u.queue = w.queue /\ u.turns = w.turns /\ u.requested = w.requested
        /\ u.resident = w.resident
  BY <1>0, SettledFields
<1>2. u \in States BY <1>1 DEF States
<1>3. /\ Kickless(w) => Kickless(u)
      /\ RunMid(w) /\ JudgeSound(w) => RunMid(u) /\ JudgeSound(u)
      /\ Fresh(w) => Fresh(u)
  BY <1>1 DEF Kickless, RunMid, JudgeSound, Fresh
<1> QED BY <1>1, <1>2, <1>3, ScheduleKeeps

\* The parts of Settle: w without the turn, v after the first look, z in the end.
LEMMA SettleParts ==
  ASSUME TypeInv, Settle
  PROVE  \E w \in States, v \in States, z \in States :
           /\ SameLoop(State, w) /\ w.queue = State.queue /\ w.turns = State.turns
           /\ v = Settled(w, Head(settling))
           /\ \/ SameLoop(v, z) /\ z.queue = v.queue /\ z.turns = v.turns
              \/ z = MaybeSchedule(Cleaned(v))
           /\ settling # << >> /\ State' = z
<1> DEFINE w == [State EXCEPT !.settling = Tail(@)]
           h == Head(settling)
           v == Settled(w, h)
           r == << [h EXCEPT !.phase = "reported"] >>
           y == [v EXCEPT !.settling = r \o v.settling]
           x == MaybeSchedule(Cleaned(v))
<1>0. State \in Records /\ State \in States BY DEF TypeInv, States
<1>1. settling # << >> /\ (Become(v) \/ Become([v EXCEPT !.settling = r \o @]) \/ Become(x))
  BY DEF Settle
<1>2. SameLoop(State, w) /\ w.queue = State.queue /\ w.turns = State.turns /\ h \in Holders
  BY <1>0, <1>1, SettlingFields, StateFields
<1> HIDE DEF w
<1>3. w \in States BY <1>0, <1>2, SameLoopKeeps
<1>4. v \in States /\ v \in Records BY <1>3, SettledKeeps DEF States
<1>5. v = Settled(w, Head(settling)) OBVIOUS
<1>6. [h EXCEPT !.phase = "reported"] \in Holders BY <1>2 DEF Holders
<1> HIDE DEF h, v
<1>7. /\ SameLoop(v, y) /\ y.queue = v.queue /\ y.turns = v.turns
      /\ [v EXCEPT !.settling = r \o @] = y
  <2>1. v.settling \in Seq(Holders) BY <1>4 DEF Records
  <2>2. r \o v.settling \in Seq(Holders) BY <1>6, <2>1
  <2>3. [v EXCEPT !.settling = r \o @] = y BY <1>4 DEF Records
  <2> HIDE DEF r
  <2> QED BY <1>4, <2>2, <2>3 DEF Records, SameLoop, SameAnswer
<1>8. SameLoop(v, v) BY <1>4 DEF SameLoop, SameAnswer
<1>9. y \in States BY <1>4, <1>7, SameLoopKeeps
<1>10. x \in States
  <2>1. SameLoop(v, Cleaned(v)) BY <1>4, CleanedFields
  <2>2. Cleaned(v) \in States BY <1>4, <2>1, SameLoopKeeps
  <2> QED BY <2>2, ScheduleKeeps
<1>11. PICK z \in {v, y, x} : Become(z) BY <1>1, <1>7
<1> HIDE DEF y, r
<1>12. z \in States /\ z \in Records BY <1>4, <1>9, <1>10, <1>11 DEF States
<1>13. State' = z BY <1>11, <1>12, BecomesState
<1>14. \/ SameLoop(v, z) /\ z.queue = v.queue /\ z.turns = v.turns
       \/ z = MaybeSchedule(Cleaned(v))
  BY <1>7, <1>8, <1>11
<1> HIDE DEF x
<1> QED BY <1>1, <1>2, <1>3, <1>4, <1>5, <1>12, <1>13, <1>14

LEMMA SettleKeeps ==
  ASSUME TypeInv, Settle
  PROVE  Keeps
<1>1. PICK w \in States, v \in States, z \in States :
        /\ SameLoop(State, w) /\ w.queue = State.queue /\ w.turns = State.turns
        /\ v = Settled(w, Head(settling))
        /\ \/ SameLoop(v, z) /\ z.queue = v.queue /\ z.turns = v.turns
           \/ z = MaybeSchedule(Cleaned(v))
        /\ settling # << >> /\ State' = z
  BY SettleParts
<1>2. UNCHANGED << recovered, requests, crashes, overlapped >> BY DEF Settle
<1>3. SoundInv /\ ~overlapped => RunMid(w) /\ JudgeSound(w) /\ Kickless(w)
  <2>1. State \in States BY DEF TypeInv
  <2>2. /\ RunMid(State) => RunMid(w)
        /\ JudgeSound(State) => JudgeSound(w)
    BY <1>1, <2>1, SameLoopKeeps
  <2>3. KickoffFirst(State, recovered) => Kickless(w)
    BY <1>1, StateFields DEF KickoffFirst, Kickless
  <2> QED BY <2>2, <2>3 DEF SoundInv, RunSound
<1>4. Fresh(State) => Fresh(w) BY <1>1, SameLoopKeeps DEF TypeInv
<1>5. /\ Kickless(w) => Kickless(v)
      /\ RunMid(w) /\ JudgeSound(w) => RunSound(v) /\ JudgeSound(v)
      /\ Fresh(w) => Fresh(v)
  BY <1>1, SettledKeeps
<1>6. /\ Kickless(v) => Kickless(z)
      /\ RunSound(v) /\ JudgeSound(v) => RunSound(z) /\ JudgeSound(z)
      /\ Fresh(v) => Fresh(z)
  <2>1. CASE SameLoop(v, z) /\ z.turns = v.turns
    <3>1. Kickless(v) => Kickless(z) BY <2>1 DEF Kickless
    <3> QED BY <2>1, <3>1, SameLoopKeeps
  <2>2. CASE z = MaybeSchedule(Cleaned(v))
    <3> DEFINE y == Cleaned(v)
    <3>1. SameLoop(v, y) /\ y.turns = v.turns BY CleanedFields DEF States
    <3> HIDE DEF y
    <3>2. /\ y \in States /\ (RunMid(v) => RunMid(y)) /\ (JudgeSound(v) => JudgeSound(y))
          /\ Fresh(v) => Fresh(y)
      BY <3>1, SameLoopKeeps
    <3>3. Kickless(v) => Kickless(y) BY <3>1 DEF Kickless
    <3>4. /\ Kickless(y) => Kickless(z)
          /\ RunMid(y) /\ JudgeSound(y) => RunSound(z) /\ JudgeSound(z)
          /\ Fresh(y) => Fresh(z)
      BY <2>2, <3>2, ScheduleKeeps DEF y
    <3> QED BY <3>2, <3>3, <3>4 DEF RunSound
  <2> QED BY <1>1, <2>1, <2>2
<1>7. SoundInv /\ ~overlapped => RunSound(z) /\ JudgeSound(z) /\ KickoffFirst(z, recovered')
  BY <1>3, <1>5, <1>6, KicklessIsFirst
<1> QED BY <1>1, <1>2, <1>4, <1>5, <1>6, <1>7, HandlerKeeps DEF TypeInv

LEMMA StoreFailureFields ==
  ASSUME TypeInv, StoreFailure
  PROVE  /\ SameLoop(State, State') /\ State'.turns = State.turns /\ settling # << >>
         /\ ItemCount(State'.queue) <= ItemCount(State.queue)
<1>0. State \in Records /\ "plain" \in Answers BY DEF TypeInv, States, Answers
<1>1. PICK v \in {State, Say(State, "plain")} : Become(Cleaned([v EXCEPT !.settling = Tail(@)]))
  BY DEF StoreFailure
<1>2. settling # << >> BY DEF StoreFailure
<1>3. /\ SameLoop(State, v) /\ v.turns = State.turns /\ v.queue = State.queue
      /\ v.settling = State.settling
  <2>1. CASE v = State BY <1>0, <2>1 DEF SameLoop, SameAnswer
  <2>2. CASE v = Say(State, "plain")
    BY <1>0, <2>2, SayFields DEF SameLoop, SameAnswer, Beside, OldJudge
  <2> QED BY <2>1, <2>2
<1> DEFINE w == [v EXCEPT !.settling = Tail(@)]
           y == Cleaned(w)
<1>4. SameLoop(v, w) /\ w.queue = v.queue /\ w.turns = v.turns
  BY <1>2, <1>3, SettlingFields, StateFields DEF SameLoop
<1>5. Become(y) BY <1>1
<1> HIDE DEF w
<1>6. SameLoop(w, y) /\ ItemCount(y.queue) <= ItemCount(w.queue) /\ y.turns = w.turns
  BY <1>4, CleanedFields DEF SameLoop
<1>7. State' = y BY <1>5, <1>6, BecomesState DEF SameLoop
<1> HIDE DEF y
<1> QED BY <1>2, <1>3, <1>4, <1>6, <1>7 DEF SameLoop, SameAnswer

LEMMA StoreFailureKeeps ==
  ASSUME TypeInv, StoreFailure
  PROVE  Keeps
<1>1. /\ SameLoop(State, State') /\ State'.turns = State.turns /\ settling # << >>
      /\ UNCHANGED << recovered, requests, crashes, overlapped >>
  BY StoreFailureFields DEF StoreFailure
<1>2. /\ State' \in States /\ (RunSound(State) => RunSound(State'))
      /\ JudgeSound(State) => JudgeSound(State')
      /\ Fresh(State) => Fresh(State')
  BY <1>1, SameLoopKeeps DEF TypeInv
<1>3. KickoffFirst(State, recovered) => KickoffFirst(State', recovered')
  BY <1>1, StateFields DEF KickoffFirst
<1> QED BY <1>1, <1>2, <1>3, HandlerKeeps DEF SoundInv, TypeInv

LEMMA DrainAnsweredFields ==
  ASSUME TypeInv, DrainAnswered
  PROVE  \E w \in Records :
           /\ SameLoop(State, w) /\ w.turns = << >> /\ State.turns = << >>
           /\ ItemCount(w.queue) <= ItemCount(State.queue)
           /\ Become(MaybeSchedule(w))
<1>0. State \in Records /\ "plain" \in Answers BY DEF TypeInv, States, Answers
<1>1. PICK v \in {State, Say(State, "plain")} :
        Become(MaybeSchedule([Untaken(v) EXCEPT !.resident = TRUE]))
  BY DEF DrainAnswered
<1>2. State.turns = << >> BY StateFields DEF DrainAnswered
<1>3. SameLoop(State, v) /\ v.turns = State.turns /\ v.queue = State.queue
  <2>1. CASE v = State BY <1>0, <2>1 DEF SameLoop, SameAnswer
  <2>2. CASE v = Say(State, "plain")
    BY <1>0, <2>2, SayFields DEF SameLoop, SameAnswer, Beside, OldJudge
  <2> QED BY <2>1, <2>2
<1> DEFINE y == Untaken(v)
           w == [y EXCEPT !.resident = TRUE]
<1>4. SameLoop(v, y) /\ ItemCount(y.queue) <= ItemCount(v.queue) /\ y.turns = v.turns
  BY <1>3, CleanedFields DEF SameLoop
<1>5. Become(MaybeSchedule(w)) BY <1>1
<1> HIDE DEF y
<1>6. SameLoop(y, w) /\ w.turns = y.turns /\ w.queue = y.queue
  BY <1>4 DEF SameLoop, SameAnswer, Records
<1> HIDE DEF w
<1>7. SameLoop(State, w) BY <1>3, <1>4, <1>6 DEF SameLoop, SameAnswer
<1> QED BY <1>2, <1>3, <1>4, <1>5, <1>6, <1>7 DEF SameLoop

LEMMA DrainAnsweredKeeps ==
  ASSUME TypeInv, DrainAnswered
  PROVE  Keeps
<1>1. PICK w \in Records :
        /\ SameLoop(State, w) /\ w.turns = << >> /\ Become(MaybeSchedule(w))
  BY DrainAnsweredFields
<1>2. UNCHANGED << recovered, requests, crashes, overlapped >> BY DEF DrainAnswered
<1>3. /\ w \in States /\ (RunSound(State) => RunMid(w)) /\ (JudgeSound(State) => JudgeSound(w))
      /\ Fresh(State) => Fresh(w)
  BY <1>1, SameLoopKeeps DEF TypeInv, RunSound
<1> DEFINE x == MaybeSchedule(w)
<1>4. /\ x \in States
      /\ Kickless(w) => Kickless(x)
      /\ RunMid(w) /\ JudgeSound(w) => RunSound(x) /\ JudgeSound(x)
      /\ Fresh(w) => Fresh(x)
  BY <1>3, ScheduleKeeps
<1>5. State' = x BY <1>1, <1>4, BecomesState DEF States
<1> HIDE DEF x
<1>6. KickoffFirst(x, recovered') BY <1>1, <1>4, KicklessIsFirst DEF Kickless
<1> QED BY <1>2, <1>3, <1>4, <1>5, <1>6, HandlerKeeps DEF SoundInv, TypeInv

-----------------------------------------------------------------------------
(* The user. *)

LEMMA RequestKeeps ==
  ASSUME TypeInv, NEW w \in States, State' = w, Request,
         overlapped' \in BOOLEAN, overlapped => overlapped',
         SoundInv /\ ~overlapped' =>
           RunSound(w) /\ JudgeSound(w) /\ KickoffFirst(w, recovered),
         Fresh(State) => Fresh(w)
  PROVE  Keeps
<1>1. requests' \in 0 .. MaxRequests /\ UNCHANGED << recovered, crashes >>
  BY BoundsAssumption DEF Request, TypeInv
<1>2. TypeInv' BY <1>1 DEF TypeInv
<1>3. SoundInv => SoundInv' BY <1>1 DEF SoundInv
<1> QED BY <1>2, <1>3 DEF Keeps

LEMMA CommandFields ==
  ASSUME TypeInv, NEW action \in Actions, NEW byRoute \in BOOLEAN
  PROVE  LET u == Command(action, byRoute)
         IN /\ u \in Records /\ Beside(State, u) /\ u.judge.latest = State.judge.latest
            /\ ~State.judge.on => u.judge = State.judge
            /\ u.goal = Status(action) /\ u.answer = State.answer /\ u.queue = State.queue
            /\ u.turns = State.turns /\ u.settling = State.settling
            /\ u.run \in {State.run, NewRun, NoRun}
            /\ u.goal = "active" <=> Starts(action) /\ Status(action) = "active"
            /\ u.goal = "active" => u.run = NewRun
<1> DEFINE w == [State EXCEPT !.goal = Status(action)]
           u == Command(action, byRoute)
<1>0. State \in Records BY DEF TypeInv, States
<1>1. /\ Status(action) \in Goals
      /\ Status(action) = "active" => Starts(action)
  BY <1>0, StateFields DEF Actions, Status, Starts, Goals, Records
<1>2. /\ w \in Records /\ w.goal = Status(action) /\ w.answer = State.answer
      /\ w.queue = State.queue /\ w.turns = State.turns /\ w.run = State.run
      /\ w.judge = State.judge /\ w.settling = State.settling /\ Beside(State, w)
  BY <1>0, <1>1 DEF Records, Beside
<1>3. \/ Starts(action) /\ w.goal = "active" /\ u = RegisterStart(w)
      \/ ~(Starts(action) /\ w.goal = "active") /\ (u = w \/ u = ResetLoop(w))
  BY DEF Command
<1> HIDE DEF w, u
<1>4. CASE Starts(action) /\ w.goal = "active" /\ u = RegisterStart(w)
  <2>1. u = Detach(w, NewRun) BY <1>4 DEF RegisterStart
  <2>2. /\ u \in Records /\ Beside(w, u) /\ u.run = NewRun
        /\ u.judge.latest = w.judge.latest /\ (~w.judge.on => u.judge = w.judge)
        /\ u.goal = w.goal /\ u.answer = w.answer /\ u.queue = w.queue /\ u.turns = w.turns
        /\ u.settling = w.settling
    BY <1>2, <2>1, NewRunIsRun, DetachFields
  <2> QED BY <1>2, <1>4, <2>2 DEF Beside, u
<1>5. CASE ~(Starts(action) /\ w.goal = "active") /\ u = w
  BY <1>1, <1>2, <1>5 DEF u
<1>6. CASE ~(Starts(action) /\ w.goal = "active") /\ u = ResetLoop(w)
  <2>1. u = Detach(w, NoRun) BY <1>6 DEF ResetLoop
  <2>2. /\ u \in Records /\ Beside(w, u) /\ u.run = NoRun
        /\ u.judge.latest = w.judge.latest /\ (~w.judge.on => u.judge = w.judge)
        /\ u.goal = w.goal /\ u.answer = w.answer /\ u.queue = w.queue /\ u.turns = w.turns
        /\ u.settling = w.settling
    BY <1>2, <2>1, NewRunIsRun, DetachFields
  <2> QED BY <1>1, <1>2, <1>6, <2>2 DEF Beside, u
<1> QED BY <1>3, <1>4, <1>5, <1>6

\* The state after the effect of a command on goal and run.
LEMMA CommandKeeps ==
  ASSUME TypeInv, NEW action \in Actions, NEW byRoute \in BOOLEAN
  PROVE  LET u == Command(action, byRoute)
         IN /\ u \in States
            /\ SoundInv /\ ~overlapped /\ ~Overlaps =>
                 RunSound(u) /\ JudgeSound(u) /\ Kickless(u) /\ ~u.judge.on
            /\ Fresh(State) => Fresh(u)
<1> DEFINE u == Command(action, byRoute)
<1>0. State \in Records /\ (State.requested => State.judge.on) BY DEF TypeInv, States
<1>1. /\ u \in Records /\ Beside(State, u) /\ u.judge.latest = State.judge.latest
      /\ ~State.judge.on => u.judge = State.judge
      /\ u.answer = State.answer /\ u.turns = State.turns
      /\ u.run \in {State.run, NewRun, NoRun}
      /\ u.goal = "active" => u.run = NewRun
  BY CommandFields
<1> HIDE DEF u
<1>2. u \in States BY <1>0, <1>1 DEF States, Beside
<1>3. ~Overlaps => ~State.judge.on /\ Kickless(State)
  BY StateFields DEF Overlaps, Kickless, IsCommand
<1>4. SoundInv /\ ~overlapped /\ ~Overlaps =>
        RunSound(u) /\ JudgeSound(u) /\ Kickless(u) /\ ~u.judge.on
  <2>1. SoundInv /\ ~overlapped => RunSound(u)
    BY <1>1, NewRunIsRun, LimitAssumption DEF SoundInv, RunSound, RunMid
  <2>2. ~Overlaps => JudgeSound(u) /\ Kickless(u) /\ ~u.judge.on
    BY <1>1, <1>3 DEF JudgeSound, Kickless
  <2> QED BY <2>1, <2>2
<1>5. Fresh(State) => Fresh(u) BY <1>1 DEF Fresh, Beside
<1> QED BY <1>2, <1>4, <1>5 DEF u

LEMMA StopWorkFields ==
  ASSUME NEW u \in Records
  PROVE  LET v == StopWork(u)
         IN /\ SameLoop(u, v) /\ SameHolders(u.turns, v.turns)
            /\ ItemCount(v.queue) <= ItemCount(u.queue)
<1> DEFINE x == WithoutIterations(u)
           v == StopWork(u)
<1>1. /\ x \in Records /\ x.goal = u.goal /\ x.run = u.run /\ x.answer = u.answer
      /\ x.judge = u.judge /\ x.turns = u.turns /\ x.requested = u.requested
      /\ x.resident = u.resident /\ ItemCount(x.queue) <= ItemCount(u.queue)
  BY KeepFields
<1>2. v = StopTurn(x) BY DEF StopWork
<1> HIDE DEF x, v
<1>3. /\ v \in Records /\ Beside(x, v) /\ OldJudge(x, v) /\ SameAnswer(x, v)
      /\ SameHolders(x.turns, v.turns) /\ v.goal = x.goal /\ v.run = x.run /\ v.queue = x.queue
  BY <1>1, <1>2, StopTurnFields
<1> QED BY <1>1, <1>3 DEF SameLoop, SameAnswer, Beside, OldJudge, v

LEMMA RouteCommandKeeps ==
  ASSUME TypeInv, NEW action \in Actions, RouteCommand(action)
  PROVE  Keeps
<1> DEFINE u == Command(action, TRUE)
           v == IF ~Starts(action) THEN StopWork(u)
                ELSE IF u.goal = "active" THEN KickOff(u) ELSE u
<1>1. Request /\ Become(v) /\ overlapped' = (overlapped \/ Overlaps)
  BY DEF RouteCommand
<1>2. /\ u \in States /\ u \in Records
      /\ SoundInv /\ ~overlapped /\ ~Overlaps =>
           RunSound(u) /\ JudgeSound(u) /\ Kickless(u) /\ ~u.judge.on
      /\ Fresh(State) => Fresh(u)
  BY CommandKeeps DEF States
<1>3. u.goal = "active" => u.run = NewRun BY CommandFields
<1> HIDE DEF u
<1> DEFINE Kept == /\ v \in States
                   /\ SoundInv /\ ~overlapped /\ ~Overlaps =>
                        RunSound(v) /\ JudgeSound(v) /\ Kickless(v)
                   /\ Fresh(State) => Fresh(v)
<1>4. ASSUME ~Starts(action) PROVE Kept
  <2>1. v = StopWork(u) BY <1>4
  <2> HIDE DEF v
  <2>2. SameLoop(u, v) /\ SameHolders(u.turns, v.turns) BY <1>2, <2>1, StopWorkFields
  <2> QED BY <1>2, <2>2, SameLoopKeeps, HoldersKept
<1>5. ASSUME Starts(action), u.goal # "active" PROVE Kept BY <1>2, <1>5
<1>6. ASSUME Starts(action), u.goal = "active" PROVE Kept
  <2>1. v = KickOff(u) BY <1>6
  <2> HIDE DEF v
  <2>2. /\ v \in Records /\ Beside(u, v) /\ v.goal = u.goal /\ v.answer = u.answer
        /\ v.judge = u.judge /\ v.run.stop = "no" /\ v.run.iterations = 1
        /\ v.turns \in {u.turns, Append(u.turns, Turn("iteration"))}
    BY <1>2, <1>3, <1>6, <2>1, KickOffFields, NewRunIsRun
  <2>3. v \in States BY <1>2, <2>2 DEF States, Beside
  <2>4. RunSound(v) BY <2>2, LimitAssumption DEF RunSound, RunMid
  <2>5. (JudgeSound(u) => JudgeSound(v)) /\ (Fresh(u) => Fresh(v))
    BY <2>2 DEF JudgeSound, Fresh, Beside
  <2>6. Kickless(u) => Kickless(v) BY <1>2, <2>2, IterationsAreKickless
  <2> QED BY <1>2, <2>3, <2>4, <2>5, <2>6
<1>7. Kept BY <1>4, <1>5, <1>6
<1>8. overlapped' \in BOOLEAN BY <1>1 DEF Overlaps, TypeInv
<1>9. State' = v BY <1>1, <1>7, BecomesState DEF States
<1> HIDE DEF v
<1>10. SoundInv /\ ~overlapped' => RunSound(v) /\ JudgeSound(v) /\ KickoffFirst(v, recovered)
  BY <1>1, <1>7, KicklessIsFirst
<1> QED BY <1>1, <1>7, <1>8, <1>9, <1>10, RequestKeeps

LEMMA ChatCommandKeeps ==
  ASSUME TypeInv, NEW action \in Actions, ChatCommand(action)
  PROVE  Keeps
<1> DEFINE u == Command(action, FALSE)
           x == IF Starts(action) THEN u ELSE StopWork(u)
           kind == IF Starts(action) /\ u.goal = "active" THEN "kickoff" ELSE "command"
           v == StartTurn(x, kind)
           free == Starts(action) => turns = << >> /\ settling = << >>
<1>1. Request /\ Become(v)
  BY DEF ChatCommand
<1>2. (overlapped => overlapped') /\ (~overlapped' => ~Overlaps /\ free) /\ overlapped' \in BOOLEAN
  BY DEF ChatCommand, Overlaps, TypeInv
<1>3. recovered \/ Overlaps BY DEF Overlaps
<1>4. /\ u \in States
      /\ SoundInv /\ ~overlapped /\ ~Overlaps =>
           RunSound(u) /\ JudgeSound(u) /\ Kickless(u) /\ ~u.judge.on
      /\ Fresh(State) => Fresh(u)
  BY CommandKeeps
<1>5. /\ u.turns = turns /\ u.settling = settling
      /\ u.goal = "active" => u.run = NewRun
  BY CommandFields, StateFields
<1> HIDE DEF u
<1>6. /\ x \in States
      /\ RunSound(u) => RunSound(x)
      /\ JudgeSound(u) => JudgeSound(x)
      /\ Fresh(u) => Fresh(x)
      /\ Kickless(u) => Kickless(x)
      /\ x.judge.on = u.judge.on
      /\ Starts(action) => x = u
  <2>1. CASE Starts(action) BY <1>4, <2>1
  <2>2. CASE ~Starts(action)
    <3>1. x = StopWork(u) BY <2>2
    <3> HIDE DEF x
    <3>2. SameLoop(u, x) /\ SameHolders(u.turns, x.turns)
      BY <1>4, <3>1, StopWorkFields DEF States
    <3> QED BY <1>4, <2>2, <3>2, SameLoopKeeps, HoldersKept DEF SameLoop
  <2> QED BY <2>1, <2>2
<1> HIDE DEF x
<1>7. kind \in {"user", "iteration", "command", "kickoff"} OBVIOUS
<1>8. kind = "kickoff" => u.goal = "active" /\ x = u /\ Starts(action) BY <1>6
<1> HIDE DEF kind
<1>9. x \in Records /\ x.turns \in Seq(Holders) BY <1>6 DEF States, Records
<1>10. /\ v \in Records /\ v.turns = Append(x.turns, Turn(kind))
       /\ v.goal = x.goal /\ v.run = x.run /\ v.answer = x.answer /\ v.judge = x.judge
       /\ v.requested = x.requested /\ v.resident = x.resident /\ v.settling = x.settling
  BY <1>7, <1>9, StartTurnFields
<1>11. v \in States BY <1>6, <1>10 DEF States
<1>12. State' = v BY <1>1, <1>10, BecomesState
<1> HIDE DEF v
<1>13. Turn(kind) \in Holders /\ Turn(kind).kind = kind BY <1>7, HoldersOfKind DEF Turn
<1>14. SoundInv /\ ~overlapped' => RunSound(v) /\ JudgeSound(v) /\ KickoffFirst(v, recovered)
  <2> SUFFICES ASSUME SoundInv, ~overlapped'
               PROVE  RunSound(v) /\ JudgeSound(v) /\ KickoffFirst(v, recovered)
    OBVIOUS
  <2>1. ~overlapped /\ ~Overlaps /\ free /\ recovered BY <1>2, <1>3
  <2>2. RunSound(x) /\ JudgeSound(x) /\ Kickless(x) /\ ~x.judge.on
    BY <1>4, <1>6, <2>1
  <2>3. RunSound(v) /\ JudgeSound(v) /\ ~v.judge.on
    BY <1>10, <2>2 DEF RunSound, RunMid, JudgeSound
  <2>4. CASE kind # "kickoff"
    <3>1. Kickless(v) BY <1>9, <1>10, <1>13, <2>2, <2>4 DEF Kickless
    <3> QED BY <2>3, <3>1, KicklessIsFirst
  <2>5. CASE kind = "kickoff"
    <3>1. x.turns = << >> /\ v.settling = << >> /\ v.run = NewRun
      BY <1>5, <1>8, <1>10, <2>1, <2>5
    <3>2. \A i \in DOMAIN v.turns : i = 1 BY <1>10, <1>13, <3>1
    <3>3. v.run.exists /\ v.run.iterations < Limit
      BY <3>1, NewRunIsRun, LimitAssumption
    <3> QED BY <2>1, <2>3, <3>1, <3>2, <3>3 DEF KickoffFirst
  <2> QED BY <2>3, <2>4, <2>5
<1>15. Fresh(State) => Fresh(v) BY <1>4, <1>6, <1>10 DEF Fresh
<1> QED BY <1>1, <1>2, <1>11, <1>12, <1>14, <1>15, RequestKeeps

\* A request beside the loop.
LEMMA RequestBeside ==
  ASSUME TypeInv, NEW w, State' = w, SameLoop(State, w), Request, UNCHANGED overlapped,
         KickoffFirst(State, recovered) => KickoffFirst(w, recovered)
  PROVE  Keeps
<1>1. /\ w \in States /\ (RunSound(State) => RunSound(w))
      /\ JudgeSound(State) => JudgeSound(w)
      /\ Fresh(State) => Fresh(w)
  BY SameLoopKeeps DEF TypeInv
<1> QED BY <1>1, RequestKeeps DEF SoundInv, TypeInv

LEMMA UserMessageFields ==
  ASSUME TypeInv, UserMessage
  PROVE  /\ SameLoop(State, State') /\ ItemCount(State'.queue) <= ItemCount(State.queue)
         /\ \/ State'.turns = State.turns /\ State'.settling = State.settling
            \/ State.turns = << >> /\ State'.turns = Append(<< >>, Turn("user"))
<1> DEFINE w == State
           v == IF Locked(w) \/ HasPending(w) THEN Enqueue(w, "user") ELSE StartTurn(w, "user")
<1>0. w \in Records /\ ItemCount(w.queue) \in Nat
  <2>1. w \in Records BY DEF TypeInv, States
  <2>2. w.queue \in Seq(QueuedItem) /\ w.turns \in Seq(Holders) BY <2>1 DEF Records
  <2> QED BY <2>1, <2>2, CountsAreNumbers
<1>1. Become(v) BY DEF UserMessage
<1>2. /\ v \in Records /\ v.goal = w.goal /\ v.run = w.run /\ v.answer = w.answer
      /\ v.judge = w.judge /\ v.requested = w.requested /\ v.resident = w.resident
      /\ ItemCount(v.queue) <= ItemCount(w.queue)
      /\ \/ v.turns = w.turns /\ v.settling = w.settling
         \/ w.turns = << >> /\ v.turns = Append(<< >>, Turn("user"))
  <2>1. CASE Locked(w) \/ HasPending(w)
    <3>1. v = Enqueue(w, "user") BY <2>1
    <3> HIDE DEF v, w
    <3> QED BY <1>0, <3>1, EnqueueFields
  <2>2. CASE ~(Locked(w) \/ HasPending(w))
    <3>1. v = StartTurn(w, "user") /\ w.turns = << >> BY <2>2 DEF Locked
    <3> HIDE DEF v, w
    <3> QED BY <1>0, <3>1, StartTurnFields
  <2> QED BY <2>1, <2>2
<1>3. State' = v BY <1>1, <1>2, BecomesState
<1> QED BY <1>2, <1>3 DEF SameLoop, SameAnswer

LEMMA UserMessageKeeps ==
  ASSUME TypeInv, UserMessage
  PROVE  Keeps
<1>1. Request /\ UNCHANGED overlapped BY DEF UserMessage
<1>2. /\ SameLoop(State, State')
      /\ \/ State'.turns = State.turns /\ State'.settling = State.settling
         \/ State.turns = << >> /\ State'.turns = Append(<< >>, Turn("user"))
  BY UserMessageFields
<1>3. KickoffFirst(State, recovered) => KickoffFirst(State', recovered)
  <2>1. CASE State'.turns = State.turns /\ State'.settling = State.settling
    BY <1>2, <2>1 DEF KickoffFirst, SameLoop
  <2>2. CASE State'.turns = Append(<< >>, Turn("user"))
    <3>1. Kickless(State') BY <2>2 DEF Kickless, Turn
    <3> QED BY <3>1, KicklessIsFirst
  <2> QED BY <1>2, <2>1, <2>2
<1> QED BY <1>1, <1>2, <1>3, RequestBeside

LEMMA UserStopsFields ==
  ASSUME TypeInv, UserStops
  PROVE  /\ SameLoop(State, State') /\ SameHolders(State.turns, State'.turns)
         /\ State'.settling = State.settling /\ State'.queue = State.queue
<1> DEFINE v == StopTurn(State)
<1>1. Become(v) /\ State \in Records BY DEF UserStops, TypeInv, States
<1>2. /\ v \in Records /\ Beside(State, v) /\ OldJudge(State, v) /\ SameAnswer(State, v)
      /\ SameHolders(State.turns, v.turns)
      /\ v.goal = State.goal /\ v.run = State.run /\ v.queue = State.queue
      /\ v.settling = State.settling
  BY <1>1, StopTurnFields
<1>3. State' = v BY <1>1, <1>2, BecomesState
<1> HIDE DEF v
<1> QED BY <1>2, <1>3 DEF SameLoop, Beside, OldJudge

LEMMA UserStopsKeeps ==
  ASSUME TypeInv, UserStops
  PROVE  Keeps
<1>1. Request /\ UNCHANGED overlapped BY DEF UserStops
<1>2. /\ SameLoop(State, State') /\ SameHolders(State.turns, State'.turns)
      /\ State'.settling = State.settling
  BY UserStopsFields
<1>3. KickoffFirst(State, recovered) => KickoffFirst(State', recovered)
  BY <1>2 DEF KickoffFirst, SameHolders, SameLoop
<1> QED BY <1>1, <1>2, <1>3, RequestBeside

-----------------------------------------------------------------------------
(* Time and restarts. *)

LEMMA TimePassesKeeps ==
  ASSUME TypeInv, TimePasses
  PROVE  Keeps
<1> DEFINE r == [run EXCEPT !.old = TRUE]
           j == [judge EXCEPT !.run.old = @ \/ judge.run.exists]
<1>0. State \in Records /\ (requested => judge.on) BY StateFields DEF TypeInv, States
<1>1. /\ run.exists /\ run' = r /\ judge' = j
      /\ UNCHANGED << goal, requested, answer, resident, queue, turns, settling, recovered,
                      requests, crashes, overlapped >>
  BY DEF TimePasses
<1>2. run \in Runs /\ judge \in Judges
  BY <1>0, StateFields DEF Records, RunStates
<1>3. /\ r \in Runs /\ r.exists /\ r.iterations = run.iterations
      /\ r.failures = run.failures /\ r.stop = run.stop
  BY <1>1, <1>2 DEF Runs
<1>4. /\ j \in Judges /\ j.on = judge.on /\ j.same = judge.same /\ j.latest = judge.latest
  <2> DEFINE o == judge.run.old \/ judge.run.exists
             jr == [judge.run EXCEPT !.old = o]
  <2>1. judge.run \in Runs BY <1>2 DEF Judges
  <2>2. o \in BOOLEAN OBVIOUS
  <2> HIDE DEF o
  <2>3. jr \in Runs BY <2>1, <2>2 DEF Runs
  <2>4. j = [judge EXCEPT !.run = jr] BY <1>2 DEF Judges, o
  <2> HIDE DEF jr
  <2> QED BY <1>2, <2>3, <2>4 DEF Judges
<1> HIDE DEF r, j
<1>5. State' \in Records BY <1>0, <1>1, <1>3, <1>4 DEF State, Records, RunStates
<1>6. State' \in States BY <1>0, <1>1, <1>4, <1>5 DEF State, States
<1>7. TypeInv' BY <1>1, <1>6 DEF TypeInv
<1>8. SoundInv => SoundInv'
  BY <1>1, <1>3, <1>4
     DEF SoundInv, RunSound, RunMid, JudgeSound, KickoffFirst, State
<1>9. Fresh(State) => Fresh(State') BY <1>1, <1>3, <1>4 DEF Fresh, State
<1> QED BY <1>7, <1>8, <1>9 DEF Keeps

LEMMA CrashKeeps ==
  ASSUME TypeInv, Crash
  PROVE  Keeps
<1>0. State \in Records BY DEF TypeInv, States
<1>1. /\ turns' = << >> /\ settling' = << >> /\ judge' = Idle /\ requested' = FALSE
      /\ resident' = FALSE /\ recovered' = FALSE /\ crashes' = crashes + 1
      /\ crashes < MaxCrashes
      /\ UNCHANGED << goal, run, answer, queue, requests, overlapped >>
  BY DEF Crash
<1>2. ~Idle.on BY DEF Idle
<1>3. << >> \in Seq(Holders) OBVIOUS
<1>4. State' \in Records BY <1>0, <1>1, <1>3, NewRunIsRun DEF State, Records
<1>5. State' \in States BY <1>1, <1>4 DEF State, States
<1>6. TypeInv'
  <2>1. crashes' \in 0 .. MaxCrashes BY <1>1, BoundsAssumption DEF TypeInv
  <2>2. /\ recovered' \in BOOLEAN /\ overlapped' \in BOOLEAN
        /\ requests' \in 0 .. MaxRequests
    BY <1>1 DEF TypeInv
  <2> QED BY <1>5, <2>1, <2>2 DEF TypeInv
<1>7. SoundInv => SoundInv'
  BY <1>1, <1>2 DEF SoundInv, RunSound, RunMid, JudgeSound, KickoffFirst, State
<1>8. Fresh(State') BY <1>1, <1>2 DEF Fresh, State
<1> QED BY <1>6, <1>7, <1>8 DEF Keeps

LEMMA RecoverKeeps ==
  ASSUME TypeInv, Recover
  PROVE  Keeps
<1> DEFINE w == State
           v == IF goal = "active" THEN MaybeSchedule(w) ELSE w
<1>0. w \in States BY DEF TypeInv
<1>1. /\ Become(v) /\ ~recovered /\ recovered' = TRUE
      /\ UNCHANGED << requests, crashes, overlapped >>
  BY DEF Recover
<1>2. /\ v \in States
      /\ Kickless(w) => Kickless(v)
      /\ RunSound(w) /\ JudgeSound(w) => RunSound(v) /\ JudgeSound(v)
      /\ Fresh(w) => Fresh(v)
  BY <1>0, ScheduleKeeps DEF RunSound
<1>3. SoundInv /\ ~overlapped => RunSound(w) /\ JudgeSound(w) /\ Kickless(w)
  BY <1>1 DEF SoundInv, KickoffFirst, Kickless
<1>4. State' = v BY <1>1, <1>2, BecomesState DEF States
<1> HIDE DEF v, w
<1>5. SoundInv /\ ~overlapped => RunSound(v) /\ JudgeSound(v) /\ KickoffFirst(v, recovered')
  BY <1>2, <1>3, KicklessIsFirst
<1> QED BY <1>1, <1>2, <1>4, <1>5, HandlerKeeps DEF w

LEMMA StepKeeps ==
  ASSUME TypeInv, [Next]_vars
  PROVE  Keeps
<1>1. CASE \E action \in Actions : RouteCommand(action) \/ ChatCommand(action)
  BY <1>1, RouteCommandKeeps, ChatCommandKeeps
<1>2. CASE UserMessage \/ UserStops BY <1>2, UserMessageKeeps, UserStopsKeeps
<1>3. CASE TakeHead \/ DrainAnswered BY <1>3, TakeHeadKeeps, DrainAnsweredKeeps
<1>4. CASE BeginTurn \/ EndModel BY <1>4, PhaseKeeps
<1>5. CASE \E outcome \in Outcomes : AnswerTurn(outcome) BY <1>5, AnswerTurnKeeps
<1>6. CASE CommandWorks BY <1>6, CommandWorksKeeps
<1>7. CASE \E threw \in BOOLEAN : EndTurn(threw) BY <1>7, EndTurnKeeps
<1>8. CASE Settle \/ StoreFailure BY <1>8, SettleKeeps, StoreFailureKeeps
<1>9. CASE \E verdict \in {"continue", "done"} : Judged(verdict) BY <1>9, JudgedKeeps
<1>10. CASE TimePasses \/ Crash \/ Recover
  BY <1>10, TimePassesKeeps, CrashKeeps, RecoverKeeps
<1>11. CASE UNCHANGED vars
  <2>1. UNCHANGED << goal, run, judge, requested, answer, resident, queue, turns, settling,
                     recovered, requests, crashes, overlapped >>
    BY <1>11 DEF vars
  <2>2. State' = State BY <2>1 DEF State
  <2> QED BY <2>1, <2>2 DEF Keeps, TypeInv, SoundInv
<1> QED
  BY <1>1, <1>2, <1>3, <1>4, <1>5, <1>6, <1>7, <1>8, <1>9, <1>10, <1>11 DEF Next

\* The state of the loop is well formed: goal, run, judgment, queue and turns have their
\* types, a run that is gone is empty, and nothing is requested unless a judgment runs
\* (goalLoopStates, goalJudgmentsInFlight and goalJudgmentsRequested of chat-goal-runtime).
THEOREM TypeCorrect == Spec => []TypeOK
<1>1. Init => TypeInv BY InitKeeps
<1>2. TypeInv /\ [Next]_vars => TypeInv' BY StepKeeps DEF Keeps
<1>3. TypeInv => TypeOK BY TypeInvIsTypeOK
<1> QED BY <1>1, <1>2, <1>3, PTL DEF Spec

\* However turns, judgments, stops and restarts interleave, the loop never gives a run more
\* iterations than its budget and pauses it only for the reason it has, as long as no
\* command met a step of the loop that was under way (scheduleGoalIterationAfterJudgment).
THEOREM LoopKeepsToRun == Spec => []LoopFollowsRun
<1>1. Init => TypeInv /\ SoundInv BY InitKeeps
<1>2. TypeInv /\ SoundInv /\ [Next]_vars => (TypeInv /\ SoundInv)'
  BY StepKeeps DEF Keeps
<1>3. SoundInv => LoopFollowsRun
  BY StateFields DEF SoundInv, RunSound, RunMid, LoopFollowsRun, FreshBudget
<1> QED BY <1>1, <1>2, <1>3, PTL DEF Spec

-----------------------------------------------------------------------------
(* For whom the loop works.  More work appears only where an iteration is queued or      *)
(* started; a look that follows in the same step can only pause its goal at a checkpoint. *)

\* The goal is active, or the loop has just paused it at a checkpoint.
Serves(w, v) ==
  v.goal = "active" \/ (w.goal = "active" /\ v.goal = "paused" /\ v.run.stop \in Checkpoints)
Works(w, v) ==
  \/ WorkOf(v) <= WorkOf(w)
  \/ /\ Serves(w, v)
     /\ v.run.failures < MaxFailures \/ (w.judge.on /\ ~w.judge.same)
\* What an iteration that was added leaves behind.
Added(w, v) ==
  /\ w.goal = "active" /\ Open(v) /\ v.run.exists /\ v.run.stop = "no"
  /\ v.run.failures < MaxFailures

LEMMA WorkIsNumber ==
  ASSUME NEW w \in Records
  PROVE  WorkOf(w) \in Nat /\ ItemCount(w.queue) \in Nat /\ OwnCount(w.turns) \in Nat
<1>1. w.queue \in Seq(QueuedItem) /\ w.turns \in Seq(Holders) BY DEF Records
<1>2. ItemCount(w.queue) \in Nat /\ OwnCount(w.turns) \in Nat BY <1>1, CountsAreNumbers
<1> QED BY <1>2 DEF WorkOf

LEMMA WorkShrinks ==
  ASSUME NEW w \in Records, NEW v \in Records,
         ItemCount(v.queue) <= ItemCount(w.queue), OwnCount(v.turns) <= OwnCount(w.turns)
  PROVE  WorkOf(v) <= WorkOf(w)
<1>1. /\ ItemCount(v.queue) \in Nat /\ OwnCount(v.turns) \in Nat
      /\ ItemCount(w.queue) \in Nat /\ OwnCount(w.turns) \in Nat
  BY WorkIsNumber
<1> QED BY <1>1 DEF WorkOf

LEMMA SameWork ==
  ASSUME NEW w \in Records, NEW v \in Records, v.queue = w.queue,
         v.turns = w.turns \/ SameHolders(w.turns, v.turns)
  PROVE  WorkOf(v) = WorkOf(w) /\ WorkOf(v) <= WorkOf(w)
<1>1. OwnCount(v.turns) = OwnCount(w.turns) BY SameHoldersCount
<1>2. WorkOf(w) \in Nat BY WorkIsNumber
<1> QED BY <1>1, <1>2 DEF WorkOf

LEMMA AddedWorks ==
  ASSUME NEW w \in Records, NEW u \in Records, NEW v \in Records,
         WorkOf(u) <= WorkOf(w), WorkOf(v) <= WorkOf(u) \/ Added(u, v)
  PROVE  Works(w, v)
<1>1. WorkOf(u) \in Nat /\ WorkOf(v) \in Nat /\ WorkOf(w) \in Nat BY WorkIsNumber
<1> QED BY <1>1 DEF Works, Added, Serves, Open

LEMMA ConsiderWorks ==
  ASSUME NEW w \in Records, ~w.judge.on
  PROVE  LET v == Consider(w)
         IN v \in Records /\ (WorkOf(v) <= WorkOf(w) \/ Added(w, v))
<1> DEFINE b == Begun(w)
           v == Consider(w)
<1>1. /\ b \in Records /\ b.run.exists
      /\ b.goal = w.goal /\ b.answer = w.answer /\ b.judge = w.judge /\ b.queue = w.queue
      /\ b.turns = w.turns /\ b.requested = w.requested /\ b.resident = w.resident
  BY BegunFields
<1>2. Considered(w, b, v) BY ConsiderCases
<1> HIDE DEF b, v
<1>3. ASSUME NEW u \in {w, b}, Idles(u, v)
      PROVE  v \in Records /\ WorkOf(v) <= WorkOf(w)
  <2>1. v \in Records /\ v.queue = w.queue /\ SameHolders(w.turns, v.turns)
    BY <1>1, <1>3 DEF Idles
  <2> QED BY <2>1, SameWork
<1>4. CASE Ends(w, v) BY <1>3, <1>4 DEF Ends, Drops, v
<1>5. CASE \E reason \in StopReasons : Pauses(b, v, reason)
  BY <1>3, <1>5 DEF Pauses, v
<1>6. CASE v = b BY <1>1, <1>3, <1>6, IdlesItself DEF v
<1>7. CASE Asks(b, v)
  <2>1. v \in Records /\ v.queue = w.queue /\ v.turns = w.turns BY <1>1, <1>7 DEF Asks
  <2> QED BY <2>1, SameWork DEF v
<1>8. CASE Drops(b, v) BY <1>3, <1>8 DEF Drops, v
<1>9. CASE Open(w) /\ GoesOn(b.run) /\ Iterates(b, v)
  <2>1. v \in Records /\ Open(v)
    BY <1>1, <1>9 DEF Iterates, Open, LastAnswer
  <2>2. Added(w, v) BY <1>1, <1>9, <2>1 DEF Added, Iterates, GoesOn, Open
  <2> QED BY <2>1, <2>2 DEF v
<1>10. "blocked" \in StopReasons /\ Checkpoints \subseteq StopReasons
  BY DEF StopReasons, Checkpoints
<1> QED BY <1>2, <1>4, <1>5, <1>6, <1>7, <1>8, <1>9, <1>10, Zenon DEF Considered

LEMMA ScheduleWorks ==
  ASSUME NEW w \in Records
  PROVE  LET v == MaybeSchedule(w)
         IN v \in Records /\ (WorkOf(v) <= WorkOf(w) \/ Added(w, v))
<1> DEFINE v == MaybeSchedule(w)
<1>1. CASE ~w.judge.on
  <2>1. v = Consider(w) BY <1>1 DEF MaybeSchedule
  <2> HIDE DEF v
  <2> QED BY <1>1, <2>1, ConsiderWorks DEF v
<1>2. CASE w.judge.on
  <2>1. v = [w EXCEPT !.requested = TRUE] BY <1>2 DEF MaybeSchedule
  <2> HIDE DEF v
  <2>2. v \in Records /\ v.queue = w.queue /\ v.turns = w.turns BY <2>1 DEF Records
  <2> QED BY <2>2, SameWork DEF v
<1> QED BY <1>1, <1>2

\* After an answer that leaves the goal open, a look can only pause the goal at a checkpoint.
LEMMA LookAgain ==
  ASSUME NEW y \in Records, Open(y), y.run.stop = "no"
  PROVE  LET v == MaybeSchedule(y)
         IN /\ v \in Records /\ v.run.failures = y.run.failures
            /\ v.goal = "active" \/ (v.goal = "paused" /\ v.run.stop \in Checkpoints)
<1> DEFINE b == Begun(y)
           v == MaybeSchedule(y)
           Kept == /\ v.run.failures = y.run.failures
                   /\ v.goal = "active" \/ (v.goal = "paused" /\ v.run.stop \in Checkpoints)
<1>0. v \in Records BY ScheduleWorks
<1>1. CASE y.judge.on
  <2>1. v = [y EXCEPT !.requested = TRUE] BY <1>1 DEF MaybeSchedule
  <2> HIDE DEF v
  <2>2. v.goal = y.goal /\ v.run = y.run BY <2>1 DEF Records
  <2> QED BY <1>0, <2>2 DEF Open, v
<1>2. CASE ~y.judge.on
  <2>1. /\ b.run.exists /\ b.run = IF y.run.exists THEN y.run ELSE NewRun
        /\ b.goal = y.goal
    BY <1>2, BegunFields
  <2>2. y.run.exists \/ y.run = NoRun BY DEF Records, RunStates
  <2>3. b.run.failures = y.run.failures /\ b.run.stop = "no" /\ b.goal = "active"
    BY <2>1, <2>2, NewRunIsRun DEF Open
  <2>4. Considered(y, b, v) BY <1>2, ConsiderCases DEF MaybeSchedule
  <2> HIDE DEF b, v
  <2>5. ASSUME v = b PROVE Kept BY <2>3, <2>5
  <2>6. ASSUME Asks(b, v) PROVE Kept BY <2>3, <2>6 DEF Asks
  <2>7. ASSUME NEW reason \in Checkpoints, Pauses(b, v, reason) PROVE Kept
    BY <2>1, <2>3, <2>7 DEF Pauses
  <2>8. ASSUME Iterates(b, v) PROVE Kept BY <2>3, <2>8 DEF Iterates
  <2>9. ~Ends(y, v) /\ b.run.stop = "no" BY <2>3 DEF Ends, Open
  <2> HIDE DEF Kept
  <2>10. Kept
    BY <2>3, <2>4, <2>5, <2>6, <2>7, <2>8, <2>9, Zenon DEF Considered
  <2> QED BY <1>0, <2>10 DEF Kept, v
<1> QED BY <1>1, <1>2

\* WorksForActiveGoals is [][WorkStep]_vars.
WorkStep ==
  Waiting' > Waiting =>
    \/ turns # << >> /\ Head(turns).kind = "kickoff"
    \/ /\ \/ goal' = "active"
          \/ goal = "active" /\ goal' = "paused" /\ run'.stop \in Checkpoints
       /\ run'.failures < MaxFailures \/ (judge.on /\ ~judge.same)

LEMMA WorksIsWorkStep ==
  ASSUME State \in Records, State' \in Records, Works(State, State')
  PROVE  WorkStep
<1>1. Waiting = WorkOf(State) BY StateFields DEF Waiting, WorkOf, ItemCount, OwnCount
<1>2. Waiting' = WorkOf(State') BY DEF Waiting, WorkOf, ItemCount, OwnCount, State
<1>3. WorkOf(State) \in Nat /\ WorkOf(State') \in Nat BY WorkIsNumber
<1>4. State'.goal = goal' /\ State'.run = run' BY DEF State
<1> QED BY <1>1, <1>2, <1>3, <1>4, StateFields DEF WorkStep, Works, Serves

LEMMA BecomeWorks ==
  ASSUME State \in Records, NEW w \in Records, Become(w), Works(State, w)
  PROVE  WorkStep
BY BecomesState, WorksIsWorkStep

\* A step that adds nothing.
LEMMA NothingAdded ==
  ASSUME State \in Records, State' \in Records,
         ItemCount(State'.queue) <= ItemCount(State.queue),
         OwnCount(State'.turns) <= OwnCount(State.turns)
  PROVE  WorkStep
BY WorkShrinks, WorksIsWorkStep DEF Works

LEMMA SameIsNoMore ==
  ASSUME State \in Records
  PROVE  /\ ItemCount(State.queue) <= ItemCount(State.queue)
         /\ OwnCount(State.turns) <= OwnCount(State.turns)
<1>1. ItemCount(State.queue) \in Nat /\ OwnCount(State.turns) \in Nat BY WorkIsNumber
<1> QED BY <1>1

\* The judged answer is the last one when an iteration follows from it, and it is plain: the
\* look that was requested meanwhile finds the goal open.
LEMMA JudgedWorks ==
  ASSUME TypeInv, Fresh(State), NEW verdict \in {"continue", "done"}, Judged(verdict)
  PROVE  WorkStep
<1> DEFINE w == State
           s == IF judge.same THEN run ELSE judge.run
           decided == Decide(w, s)
           complete == [ResetLoop(w) EXCEPT !.goal = "complete"]
<1>0. w \in Records /\ judge.on BY DEF TypeInv, States, Judged
<1>1. PICK u \in {w, complete, decided}, again \in BOOLEAN :
        /\ Become(FinishJudgment(u, again))
        /\ u = w \/ GoalIsActive(w)
        /\ u \in {w, complete} \/ judge.latest
  BY DEF Judged
<1> DEFINE x == [u EXCEPT !.judge = Idle, !.requested = FALSE]
           v == FinishJudgment(u, again)
           added == /\ w.goal = "active" /\ Open(u) /\ u.run.stop = "no"
                    /\ u.run.failures < MaxFailures \/ ~judge.same
<1>2. u \in Records /\ (WorkOf(u) <= WorkOf(w) \/ added)
  <2>1. CASE u = w
    <3>1. WorkOf(w) \in Nat BY <1>0, WorkIsNumber
    <3> QED BY <1>0, <2>1, <3>1
  <2>2. CASE u = complete
    <3>1. Drops(w, u) BY <1>0, <2>2, ResetAndComplete
    <3> HIDE DEF complete, w
    <3>2. u \in Records /\ u.queue = w.queue /\ u.turns = w.turns BY <3>1 DEF Drops, Idles
    <3> QED BY <1>0, <3>2, SameWork
  <2>3. CASE u = decided /\ u # w /\ u # complete
    <3>1. w.goal = "active" /\ judge.latest BY <1>1, <2>3 DEF GoalIsActive
    <3>2. s \in Runs /\ (judge.same => s = w.run)
      BY <1>0, StateFields DEF Records, RunStates, Judges
    <3>3. w.resident /\ w.answer = "plain" BY <1>0, <3>1, StateFields DEF Fresh
    <3> HIDE DEF s, w
    <3>4. \/ \E reason \in Checkpoints : HasReason(s, reason) /\ Pauses(w, u, reason)
          \/ s.stop # "no" /\ Drops(w, u) /\ u.goal = w.goal
          \/ GoesOn(s) /\ Iterates(w, u)
      BY <1>0, <2>3, <3>2, DecideCases
    <3>5. ASSUME Idles(w, u) PROVE u \in Records /\ WorkOf(u) <= WorkOf(w)
      <4>1. u \in Records /\ u.queue = w.queue /\ SameHolders(w.turns, u.turns)
        BY <3>5 DEF Idles
      <4> QED BY <1>0, <4>1, SameWork
    <3>6. ASSUME GoesOn(s), Iterates(w, u) PROVE u \in Records /\ added
      BY <3>1, <3>2, <3>3, <3>6 DEF Iterates, GoesOn, Open, LastAnswer
    <3> HIDE DEF added
    <3> QED BY <3>4, <3>5, <3>6 DEF Pauses, Drops
  <2> QED BY <1>1, <2>1, <2>2, <2>3
<1>3. v = x \/ v = MaybeSchedule(x) BY DEF FinishJudgment
<1>4. /\ x \in Records /\ x.goal = u.goal /\ x.run = u.run /\ x.answer = u.answer
      /\ x.queue = u.queue /\ x.turns = u.turns /\ x.resident = u.resident
  BY <1>2, NewRunIsRun DEF Records, Idle
<1>5. Become(v) BY <1>1
<1> HIDE DEF x, v, decided, complete, s
<1>6. /\ MaybeSchedule(x) \in Records
      /\ WorkOf(MaybeSchedule(x)) <= WorkOf(x) \/ Added(x, MaybeSchedule(x))
  BY <1>4, ScheduleWorks
<1>7. v \in Records BY <1>3, <1>4, <1>6
<1>8. CASE WorkOf(u) <= WorkOf(w)
  <2>1. WorkOf(x) = WorkOf(u) /\ WorkOf(x) \in Nat BY <1>2, <1>4, SameWork, WorkIsNumber
  <2>2. Works(w, v) BY <1>0, <1>3, <1>4, <1>6, <1>8, <2>1, AddedWorks
  <2> QED BY <1>0, <1>5, <1>7, <2>2, BecomeWorks
<1>9. CASE added
  <2>1. Open(x) /\ x.run.stop = "no" BY <1>4, <1>9 DEF Open, LastAnswer
  <2>2. /\ v.run.failures = u.run.failures
        /\ v.goal = "active" \/ (v.goal = "paused" /\ v.run.stop \in Checkpoints)
    BY <1>3, <1>4, <2>1, LookAgain DEF Open
  <2>3. Works(w, v) BY <1>0, <1>9, <2>2, StateFields DEF Works, Serves
  <2> QED BY <1>0, <1>5, <1>7, <2>3, BecomeWorks
<1> QED BY <1>2, <1>8, <1>9

\* The second look may undo what the first began only by pausing at a checkpoint.
LEMMA SettleWorks ==
  ASSUME TypeInv, Settle
  PROVE  WorkStep
<1>0. State \in Records BY DEF TypeInv, States
<1>1. PICK w \in States, v \in States, z \in States :
        /\ SameLoop(State, w) /\ w.queue = State.queue /\ w.turns = State.turns
        /\ v = Settled(w, Head(settling))
        /\ \/ SameLoop(v, z) /\ z.queue = v.queue /\ z.turns = v.turns
           \/ z = MaybeSchedule(Cleaned(v))
        /\ State' = z
  BY SettleParts
<1>2. w \in Records /\ v \in Records /\ z \in Records BY DEF States
<1>3. PICK u \in Records :
        /\ v = MaybeSchedule(u) /\ u.goal = w.goal /\ u.queue = w.queue /\ u.turns = w.turns
  BY <1>1, <1>2, SettledFields
<1>4. WorkOf(u) <= WorkOf(State) BY <1>0, <1>1, <1>3, SameWork
<1>5. WorkOf(v) <= WorkOf(u) \/ Added(u, v) BY <1>3, ScheduleWorks
<1> DEFINE y == Cleaned(v)
<1>6. /\ y \in Records /\ y.goal = v.goal /\ y.run = v.run /\ y.answer = v.answer
      /\ y.resident = v.resident /\ WorkOf(y) <= WorkOf(v)
  <2>1. /\ SameLoop(v, y) /\ ItemCount(y.queue) <= ItemCount(v.queue)
        /\ y.answer = v.answer /\ y.resident = v.resident /\ y.turns = v.turns
    BY <1>2, CleanedFields
  <2> HIDE DEF y
  <2>2. y \in Records BY <2>1 DEF SameLoop
  <2> QED BY <1>2, <2>1, <2>2, WorkShrinks, WorkIsNumber DEF SameLoop
<1>7. (SameLoop(v, z) /\ z.queue = v.queue /\ z.turns = v.turns) \/ z = MaybeSchedule(y)
  BY <1>1
<1> HIDE DEF y
<1>8. CASE WorkOf(v) <= WorkOf(u)
  <2>1. WorkOf(v) <= WorkOf(State) /\ WorkOf(y) <= WorkOf(State)
    <3>1. /\ WorkOf(State) \in Nat /\ WorkOf(u) \in Nat /\ WorkOf(v) \in Nat
          /\ WorkOf(y) \in Nat
      BY <1>0, <1>2, <1>3, <1>6, WorkIsNumber
    <3> QED BY <1>4, <1>6, <1>8, <3>1
  <2>2. CASE SameLoop(v, z) /\ z.queue = v.queue /\ z.turns = v.turns
    <3>1. WorkOf(z) <= WorkOf(v) BY <1>2, <2>2, SameWork
    <3>2. Works(State, z) BY <1>0, <1>2, <2>1, <3>1, AddedWorks
    <3> QED BY <1>0, <1>1, <1>2, <3>2, WorksIsWorkStep
  <2>3. CASE z = MaybeSchedule(y)
    <3>1. WorkOf(z) <= WorkOf(y) \/ Added(y, z) BY <1>6, <2>3, ScheduleWorks
    <3>2. Works(State, z) BY <1>0, <1>2, <1>6, <2>1, <3>1, AddedWorks
    <3> QED BY <1>0, <1>1, <1>2, <3>2, WorksIsWorkStep
  <2> QED BY <1>7, <2>2, <2>3
<1>9. CASE Added(u, v)
  <2>1. State.goal = "active" BY <1>1, <1>3, <1>9 DEF Added, SameLoop
  <2>2. /\ z.run.failures = v.run.failures
        /\ z.goal = "active" \/ (z.goal = "paused" /\ z.run.stop \in Checkpoints)
    <3>1. CASE SameLoop(v, z) BY <1>9, <3>1 DEF Added, Open, SameLoop
    <3>2. CASE z = MaybeSchedule(y)
      <4>1. Open(y) /\ y.run.stop = "no" BY <1>6, <1>9 DEF Added, Open, LastAnswer
      <4> QED BY <1>6, <3>2, <4>1, LookAgain
    <3> QED BY <1>7, <3>1, <3>2
  <2>3. Works(State, z) BY <1>9, <2>1, <2>2 DEF Works, Serves, Added
  <2> QED BY <1>0, <1>1, <1>2, <2>3, WorksIsWorkStep
<1> QED BY <1>5, <1>8, <1>9

LEMMA TurnsWork ==
  ASSUME TypeInv
  PROVE  /\ TakeHead => WorkStep
         /\ BeginTurn \/ EndModel => WorkStep
         /\ DrainAnswered => WorkStep
         /\ \A outcome \in Outcomes : AnswerTurn(outcome) => WorkStep
         /\ CommandWorks => WorkStep
         /\ \A threw \in BOOLEAN : EndTurn(threw) => WorkStep
         /\ StoreFailure => WorkStep
<1>0. /\ State \in Records /\ State.turns \in Seq(Holders) /\ State.queue \in Seq(QueuedItem)
      /\ ItemCount(State.queue) <= ItemCount(State.queue)
      /\ OwnCount(State.turns) <= OwnCount(State.turns)
  BY SameIsNoMore DEF TypeInv, States, Records
<1>1. ASSUME TakeHead PROVE WorkStep
  <2>1. State' \in Records BY <1>1, TakeHeadKeeps DEF Keeps, TypeInv, States
  <2>2. queue # << >> /\ queue \in Seq(QueuedItem) BY <1>0, <1>1, StateFields DEF TakeHead
  <2>3. QueuedIterations(queue') = QueuedIterations(queue)
    <3>1. queue' = [queue EXCEPT ![1].state = "taken"] BY <1>1 DEF TakeHead
    <3>2. DOMAIN queue' = DOMAIN queue BY <3>1
    <3>3. \A i \in DOMAIN queue : queue'[i].kind = queue[i].kind
      BY <2>2, <3>1 DEF QueuedItem
    <3> QED BY <3>2, <3>3 DEF QueuedIterations
  <2>4. OwnIterations(turns') = {} BY <1>1 DEF TakeHead, OwnIterations, Turn
  <2>5. ItemCount(State'.queue) = ItemCount(State.queue) /\ OwnCount(State'.turns) = 0
    BY <2>3, <2>4, FS_EmptySet, StateFields DEF State, ItemCount, OwnCount
  <2> QED BY <1>0, <2>1, <2>5, WorkIsNumber, NothingAdded
<1>2. ASSUME BeginTurn \/ EndModel PROVE WorkStep
  <2>1. /\ State' \in Records /\ SameHolders(State.turns, State'.turns)
        /\ State'.queue = State.queue
    BY <1>2, PhaseKeeps DEF Keeps, TypeInv, States, State
  <2> QED BY <1>0, <2>1, SameHoldersCount, NothingAdded
<1>3. ASSUME DrainAnswered PROVE WorkStep
  <2>1. PICK w \in Records :
          /\ w.turns = State.turns /\ ItemCount(w.queue) <= ItemCount(State.queue)
          /\ Become(MaybeSchedule(w))
    BY <1>3, DrainAnsweredFields
  <2> DEFINE v == MaybeSchedule(w)
  <2>2. WorkOf(w) <= WorkOf(State) BY <1>0, <2>1, WorkShrinks
  <2>3. v \in Records /\ (WorkOf(v) <= WorkOf(w) \/ Added(w, v)) BY <2>1, ScheduleWorks
  <2> HIDE DEF v
  <2>4. Works(State, v) BY <1>0, <2>2, <2>3, AddedWorks
  <2> QED BY <1>0, <2>1, <2>3, <2>4, BecomeWorks DEF v
<1>4. ASSUME NEW outcome \in Outcomes, AnswerTurn(outcome) PROVE WorkStep
  <2>1. /\ SameLoop(State, State') /\ SameHolders(State.turns, State'.turns)
        /\ QueuedIterations(State'.queue) = QueuedIterations(State.queue)
    BY <1>4, AnswerFields
  <2>2. /\ State' \in Records /\ OwnCount(State'.turns) = OwnCount(State.turns)
        /\ ItemCount(State'.queue) = ItemCount(State.queue)
    BY <2>1, SameHoldersCount DEF SameLoop, ItemCount
  <2> QED BY <1>0, <2>2, NothingAdded
<1>5. ASSUME CommandWorks PROVE WorkStep
  BY <1>5 DEF CommandWorks, WorkStep
<1>6. ASSUME NEW threw \in BOOLEAN, EndTurn(threw) PROVE WorkStep
  <2>1. /\ State' \in Records /\ State.turns # << >>
        /\ State'.turns = Tail(State.turns) /\ State'.queue = State.queue
    BY <1>6, EndTurnKeeps
  <2>2. OwnCount(State'.turns) <= OwnCount(State.turns) BY <1>0, <2>1, OwnCountOfTail
  <2> QED BY <1>0, <2>1, <2>2, NothingAdded
<1>7. ASSUME StoreFailure PROVE WorkStep
  <2>1. /\ SameLoop(State, State') /\ State'.turns = State.turns
        /\ ItemCount(State'.queue) <= ItemCount(State.queue)
    BY <1>7, StoreFailureFields
  <2> QED BY <1>0, <2>1, NothingAdded DEF SameLoop
<1> QED BY <1>1, <1>2, <1>3, <1>4, <1>5, <1>6, <1>7

LEMMA CommandsWork ==
  ASSUME TypeInv, NEW action \in Actions
  PROVE  (RouteCommand(action) => WorkStep) /\ (ChatCommand(action) => WorkStep)
<1>0. State \in Records BY DEF TypeInv, States
<1>1. ASSUME NEW byRoute \in BOOLEAN
      PROVE  LET u == Command(action, byRoute)
             IN /\ u \in Records /\ WorkOf(u) <= WorkOf(State)
                /\ u.goal = "active" => Starts(action) /\ u.run.exists /\ u.run.failures = 0
                /\ StopWork(u) \in Records /\ WorkOf(StopWork(u)) <= WorkOf(State)
  <2> DEFINE u == Command(action, byRoute)
             v == StopWork(u)
  <2>1. /\ u \in Records /\ u.queue = State.queue /\ u.turns = State.turns
        /\ u.goal = "active" => Starts(action) /\ u.run = NewRun
    BY CommandFields
  <2> HIDE DEF u
  <2>2. WorkOf(u) <= WorkOf(State) BY <1>0, <2>1, SameWork
  <2>3. /\ SameLoop(u, v) /\ SameHolders(u.turns, v.turns)
        /\ ItemCount(v.queue) <= ItemCount(u.queue)
    BY <2>1, StopWorkFields
  <2> HIDE DEF v
  <2>4. v \in Records /\ OwnCount(v.turns) = OwnCount(u.turns)
    BY <2>3, SameHoldersCount DEF SameLoop
  <2>5. WorkOf(v) <= WorkOf(State)
    BY <1>0, <2>1, <2>3, <2>4, WorkIsNumber, WorkShrinks
  <2> QED BY <2>1, <2>2, <2>4, <2>5, NewRunIsRun DEF u, v
<1>2. ASSUME RouteCommand(action) PROVE WorkStep
  <2> DEFINE u == Command(action, TRUE)
             v == IF ~Starts(action) THEN StopWork(u)
                  ELSE IF u.goal = "active" THEN KickOff(u) ELSE u
  <2>1. Become(v) BY <1>2 DEF RouteCommand
  <2>2. /\ u \in Records /\ WorkOf(u) <= WorkOf(State)
        /\ u.goal = "active" => Starts(action) /\ u.run.exists /\ u.run.failures = 0
        /\ StopWork(u) \in Records /\ WorkOf(StopWork(u)) <= WorkOf(State)
    BY <1>1
  <2> HIDE DEF u
  <2>3. ASSUME Starts(action), u.goal = "active"
        PROVE  v \in Records /\ Works(State, v)
    <3>1. v = KickOff(u) BY <2>3
    <3> HIDE DEF v
    <3>2. v \in Records /\ v.goal = u.goal /\ v.run.failures = 0
      BY <2>2, <2>3, <3>1, KickOffFields
    <3> QED BY <2>3, <3>2, LimitAssumption DEF Works, Serves
  <2>4. ASSUME ~Starts(action) PROVE v \in Records /\ Works(State, v)
    BY <2>2, <2>4 DEF Works
  <2>5. ASSUME Starts(action), u.goal # "active" PROVE v \in Records /\ Works(State, v)
    BY <2>2, <2>5 DEF Works
  <2> HIDE DEF v
  <2> QED BY <1>0, <2>1, <2>3, <2>4, <2>5, BecomeWorks
<1>3. ASSUME ChatCommand(action) PROVE WorkStep
  <2> DEFINE u == Command(action, FALSE)
             x == IF Starts(action) THEN u ELSE StopWork(u)
             kind == IF Starts(action) /\ u.goal = "active" THEN "kickoff" ELSE "command"
             v == StartTurn(x, kind)
  <2>1. Become(v) BY <1>3 DEF ChatCommand
  <2>2. x \in Records /\ WorkOf(x) <= WorkOf(State) BY <1>1
  <2>3. kind \in {"command", "kickoff"} OBVIOUS
  <2> HIDE DEF x, kind
  <2>4. v \in Records /\ v.turns = Append(x.turns, Turn(kind)) /\ v.queue = x.queue
    BY <2>2, <2>3, StartTurnFields
  <2> HIDE DEF v
  <2>5. OwnCount(v.turns) = OwnCount(x.turns)
    <3>1. Turn(kind) \in Holders /\ Turn(kind).kind # "iteration" /\ x.turns \in Seq(Holders)
      BY <2>2, <2>3, HoldersOfKind DEF Turn, Records
    <3> QED BY <2>4, <3>1, OwnCountOfAppend
  <2>6. WorkOf(v) <= WorkOf(State)
    <3>1. WorkOf(v) = WorkOf(x) BY <2>4, <2>5 DEF WorkOf
    <3> QED BY <2>2, <3>1
  <2> QED BY <1>0, <2>1, <2>4, <2>6, BecomeWorks DEF Works
<1> QED BY <1>2, <1>3

LEMMA OthersWork ==
  ASSUME TypeInv
  PROVE  /\ UserMessage => WorkStep
         /\ UserStops => WorkStep
         /\ TimePasses => WorkStep
         /\ Crash => WorkStep
         /\ Recover => WorkStep
<1>0. /\ State \in Records /\ WorkOf(State) \in Nat
      /\ ItemCount(State.queue) <= ItemCount(State.queue)
      /\ OwnCount(State.turns) <= OwnCount(State.turns)
  BY WorkIsNumber, SameIsNoMore DEF TypeInv, States
<1>1. ASSUME UserMessage PROVE WorkStep
  <2>1. /\ State' \in Records /\ ItemCount(State'.queue) <= ItemCount(State.queue)
        /\ \/ State'.turns = State.turns
           \/ State.turns = << >> /\ State'.turns = Append(State.turns, Turn("user"))
    BY <1>1, UserMessageFields DEF SameLoop
  <2>2. OwnCount(State'.turns) = OwnCount(State.turns)
    <3>1. Turn("user") \in Holders /\ Turn("user").kind # "iteration"
          /\ State.turns \in Seq(Holders)
      BY <1>0, HoldersOfKind DEF Turn, Records
    <3>2. OwnCount(Append(State.turns, Turn("user"))) = OwnCount(State.turns)
      BY <3>1, OwnCountOfAppend
    <3> QED BY <2>1, <3>2
  <2> QED BY <1>0, <2>1, <2>2, NothingAdded
<1>2. ASSUME UserStops PROVE WorkStep
  <2>1. /\ State' \in Records /\ SameHolders(State.turns, State'.turns)
        /\ State'.queue = State.queue
    BY <1>2, UserStopsFields DEF SameLoop
  <2> QED BY <1>0, <2>1, SameHoldersCount, NothingAdded
<1>3. ASSUME TimePasses PROVE WorkStep
  <2>1. State' \in Records BY <1>3, TimePassesKeeps DEF Keeps, TypeInv, States
  <2>2. State'.queue = State.queue /\ State'.turns = State.turns
    BY <1>3 DEF TimePasses, State
  <2> QED BY <1>0, <2>1, <2>2, NothingAdded
<1>4. ASSUME Crash PROVE WorkStep
  <2>1. State' \in Records BY <1>4, CrashKeeps DEF Keeps, TypeInv, States
  <2>2. queue' = queue /\ turns' = << >> BY <1>4 DEF Crash
  <2>3. OwnIterations(turns') = {} BY <2>2 DEF OwnIterations
  <2>4. ItemCount(State'.queue) = ItemCount(State.queue) /\ OwnCount(State'.turns) = 0
    BY <2>2, <2>3, FS_EmptySet, StateFields DEF State, ItemCount, OwnCount
  <2> QED BY <1>0, <2>1, <2>4, WorkIsNumber, NothingAdded
<1>5. ASSUME Recover PROVE WorkStep
  <2> DEFINE v == IF goal = "active" THEN MaybeSchedule(State) ELSE State
  <2>1. Become(v) BY <1>5 DEF Recover
  <2>2. v \in Records /\ (WorkOf(v) <= WorkOf(State) \/ Added(State, v))
    BY <1>0, ScheduleWorks
  <2> HIDE DEF v
  <2>3. Works(State, v) BY <1>0, <2>2, AddedWorks
  <2> QED BY <1>0, <2>1, <2>2, <2>3, BecomeWorks
<1> QED BY <1>1, <1>2, <1>3, <1>4, <1>5

LEMMA StepWorks ==
  ASSUME TypeInv, Fresh(State), [Next]_vars
  PROVE  [WorkStep]_vars
<1>1. CASE \E action \in Actions : RouteCommand(action) \/ ChatCommand(action)
  BY <1>1, CommandsWork
<1>2. CASE \/ TakeHead \/ DrainAnswered \/ BeginTurn \/ EndModel \/ CommandWorks \/ StoreFailure
           \/ \E outcome \in Outcomes : AnswerTurn(outcome)
           \/ \E threw \in BOOLEAN : EndTurn(threw)
  BY <1>2, TurnsWork
<1>3. CASE Settle BY <1>3, SettleWorks
<1>4. CASE \E verdict \in {"continue", "done"} : Judged(verdict) BY <1>4, JudgedWorks
<1>5. CASE UserMessage \/ UserStops \/ TimePasses \/ Crash \/ Recover BY <1>5, OthersWork
<1>6. CASE UNCHANGED vars BY <1>6
<1> QED BY <1>1, <1>2, <1>3, <1>4, <1>5, <1>6 DEF Next

\* No step of the loop queues or starts an iteration for a goal that is not active or for a
\* run that has failed too often, whatever the user did while the judge was asked, however
\* late the outcome of a turn is recorded after its answer, and also when turns throw.  What
\* a second look in the same step may do to the goal of the iteration that the first began
\* is to pause it at a checkpoint (maybeScheduleGoalIteration at the end of a turn, again
\* when the drain has removed its item, and after a judgment when it was requested).
THEOREM WorksOnlyForActiveGoals == Spec => WorksForActiveGoals
<1>1. Init => TypeInv /\ Fresh(State) BY InitKeeps
<1>2. TypeInv /\ Fresh(State) /\ [Next]_vars => (TypeInv /\ Fresh(State))'
  BY StepKeeps DEF Keeps
<1>3. TypeInv /\ Fresh(State) /\ [Next]_vars => [WorkStep]_vars BY StepWorks
<1>4. WorksForActiveGoals <=> [][WorkStep]_vars BY DEF WorksForActiveGoals, WorkStep
<1> QED BY <1>1, <1>2, <1>3, <1>4, PTL DEF Spec

=============================================================================
