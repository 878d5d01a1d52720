------------------------------- MODULE Limiter -------------------------------
(***************************************************************************)
(* ConcurrencyLimiter: permits to do something expensive, handed out in    *)
(* the order of the requests.  The file readers, the file searches and the *)
(* background reviews each have one.  A permit that waits leaves the queue *)
(* in the event that aborts it or times it out, so that grantNext never    *)
(* meets an aborted one.                                                   *)
(***************************************************************************)
EXTENDS FiniteSets, Naturals, Sequences

CONSTANTS
  Callers,   \* those who may ask for a permit, each for one at a time
  Maximum    \* permits

ASSUME CallersAssumption == IsFiniteSet(Callers)
ASSUME MaximumAssumption == Maximum \in Nat \ {0}

VARIABLES
  active,    \* the number of permits that are out
  pending,   \* callers that wait, in the order of their requests
  permit     \* what each caller has: "none", "waiting" or "held"

limiterVars == << active, pending, permit >>

Waiting == {c \in Callers : permit[c] = "waiting"}
Holding == {c \in Callers : permit[c] = "held"}

LimiterInit ==
  /\ active = 0 /\ pending = << >>
  /\ permit = [c \in Callers |-> "none"]

\* Faulty: the counter is not looked at.
AcquireUnchecked(c) ==
  /\ permit[c] = "none"
  /\ active' = active + 1 /\ UNCHANGED pending
  /\ permit' = [permit EXCEPT ![c] = "held"]
\* acquire, by a caller whose signal is not aborted: one that is gets nothing, at once.
Acquire(c) ==
  /\ permit[c] = "none"
  /\ IF active < Maximum
     THEN /\ active' = active + 1 /\ UNCHANGED pending
          /\ permit' = [permit EXCEPT ![c] = "held"]
     ELSE /\ pending' = Append(pending, c) /\ UNCHANGED active
          /\ permit' = [permit EXCEPT ![c] = "waiting"]

\* The listeners of one signal, or a timeout, take callers out of the queue; the others
\* keep their order.
Cancel(gone) ==
  LET stay == {i \in DOMAIN pending : pending[i] \notin gone}
  IN /\ gone \subseteq Waiting
     /\ \E place \in [1 .. Cardinality(stay) -> stay] :
          /\ \A i, j \in DOMAIN place : i < j => place[i] < place[j]
          /\ \A i \in stay : \E j \in DOMAIN place : place[j] = i
          /\ pending' = [j \in 1 .. Cardinality(stay) |-> pending[place[j]]]
     /\ permit' = [c \in Callers |-> IF c \in gone THEN "none" ELSE permit[c]]
     /\ UNCHANGED active

\* grantNext, called with the counter that a release left: at most one permit is free.
\* Faulty: whoever came last is served first.
GrantLast(c, left) ==
  LET granted == left < Maximum /\ pending # << >>
  IN /\ active' = IF granted THEN left + 1 ELSE left
     /\ pending' = IF granted THEN SubSeq(pending, 1, Len(pending) - 1) ELSE pending
     /\ permit' = [d \in Callers |-> IF d = c THEN "none"
                                     ELSE IF granted /\ d = pending[Len(pending)] THEN "held"
                                     ELSE permit[d]]
\* Faulty: the permit is granted to those who ask from now on.
GrantNobody(c, left) ==
  active' = left /\ pending' = pending /\ permit' = [permit EXCEPT ![c] = "none"]
GrantNext(c, left) ==
  LET granted == left < Maximum /\ pending # << >>
  IN /\ active' = IF granted THEN left + 1 ELSE left
     /\ pending' = IF granted THEN Tail(pending) ELSE pending
     /\ permit' = [d \in Callers |-> IF d = c THEN "none"
                                     ELSE IF granted /\ d = Head(pending) THEN "held"
                                     ELSE permit[d]]

\* The function that acquire returned; calling it again does nothing.
Release(c) ==
  /\ permit[c] = "held"
  /\ GrantNext(c, IF active > 0 THEN active - 1 ELSE 0)

LimiterNext ==
  \/ \E c \in Callers : Acquire(c) \/ Release(c)
  \/ \E gone \in SUBSET Waiting : Cancel(gone)

LimiterSpec == LimiterInit /\ [][LimiterNext]_limiterVars

-----------------------------------------------------------------------------
LimiterTypeOK ==
  /\ active \in 0 .. Maximum
  /\ pending \in Seq(Callers)
  /\ permit \in [Callers -> {"none", "waiting", "held"}]

\* The limiter keeps what it promises: never more than the configured number of permits
\* (concurrency-limiter.test.ts:5), and no permit is lost in a race of a release with the
\* aborts and timeouts of those who wait (concurrency-limiter.test.ts:25).
Promise == INSTANCE Slots WITH holders <- Holding, waiters <- Waiting
KeepsSlots == Promise!SlotsSpec

\* Nobody is overtaken: whoever gets a permit out of the queue was waiting longest.
ServedInOrder ==
  [][\A i, j \in DOMAIN pending :
       i < j /\ permit'[pending[j]] = "held" => permit'[pending[i]] # "waiting"]_limiterVars

=============================================================================
