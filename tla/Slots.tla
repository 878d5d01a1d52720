-------------------------------- MODULE Slots --------------------------------
(***************************************************************************)
(* What a concurrency limiter promises its callers: at most Maximum of     *)
(* them hold a slot, and nobody waits while a slot is free.  In which      *)
(* order those who wait are served is left open.                           *)
(***************************************************************************)
EXTENDS FiniteSets, Naturals

CONSTANTS Callers, Maximum

VARIABLES holders, waiters

slotVars == << holders, waiters >>

SlotsInit == holders = {} /\ waiters = {}

Ask(c) ==
  /\ c \notin holders \cup waiters
  /\ IF Cardinality(holders) < Maximum
     THEN holders' = holders \cup {c} /\ UNCHANGED waiters
     ELSE waiters' = waiters \cup {c} /\ UNCHANGED holders

\* Some of those who wait are cancelled, or lose patience.
GiveUp == waiters' \subseteq waiters /\ UNCHANGED holders

\* A slot that is returned goes to one of those who wait.
Return(c) ==
  /\ c \in holders
  /\ \/ /\ waiters = {} /\ UNCHANGED waiters
        /\ holders' = holders \ {c}
     \/ \E w \in waiters : /\ holders' = (holders \ {c}) \cup {w}
                           /\ waiters' = waiters \ {w}

SlotsNext == GiveUp \/ \E c \in Callers : Ask(c) \/ Return(c)

SlotsSpec == SlotsInit /\ [][SlotsNext]_slotVars

\* No slot is handed out twice, and none is kept from those who wait.
SlotsAreUsed ==
  /\ Cardinality(holders) <= Maximum
  /\ waiters # {} => Cardinality(holders) = Maximum

=============================================================================
