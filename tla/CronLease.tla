------------------------------ MODULE CronLease ------------------------------
(***************************************************************************)
(* The lock directory by which the gateways that share a home directory    *)
(* agree on who runs a cron job.  Each call of the file system is a step:  *)
(* other processes act between the look at an old lock, its removal, the   *)
(* creation of the directory and the writing of its owner file.            *)
(***************************************************************************)
EXTENDS Naturals, FiniteSets

CONSTANTS
  Gateways,  \* processes; a gateway that is started again is another one
  NoOwner    \* there is no owner file

ASSUME NoOwnerAssumption == NoOwner \notin Gateways

VARIABLES
  lock,   \* the directory: is it present, its owner, and is it younger than two seconds
  step,   \* what each gateway does to it next
  alive, dead  \* the processes that run and those that died

leaseVars == << lock, step, alive, dead >>

NoLock == [present |-> FALSE, owner |-> NoOwner, fresh |-> FALSE]
Steps == {"idle", "inspect", "remove", "create", "sign", "undo", "held", "leave", "sweep"}

LeaseInit ==
  /\ lock = NoLock /\ step = [g \in Gateways |-> "idle"]
  /\ alive = {} /\ dead = {}

Go(g, s) == step' = [step EXCEPT ![g] = s]
At(g, s) == g \in alive /\ step[g] = s

-----------------------------------------------------------------------------
\* The lock may be recovered: its owner is dead, or it is old and has none.
Abandoned ==
  /\ lock.present
  /\ IF lock.owner = NoOwner THEN ~lock.fresh ELSE lock.owner \notin alive
Refused == lock.present /\ ~Abandoned

Enter(g) == At(g, "idle") /\ Go(g, "inspect") /\ UNCHANGED << lock, alive, dead >>

\* recoverAbandonedLock, up to the removal.
Inspect(g) ==
  /\ At(g, "inspect")
  /\ Go(g, IF Refused THEN "idle" ELSE IF Abandoned THEN "remove" ELSE "create")
  /\ UNCHANGED << lock, alive, dead >>
\* Whatever is there now is removed.
Remove(g) ==
  At(g, "remove") /\ lock' = NoLock /\ Go(g, "create") /\ UNCHANGED << alive, dead >>

\* Faulty: a directory that exists will do.
CreateAnyway(g) ==
  /\ At(g, "create")
  /\ lock' = [present |-> TRUE, owner |-> NoOwner, fresh |-> TRUE] /\ Go(g, "sign")
  /\ UNCHANGED << alive, dead >>
\* mkdir fails when another process was faster.
Create(g) ==
  /\ At(g, "create")
  /\ IF lock.present THEN Go(g, "idle") /\ UNCHANGED lock
     ELSE /\ lock' = [present |-> TRUE, owner |-> NoOwner, fresh |-> TRUE]
          /\ Go(g, "sign")
  /\ UNCHANGED << alive, dead >>

\* The owner file goes into the directory that is there now; without one the call fails
\* and cleans up what it believes to be its own.
Sign(g) ==
  /\ At(g, "sign")
  /\ IF lock.present THEN lock' = [lock EXCEPT !.owner = g] /\ Go(g, "held")
     ELSE Go(g, "undo") /\ UNCHANGED lock
  /\ UNCHANGED << alive, dead >>
Undo(g) == At(g, "undo") /\ lock' = NoLock /\ Go(g, "idle") /\ UNCHANGED << alive, dead >>

\* release, up to the removal: the lock is left alone when it has another owner.
Release(g) ==
  /\ At(g, "held") /\ Go(g, IF lock.owner = g THEN "leave" ELSE "idle")
  /\ UNCHANGED << lock, alive, dead >>
Leave(g) == At(g, "leave") /\ lock' = NoLock /\ Go(g, "idle") /\ UNCHANGED << alive, dead >>

\* cronLeaseIsHeld recovers an abandoned lock on the way.
Peek(g) ==
  /\ At(g, "idle") /\ Go(g, IF Abandoned THEN "sweep" ELSE "idle")
  /\ UNCHANGED << lock, alive, dead >>
Sweep(g) == At(g, "sweep") /\ lock' = NoLock /\ Go(g, "idle") /\ UNCHANGED << alive, dead >>

\* Two seconds pass; no process that lives needs as long to write its owner file.
Age ==
  /\ lock.present /\ lock.owner = NoOwner /\ lock.fresh
  /\ \A g \in Gateways : step[g] # "sign"
  /\ lock' = [lock EXCEPT !.fresh = FALSE] /\ UNCHANGED << step, alive, dead >>

Boot(g) ==
  g \notin alive \cup dead /\ alive' = alive \cup {g} /\ UNCHANGED << lock, step, dead >>
Die(g) ==
  /\ g \in alive /\ alive' = alive \ {g} /\ dead' = dead \cup {g} /\ Go(g, "idle")
  /\ UNCHANGED lock

LeaseStep(g) ==
  \/ Enter(g) \/ Inspect(g) \/ Remove(g) \/ Create(g) \/ Sign(g) \/ Undo(g)
  \/ Release(g) \/ Leave(g) \/ Peek(g) \/ Sweep(g) \/ Boot(g) \/ Die(g)
LeaseNext == Age \/ \E g \in Gateways : LeaseStep(g)
LeaseSpec == LeaseInit /\ [][LeaseNext]_leaseVars

-----------------------------------------------------------------------------
Holders == {g \in Gateways : step[g] \in {"held", "leave"}}

\* As long as no gateway died, at most one holds the lock.
HeldByOne == dead = {} => \A g, h \in Holders : g = h

=============================================================================
