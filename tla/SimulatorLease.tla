--------------------------- MODULE SimulatorLease ---------------------------
(***************************************************************************)
(* Leases on a mobile simulator: sessions and users start it, the first    *)
(* start that finds it off boots it, and it is shut down when the last     *)
(* lease on a booted device is released.  The map of leases has one entry  *)
(* per device and no step relates two entries, so that one device is       *)
(* modelled.  The promises of a lease settle together with everything that *)
(* waits for them, because those continuations are microtasks.             *)
(***************************************************************************)
EXTENDS Naturals

CONSTANTS
  Sessions,     \* chat sessions
  User,         \* a start without a session, from the user-facing controls
  Calls,        \* asynchronous calls in flight, taken again when they are over
  Enabled,      \* the optional requests: a subset of {"stop", "retain", "shutdown"}
  MaxRequests   \* bound on requests

ASSUME UserAssumption == User \notin Sessions
ASSUME BoundAssumption == MaxRequests \in Nat

VARIABLES
  power,      \* the device itself: "on" or "off"
  booted,     \* it is on because the lifecycle booted it
  lease,      \* the entry of the devices map, or NoLease
  calls,      \* calls in flight
  entitled,   \* sessions that called start, or were retained, since their last release
  requests    \* counter for the bound

vars == << power, booted, lease, calls, entitled, requests >>

NoLease == [owned |-> FALSE, ready |-> FALSE, sessions |-> {}, manual |-> FALSE,
            closing |-> "absent"]
\* ended: the generation of the session moved on since acquire read it.
\* same: the lease that stop read is still in the map.
Idle == [op |-> "idle", stage |-> "none", who |-> User, seen |-> "off",
         ended |-> FALSE, cancelled |-> FALSE, same |-> FALSE]

Init ==
  /\ power \in {"on", "off"} /\ booted = FALSE
  /\ lease = NoLease
  /\ calls = [c \in Calls |-> Idle]
  /\ entitled = {} /\ requests = 0

Request == requests < MaxRequests /\ requests' = requests + 1

-----------------------------------------------------------------------------
(* Closing a lease. *)

\* Faulty: a close awaits the boot, also one that is over.
CloseWaits(l) == IF l.closing # "no" THEN l ELSE [l EXCEPT !.closing = "booting"]
\* Faulty: a lease that is not owned is marked, and stays in the map.
CloseInPlace(l) ==
  IF l.closing # "no" THEN l
  ELSE IF ~l.ready THEN [l EXCEPT !.closing = "booting"]
  ELSE [l EXCEPT !.closing = IF l.owned THEN "stopping" ELSE "absent"]
\* close, up to its first wait for the driver: it awaits the boot, then shuts an owned
\* device down, and forgets a lease it does not own.
Close(l) ==
  IF l.closing # "no" THEN l
  ELSE IF ~l.ready THEN [l EXCEPT !.closing = "booting"]
  ELSE IF l.owned THEN [l EXCEPT !.closing = "stopping"] ELSE NoLease

\* Faulty: any session that leaves closes the lease.
LeaveFirst(s) == IF lease = NoLease THEN NoLease
                 ELSE Close([lease EXCEPT !.sessions = @ \ {s}])
\* What release does to the lease.
Leave(s) ==
  LET l == [lease EXCEPT !.sessions = @ \ {s}]
  IN IF lease = NoLease \/ l.sessions # {} \/ l.manual THEN l ELSE Close(l)

\* A call of stop that holds a lease no longer in the map will find it closed.
Forget(cs, l) ==
  [c \in Calls |-> IF l = NoLease THEN [cs[c] EXCEPT !.same = FALSE] ELSE cs[c]]
EndStarts(sessions) ==
  [c \in Calls |-> IF calls[c].op = "start" /\ calls[c].who \in sessions
                   THEN [calls[c] EXCEPT !.ended = TRUE] ELSE calls[c]]

\* Starts that await the closing of a lease look at the device again, or give up.
AfterClosing ==
  [c \in Calls |-> IF calls[c].stage = "cleaning" /\ (calls[c].ended \/ calls[c].cancelled)
                   THEN Idle
                   ELSE [calls[c] EXCEPT !.same = FALSE,
                                         !.stage = IF @ = "cleaning" THEN "resolving" ELSE @]]

-----------------------------------------------------------------------------
(* Calls. *)

Call(c, op, who) ==
  /\ calls[c] = Idle /\ Request
  /\ calls' = [calls EXCEPT ![c] = [Idle EXCEPT !.op = op, !.who = who, !.stage = "resolving"]]
  /\ UNCHANGED << power, booted, lease >>

Start(c, who) ==
  /\ Call(c, "start", who)
  /\ entitled' = entitled \cup ({who} \cap Sessions)
Stop(c) == "stop" \in Enabled /\ Call(c, "stop", User) /\ UNCHANGED entitled
Retain(c, s) ==
  /\ "retain" \in Enabled /\ Call(c, "retain", s) /\ UNCHANGED entitled

\* The driver lists the devices; what it saw is used later.
Resolve(c) ==
  /\ calls[c].stage = "resolving"
  /\ calls' = [calls EXCEPT ![c].stage = "resolved", ![c].seen = power]
  /\ UNCHANGED << power, booted, lease, entitled, requests >>

Resolved(c, op) == calls[c].op = op /\ calls[c].stage = "resolved"
Return(c) == calls' = [calls EXCEPT ![c] = Idle]

\* Faulty: a device that was already on is taken over.
OwnAlways(seen) == TRUE
Owns(seen) == seen = "off"

\* Faulty: the end of the session during discovery is not noticed.
GivesUpOnAbort(c) == calls[c].cancelled
GivesUp(c) == calls[c].ended \/ calls[c].cancelled

\* acquire, from the resolved device to its next wait.
Acquire(c) ==
  /\ Resolved(c, "start")
  /\ LET who == calls[c].who
         base == IF lease # NoLease THEN lease
                 ELSE [owned |-> Owns(calls[c].seen), ready |-> ~Owns(calls[c].seen),
                       sessions |-> {}, manual |-> FALSE, closing |-> "no"]
     IN IF GivesUp(c) THEN Return(c) /\ UNCHANGED lease
        ELSE IF base.closing # "no"
        THEN calls' = [calls EXCEPT ![c].stage = "cleaning"] /\ UNCHANGED lease
        ELSE /\ lease' = [base EXCEPT !.sessions = @ \cup ({who} \cap Sessions),
                                      !.manual = @ \/ who = User]
             /\ IF base.ready THEN Return(c)
                ELSE calls' = [calls EXCEPT ![c].stage = "waiting"]
  /\ UNCHANGED << power, booted, entitled, requests >>

\* retain, with a device that was seen booted.
Retained(c) ==
  /\ Resolved(c, "retain") /\ Return(c)
  /\ lease' = IF lease = NoLease \/ calls[c].seen = "off" THEN lease
              ELSE [lease EXCEPT !.sessions = @ \cup ({calls[c].who} \cap Sessions)]
  /\ entitled' = entitled \cup ({calls[c].who} \cap lease'.sessions)
  /\ UNCHANGED << power, booted, requests >>

\* stop, from the resolved device on.  A device it does not own is shut down before the
\* lease is closed.
StopResolved(c) ==
  /\ Resolved(c, "stop")
  /\ LET cleared == [lease EXCEPT !.sessions = {}, !.manual = FALSE]
     IN IF calls[c].seen = "on" /\ ~lease.owned
        THEN /\ lease' = cleared
             /\ calls' = [calls EXCEPT ![c].stage = "stopping", ![c].same = lease # NoLease]
        ELSE /\ lease' = IF lease = NoLease THEN NoLease ELSE Close(cleared)
             /\ calls' = Forget([calls EXCEPT ![c] = Idle], lease')
  /\ UNCHANGED << power, booted, entitled, requests >>

\* The shutdown that stop awaited is over; a failed one leaves the lease as it is.
StopDone(c, ok) ==
  /\ calls[c].stage = "stopping"
  /\ power' = (IF ok THEN "off" ELSE power) /\ booted' = (booted /\ ~ok)
  /\ lease' = IF ok /\ calls[c].same THEN Close(lease) ELSE lease
  /\ calls' = Forget([calls EXCEPT ![c] = Idle], lease')
  /\ UNCHANGED << entitled, requests >>

\* The signal of a session's start fires: a start that waits for the boot rejects and
\* releases the session, an earlier one gives up at its next step.
Abort(c) ==
  /\ calls[c].op = "start" /\ calls[c].who \in Sessions /\ ~calls[c].cancelled /\ Request
  /\ IF calls[c].stage = "waiting"
     THEN /\ lease' = Leave(calls[c].who)
          /\ calls' = Forget([EndStarts({calls[c].who}) EXCEPT ![c] = Idle], lease')
          /\ entitled' = entitled \ {calls[c].who}
     ELSE /\ calls' = [calls EXCEPT ![c].cancelled = TRUE]
          /\ UNCHANGED << lease, entitled >>
  /\ UNCHANGED << power, booted >>

-----------------------------------------------------------------------------
(* Releases, at the end of a turn, on the deletion of a session and at shutdown. *)

Release(s) ==
  /\ Request
  /\ lease' = Leave(s)
  /\ calls' = Forget(EndStarts({s}), lease')
  /\ entitled' = entitled \ {s}
  /\ UNCHANGED << power, booted >>

Shutdown ==
  /\ "shutdown" \in Enabled /\ Request
  /\ lease' = IF lease = NoLease THEN NoLease
              ELSE Close([lease EXCEPT !.sessions = {}, !.manual = FALSE])
  /\ calls' = Forget(EndStarts(Sessions), lease')
  /\ entitled' = {}
  /\ UNCHANGED << power, booted >>

-----------------------------------------------------------------------------
(* The driver. *)

\* The boot ends.  Whoever waits for it returns; a close that waits goes on to shut the
\* device down, and a failed boot leaves the map.
BootDone(ok) ==
  /\ lease # NoLease /\ ~lease.ready
  /\ power' = (IF ok THEN "on" ELSE "off") /\ booted' = ok
  /\ lease' = IF ~ok THEN NoLease
              ELSE [lease EXCEPT !.ready = TRUE,
                                 !.closing = IF @ = "booting" THEN "stopping" ELSE @]
  /\ LET waiting == {c \in Calls : calls[c].stage = "waiting"}
         others == IF ok THEN calls ELSE AfterClosing
     IN calls' = [c \in Calls |-> IF c \in waiting THEN Idle ELSE others[c]]
  /\ UNCHANGED << entitled, requests >>

\* Faulty: the lease is forgotten although the device did not stop.
ForgetAnyway(ok) ==
  /\ lease.closing = "stopping"
  /\ \E p \in IF ok THEN {"off"} ELSE {power, "off"} :
       power' = p /\ booted' = (booted /\ p = "on")
  /\ lease' = NoLease /\ calls' = AfterClosing
  /\ UNCHANGED << entitled, requests >>
\* The shutdown of an owned device ends; a failed one keeps the lease for a retry and
\* fails the starts that waited for it.
ShutdownDone(ok) ==
  /\ lease.closing = "stopping"
  /\ \E p \in IF ok THEN {"off"} ELSE {power, "off"} :
       power' = p /\ booted' = (booted /\ p = "on")
  /\ lease' = IF ok THEN NoLease ELSE [lease EXCEPT !.closing = "no"]
  /\ calls' = IF ok THEN AfterClosing
              ELSE [c \in Calls |-> IF calls[c].stage = "cleaning" THEN Idle ELSE calls[c]]
  /\ UNCHANGED << entitled, requests >>

Next ==
  \/ \E c \in Calls, who \in Sessions \cup {User} : Start(c, who)
  \/ \E c \in Calls, s \in Sessions : Retain(c, s)
  \/ \E c \in Calls : \/ Resolve(c) \/ Acquire(c) \/ Abort(c)
                      \/ Retained(c) \/ Stop(c) \/ StopResolved(c)
  \/ \E c \in Calls, ok \in BOOLEAN : StopDone(c, ok)
  \/ \E s \in Sessions : Release(s)
  \/ Shutdown
  \/ \E ok \in BOOLEAN : BootDone(ok) \/ ShutdownDone(ok)

\* Calls go on when what they await settles, and the driver's commands end: each has a
\* timeout.
Fairness ==
  /\ \A c \in Calls : /\ WF_vars(Resolve(c)) /\ WF_vars(Acquire(c)) /\ WF_vars(Retained(c))
                      /\ WF_vars(StopResolved(c)) /\ WF_vars(\E ok \in BOOLEAN : StopDone(c, ok))
  /\ WF_vars(\E ok \in BOOLEAN : BootDone(ok))
  /\ WF_vars(\E ok \in BOOLEAN : ShutdownDone(ok))

Spec == Init /\ [][Next]_vars
FairSpec == Spec /\ Fairness

-----------------------------------------------------------------------------
Lease == [owned : BOOLEAN, ready : BOOLEAN, sessions : SUBSET Sessions, manual : BOOLEAN,
          closing : {"absent", "no", "booting", "stopping"}]
CallState == [op : {"idle", "start", "retain", "stop"},
              stage : {"none", "resolving", "resolved", "cleaning", "waiting", "stopping"},
              who : Sessions \cup {User}, seen : {"on", "off"},
              ended : BOOLEAN, cancelled : BOOLEAN, same : BOOLEAN]

\* Every variable has its type, and no empty lease is taken for one.
TypeOK ==
  /\ power \in {"on", "off"} /\ booted \in BOOLEAN
  /\ lease \in Lease /\ (lease.closing = "absent" <=> lease = NoLease)
  /\ calls \in [Calls -> CallState]
  /\ entitled \subseteq Sessions /\ requests \in 0 .. MaxRequests

\* Whatever overlaps, the closing of a lease begins when nobody holds it any more; leases
\* that the user stops or the gateway shuts down are given up first.
ClosingBeginsUnshared ==
  [][lease.closing = "no" /\ lease'.closing \in {"booting", "stopping"}
       => lease'.sessions = {} /\ ~lease'.manual]_vars

\* A simulator shared by several sessions is stopped only after the last lease is
\* released: nobody holds a lease whose device is being shut down
\* (mobile-simulator-session-lifecycle.md:5).
StoppedOnlyAfterLastLease ==
  lease.closing = "stopping" => lease.sessions = {} /\ ~lease.manual

\* A device the lifecycle booted stays in the map, owned, until it is off: a failed
\* shutdown does not drop the ownership a later release needs.
BootedDeviceIsTracked == booted => power = "on" /\ lease.owned

\* A device that was on before is only turned off by an explicit stop.
ForeignDeviceStaysOn ==
  [][power = "on" /\ ~booted /\ power' = "off" => \E c \in Calls : calls[c].stage = "stopping"]_vars

\* A session that was released holds no lease by a start that was still looking for the
\* device, waiting for another shutdown or for the boot.
ReleasedSessionHoldsNothing == lease.sessions \subseteq entitled

\* Every start comes back, also when it meets closings of other sessions' leases.
EveryStartReturns ==
  \A c \in Calls : calls[c].op = "start" ~> calls[c] = Idle

=============================================================================
