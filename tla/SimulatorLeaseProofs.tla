------------------------ MODULE SimulatorLeaseProofs ------------------------
(***************************************************************************)
(* What holds of the leases on a simulator for any number of sessions and  *)
(* calls in flight.  The inductive invariant adds to the properties what   *)
(* they need to carry over: which leases can be booting or stopping, what  *)
(* a call still owes to its session, and that a device which was on before *)
(* is never taken for an owned one.                                        *)
(***************************************************************************)
EXTENDS SimulatorLease, TLAPS

\* A lease: what is not ready was booted here, and only what was booted here is stopped.
LeaseOK(l) ==
  /\ l \in Lease
  /\ l.closing = "absent" <=> l = NoLease
  /\ l # NoLease => l.ready \/ l.owned
  /\ l.closing = "stopping" => l.owned /\ l.ready
  /\ l.closing = "booting" => ~l.ready

\* A call of stop that shuts the device down first holds a lease that is not owned.
StopsForeign(cs, l) == \A c \in Calls : cs[c].same => l # NoLease /\ ~l.owned
\* A start whose session was not released since it read the generation may add it.
StartsEntitled(cs, e) ==
  \A c \in Calls :
    cs[c].op = "start" /\ cs[c].who \in Sessions /\ ~cs[c].ended => cs[c].who \in e
\* A device that was on before is seen on by everyone and owned by nobody.
ForeignIsSeen ==
  power = "on" /\ ~booted =>
    ~lease.owned /\ \A c \in Calls : calls[c].stage = "resolved" => calls[c].seen = "on"

IInv ==
  /\ TypeOK
  /\ LeaseOK(lease)
  /\ StopsForeign(calls, lease)
  /\ StartsEntitled(calls, entitled)
  /\ ForeignIsSeen
  /\ BootedDeviceIsTracked
  /\ ReleasedSessionHoldsNothing

-----------------------------------------------------------------------------
\* A lease is a record of its five fields.
LEMMA LeaseFields ==
  ASSUME NEW l \in Lease
  PROVE  l = [owned |-> l.owned, ready |-> l.ready, sessions |-> l.sessions,
              manual |-> l.manual, closing |-> l.closing]
BY DEF Lease

LEMMA NoLeaseOK == LeaseOK(NoLease) /\ NoLease \in Lease
BY DEF LeaseOK, NoLease, Lease

\* Closing keeps a lease well formed and its owner, and drops only what is not owned.
LEMMA CloseFacts ==
  ASSUME NEW l, LeaseOK(l), l # NoLease
  PROVE  /\ LeaseOK(Close(l)) /\ Close(l) \in Lease
         /\ Close(l).owned = l.owned
         /\ Close(l).sessions \subseteq l.sessions
         /\ Close(l).manual => l.manual
         /\ Close(l) = NoLease => ~l.owned
<1>1. CASE l.closing # "no"
  BY <1>1 DEF Close, LeaseOK
<1>2. CASE l.closing = "no" /\ ~l.ready
  BY <1>2 DEF Close, LeaseOK, Lease, NoLease
<1>3. CASE l.closing = "no" /\ l.ready /\ l.owned
  BY <1>3 DEF Close, LeaseOK, Lease, NoLease
<1>4. CASE l.closing = "no" /\ l.ready /\ ~l.owned
  BY <1>4, NoLeaseOK DEF Close, LeaseOK, Lease, NoLease
<1> QED BY <1>1, <1>2, <1>3, <1>4 DEF LeaseOK, Lease

\* Taking sessions away from a lease, or the user's hold, keeps it well formed.
LEMMA ClearFacts ==
  ASSUME NEW l, LeaseOK(l), NEW k \in Lease,
         k.owned = l.owned, k.ready = l.ready, k.closing = l.closing,
         k.sessions \subseteq l.sessions, k.manual => l.manual
  PROVE  LeaseOK(k) /\ (k = NoLease <=> l = NoLease)
<1>1. CASE l = NoLease
  <2>1. /\ k.sessions = {} /\ k.manual = FALSE /\ k.owned = FALSE /\ k.ready = FALSE
        /\ k.closing = "absent"
    BY <1>1 DEF NoLease, Lease
  <2>2. k = NoLease BY <2>1, LeaseFields DEF NoLease
  <2> QED BY <1>1, <2>2
<1>2. CASE l # NoLease
  <2>1. k.closing # "absent" BY <1>2 DEF LeaseOK
  <2>2. k # NoLease BY <2>1 DEF NoLease
  <2> QED BY <1>2, <2>1, <2>2 DEF LeaseOK
<1> QED BY <1>1, <1>2

\* Releasing a session takes it from the lease; the lease goes on unless nobody else
\* holds it.
LEMMA LeaveFacts ==
  ASSUME NEW s, LeaseOK(lease)
  PROVE  /\ LeaseOK(Leave(s)) /\ Leave(s) \in Lease
         /\ Leave(s).owned = lease.owned
         /\ Leave(s).sessions \subseteq lease.sessions \ {s}
         /\ Leave(s) = NoLease => ~lease.owned
         /\ lease.closing = "no" /\ Leave(s).closing \in {"booting", "stopping"}
              => Leave(s).sessions = {} /\ ~Leave(s).manual
<1> DEFINE l == [lease EXCEPT !.sessions = @ \ {s}]
<1>1. /\ l \in Lease /\ l.owned = lease.owned /\ l.ready = lease.ready
      /\ l.closing = lease.closing /\ l.sessions = lease.sessions \ {s}
      /\ l.manual = lease.manual
  BY DEF LeaseOK, Lease
<1>4. LeaseOK(l) /\ (l = NoLease <=> lease = NoLease)
  <2> HIDE DEF l
  <2> QED BY <1>1, ClearFacts
<1>5. CASE lease = NoLease \/ l.sessions # {} \/ l.manual
  <2>1. Leave(s) = l BY <1>5 DEF Leave
  <2> HIDE DEF l
  <2>2. Leave(s) = NoLease => ~lease.owned BY <2>1, <1>4 DEF NoLease
  <2> QED BY <2>1, <2>2, <1>1, <1>4
<1>6. CASE ~(lease = NoLease \/ l.sessions # {} \/ l.manual)
  <2>1. Leave(s) = Close(l) BY <1>6 DEF Leave
  <2>2. l # NoLease BY <1>6, <1>4
  <2> HIDE DEF l
  <2>3. /\ LeaseOK(Close(l)) /\ Close(l) \in Lease /\ Close(l).owned = l.owned
        /\ Close(l).sessions \subseteq l.sessions
        /\ Close(l).manual => l.manual
        /\ Close(l) = NoLease => ~l.owned
    BY <2>2, <1>4, CloseFacts
  <2> QED BY <2>1, <2>3, <1>1, <1>4, <1>6
<1> QED BY <1>5, <1>6

LEMMA LeaveNoLease ==
  ASSUME NEW s, lease = NoLease
  PROVE  Leave(s) = NoLease
BY NoLeaseOK, LeaseFields DEF Leave, NoLease

\* What shutting the gateway down, or an explicit stop, makes of a lease.
LEMMA GiveUpFacts ==
  ASSUME LeaseOK(lease), lease # NoLease
  PROVE  LET l == [lease EXCEPT !.sessions = {}, !.manual = FALSE]
         IN /\ LeaseOK(l) /\ l \in Lease /\ l # NoLease
            /\ l.owned = lease.owned /\ l.sessions = {} /\ ~l.manual
            /\ LeaseOK(Close(l)) /\ Close(l) \in Lease /\ Close(l).owned = lease.owned
            /\ Close(l).sessions = {} /\ ~Close(l).manual
            /\ Close(l) = NoLease => ~lease.owned
<1> DEFINE l == [lease EXCEPT !.sessions = {}, !.manual = FALSE]
<1>0. /\ l \in Lease /\ l.owned = lease.owned /\ l.ready = lease.ready
      /\ l.closing = lease.closing /\ l.sessions = {} /\ l.manual = FALSE
  BY DEF LeaseOK, Lease
<1> HIDE DEF l
<1>1. LeaseOK(l) /\ l # NoLease
  BY <1>0, ClearFacts
<1>2. /\ LeaseOK(Close(l)) /\ Close(l) \in Lease /\ Close(l).owned = l.owned
      /\ Close(l).sessions \subseteq l.sessions /\ (Close(l).manual => l.manual)
      /\ Close(l) = NoLease => ~l.owned
  BY <1>0, <1>1, CloseFacts
<1>3. Close(l).sessions = {} /\ ~Close(l).manual BY <1>0, <1>2
<1> QED BY <1>0, <1>1, <1>2, <1>3 DEF l

-----------------------------------------------------------------------------
\* What closing, releasing and ending starts make of the calls.
LEMMA ForgetFacts ==
  ASSUME NEW cs \in [Calls -> CallState],
         StopsForeign(cs, lease), StartsEntitled(cs, entitled'),
         lease' # NoLease => lease # NoLease /\ lease'.owned = lease.owned
  PROVE  /\ Forget(cs, lease') \in [Calls -> CallState]
         /\ StopsForeign(Forget(cs, lease'), lease')
         /\ StartsEntitled(Forget(cs, lease'), entitled')
         /\ \A c \in Calls : /\ Forget(cs, lease')[c].stage = cs[c].stage
                             /\ Forget(cs, lease')[c].seen = cs[c].seen
<1>1. CASE lease' = NoLease
  <2> DEFINE f == Forget(cs, lease')
  <2>1. f = [c \in Calls |-> [cs[c] EXCEPT !.same = FALSE]] BY <1>1 DEF Forget
  <2>2. ASSUME NEW c \in Calls
        PROVE  /\ f[c] \in CallState /\ ~f[c].same /\ f[c].stage = cs[c].stage
               /\ f[c].seen = cs[c].seen /\ f[c].op = cs[c].op /\ f[c].who = cs[c].who
               /\ f[c].ended = cs[c].ended
    <3>1. cs[c] \in CallState /\ f[c] = [cs[c] EXCEPT !.same = FALSE] BY <2>1
    <3> HIDE DEF f
    <3> QED BY <3>1 DEF CallState
  <2>3. f \in [Calls -> CallState] BY <2>1, <2>2
  <2> HIDE DEF f
  <2>4. StopsForeign(f, lease') /\ StartsEntitled(f, entitled')
    BY <2>2 DEF StopsForeign, StartsEntitled
  <2> QED BY <2>2, <2>3, <2>4 DEF f
<1>2. CASE lease' # NoLease
  <2>1. Forget(cs, lease') = cs BY <1>2 DEF Forget
  <2> QED BY <2>1, <1>2 DEF StopsForeign
<1> QED BY <1>1, <1>2

LEMMA EndStartsFacts ==
  ASSUME NEW ss, calls \in [Calls -> CallState], NEW l, NEW e,
         StopsForeign(calls, l), StartsEntitled(calls, e)
  PROVE  /\ EndStarts(ss) \in [Calls -> CallState]
         /\ StopsForeign(EndStarts(ss), l) /\ StartsEntitled(EndStarts(ss), e \ ss)
         /\ \A c \in Calls : /\ EndStarts(ss)[c].stage = calls[c].stage
                             /\ EndStarts(ss)[c].seen = calls[c].seen
<1>1. EndStarts(ss) \in [Calls -> CallState] BY DEF EndStarts, CallState
<1>2. ASSUME NEW c \in Calls
      PROVE  /\ EndStarts(ss)[c].stage = calls[c].stage
             /\ EndStarts(ss)[c].seen = calls[c].seen
             /\ EndStarts(ss)[c].same = calls[c].same
             /\ EndStarts(ss)[c].op = calls[c].op
             /\ EndStarts(ss)[c].who = calls[c].who
             /\ ~EndStarts(ss)[c].ended =>
                  ~calls[c].ended /\ ~(calls[c].op = "start" /\ calls[c].who \in ss)
  BY DEF EndStarts, CallState
<1> QED BY <1>1, <1>2 DEF StopsForeign, StartsEntitled

LEMMA AfterClosingFacts ==
  ASSUME calls \in [Calls -> CallState], NEW e, NEW l, StartsEntitled(calls, e)
  PROVE  /\ AfterClosing \in [Calls -> CallState]
         /\ StopsForeign(AfterClosing, l) /\ StartsEntitled(AfterClosing, e)
         /\ \A c \in Calls : AfterClosing[c].stage = "resolved" =>
              calls[c].stage = "resolved" /\ AfterClosing[c].seen = calls[c].seen
<1>1. Idle \in CallState BY UserAssumption DEF Idle, CallState
<1>2. ASSUME NEW c \in Calls
      PROVE  \/ AfterClosing[c] = Idle
             \/ /\ AfterClosing[c] \in CallState
                /\ ~AfterClosing[c].same
                /\ AfterClosing[c].stage \in {calls[c].stage, "resolving"}
                /\ AfterClosing[c].seen = calls[c].seen
                /\ AfterClosing[c].op = calls[c].op /\ AfterClosing[c].who = calls[c].who
                /\ AfterClosing[c].ended = calls[c].ended
  <2>1. CASE calls[c].stage = "cleaning" /\ (calls[c].ended \/ calls[c].cancelled)
    BY <2>1 DEF AfterClosing
  <2>2. CASE ~(calls[c].stage = "cleaning" /\ (calls[c].ended \/ calls[c].cancelled))
    BY <2>2 DEF AfterClosing, CallState
  <2> QED BY <2>1, <2>2
<1>3. AfterClosing \in [Calls -> CallState] BY <1>1, <1>2 DEF AfterClosing
<1> QED BY <1>1, <1>2, <1>3 DEF StopsForeign, StartsEntitled, Idle

-----------------------------------------------------------------------------
LEMMA InitIInv == Init => IInv
<1> SUFFICES ASSUME Init PROVE IInv
  OBVIOUS
<1>1. Idle \in CallState BY UserAssumption DEF Idle, CallState
<1>2. TypeOK
  <2>1. power \in {"on", "off"} /\ booted \in BOOLEAN /\ entitled \subseteq Sessions
    BY DEF Init
  <2>2. lease \in Lease /\ (lease.closing = "absent" <=> lease = NoLease)
    BY NoLeaseOK DEF Init, LeaseOK
  <2>3. calls \in [Calls -> CallState] BY <1>1 DEF Init
  <2>4. requests \in 0 .. MaxRequests BY BoundAssumption DEF Init
  <2> QED BY <2>1, <2>2, <2>3, <2>4 DEF TypeOK
<1>3. StopsForeign(calls, lease) /\ StartsEntitled(calls, entitled) /\ ForeignIsSeen
  BY DEF Init, StopsForeign, StartsEntitled, ForeignIsSeen, Idle, NoLease
<1> QED BY <1>2, <1>3, NoLeaseOK
        DEF Init, IInv, BootedDeviceIsTracked, ReleasedSessionHoldsNothing, NoLease

\* A step keeps the invariant when it keeps each part of it.
LEMMA Parts ==
  ASSUME IInv, requests' = requests \/ Request,
         power' \in {"on", "off"}, booted' \in BOOLEAN, entitled' \subseteq Sessions,
         LeaseOK(lease'), calls' \in [Calls -> CallState],
         StopsForeign(calls', lease'), StartsEntitled(calls', entitled'),
         power' = "on" /\ ~booted' => power = "on" /\ ~booted,
         power' = "on" /\ ~booted' => lease'.owned = FALSE,
         \A c \in Calls : calls'[c].stage = "resolved" =>
           \/ calls[c].stage = "resolved" /\ calls'[c].seen = calls[c].seen
           \/ calls'[c].seen = power,
         booted' => power' = "on" /\ lease'.owned,
         lease'.sessions \subseteq entitled'
  PROVE  IInv'
<1>1. requests' \in 0 .. MaxRequests
  BY BoundAssumption DEF IInv, TypeOK, Request
<1>2. lease' \in Lease /\ (lease'.closing = "absent" <=> lease' = NoLease)
  BY DEF LeaseOK
<1>3. TypeOK' BY <1>1, <1>2 DEF TypeOK
<1>4. LeaseOK(lease)' BY DEF LeaseOK
<1>5. StopsForeign(calls, lease)' /\ StartsEntitled(calls, entitled)'
  BY DEF StopsForeign, StartsEntitled
<1>6. ForeignIsSeen' BY DEF IInv, ForeignIsSeen
<1> QED BY <1>3, <1>4, <1>5, <1>6
        DEF IInv, BootedDeviceIsTracked, ReleasedSessionHoldsNothing

\* A request that only puts a call in flight.
LEMMA CallIInv ==
  ASSUME IInv, NEW c \in Calls, NEW op \in {"start", "retain", "stop"},
         NEW who \in Sessions \cup {User},
         Call(c, op, who),
         entitled \subseteq entitled', entitled' \subseteq Sessions,
         op = "start" /\ who \in Sessions => who \in entitled'
  PROVE  IInv'
<1> DEFINE new == [Idle EXCEPT !.op = op, !.who = who, !.stage = "resolving"]
<1>1. /\ new \in CallState /\ new.op = op /\ new.who = who /\ new.stage = "resolving"
      /\ ~new.same
  BY UserAssumption DEF Idle, CallState
<1> HIDE DEF new
<1>2. /\ calls' = [calls EXCEPT ![c] = new] /\ Request
      /\ power' = power /\ booted' = booted /\ lease' = lease
  BY DEF Call, new
<1>3. calls' \in [Calls -> CallState] BY <1>1, <1>2 DEF IInv, TypeOK
<1>4. StopsForeign(calls', lease') /\ StartsEntitled(calls', entitled')
  BY <1>1, <1>2 DEF IInv, TypeOK, StopsForeign, StartsEntitled
<1>5. \A d \in Calls : calls'[d].stage = "resolved" =>
        calls[d].stage = "resolved" /\ calls'[d].seen = calls[d].seen
  BY <1>1, <1>2 DEF IInv, TypeOK
<1>6. /\ power \in {"on", "off"} /\ booted \in BOOLEAN /\ LeaseOK(lease)
      /\ power = "on" /\ ~booted => lease.owned = FALSE
      /\ booted => power = "on" /\ lease.owned
      /\ lease.sessions \subseteq entitled
  BY DEF IInv, TypeOK, ForeignIsSeen, BootedDeviceIsTracked, ReleasedSessionHoldsNothing
<1> QED BY <1>2, <1>3, <1>4, <1>5, <1>6, Parts

\* A call that ends holds nothing.
LEMMA ReturnedCalls ==
  ASSUME calls \in [Calls -> CallState], NEW c \in Calls, NEW l, NEW e, Idle \in CallState,
         StopsForeign(calls, l), StartsEntitled(calls, e)
  PROVE  LET cs == [calls EXCEPT ![c] = Idle]
         IN /\ cs \in [Calls -> CallState]
            /\ StopsForeign(cs, l) /\ StartsEntitled(cs, e)
            /\ \A d \in Calls : cs[d].stage = "resolved" =>
                 calls[d].stage = "resolved" /\ cs[d].seen = calls[d].seen
BY DEF StopsForeign, StartsEntitled, Idle

\* A call that goes to its next wait holds what it held.
Moved(c, m) == [calls EXCEPT ![c] = [calls[c] EXCEPT !.stage = m]]

LEMMA MovedCalls ==
  ASSUME calls \in [Calls -> CallState], NEW c \in Calls, NEW m \in {"cleaning", "waiting"},
         StopsForeign(calls, lease), StartsEntitled(calls, entitled)
  PROVE  /\ Moved(c, m) \in [Calls -> CallState]
         /\ StopsForeign(Moved(c, m), lease) /\ StartsEntitled(Moved(c, m), entitled)
         /\ \A d \in Calls : Moved(c, m)[d].stage = "resolved" =>
              calls[d].stage = "resolved" /\ Moved(c, m)[d].seen = calls[d].seen
<1> DEFINE moved == [calls[c] EXCEPT !.stage = m]
<1>1. /\ moved.same = calls[c].same /\ moved.op = calls[c].op /\ moved.who = calls[c].who
      /\ moved.ended = calls[c].ended /\ moved.stage = m /\ moved \in CallState
  BY DEF CallState
<1> HIDE DEF moved
<1>2. LET cs == [calls EXCEPT ![c] = moved]
      IN /\ cs \in [Calls -> CallState]
         /\ StopsForeign(cs, lease) /\ StartsEntitled(cs, entitled)
         /\ \A d \in Calls : cs[d].stage = "resolved" =>
              calls[d].stage = "resolved" /\ cs[d].seen = calls[d].seen
  BY <1>1 DEF StopsForeign, StartsEntitled
<1> QED BY <1>2 DEF moved, Moved

\* The parts of the invariant as facts about the present state.
LEMMA Now ==
  ASSUME IInv
  PROVE  /\ power \in {"on", "off"} /\ booted \in BOOLEAN /\ entitled \subseteq Sessions
         /\ calls \in [Calls -> CallState] /\ LeaseOK(lease) /\ lease \in Lease
         /\ StopsForeign(calls, lease) /\ StartsEntitled(calls, entitled)
         /\ power = "on" /\ ~booted => lease.owned = FALSE
         /\ \A c \in Calls : power = "on" /\ ~booted /\ calls[c].stage = "resolved"
                               => calls[c].seen = "on"
         /\ booted => power = "on" /\ lease.owned
         /\ lease.sessions \subseteq entitled
         /\ Idle \in CallState
<1>1. Idle \in CallState BY UserAssumption DEF Idle, CallState
<1>2. lease.owned \in BOOLEAN BY DEF IInv, LeaseOK, Lease
<1> QED BY <1>1, <1>2 DEF IInv, TypeOK, ForeignIsSeen, BootedDeviceIsTracked,
                          ReleasedSessionHoldsNothing

LEMMA ResolveIInv ==
  ASSUME IInv, NEW c \in Calls, Resolve(c)
  PROVE  IInv'
<1>1. /\ calls' = [calls EXCEPT ![c] = [calls[c] EXCEPT !.stage = "resolved", !.seen = power]]
      /\ power' = power /\ booted' = booted /\ lease' = lease /\ entitled' = entitled
      /\ requests' = requests
  BY Now DEF Resolve, CallState
<1> DEFINE moved == [calls[c] EXCEPT !.stage = "resolved", !.seen = power]
<1>2. /\ moved \in CallState /\ moved.op = calls[c].op /\ moved.who = calls[c].who
      /\ moved.ended = calls[c].ended /\ moved.same = calls[c].same /\ moved.seen = power
  BY Now DEF CallState
<1> HIDE DEF moved
<1>3. calls' = [calls EXCEPT ![c] = moved] BY <1>1 DEF moved
<1>4. calls' \in [Calls -> CallState] BY <1>2, <1>3, Now
<1>5. StopsForeign(calls', lease') /\ StartsEntitled(calls', entitled')
  BY <1>1, <1>2, <1>3, Now DEF StopsForeign, StartsEntitled
<1>6. \A d \in Calls : \/ calls'[d].seen = calls[d].seen /\ calls'[d].stage = calls[d].stage
                       \/ calls'[d].seen = power
  BY <1>2, <1>3, Now
<1> QED BY <1>1, <1>4, <1>5, <1>6, Now, Parts

\* A start that finds the device joins its lease, or makes one, only if its session was
\* not released meanwhile.
LEMMA AcquireIInv ==
  ASSUME IInv, NEW c \in Calls, Acquire(c)
  PROVE  IInv'
<1> DEFINE who == calls[c].who
           base == IF lease # NoLease THEN lease
                   ELSE [owned |-> Owns(calls[c].seen), ready |-> ~Owns(calls[c].seen),
                         sessions |-> {}, manual |-> FALSE, closing |-> "no"]
           joined == [base EXCEPT !.sessions = @ \cup ({who} \cap Sessions),
                                  !.manual = @ \/ who = User]
<1>1. /\ calls[c].op = "start" /\ calls[c].stage = "resolved"
      /\ power' = power /\ booted' = booted /\ entitled' = entitled /\ requests' = requests
  BY DEF Acquire, Resolved
<1>3. \/ calls' = [calls EXCEPT ![c] = Idle]
      \/ calls' = Moved(c, "cleaning")
      \/ calls' = Moved(c, "waiting")
  <2>1. \/ calls' = [calls EXCEPT ![c] = Idle]
        \/ calls' = [calls EXCEPT ![c].stage = "cleaning"]
        \/ calls' = [calls EXCEPT ![c].stage = "waiting"]
    BY DEF Acquire, Return
  <2> QED BY <2>1 DEF Moved
<1>4. /\ calls' \in [Calls -> CallState]
      /\ StopsForeign(calls', lease) /\ StartsEntitled(calls', entitled)
      /\ \A d \in Calls : calls'[d].stage = "resolved" =>
           calls[d].stage = "resolved" /\ calls'[d].seen = calls[d].seen
  <2>1. CASE calls' = [calls EXCEPT ![c] = Idle]
    BY <2>1, Now, ReturnedCalls
  <2>2. CASE calls' = Moved(c, "cleaning") BY <2>2, Now, MovedCalls
  <2>3. CASE calls' = Moved(c, "waiting") BY <2>3, Now, MovedCalls
  <2> QED BY <1>3, <2>1, <2>2, <2>3
<1>5. lease' = lease \/ (~calls[c].ended /\ base.closing = "no" /\ lease' = joined)
  BY DEF Acquire, GivesUp
<1>6. CASE lease' = lease
  BY <1>1, <1>4, <1>6, Now, Parts
<1>7. CASE ~calls[c].ended /\ base.closing = "no" /\ lease' = joined
  <2>1. base \in Lease BY Now DEF Lease, Owns
  <2>2. /\ base.ready \/ base.owned
        /\ lease = NoLease => base.sessions = {} /\ base.owned = (calls[c].seen = "off")
        /\ lease # NoLease => base = lease
    BY Now DEF LeaseOK, Owns
  <2> HIDE DEF base
  <2>3. /\ joined \in Lease /\ joined.closing = "no"
        /\ joined.owned = base.owned /\ joined.ready = base.ready
        /\ joined.sessions = base.sessions \cup ({who} \cap Sessions)
    BY <2>1, <1>7 DEF Lease
  <2> HIDE DEF joined
  <2>4. LeaseOK(joined) BY <2>2, <2>3 DEF LeaseOK, NoLease
  <2>5. who \in Sessions => who \in entitled
    BY <1>1, <1>7, Now DEF StartsEntitled
  <2>6. joined.sessions \subseteq entitled BY <2>2, <2>3, <2>5, Now
  <2>7. joined # NoLease BY <2>3 DEF NoLease
  <2>8. StopsForeign(calls', joined)
    BY <2>2, <2>3, <2>7, <1>4 DEF StopsForeign
  <2>9. power = "on" /\ ~booted => joined.owned = FALSE
    BY <2>2, <2>3, <1>1, Now
  <2>10. booted => joined.owned
    <3>1. booted => lease # NoLease BY Now DEF NoLease
    <3> QED BY <3>1, <2>2, <2>3, Now
  <2> QED BY <1>1, <1>4, <1>7, <2>4, <2>6, <2>8, <2>9, <2>10, Now, Parts
<1> QED BY <1>5, <1>6, <1>7

LEMMA RetainedIInv ==
  ASSUME IInv, NEW c \in Calls, Retained(c)
  PROVE  IInv'
<1> DEFINE joined == [lease EXCEPT !.sessions = @ \cup ({calls[c].who} \cap Sessions)]
<1>1. /\ calls' = [calls EXCEPT ![c] = Idle]
      /\ power' = power /\ booted' = booted /\ requests' = requests
      /\ entitled' = entitled \cup ({calls[c].who} \cap lease'.sessions)
      /\ lease' = lease \/ (lease # NoLease /\ lease' = joined)
  BY DEF Retained, Return
<1>2. /\ calls' \in [Calls -> CallState]
      /\ StopsForeign(calls', lease) /\ StartsEntitled(calls', entitled)
      /\ \A d \in Calls : calls'[d].stage = "resolved" =>
           calls[d].stage = "resolved" /\ calls'[d].seen = calls[d].seen
  BY <1>1, Now, ReturnedCalls
<1>3. StartsEntitled(calls', entitled') BY <1>1, <1>2 DEF StartsEntitled
<1>4. CASE lease' = lease
  <2>1. entitled' = entitled BY <1>1, <1>4, Now
  <2> QED BY <1>1, <1>2, <1>4, <2>1, Now, Parts
<1>5. CASE lease # NoLease /\ lease' = joined
  <2>1. /\ joined \in Lease /\ joined.closing = lease.closing
        /\ joined.owned = lease.owned /\ joined.ready = lease.ready
        /\ joined.sessions = lease.sessions \cup ({calls[c].who} \cap Sessions)
    BY <1>5, Now DEF Lease
  <2> HIDE DEF joined
  <2>2. joined # NoLease BY <2>1, <1>5, Now DEF NoLease, LeaseOK
  <2>3. LeaseOK(joined) BY <2>1, <2>2, <1>5, Now DEF LeaseOK
  <2>4. StopsForeign(calls', joined) BY <2>1, <2>2, <1>2 DEF StopsForeign
  <2> QED BY <1>1, <1>2, <1>3, <1>5, <2>1, <2>3, <2>4, Now, Parts
<1> QED BY <1>1, <1>4, <1>5

LEMMA StopResolvedIInv ==
  ASSUME IInv, NEW c \in Calls, StopResolved(c)
  PROVE  IInv'
<1> DEFINE cleared == [lease EXCEPT !.sessions = {}, !.manual = FALSE]
<1>1. /\ calls[c].stage = "resolved"
      /\ power' = power /\ booted' = booted /\ entitled' = entitled /\ requests' = requests
  BY DEF StopResolved, Resolved
<1>2. CASE calls[c].seen = "on" /\ ~lease.owned
  <2> DEFINE moved == [calls[c] EXCEPT !.stage = "stopping", !.same = lease # NoLease]
  <2>1. /\ moved \in CallState /\ moved.stage = "stopping" /\ moved.op = calls[c].op
        /\ moved.who = calls[c].who /\ moved.ended = calls[c].ended
        /\ moved.same = (lease # NoLease)
    BY Now DEF CallState
  <2>2. calls' = [calls EXCEPT ![c] = moved] /\ lease' = cleared
    BY <1>2, Now DEF StopResolved, CallState
  <2> HIDE DEF moved
  <2>3. /\ cleared \in Lease /\ cleared.owned = lease.owned /\ cleared.ready = lease.ready
        /\ cleared.closing = lease.closing /\ cleared.sessions = {}
        /\ cleared.manual = FALSE
    BY Now DEF Lease
  <2> HIDE DEF cleared
  <2>4. LeaseOK(cleared) /\ (cleared = NoLease <=> lease = NoLease)
    BY <2>3, Now, ClearFacts
  <2>5. /\ calls' \in [Calls -> CallState]
        /\ \A d \in Calls : calls'[d].stage = "resolved" =>
             calls[d].stage = "resolved" /\ calls'[d].seen = calls[d].seen
    BY <2>1, <2>2, Now
  <2>6. StopsForeign(calls', lease') /\ StartsEntitled(calls', entitled')
    BY <1>1, <1>2, <2>1, <2>2, <2>3, <2>4, Now DEF StopsForeign, StartsEntitled
  <2> QED BY <1>1, <2>2, <2>3, <2>4, <2>5, <2>6, Now, Parts
<1>3. CASE ~(calls[c].seen = "on" /\ ~lease.owned)
  <2> DEFINE cs == [calls EXCEPT ![c] = Idle]
  <2>1. /\ calls' = Forget(cs, lease')
        /\ lease' = IF lease = NoLease THEN NoLease ELSE Close(cleared)
    BY <1>3 DEF StopResolved
  <2>2. /\ cs \in [Calls -> CallState]
        /\ StopsForeign(cs, lease) /\ StartsEntitled(cs, entitled')
        /\ \A d \in Calls : cs[d].stage = "resolved" =>
             calls[d].stage = "resolved" /\ cs[d].seen = calls[d].seen
    BY <1>1, Now, ReturnedCalls
  <2> HIDE DEF cs
  <2>3. CASE lease = NoLease
    <3>1. lease' = NoLease BY <2>1, <2>3
    <3>2. /\ Forget(cs, lease') \in [Calls -> CallState]
          /\ StopsForeign(Forget(cs, lease'), lease')
          /\ StartsEntitled(Forget(cs, lease'), entitled')
          /\ \A d \in Calls : /\ Forget(cs, lease')[d].stage = cs[d].stage
                              /\ Forget(cs, lease')[d].seen = cs[d].seen
      BY <2>2, <3>1, ForgetFacts
    <3> QED BY <1>1, <2>1, <2>2, <2>3, <3>1, <3>2, Now, Parts
  <2>4. CASE lease # NoLease
    <3>1. /\ LeaseOK(lease') /\ lease' \in Lease /\ lease'.owned = lease.owned
          /\ lease'.sessions = {} /\ (lease' = NoLease => ~lease.owned)
      BY <2>1, <2>4, Now, GiveUpFacts
    <3>2. /\ Forget(cs, lease') \in [Calls -> CallState]
          /\ StopsForeign(Forget(cs, lease'), lease')
          /\ StartsEntitled(Forget(cs, lease'), entitled')
          /\ \A d \in Calls : /\ Forget(cs, lease')[d].stage = cs[d].stage
                              /\ Forget(cs, lease')[d].seen = cs[d].seen
      BY <2>2, <2>4, <3>1, ForgetFacts
    <3> QED BY <1>1, <2>1, <2>2, <3>1, <3>2, Now, Parts
  <2> QED BY <2>3, <2>4
<1> QED BY <1>2, <1>3

LEMMA StopDoneIInv ==
  ASSUME IInv, NEW c \in Calls, NEW ok \in BOOLEAN, StopDone(c, ok)
  PROVE  IInv'
<1> DEFINE cs == [calls EXCEPT ![c] = Idle]
<1>1. /\ power' = (IF ok THEN "off" ELSE power) /\ booted' = (booted /\ ~ok)
      /\ lease' = (IF ok /\ calls[c].same THEN Close(lease) ELSE lease)
      /\ calls' = Forget(cs, lease') /\ entitled' = entitled /\ requests' = requests
  BY DEF StopDone
<1>2. /\ cs \in [Calls -> CallState]
      /\ StopsForeign(cs, lease) /\ StartsEntitled(cs, entitled')
      /\ \A d \in Calls : cs[d].stage = "resolved" =>
           calls[d].stage = "resolved" /\ cs[d].seen = calls[d].seen
  BY <1>1, Now, ReturnedCalls
<1> HIDE DEF cs
<1>3. /\ LeaseOK(lease') /\ lease'.owned = lease.owned
      /\ lease'.sessions \subseteq lease.sessions
      /\ lease' # NoLease => lease # NoLease
  <2>1. CASE ok /\ calls[c].same
    <3>1. lease # NoLease BY <2>1, Now DEF StopsForeign
    <3> QED BY <1>1, <2>1, <3>1, Now, CloseFacts
  <2>2. CASE ~(ok /\ calls[c].same)
    BY <1>1, <2>2, Now
  <2> QED BY <2>1, <2>2
<1>4. /\ Forget(cs, lease') \in [Calls -> CallState]
      /\ StopsForeign(Forget(cs, lease'), lease')
      /\ StartsEntitled(Forget(cs, lease'), entitled')
      /\ \A d \in Calls : /\ Forget(cs, lease')[d].stage = cs[d].stage
                          /\ Forget(cs, lease')[d].seen = cs[d].seen
  BY <1>2, <1>3, ForgetFacts
<1>5. CASE ok
  BY <1>1, <1>2, <1>3, <1>4, <1>5, Now, Parts
<1>6. CASE ~ok
  BY <1>1, <1>2, <1>3, <1>4, <1>6, Now, Parts
<1> QED BY <1>5, <1>6

LEMMA AbortIInv ==
  ASSUME IInv, NEW c \in Calls, Abort(c)
  PROVE  IInv'
<1> DEFINE s == calls[c].who
<1>1. s \in Sessions /\ Request /\ power' = power /\ booted' = booted
  BY DEF Abort
<1>2. CASE calls[c].stage = "waiting"
  <2> DEFINE ended == EndStarts({s})
             cs == [ended EXCEPT ![c] = Idle]
  <2>1. lease' = Leave(s) /\ entitled' = entitled \ {s} /\ calls' = Forget(cs, lease')
    BY <1>2 DEF Abort
  <2>2. /\ ended \in [Calls -> CallState]
        /\ StopsForeign(ended, lease) /\ StartsEntitled(ended, entitled')
        /\ \A d \in Calls : ended[d].stage = calls[d].stage /\ ended[d].seen = calls[d].seen
    BY <2>1, Now, EndStartsFacts
  <2> HIDE DEF ended
  <2>3. /\ cs \in [Calls -> CallState]
        /\ StopsForeign(cs, lease) /\ StartsEntitled(cs, entitled')
        /\ \A d \in Calls : cs[d].stage = "resolved" =>
             calls[d].stage = "resolved" /\ cs[d].seen = calls[d].seen
    BY <2>2, Now DEF StopsForeign, StartsEntitled, Idle
  <2> HIDE DEF cs
  <2>4. /\ LeaseOK(lease') /\ lease'.owned = lease.owned
        /\ lease'.sessions \subseteq lease.sessions \ {s}
        /\ lease' # NoLease => lease # NoLease
    BY <2>1, Now, LeaveFacts, LeaveNoLease
  <2>5. /\ Forget(cs, lease') \in [Calls -> CallState]
        /\ StopsForeign(Forget(cs, lease'), lease')
        /\ StartsEntitled(Forget(cs, lease'), entitled')
        /\ \A d \in Calls : /\ Forget(cs, lease')[d].stage = cs[d].stage
                            /\ Forget(cs, lease')[d].seen = cs[d].seen
    BY <2>3, <2>4, ForgetFacts
  <2> QED BY <1>1, <2>1, <2>3, <2>4, <2>5, Now, Parts
<1>3. CASE calls[c].stage # "waiting"
  <2> DEFINE moved == [calls[c] EXCEPT !.cancelled = TRUE]
  <2>1. /\ moved \in CallState /\ moved.stage = calls[c].stage /\ moved.seen = calls[c].seen
        /\ moved.op = calls[c].op /\ moved.who = calls[c].who
        /\ moved.ended = calls[c].ended /\ moved.same = calls[c].same
    BY Now DEF CallState
  <2>2. calls' = [calls EXCEPT ![c] = moved] /\ lease' = lease /\ entitled' = entitled
    BY <1>3, Now DEF Abort, CallState
  <2> HIDE DEF moved
  <2>3. /\ calls' \in [Calls -> CallState]
        /\ \A d \in Calls : calls'[d].stage = calls[d].stage /\ calls'[d].seen = calls[d].seen
    BY <2>1, <2>2, Now
  <2>4. StopsForeign(calls', lease') /\ StartsEntitled(calls', entitled')
    BY <2>1, <2>2, Now DEF StopsForeign, StartsEntitled
  <2> QED BY <1>1, <2>2, <2>3, <2>4, Now, Parts
<1> QED BY <1>2, <1>3

LEMMA ReleaseIInv ==
  ASSUME IInv, NEW s \in Sessions, Release(s)
  PROVE  IInv'
<1> DEFINE cs == EndStarts({s})
<1>1. /\ lease' = Leave(s) /\ entitled' = entitled \ {s} /\ calls' = Forget(cs, lease')
      /\ Request /\ power' = power /\ booted' = booted
  BY DEF Release
<1>2. /\ cs \in [Calls -> CallState]
      /\ StopsForeign(cs, lease) /\ StartsEntitled(cs, entitled')
      /\ \A d \in Calls : cs[d].stage = calls[d].stage /\ cs[d].seen = calls[d].seen
  BY <1>1, Now, EndStartsFacts
<1> HIDE DEF cs
<1>3. /\ LeaseOK(lease') /\ lease'.owned = lease.owned
      /\ lease'.sessions \subseteq lease.sessions \ {s}
      /\ lease' # NoLease => lease # NoLease
  BY <1>1, Now, LeaveFacts, LeaveNoLease
<1>4. /\ Forget(cs, lease') \in [Calls -> CallState]
      /\ StopsForeign(Forget(cs, lease'), lease')
      /\ StartsEntitled(Forget(cs, lease'), entitled')
      /\ \A d \in Calls : /\ Forget(cs, lease')[d].stage = cs[d].stage
                          /\ Forget(cs, lease')[d].seen = cs[d].seen
  BY <1>2, <1>3, ForgetFacts
<1> QED BY <1>1, <1>2, <1>3, <1>4, Now, Parts

LEMMA ShutdownIInv ==
  ASSUME IInv, Shutdown
  PROVE  IInv'
<1> DEFINE cs == EndStarts(Sessions)
<1>1. /\ lease' = IF lease = NoLease THEN NoLease
                  ELSE Close([lease EXCEPT !.sessions = {}, !.manual = FALSE])
      /\ entitled' = {} /\ calls' = Forget(cs, lease')
      /\ Request /\ power' = power /\ booted' = booted
  BY DEF Shutdown
<1>2. /\ cs \in [Calls -> CallState]
      /\ StopsForeign(cs, lease) /\ StartsEntitled(cs, entitled \ Sessions)
      /\ \A d \in Calls : cs[d].stage = calls[d].stage /\ cs[d].seen = calls[d].seen
  BY Now, EndStartsFacts
<1>3. entitled' = entitled \ Sessions BY <1>1, Now
<1> HIDE DEF cs
<1>4. /\ LeaseOK(lease') /\ lease'.owned = lease.owned /\ lease'.sessions = {}
      /\ lease' # NoLease => lease # NoLease
  <2>1. CASE lease = NoLease
    <3>1. NoLease.sessions = {} BY DEF NoLease
    <3> QED BY <1>1, <2>1, <3>1, NoLeaseOK
  <2>2. CASE lease # NoLease BY <1>1, <2>2, Now, GiveUpFacts
  <2> QED BY <2>1, <2>2
<1>5. /\ Forget(cs, lease') \in [Calls -> CallState]
      /\ StopsForeign(Forget(cs, lease'), lease')
      /\ StartsEntitled(Forget(cs, lease'), entitled')
      /\ \A d \in Calls : /\ Forget(cs, lease')[d].stage = cs[d].stage
                          /\ Forget(cs, lease')[d].seen = cs[d].seen
  BY <1>2, <1>3, <1>4, ForgetFacts
<1> QED BY <1>1, <1>2, <1>4, <1>5, Now, Parts

\* Only an owned lease boots.
LEMMA BootDoneIInv ==
  ASSUME IInv, NEW ok \in BOOLEAN, BootDone(ok)
  PROVE  IInv'
<1> DEFINE others == IF ok THEN calls ELSE AfterClosing
           booting == [lease EXCEPT !.ready = TRUE,
                         !.closing = IF @ = "booting" THEN "stopping" ELSE @]
<1>1. /\ lease # NoLease /\ ~lease.ready /\ lease.owned
      /\ power' = (IF ok THEN "on" ELSE "off") /\ booted' = ok
      /\ lease' = IF ~ok THEN NoLease ELSE booting
      /\ calls' = [c \in Calls |-> IF c \in {d \in Calls : calls[d].stage = "waiting"} THEN Idle
                                   ELSE others[c]]
      /\ entitled' = entitled /\ requests' = requests
  BY Now DEF BootDone, LeaseOK
<1>2. /\ others \in [Calls -> CallState]
      /\ StopsForeign(others, lease') /\ StartsEntitled(others, entitled)
      /\ \A d \in Calls : others[d].stage = "resolved" =>
           calls[d].stage = "resolved" /\ others[d].seen = calls[d].seen
  <2>1. CASE ok
    BY <1>1, <2>1, Now DEF StopsForeign
  <2>2. CASE ~ok
    BY <2>2, Now, AfterClosingFacts
  <2> QED BY <2>1, <2>2
<1> HIDE DEF others
<1>3. /\ calls' \in [Calls -> CallState]
      /\ StopsForeign(calls', lease') /\ StartsEntitled(calls', entitled')
      /\ \A d \in Calls : calls'[d].stage = "resolved" =>
           calls[d].stage = "resolved" /\ calls'[d].seen = calls[d].seen
  BY <1>1, <1>2, Now DEF StopsForeign, StartsEntitled, Idle
<1>4. CASE ok
  <2>1. /\ booting \in Lease /\ booting.owned = lease.owned /\ booting.ready
        /\ booting.sessions = lease.sessions
        /\ booting.closing = IF lease.closing = "booting" THEN "stopping" ELSE lease.closing
    BY Now DEF Lease
  <2> HIDE DEF booting
  <2>2. LeaseOK(booting) BY <1>1, <2>1, Now DEF LeaseOK, NoLease
  <2> QED BY <1>1, <1>3, <1>4, <2>1, <2>2, Now, Parts
<1>5. CASE ~ok
  <2>1. NoLease.sessions = {} BY DEF NoLease
  <2> QED BY <1>1, <1>3, <1>5, <2>1, NoLeaseOK, Now, Parts
<1> QED BY <1>4, <1>5

LEMMA ShutdownDoneIInv ==
  ASSUME IInv, NEW ok \in BOOLEAN, ShutdownDone(ok)
  PROVE  IInv'
<1> DEFINE open == [lease EXCEPT !.closing = "no"]
<1>1. /\ lease.closing = "stopping" /\ lease.owned /\ lease.ready
      /\ power' \in (IF ok THEN {"off"} ELSE {power, "off"})
      /\ booted' = (booted /\ power' = "on")
      /\ lease' = (IF ok THEN NoLease ELSE open)
      /\ calls' = (IF ok THEN AfterClosing
                   ELSE [c \in Calls |-> IF calls[c].stage = "cleaning" THEN Idle ELSE calls[c]])
      /\ entitled' = entitled /\ requests' = requests
  BY Now DEF ShutdownDone, LeaseOK
<1>2. CASE ok
  <2>1. NoLease.sessions = {} BY DEF NoLease
  <2>2. /\ calls' \in [Calls -> CallState]
        /\ StopsForeign(calls', lease') /\ StartsEntitled(calls', entitled')
        /\ \A d \in Calls : calls'[d].stage = "resolved" =>
             calls[d].stage = "resolved" /\ calls'[d].seen = calls[d].seen
    BY <1>1, <1>2, Now, AfterClosingFacts
  <2> QED BY <1>1, <1>2, <2>1, <2>2, NoLeaseOK, Now, Parts
<1>3. CASE ~ok
  <2>1. /\ open \in Lease /\ open.owned = lease.owned /\ open.ready = lease.ready
        /\ open.sessions = lease.sessions /\ open.closing = "no"
    BY Now DEF Lease
  <2> HIDE DEF open
  <2>2. LeaseOK(open) BY <1>1, <2>1 DEF LeaseOK, NoLease
  <2>3. /\ calls' \in [Calls -> CallState]
        /\ StopsForeign(calls', lease') /\ StartsEntitled(calls', entitled')
        /\ \A d \in Calls : calls'[d].stage = "resolved" =>
             calls[d].stage = "resolved" /\ calls'[d].seen = calls[d].seen
    BY <1>1, <1>3, <2>1, Now DEF StopsForeign, StartsEntitled, Idle, NoLease
  <2> QED BY <1>1, <1>3, <2>1, <2>2, <2>3, Now, Parts
<1> QED BY <1>2, <1>3

-----------------------------------------------------------------------------
LEMMA NextIInv == IInv /\ [Next]_vars => IInv'
<1> SUFFICES ASSUME IInv, [Next]_vars PROVE IInv'
  OBVIOUS
<1>1. ASSUME NEW c \in Calls, NEW who \in Sessions \cup {User}, Start(c, who) PROVE IInv'
  <2>1. /\ Call(c, "start", who) /\ entitled \subseteq entitled' /\ entitled' \subseteq Sessions
        /\ who \in Sessions => who \in entitled'
    BY <1>1, Now DEF Start
  <2> QED BY <2>1, CallIInv
<1>2. ASSUME NEW c \in Calls, NEW s \in Sessions, Retain(c, s) PROVE IInv'
  <2>1. Call(c, "retain", s) /\ entitled' = entitled BY <1>2 DEF Retain
  <2> QED BY <2>1, Now, CallIInv
<1>3. ASSUME NEW c \in Calls, Stop(c) PROVE IInv'
  <2>1. Call(c, "stop", User) /\ entitled' = entitled BY <1>3 DEF Stop
  <2> QED BY <2>1, Now, CallIInv
<1>4. ASSUME NEW c \in Calls,
             Resolve(c) \/ Acquire(c) \/ Abort(c) \/ Retained(c) \/ StopResolved(c)
      PROVE  IInv'
  BY <1>4, ResolveIInv, AcquireIInv, AbortIInv, RetainedIInv, StopResolvedIInv
<1>5. ASSUME NEW c \in Calls, NEW ok \in BOOLEAN, StopDone(c, ok) PROVE IInv'
  BY <1>5, StopDoneIInv
<1>6. ASSUME NEW s \in Sessions, Release(s) PROVE IInv'
  BY <1>6, ReleaseIInv
<1>7. CASE Shutdown
  BY <1>7, ShutdownIInv
<1>8. ASSUME NEW ok \in BOOLEAN, BootDone(ok) \/ ShutdownDone(ok) PROVE IInv'
  BY <1>8, BootDoneIInv, ShutdownDoneIInv
<1>9. CASE UNCHANGED vars
  <2>1. /\ power' = power /\ booted' = booted /\ lease' = lease /\ calls' = calls
        /\ entitled' = entitled /\ requests' = requests
    BY <1>9 DEF vars
  <2> QED BY <2>1, Now, Parts
<1> QED BY <1>1, <1>2, <1>3, <1>4, <1>5, <1>6, <1>7, <1>8, <1>9 DEF Next

LEMMA Invariant == Spec => []IInv
<1> QED BY InitIInv, NextIInv, PTL DEF Spec

\* Every variable keeps its type.
THEOREM TypeCorrect == Spec => []TypeOK
<1>1. IInv => TypeOK BY DEF IInv
<1> QED BY <1>1, Invariant, PTL

\* A device the lifecycle booted is never forgotten while it is on: neither an aborted
\* start, nor a failed shutdown, nor a stop that overlaps a release drops its lease.
THEOREM OwnershipIsKept == Spec => []BootedDeviceIsTracked
<1>1. IInv => BootedDeviceIsTracked BY DEF IInv
<1> QED BY <1>1, Invariant, PTL

\* A released session is in no lease, whatever start of its was in flight.
THEOREM ReleaseIsFinal == Spec => []ReleasedSessionHoldsNothing
<1>1. IInv => ReleasedSessionHoldsNothing BY DEF IInv
<1> QED BY <1>1, Invariant, PTL

\* A release, a failed boot or a shutdown never turns off a device that was on before.
THEOREM ForeignDevicesAreSpared == Spec => ForeignDeviceStaysOn
<1> DEFINE Spared == power = "on" /\ ~booted /\ power' = "off"
                       => \E c \in Calls : calls[c].stage = "stopping"
<1>1. IInv /\ [Next]_vars => [Spared]_vars
  <2> SUFFICES ASSUME IInv, Next, power = "on", ~booted, power' = "off"
               PROVE  \E c \in Calls : calls[c].stage = "stopping"
    OBVIOUS
  <2>1. ~lease.owned BY Now
  <2>2. ASSUME NEW ok \in BOOLEAN, BootDone(ok) \/ ShutdownDone(ok) PROVE FALSE
    <3>1. lease.owned BY <2>2, Now DEF BootDone, ShutdownDone, LeaseOK
    <3> QED BY <2>1, <3>1
  <2>3. ASSUME NEW c \in Calls, NEW ok \in BOOLEAN, StopDone(c, ok)
        PROVE  \E d \in Calls : calls[d].stage = "stopping"
    BY <2>3 DEF StopDone
  <2>4. ASSUME power' = power PROVE FALSE
    BY <2>4
  <2> QED BY <2>2, <2>3, <2>4 DEF Next, Start, Retain, Stop, Call, Resolve, Acquire, Abort,
                                 Retained, StopResolved, Release, Shutdown
<1> QED BY <1>1, Invariant, PTL DEF Spec, ForeignDeviceStaysOn

\* A lease begins to close only when no session and no user holds it.
THEOREM ClosingIsUnshared == Spec => ClosingBeginsUnshared
<1> DEFINE Unshared == lease.closing = "no" /\ lease'.closing \in {"booting", "stopping"}
                         => lease'.sessions = {} /\ ~lease'.manual
<1>1. IInv /\ [Next]_vars => [Unshared]_vars
  <2> SUFFICES ASSUME IInv, Next, lease.closing = "no",
                      lease'.closing \in {"booting", "stopping"}
               PROVE  lease'.sessions = {} /\ ~lease'.manual
    OBVIOUS
  <2>1. lease # NoLease /\ LeaseOK(lease) /\ lease \in Lease
    BY Now DEF NoLease
  <2>2. ASSUME NEW s, lease' = Leave(s) PROVE lease'.sessions = {} /\ ~lease'.manual
    BY <2>1, <2>2, LeaveFacts
  <2>3. ASSUME lease' = lease PROVE FALSE
    BY <2>3
  <2>4. ASSUME NEW c \in Calls, Acquire(c) PROVE FALSE
    <3> DEFINE joined == [lease EXCEPT
                           !.sessions = @ \cup ({calls[c].who} \cap Sessions),
                           !.manual = @ \/ calls[c].who = User]
    <3>1. lease' = lease \/ lease' = joined BY <2>1, <2>4 DEF Acquire
    <3>2. joined.closing = "no" BY <2>1 DEF Lease
    <3> QED BY <3>1, <3>2
  <2>5. ASSUME NEW c \in Calls, Retained(c) PROVE FALSE
    <3> DEFINE joined == [lease EXCEPT !.sessions = @ \cup ({calls[c].who} \cap Sessions)]
    <3>1. lease' = lease \/ lease' = joined BY <2>5 DEF Retained
    <3>2. joined.closing = "no" BY <2>1 DEF Lease
    <3> QED BY <3>1, <3>2
  <2>6. ASSUME NEW c \in Calls, StopResolved(c) PROVE lease'.sessions = {} /\ ~lease'.manual
    <3> DEFINE cleared == [lease EXCEPT !.sessions = {}, !.manual = FALSE]
    <3>1. lease' = cleared \/ lease' = Close(cleared) BY <2>1, <2>6 DEF StopResolved
    <3>2. cleared.sessions = {} /\ ~cleared.manual BY <2>1 DEF Lease
    <3> QED BY <2>1, <3>1, <3>2, GiveUpFacts
  <2>7. ASSUME NEW c \in Calls, NEW ok \in BOOLEAN, StopDone(c, ok) PROVE FALSE
    <3>1. lease' = lease \/ (calls[c].same /\ lease' = Close(lease))
      BY <2>7 DEF StopDone
    <3>2. calls[c].same => lease.ready /\ ~lease.owned
      BY <2>1, Now DEF StopsForeign, LeaseOK
    <3>3. calls[c].same => Close(lease) = NoLease
      BY <3>2 DEF Close
    <3> QED BY <3>1, <3>3 DEF NoLease
  <2>8. ASSUME Shutdown PROVE lease'.sessions = {} /\ ~lease'.manual
    BY <2>1, <2>8, GiveUpFacts DEF Shutdown
  <2>9. ASSUME NEW ok \in BOOLEAN, BootDone(ok) PROVE FALSE
    <3> DEFINE booting == [lease EXCEPT !.ready = TRUE,
                             !.closing = IF @ = "booting" THEN "stopping" ELSE @]
    <3>1. lease' = NoLease \/ lease' = booting BY <2>9 DEF BootDone
    <3>2. booting.closing = "no" BY <2>1 DEF Lease
    <3> HIDE DEF booting
    <3>3. lease'.closing \in {"absent", "no"} BY <3>1, <3>2 DEF NoLease
    <3> QED BY <3>3
  <2>10. ASSUME NEW ok \in BOOLEAN, ShutdownDone(ok) PROVE FALSE
    BY <2>10 DEF ShutdownDone
  <2>11. ASSUME NEW c \in Calls, Abort(c)
         PROVE  lease' = lease \/ lease' = Leave(calls[c].who)
    BY <2>11 DEF Abort
  <2>12. ASSUME NEW s \in Sessions, Release(s) PROVE lease' = Leave(s)
    BY <2>12 DEF Release
  <2> QED BY <2>2, <2>3, <2>4, <2>5, <2>6, <2>7, <2>8, <2>9, <2>10, <2>11, <2>12
          DEF Next, Start, Retain, Stop, Call, Resolve
<1> QED BY <1>1, Invariant, PTL DEF Spec, ClosingBeginsUnshared
=============================================================================
