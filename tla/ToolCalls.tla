------------------------------ MODULE ToolCalls ------------------------------
(***************************************************************************)
(* Tool calls of several sessions: the policy that asks the operator       *)
(* first, the requests that wait for an answer, and the limiter in front   *)
(* of the file readers.  All of it runs in one process; what follows the   *)
(* settling of a promise runs before the next event.  Each call may be     *)
(* made again when it has returned.                                        *)
(***************************************************************************)
EXTENDS Limiter

CONSTANTS
  Sessions,     \* chat sessions, each with one turn, and one signal, at a time
  OnChannel,    \* sessions of a messaging channel, which can always ask
  SessionOf,    \* the session of each call
  KeyOf,        \* the approval key of each call: its tool and its command
  Forced,       \* calls for which the capability policy says "ask"; the others are dangerous
  Limited       \* calls that read files

Calls == Callers

ASSUME CallsAssumption ==
  /\ SessionOf \in [Calls -> Sessions] /\ DOMAIN KeyOf = Calls
  /\ Forced \subseteq Calls /\ Limited \subseteq Calls

VARIABLES
  phase,              \* of each call: "idle", "asking", "running" or "reading"
  request,            \* status of the latest approval request of each call
  sessionAllowlist,   \* pairs of a session and a key
  alwaysAllowlist,    \* keys
  mode,               \* tool approval mode: "ask" or "always_allow"
  listening,          \* an app is connected to the status stream
  aborted,            \* sessions whose turn was aborted
  said,               \* history: the operator's answer to each call; "free": none needed
  consents            \* history: the answers with a scope, and the call each was given to

toolVars == << phase, request, sessionAllowlist, alwaysAllowlist, mode, listening,
               aborted, said, consents >>
vars == << limiterVars, toolVars >>

Decisions == {"approve_once", "approve_session", "approve_always", "deny"}
Status(decision) ==
  CASE decision = "approve_once" -> "approved_once"
    [] decision = "approve_session" -> "approved_session"
    [] decision = "approve_always" -> "approved_always"
    [] decision = "deny" -> "denied"

Init ==
  /\ LimiterInit
  /\ phase = [c \in Calls |-> "idle"]
  /\ request = [c \in Calls |-> "none"]
  /\ sessionAllowlist = {} /\ alwaysAllowlist = {}
  /\ mode \in {"ask", "always_allow"} /\ listening \in BOOLEAN
  /\ aborted = {}
  /\ said = [c \in Calls |-> "none"]
  /\ consents = {}

-----------------------------------------------------------------------------
(* executeTool up to the handler, or to the wait for the operator. *)

IsApproved(c) ==
  KeyOf[c] \in alwaysAllowlist \/ << SessionOf[c], KeyOf[c] >> \in sessionAllowlist
CanWait(c) == SessionOf[c] \in OnChannel \/ listening
NeedsApproval(c) == c \in Forced \/ mode = "ask"
\* Nobody could approve it: the call fails instead of waiting.
Unattended(c) == ~IsApproved(c) /\ ~CanWait(c) /\ (c \in Forced \/ mode # "always_allow")

\* The call returns with an error before its handler is reached.
Refused(c) ==
  /\ phase[c] = "idle" /\ NeedsApproval(c)
  /\ Unattended(c) \/ SessionOf[c] \in aborted
  /\ request' = [request EXCEPT ![c] = "none"] /\ said' = [said EXCEPT ![c] = "none"]
  /\ UNCHANGED << limiterVars, phase, sessionAllowlist, alwaysAllowlist, mode, listening,
                  aborted, consents >>

\* The handler is entered without a question.
Enter(c) ==
  /\ phase[c] = "idle"
  /\ \/ ~NeedsApproval(c)
     \/ SessionOf[c] \notin aborted /\ (IsApproved(c) \/ (mode = "always_allow" /\ c \notin Forced))
  /\ phase' = [phase EXCEPT ![c] = "running"]
  /\ request' = [request EXCEPT ![c] = "none"]
  /\ said' = [said EXCEPT ![c] = IF NeedsApproval(c) THEN "none" ELSE "free"]
  /\ UNCHANGED << limiterVars, sessionAllowlist, alwaysAllowlist, mode, listening, aborted,
                  consents >>

\* requestToolApproval lists a request and waits.
AskOperator(c) ==
  /\ phase[c] = "idle" /\ NeedsApproval(c)
  /\ ~Unattended(c) /\ SessionOf[c] \notin aborted /\ ~IsApproved(c)
  /\ mode = "always_allow" => c \in Forced
  /\ phase' = [phase EXCEPT ![c] = "asking"]
  /\ request' = [request EXCEPT ![c] = "pending"]
  /\ said' = [said EXCEPT ![c] = "none"]
  /\ UNCHANGED << limiterVars, sessionAllowlist, alwaysAllowlist, mode, listening, aborted,
                  consents >>

-----------------------------------------------------------------------------
(* resolveApproval.  A request that is answered stays for five seconds, and no answer    *)
(* changes it any more.                                                                  *)

\* A request that was not decided yet.
Open(c) == request[c] = "pending"

\* Faulty: the key is allowed to every session.
AllowEverywhere(c, decision) ==
  /\ sessionAllowlist' = sessionAllowlist \cup
       (IF decision = "approve_session" THEN Sessions \X {KeyOf[c]} ELSE {})
  /\ alwaysAllowlist' = alwaysAllowlist \cup
       (IF decision = "approve_always" THEN {KeyOf[c]} ELSE {})
Allow(c, decision) ==
  /\ sessionAllowlist' = sessionAllowlist \cup
       (IF decision = "approve_session" THEN {<< SessionOf[c], KeyOf[c] >>} ELSE {})
  /\ alwaysAllowlist' = alwaysAllowlist \cup
       (IF decision = "approve_always" THEN {KeyOf[c]} ELSE {})

\* Faulty: what the answer allows is allowed before the request is found to be decided.
AllowFirst(c, decision) ==
  /\ request[c] # "none" /\ Allow(c, decision)
  /\ IF Open(c)
     THEN /\ request' = [request EXCEPT ![c] = Status(decision)]
          /\ phase' = [phase EXCEPT ![c] = IF @ # "asking" THEN @
                                           ELSE IF decision = "deny" THEN "idle" ELSE "running"]
     ELSE UNCHANGED << request, phase >>
\* The promise settles, and the call fails or goes on into its handler.
ResolveApproval(c, decision) ==
  /\ Open(c)
  /\ request' = [request EXCEPT ![c] = Status(decision)]
  /\ Allow(c, decision)
  /\ phase' = [phase EXCEPT ![c] = IF @ # "asking" THEN @
                                   ELSE IF decision = "deny" THEN "idle" ELSE "running"]

\* The operator answers, from the app or from the channel.
Answer(c, decision) ==
  /\ ResolveApproval(c, decision)
  /\ said' = [said EXCEPT ![c] = decision]
  /\ consents' = consents \cup
       (IF decision \in {"approve_session", "approve_always"} THEN {<< c, decision >>} ELSE {})
  /\ UNCHANGED << limiterVars, mode, listening, aborted >>

\* Faulty: the timer only runs while an app is connected.
TimeoutAttended(c) ==
  /\ request[c] = "pending" /\ listening /\ ResolveApproval(c, "deny")
  /\ UNCHANGED << limiterVars, mode, listening, aborted, said, consents >>
\* Nobody answers for two minutes.
Timeout(c) ==
  /\ request[c] = "pending" /\ ResolveApproval(c, "deny")
  /\ UNCHANGED << limiterVars, mode, listening, aborted, said, consents >>

-----------------------------------------------------------------------------
(* The handlers. *)

\* A file reader asks for a permit, unless its turn was aborted meanwhile.  A call that
\* reads several paths asks for up to four permits at a time; here it reads one.
Read(c) ==
  /\ phase[c] = "running" /\ c \in Limited
  /\ IF SessionOf[c] \in aborted
     THEN phase' = [phase EXCEPT ![c] = "idle"] /\ UNCHANGED limiterVars
     ELSE phase' = [phase EXCEPT ![c] = "reading"] /\ Acquire(c)
  /\ UNCHANGED << request, sessionAllowlist, alwaysAllowlist, mode, listening, aborted, said,
                  consents >>

\* It waited too long for the permit.
Expire(c) ==
  /\ phase[c] = "reading" /\ permit[c] = "waiting"
  /\ Cancel({c}) /\ phase' = [phase EXCEPT ![c] = "idle"]
  /\ UNCHANGED << request, sessionAllowlist, alwaysAllowlist, mode, listening, aborted, said,
                  consents >>

\* The worker is done, failed, timed out or was aborted; the permit is given back.
ReadDone(c) ==
  /\ phase[c] = "reading" /\ permit[c] = "held"
  /\ Release(c) /\ phase' = [phase EXCEPT ![c] = "idle"]
  /\ UNCHANGED << request, sessionAllowlist, alwaysAllowlist, mode, listening, aborted, said,
                  consents >>

\* A handler returns or throws without the limiter.
Finish(c) ==
  /\ phase[c] = "running" /\ phase' = [phase EXCEPT ![c] = "idle"]
  /\ UNCHANGED << limiterVars, request, sessionAllowlist, alwaysAllowlist, mode, listening,
                  aborted, said, consents >>

-----------------------------------------------------------------------------
(* The session and the app. *)

\* Faulty: the listeners of the signal forget the requests.
AbortReaders(s) ==
  LET gone == {c \in Calls : SessionOf[c] = s /\ permit[c] = "waiting"}
  IN /\ s \notin aborted /\ \E c \in Calls : SessionOf[c] = s /\ phase[c] # "idle"
     /\ aborted' = aborted \cup {s}
     /\ Cancel(gone)
     /\ phase' = [c \in Calls |-> IF c \in gone \/ (SessionOf[c] = s /\ phase[c] = "asking")
                                  THEN "idle" ELSE phase[c]]
     /\ UNCHANGED << request, sessionAllowlist, alwaysAllowlist, mode, listening, said, consents >>
\* The turn's signal is aborted: its requests are denied, its waiting readers return, and
\* those that work will end.
Abort(s) ==
  LET gone == {c \in Calls : SessionOf[c] = s /\ permit[c] = "waiting"}
      denied == {c \in Calls : SessionOf[c] = s /\ request[c] = "pending"}
  IN /\ s \notin aborted /\ \E c \in Calls : SessionOf[c] = s /\ phase[c] # "idle"
     /\ aborted' = aborted \cup {s}
     /\ Cancel(gone)
     /\ request' = [c \in Calls |-> IF c \in denied THEN "denied" ELSE request[c]]
     /\ phase' = [c \in Calls |-> IF c \in gone \cup denied THEN "idle" ELSE phase[c]]
     /\ UNCHANGED << sessionAllowlist, alwaysAllowlist, mode, listening, said, consents >>

\* The turn ends when its calls have returned; the next one has a signal of its own.
NextTurn(s) ==
  /\ s \in aborted /\ \A c \in Calls : SessionOf[c] = s => phase[c] = "idle"
  /\ aborted' = aborted \ {s}
  /\ UNCHANGED << limiterVars, phase, request, sessionAllowlist, alwaysAllowlist, mode,
                  listening, said, consents >>

SetMode ==
  /\ mode' = IF mode = "ask" THEN "always_allow" ELSE "ask"
  /\ UNCHANGED << limiterVars, phase, request, sessionAllowlist, alwaysAllowlist, listening,
                  aborted, said, consents >>

\* The app connects or goes away, also while a request waits for it.
Listen ==
  /\ listening' = ~listening
  /\ UNCHANGED << limiterVars, phase, request, sessionAllowlist, alwaysAllowlist, mode, aborted,
                  said, consents >>

Next ==
  \/ \E c \in Calls : \/ Refused(c) \/ Enter(c) \/ AskOperator(c) \/ Timeout(c)
                      \/ Read(c) \/ Expire(c) \/ ReadDone(c) \/ Finish(c)
  \/ \E c \in Calls, decision \in Decisions : Answer(c, decision)
  \/ \E s \in Sessions : Abort(s) \/ NextTurn(s)
  \/ SetMode \/ Listen

\* Timers fire, and a handler ends: the readers and every other tool have a timeout.
Fairness ==
  \A c \in Calls : /\ WF_vars(Timeout(c)) /\ WF_vars(Expire(c)) /\ WF_vars(ReadDone(c))
                   /\ WF_vars(Read(c) \/ Finish(c))

Spec == Init /\ [][Next]_vars
FairSpec == Spec /\ Fairness

-----------------------------------------------------------------------------
ToolTypeOK ==
  /\ phase \in [Calls -> {"idle", "asking", "running", "reading"}]
  /\ request \in [Calls -> {"none", "pending"} \cup {Status(d) : d \in Decisions}]
  /\ sessionAllowlist \subseteq Sessions \X {KeyOf[c] : c \in Calls}
  /\ alwaysAllowlist \subseteq {KeyOf[c] : c \in Calls}
  /\ mode \in {"ask", "always_allow"} /\ listening \in BOOLEAN
  /\ aborted \subseteq Sessions
  /\ said \in [Calls -> {"none", "free"} \cup Decisions]
  /\ consents \subseteq Calls \X {"approve_session", "approve_always"}

\* Every variable has its type, and only a reading call has to do with the limiter.
TypeOK ==
  /\ LimiterTypeOK /\ ToolTypeOK
  /\ \A c \in Calls : permit[c] # "none" <=> phase[c] = "reading"

\* The operator allowed this call: in answer to its own request, or with a scope that
\* covers its key and, for a session's consent, its session.
Consented(c) ==
  \/ said[c] \in Decisions \ {"deny"}
  \/ \E d \in Calls : /\ KeyOf[d] = KeyOf[c]
                      /\ \/ << d, "approve_always" >> \in consents
                         \/ << d, "approve_session" >> \in consents /\ SessionOf[d] = SessionOf[c]

\* Whatever races with the answer (the timeout, an abort, other answers, a change of the
\* mode, the app going away), a handler runs only if the policy asked for no approval when
\* the call was made, or the operator consented to it.
OperatorDecides ==
  \A c \in Calls : phase[c] \in {"running", "reading"} =>
    Consented(c) \/ (said[c] = "free" /\ c \notin Forced)

\* The list an app is shown and the calls that wait are the same: no call waits for an
\* answer that cannot be given, and no answer is given to a call that is gone.
RequestsAreAwaited == \A c \in Calls : request[c] = "pending" <=> phase[c] = "asking"

\* The calls whose open request is decided by this step.
DecidedNow(status) == {c \in Calls : request[c] = "pending" /\ request'[c] = status}
\* An answer that comes after a decision (a timeout, an abort or another answer) is
\* refused: it changes neither the request, which only the next call replaces, nor what is
\* allowed from then on, since only the approval of an open request widens a list, and only
\* by the key of that request, for the session's list in its session.
DecisionIsFinal ==
  [][/\ \A c \in Calls : request[c] \notin {"none", "pending"} /\ request'[c] # request[c]
          => request'[c] \in {"none", "pending"} /\ phase[c] = "idle"
     /\ sessionAllowlist' = sessionAllowlist \cup
          {<< SessionOf[c], KeyOf[c] >> : c \in DecidedNow("approved_session")}
     /\ alwaysAllowlist' = alwaysAllowlist \cup
          {KeyOf[c] : c \in DecidedNow("approved_always")}]_vars

\* Every call returns, also one nobody answers and one that waits for a permit.
EveryCallReturns == \A c \in Calls : phase[c] # "idle" ~> phase[c] = "idle"

=============================================================================
