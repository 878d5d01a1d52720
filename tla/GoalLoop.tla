------------------------------ MODULE GoalLoop ------------------------------
(***************************************************************************)
(* The autonomous goal of one chat session: its status, the run that       *)
(* counts the iterations and failures since it was started or resumed, and *)
(* the loop that looks at the session after every turn, asks a judge       *)
(* whether the goal is reached, and queues or starts the next iteration.   *)
(*                                                                         *)
(* The queue of follow-ups is reduced to its order: the drain takes an     *)
(* item when no turn holds the mutex (ChatQueue has it in detail).  All    *)
(* that runs between two awaits is one step on the whole state, so that    *)
(* the handlers are written as functions on a record of all variables.     *)
(***************************************************************************)
EXTENDS Naturals, Sequences, FiniteSets, SequencesExt

CONSTANTS
  Limit,        \* goal_loop_max_iterations
  MaxFailures,  \* GOAL_LOOP_MAX_CONSECUTIVE_FAILURES
  MaxRequests,  \* bound on requests of the user and turns that throw
  MaxCrashes,   \* bound on restarts of the gateway
  MaxSettling   \* bound on turns that have released the mutex and have yet to settle

ASSUME LimitAssumption == Limit \in Nat \ {0} /\ MaxFailures \in Nat \ {0}
ASSUME BoundsAssumption == {MaxRequests, MaxCrashes, MaxSettling} \subseteq Nat

VARIABLES
  goal,        \* status of the session's goal, persisted
  run,         \* its GoalLoopState, persisted
  judge,       \* goalJudgmentsInFlight: the run and the answer that are judged
  requested,   \* goalJudgmentsRequested
  answer,      \* what the last assistant message of the transcript says
  resident,    \* the session is in chatSessions
  queue,       \* pendingChatQueues, by order; what became of the turn of each item
  turns,       \* holders of chatTurnMutex, the first one runs
  settling,    \* turns that released it, in order; their callers have yet to resume
  recovered,   \* resumePersistedActiveGoalLoops has run in this process
  requests, crashes,  \* counters for the bounds
  overlapped   \* history: a command met a step of the loop that was under way (Overlaps)

vars == << goal, run, judge, requested, answer, resident, queue, turns, settling, recovered,
           requests, crashes, overlapped >>

\* stop: the stopReason, "no" while there is none.  old: maxDurationSeconds have passed.
NewRun == [exists |-> TRUE, iterations |-> 0, failures |-> 0, stop |-> "no", old |-> FALSE]
NoRun == [NewRun EXCEPT !.exists = FALSE]
\* same: the judged run is still the one in the map; otherwise its last value is in run.
\* latest: the judged answer is still the last one.
Idle == [on |-> FALSE, same |-> FALSE, run |-> NoRun, latest |-> FALSE]

\* taken: materialized, since a turn began for it; answered: its answer is in the transcript.
QueuedItem == [kind : {"user", "iteration"}, state : {"waiting", "taken", "answered"}]
\* drained: the turn is that of the taken item.
Turn(kind) == [kind |-> kind, phase |-> "starting", drained |-> FALSE]
Item(kind) == [kind |-> kind, state |-> "waiting"]

Init ==
  \* The gateway starts without a goal, or it restarts and finds one.
  /\ \/ goal = "none" /\ run = NoRun /\ recovered = TRUE /\ crashes = 0
     \/ goal = "active" /\ run = NewRun /\ recovered = FALSE /\ crashes = MaxCrashes
  /\ judge = Idle /\ requested = FALSE
  /\ answer = "none" /\ resident = FALSE
  /\ queue = << >> /\ turns = << >> /\ settling = << >>
  /\ requests = 0 /\ overlapped = FALSE

State == [goal |-> goal, run |-> run, judge |-> judge, requested |-> requested,
          answer |-> answer, resident |-> resident, queue |-> queue, turns |-> turns,
          settling |-> settling]
Become(v) ==
  \E w \in {v} :
    /\ goal' = w.goal /\ run' = w.run /\ judge' = w.judge /\ requested' = w.requested
    /\ answer' = w.answer /\ resident' = w.resident /\ queue' = w.queue /\ turns' = w.turns
    /\ settling' = w.settling

-----------------------------------------------------------------------------
(* The transcript, the mutex and the queue. *)

Locked(w) == w.turns # << >>
HasPending(w) == \E i \in DOMAIN w.queue : w.queue[i].state = "waiting"
LastAnswer(w) == IF w.resident THEN w.answer ELSE "none"

Say(w, what) == [w EXCEPT !.answer = what, !.judge.latest = FALSE]
StartTurn(w, kind) == [w EXCEPT !.turns = Append(@, Turn(kind))]
\* The elements of s that are in T, in their order.
Keep(s, T) ==
  LET kept == {i \in DOMAIN s : s[i] \in T}
      nth(n) == CHOOSE i \in kept : Cardinality({j \in kept : j <= i}) = n
  IN [n \in 1 .. Cardinality(kept) |-> s[nth(n)]]
WithoutIterations(w) ==
  [w EXCEPT !.queue = Keep(@, {item \in QueuedItem : item.kind # "iteration"})]
\* A message of the user supersedes the queued iterations, also the one a turn is for.
Enqueue(w, kind) ==
  LET v == IF kind = "iteration" THEN w ELSE WithoutIterations(w)
  IN [v EXCEPT !.queue = Append(@, Item(kind))]

\* stopActiveChatTurn: only a running turn has a controller.  The interrupted message has
\* no content.
StopTurn(w) ==
  IF w.turns = << >> THEN w
  ELSE IF Head(w.turns).phase # "running" THEN w
  ELSE Say([w EXCEPT !.turns[1].phase = "stopped"], "none")

-----------------------------------------------------------------------------
(* The run.  Replacing or deleting it detaches the one that the judge holds. *)

Detach(w, new) ==
  [w EXCEPT !.run = new,
            !.judge = IF @.on /\ @.same THEN [@ EXCEPT !.same = FALSE, !.run = w.run] ELSE @]
RegisterStart(w) == Detach(w, NewRun)
ResetLoop(w) == Detach(w, NoRun)
Reserve(w) ==
  IF w.run.exists THEN [w EXCEPT !.run.iterations = @ + 1, !.run.stop = "no"] ELSE w
MarkStopped(w, reason) == IF w.run.exists THEN [w EXCEPT !.run.stop = reason] ELSE w
RecordOutcome(w, ok) ==
  IF w.run.exists THEN [w EXCEPT !.run.failures = IF ok THEN 0 ELSE @ + 1] ELSE w

\* pauseGoalLoopAtCheckpoint
PauseLoop(w, reason) == StopTurn([MarkStopped(w, reason) EXCEPT !.goal = "paused"])

\* kickOffGoalLoop
KickOff(w) ==
  LET v == Reserve(IF w.run.exists THEN w ELSE RegisterStart(w))
  IN IF v.resident /\ (Locked(v) \/ HasPending(v)) THEN Enqueue(v, "iteration")
     ELSE StartTurn(v, "iteration")

-----------------------------------------------------------------------------
(* scheduleGoalIterationAfterJudgment *)

Iterate(w) ==
  LET v == Reserve(w)
  IN IF Locked(v) THEN Enqueue(v, "iteration") ELSE StartTurn(v, "iteration")

\* Faulty: the iteration after the last one is still in the budget.
DecideLate(w, s) ==
  IF s.stop \in {"max_iterations", "max_duration"} THEN PauseLoop(w, s.stop)
  ELSE IF s.stop # "no" THEN ResetLoop(w)
  ELSE IF s.failures >= MaxFailures THEN PauseLoop(w, "error")
  ELSE IF s.iterations > Limit THEN PauseLoop(w, "max_iterations")
  ELSE IF s.old THEN PauseLoop(w, "max_duration")
  ELSE Iterate(w)
\* decideNextGoalIteration for an active goal and the run s, and what follows from it.
Decide(w, s) ==
  IF s.stop \in {"max_iterations", "max_duration"} THEN PauseLoop(w, s.stop)
  ELSE IF s.stop # "no" THEN ResetLoop(w)
  ELSE IF s.failures >= MaxFailures THEN PauseLoop(w, "error")
  ELSE IF s.iterations >= Limit THEN PauseLoop(w, "max_iterations")
  ELSE IF s.old THEN PauseLoop(w, "max_duration")
  ELSE Iterate(w)

\* Up to the call of the judge, or to the end.
Consider(w) ==
  LET v == IF w.run.exists THEN w ELSE RegisterStart(w)
  IN CASE w.goal # "active" -> ResetLoop(w)
       [] w.goal = "active" /\ LastAnswer(w) = "done" ->
            [ResetLoop(v) EXCEPT !.goal = "complete"]
       [] w.goal = "active" /\ LastAnswer(w) = "blocked" -> PauseLoop(v, "blocked")
       [] w.goal = "active" /\ LastAnswer(w) \notin {"done", "blocked"} ->
            IF v.queue # << >> THEN v
            ELSE IF v.run.failures = 0 /\ LastAnswer(v) = "plain"
            THEN [v EXCEPT !.judge = [Idle EXCEPT !.on = TRUE, !.same = TRUE, !.latest = TRUE]]
            ELSE Decide(v, v.run)

\* maybeScheduleGoalIteration
MaybeSchedule(w) == IF w.judge.on THEN [w EXCEPT !.requested = TRUE] ELSE Consider(w)

\* Faulty: whatever was requested meanwhile is forgotten.
FinishAndForget(w, again) == [w EXCEPT !.judge = Idle, !.requested = FALSE]
\* Faulty: the request is considered and kept.
FinishUncleared(w, again) ==
  LET v == [w EXCEPT !.judge = Idle]
  IN IF w.requested \/ again THEN MaybeSchedule(v) ELSE v
\* The judgment is over; what was requested meanwhile is considered now.
FinishJudgment(w, again) ==
  LET v == [w EXCEPT !.judge = Idle, !.requested = FALSE]
  IN IF w.requested \/ again THEN MaybeSchedule(v) ELSE v

\* Faulty: the goal is not looked at again.
StillActive(w) == TRUE
GoalIsActive(w) == w.goal = "active"

\* The judge answers; it fails open.
Judged(verdict) ==
  /\ judge.on
  /\ LET judged == IF judge.same THEN run ELSE judge.run
         w == State
     IN Become(IF ~GoalIsActive(w) THEN FinishJudgment(w, FALSE)
               ELSE IF ~judge.latest THEN FinishJudgment(w, TRUE)
               ELSE IF queue # << >> THEN FinishJudgment(w, FALSE)
               ELSE IF verdict = "done"
               THEN FinishJudgment([ResetLoop(w) EXCEPT !.goal = "complete"], FALSE)
               ELSE FinishJudgment(Decide(w, judged), FALSE))
  /\ UNCHANGED << recovered, requests, crashes, overlapped >>

-----------------------------------------------------------------------------
(* Turns. *)

Drained(holders) == \E i \in DOMAIN holders : holders[i].drained

\* The drain takes the first item of the queue, after a restart also one that was taken.
TakeHead ==
  /\ turns = << >> /\ queue # << >>
  /\ \/ Head(queue).state = "waiting"
     \/ Head(queue).state = "taken" /\ ~Drained(settling)
  /\ queue' = [queue EXCEPT ![1].state = "taken"]
  /\ turns' = << [Turn(Head(queue).kind) EXCEPT !.drained = TRUE] >>
  /\ resident' = TRUE
  /\ UNCHANGED << goal, run, judge, requested, answer, settling, recovered, requests, crashes,
                  overlapped >>

\* The user message is recorded and the abort controller installed.
BeginTurn ==
  /\ turns # << >> /\ Head(turns).phase = "starting"
  /\ turns' = [turns EXCEPT ![1].phase = "running"] /\ resident' = TRUE
  /\ UNCHANGED << goal, run, judge, requested, answer, queue, settling, recovered, requests,
                  crashes, overlapped >>

IsCommand(turn) == turn.kind \in {"command", "kickoff"}
\* The model calls are over and the controller is gone; the answer has yet to be stored.
EndModel ==
  /\ turns # << >> /\ Head(turns).phase = "running" /\ ~IsCommand(Head(turns))
  /\ turns' = [turns EXCEPT ![1].phase = "ending"]
  /\ UNCHANGED << goal, run, judge, requested, answer, resident, queue, settling, recovered,
                  requests, crashes, overlapped >>

\* Faulty: the item stays in the queue.
KeepTaken(w) == w
Untaken(w) == [w EXCEPT !.queue = Keep(@, {item \in QueuedItem : item.state = "waiting"})]
\* The drain finds that the turn of its item was answered: the turn has yet to settle, or
\* after a restart it had been stopped, or the answer that was cut short was recovered.
DrainAnswered ==
  /\ turns = << >> /\ queue # << >>
  /\ \E v \in {State, Say(State, "plain")} :
       /\ \/ Head(queue).state = "answered" /\ v = State
          \/ Head(queue).state = "taken" /\ ~Drained(settling)
       /\ Become(MaybeSchedule([Untaken(v) EXCEPT !.resident = TRUE]))
  /\ UNCHANGED << recovered, requests, crashes, overlapped >>

\* The turn answers, fails with an answer, or was stopped.  A command is always answered.
AnswerTurn(outcome) ==
  /\ turns # << >>
  /\ IF IsCommand(Head(turns))
     THEN Head(turns).phase \in {"running", "stopped"} /\ outcome = "plain"
     ELSE Head(turns).phase = IF outcome = "stopped" THEN "stopped" ELSE "ending"
  /\ LET w == [State EXCEPT
                 !.turns[1].phase = IF outcome = "fails" THEN "failed" ELSE "answered",
                 !.queue = [i \in DOMAIN @ |-> IF Head(turns).drained /\ @[i].state = "taken"
                                               THEN [@[i] EXCEPT !.state = "answered"] ELSE @[i]]]
     IN Become(CASE outcome \in {"plain", "done", "blocked"} -> Say(w, outcome)
                 [] outcome = "fails" -> Say(w, "plain")
                 [] outcome = "stopped" -> w)
  /\ UNCHANGED << recovered, requests, crashes, overlapped >>

\* The turn of a command that starts the work has stored its answer and kicks the loop off.
CommandWorks ==
  /\ turns # << >> /\ Head(turns).kind = "kickoff" /\ Head(turns).phase = "answered"
  /\ Become(KickOff([State EXCEPT !.turns[1].kind = "command"]))
  /\ UNCHANGED << recovered, requests, crashes, overlapped >>

\* The turn has released what it holds and frees the mutex, or it throws.
EndTurn(threw) ==
  /\ turns # << >> /\ Len(settling) < MaxSettling
  /\ IF threw THEN requests < MaxRequests /\ requests' = requests + 1
     ELSE /\ Head(turns).phase \in {"answered", "failed"} /\ Head(turns).kind # "kickoff"
          /\ requests' = requests
  /\ turns' = Tail(turns)
  /\ settling' = Append(settling, IF threw THEN [Head(turns) EXCEPT !.phase = "threw"]
                                  ELSE Head(turns))
  /\ UNCHANGED << goal, run, judge, requested, answer, resident, queue, recovered, crashes,
                  overlapped >>

\* What follows a turn: the outcome of an iteration is recorded and the loop looks at the
\* session while the item is still queued; then the drain removes the item and looks again.
Settled(w, turn) ==
  MaybeSchedule(IF turn.kind = "iteration" THEN RecordOutcome(w, turn.phase = "answered") ELSE w)
\* An item taken after this turn is not its own.
Cleaned(w) == IF Drained(w.settling) \/ Drained(w.turns) THEN w ELSE Untaken(w)
Settle ==
  /\ settling # << >> /\ Head(settling).phase # "reported"
  /\ LET turn == Head(settling)
         v == Settled([State EXCEPT !.settling = Tail(@)], turn)
     IN Become(IF ~turn.drained THEN v
               ELSE IF turn.phase = "threw"
               THEN [v EXCEPT !.settling = << [turn EXCEPT !.phase = "reported"] >> \o @]
               ELSE MaybeSchedule(Cleaned(v)))
  /\ UNCHANGED << recovered, requests, crashes, overlapped >>
\* The failure of a queued turn is stored behind its message, where it is the last answer or
\* not, and its item removed; the loop does not look again.
StoreFailure ==
  /\ settling # << >> /\ Head(settling).phase = "reported"
  /\ \E v \in {State, Say(State, "plain")} : Become(Cleaned([v EXCEPT !.settling = Tail(@)]))
  /\ UNCHANGED << recovered, requests, crashes, overlapped >>

-----------------------------------------------------------------------------
(* The user. *)

Request == requests < MaxRequests /\ requests' = requests + 1 /\ UNCHANGED << recovered, crashes >>

\* Is the command accepted, and what does it do to goal and run?
Accepted(action) ==
  CASE action = "start" -> goal \in {"none", "complete"}
    [] action \in {"resume", "edit"} -> goal # "none"
    [] action \in {"pause", "block", "complete", "clear"} -> TRUE
Starts(action) == action \in {"start", "resume", "edit"}
Status(action) ==
  CASE action \in {"start", "resume"} -> "active"
    [] action = "edit" -> IF goal = "complete" THEN "active" ELSE goal
    [] action = "clear" -> "none"
    [] action = "pause" -> IF goal = "none" THEN "none" ELSE "paused"
    [] action = "block" -> IF goal = "none" THEN "none" ELSE "blocked"
    [] action = "complete" -> IF goal = "none" THEN "none" ELSE "complete"
\* The route that clears a goal leaves the run.
Command(action, byRoute) ==
  LET w == [State EXCEPT !.goal = Status(action)]
  IN IF Starts(action) THEN IF w.goal = "active" THEN RegisterStart(w) ELSE w
     ELSE IF action = "clear" /\ byRoute THEN w ELSE ResetLoop(w)

\* applyGoalCommandSideEffects of a command that ends the work.
StopWork(w) == StopTurn(WithoutIterations(w))

\* A judgment runs, the loop of before a restart has yet to go on, or a command has yet to
\* be answered.
Overlaps == judge.on \/ ~recovered \/ \E i \in DOMAIN turns : IsCommand(turns[i])

RouteCommand(action) ==
  /\ Accepted(action) /\ Request
  /\ LET w == Command(action, TRUE)
     IN Become(IF ~Starts(action) THEN StopWork(w)
               ELSE IF w.goal = "active" THEN KickOff(w) ELSE w)
  /\ overlapped' = (overlapped \/ Overlaps)

\* In the chat the command works at once, a kick-off only in the turn that answers it.
ChatCommand(action) ==
  /\ Accepted(action) /\ Request
  /\ LET w == Command(action, FALSE)
     IN Become(IF Starts(action)
               THEN StartTurn(w, IF w.goal = "active" THEN "kickoff" ELSE "command")
               ELSE StartTurn(StopWork(w), "command"))
  /\ overlapped' = (overlapped \/ Overlaps \/ 
                      (Starts(action) /\ << turns, queue, settling >> # << << >>, << >>, << >> >>))

UserMessage ==
  /\ Request
  /\ Become(IF Locked(State) \/ HasPending(State) THEN Enqueue(State, "user")
            ELSE StartTurn(State, "user"))
  /\ UNCHANGED overlapped

UserStops == Request /\ StopTurn(State) # State /\ Become(StopTurn(State)) /\ UNCHANGED overlapped

-----------------------------------------------------------------------------
\* The time budget of the current run, and of the judged one, is used up.
TimePasses ==
  /\ run.exists /\ ~run.old
  /\ run' = [run EXCEPT !.old = TRUE]
  /\ judge' = [judge EXCEPT !.run.old = @ \/ judge.run.exists]
  /\ UNCHANGED << goal, requested, answer, resident, queue, turns, settling, recovered,
                  requests, crashes, overlapped >>

\* Goal, run and queue are restored; five seconds later active goals go on.
Crash ==
  /\ crashes < MaxCrashes /\ crashes' = crashes + 1
  /\ turns' = << >> /\ settling' = << >> /\ judge' = Idle /\ requested' = FALSE /\ resident' = FALSE
  /\ recovered' = FALSE
  /\ UNCHANGED << goal, run, answer, queue, requests, overlapped >>

Recover ==
  /\ ~recovered /\ recovered' = TRUE
  /\ Become(IF goal = "active" THEN MaybeSchedule(State) ELSE State)
  /\ UNCHANGED << requests, crashes, overlapped >>

Actions == {"start", "resume", "edit", "pause", "block", "complete", "clear"}
Outcomes == {"plain", "done", "blocked", "fails", "stopped"}

Next ==
  \/ \E action \in Actions : RouteCommand(action) \/ ChatCommand(action)
  \/ UserMessage \/ UserStops
  \/ TakeHead \/ DrainAnswered \/ BeginTurn \/ EndModel \/ CommandWorks \/ Settle \/ StoreFailure
  \/ \E outcome \in Outcomes : AnswerTurn(outcome)
  \/ \E threw \in BOOLEAN : EndTurn(threw)
  \/ \E verdict \in {"continue", "done"} : Judged(verdict)
  \/ TimePasses \/ Crash \/ Recover

\* Timers fire, the judge answers or fails, and turns end: each has a deadline.
Fairness ==
  /\ WF_vars(TakeHead \/ DrainAnswered) /\ WF_vars(Settle \/ StoreFailure) /\ WF_vars(Recover)
  /\ WF_vars(\/ BeginTurn \/ EndModel \/ CommandWorks
             \/ \E outcome \in Outcomes : AnswerTurn(outcome)
             \/ \E threw \in BOOLEAN : EndTurn(threw))
  /\ WF_vars(\E verdict \in {"continue", "done"} : Judged(verdict))

Spec == Init /\ [][Next]_vars
FairSpec == Spec /\ Fairness

-----------------------------------------------------------------------------
Runs == [exists : BOOLEAN, iterations : Nat, failures : Nat, old : BOOLEAN,
         stop : {"no", "blocked", "max_iterations", "max_duration", "error"}]
Holders == [kind : {"user", "iteration", "command", "kickoff"}, drained : BOOLEAN,
            phase : {"starting", "running", "stopped", "ending", "answered", "failed", "threw",
                     "reported"}]
TypeOK ==
  /\ goal \in {"none", "active", "paused", "blocked", "complete"}
  /\ run \in Runs /\ (~run.exists => run = NoRun)
  /\ judge \in [on : BOOLEAN, same : BOOLEAN, run : Runs, latest : BOOLEAN]
  /\ (requested => judge.on) /\ requested \in BOOLEAN
  /\ answer \in {"none", "plain", "done", "blocked"}
  /\ resident \in BOOLEAN /\ recovered \in BOOLEAN /\ overlapped \in BOOLEAN
  /\ queue \in Seq(QueuedItem)
  /\ turns \in Seq(Holders) /\ settling \in Seq(Holders)
  /\ requests \in 0 .. MaxRequests /\ crashes \in 0 .. MaxCrashes

\* Iterations that wait in the queue, and those that hold or await the mutex of themselves.
QueuedIterations(items) == {i \in DOMAIN items : items[i].kind = "iteration"}
OwnIterations(holders) ==
  {i \in DOMAIN holders : holders[i].kind = "iteration" /\ ~holders[i].drained}
Waiting == Cardinality(QueuedIterations(queue)) + Cardinality(OwnIterations(turns))

\* A checkpoint pauses a run whose own budget is used up: "/goal resume starts a fresh run
\* budget" (cli.md:98).
FreshBudget == run.stop = "max_iterations" => run.iterations >= Limit

Checkpoints == {"max_iterations", "max_duration", "error"}
\* What the loop does after the judge's answer fits the run as it is then, unless the user
\* gave a command meanwhile: it pauses a run only for the reason the run has, and never
\* gives it more iterations than its budget.
LoopFollowsRun ==
  ~overlapped => /\ FreshBudget
                 /\ run.stop = "error" => run.failures >= MaxFailures
                 /\ run.exists => run.iterations <= Limit

\* No step adds an iteration for a goal that is not active, nor by a run that has failed too
\* often, whatever the user did while the judge was asked.  The goal stays active too, unless
\* the look that follows at once finds that the run has reached a checkpoint (as it does when
\* the failure of the judged answer was recorded meanwhile): then the loop itself pauses it.
\* Only a turn that answers "/goal resume" may work for a goal that was paused again.
WorksForActiveGoals ==
  [][Waiting' > Waiting =>
       \/ turns # << >> /\ Head(turns).kind = "kickoff"
       \/ /\ \/ goal' = "active"
             \/ goal = "active" /\ goal' = "paused" /\ run'.stop \in Checkpoints
          /\ run'.failures < MaxFailures \/ (judge.on /\ ~judge.same)]_vars

\* The failure of a queued turn that threw is about to be stored.
FailureReported == settling # << >> /\ Head(settling).phase = "reported"

\* Unless a queued turn throws (the loop does not look again once its failure is stored), an
\* active goal goes on, through user turns, stops, failures, commands and a restart, until it
\* is no longer active: some iteration runs again.
ActiveGoalGoesOn ==
  []~FailureReported =>
    (goal = "active" ~> goal # "active" \/ (turns # << >> /\ Head(turns).kind = "iteration"
                                             /\ Head(turns).phase = "running"))

\* Iterations that are left when a goal is paused, blocked, completed or cleared come to an
\* end, and no new ones follow them.
LeftoversEnd == goal # "active" ~> goal = "active" \/ Waiting = 0

=============================================================================
