------------------------------ MODULE ChatQueue ------------------------------
(***************************************************************************)
(* The follow-up queue of one chat session of the gateway.  A message sent *)
(* while the session is busy is accepted as a pending item, kept in memory *)
(* and in the pending_chat_messages table, and later either run as a turn  *)
(* of its own by the drain timer or absorbed by the running turn as        *)
(* steering.  The gateway may stop between any two steps and restart.      *)
(*                                                                         *)
(* Items are numbered in the order of acceptance, which is the order of    *)
(* createdAt.  The array of the code is the set of present entries ordered *)
(* by (sequence, createdAt): every writer of the array keeps it so.        *)
(***************************************************************************)
EXTENDS Naturals, FiniteSets, Sequences, SequencesExt

CONSTANTS
  NumItems,      \* follow-ups the clients may send
  GoalItems,     \* the follow-ups that are goal-loop iterations
  AwaitedItems,  \* the follow-ups sent with awaitQueuedCompletion
  Capacity,      \* MAX_PENDING_CHAT_MESSAGES_PER_SESSION
  MaxSequence,   \* bound on pendingChatSequence
  MaxRequests,   \* bound on direct sends, steer requests, goal commands and agent updates
  MaxCrashes,    \* bound on restarts of the gateway
  Enabled        \* the optional behaviours of the environment

Items == 1 .. NumItems
Direct == 0      \* stands for a turn that runs no pending item

Behaviours == {"steer", "reorder", "agentUpdate", "goalCommand", "delete",
               "throw", "lateThrow", "abort"}

ASSUME ItemsAssumption == NumItems \in Nat \ {0}
ASSUME KindsAssumption == GoalItems \subseteq Items /\ AwaitedItems \subseteq Items \ GoalItems
ASSUME BoundsAssumption ==
  {Capacity, MaxSequence, MaxRequests, MaxCrashes} \subseteq Nat
ASSUME EnabledAssumption == Enabled \subseteq Behaviours

VARIABLES
  queue,       \* pendingChatQueues: the entry of each item, Absent when not queued
  rows,        \* pending_chat_messages: the durable entry of each item
  counter,     \* pendingChatSequence
  drainTimer,  \* the session is in pendingChatDrainScheduled
  turn,        \* the turn that holds the mutex: its phase, its item, what it absorbed
  lockQueue,   \* other holders of chatTurnMutex, waiting or running
  controller,  \* the session's entry in activeChatTurnAbortControllers
  active,      \* the run status snapshot is an active one
  settling,    \* turns that released the mutex and whose caller has yet to resume, oldest first
  messages,    \* the transcript, in memory and in session_messages
  waiter,      \* pendingChatCompletions of the awaited items
  resident,    \* the session is in chatSessions
  restored,    \* restorePersistedPendingChatQueues has run in this process
  orphan,      \* the last process died in a run that has no assistant message
  deletion,    \* the progress of deleteSession
  accepted,    \* how many follow-ups have been accepted
  requests, crashes,  \* counters for the bounds
  history      \* what happened to the items, for the properties only

queueVars == << queue, rows, counter >>
runVars == << turn, lockQueue, controller, active, settling >>
sessionVars == << resident, restored, orphan, deletion >>
boundVars == << accepted, requests, crashes >>
vars == << queueVars, drainTimer, runVars, messages, waiter, sessionVars, boundVars,
           history >>

Absent == [mode |-> "absent", materialized |-> FALSE, sequence |-> 0]
Entry == [mode : {"absent", "queued", "steering"}, materialized : BOOLEAN,
          sequence : 0 .. MaxSequence]
NoTurn == [phase |-> "none", item |-> Direct, absorbed |-> {}]
Message == [kind : {"user", "reply", "interrupted", "recovered", "failure"},
            of : Items \cup {Direct}]
User(i) == [kind |-> "user", of |-> i]

Queued == {i \in Items : queue[i].mode # "absent"}
Visible == {i \in Queued : ~queue[i].materialized}
Steering == {i \in Queued : queue[i].mode = "steering"}
\* Faulty: a stack.
NewestFirst(i, j) == queue[i].sequence > queue[j].sequence
Before(i, j) ==
  \/ queue[i].sequence < queue[j].sequence
  \/ queue[i].sequence = queue[j].sequence /\ i < j
IsHead(i) == i \in Queued /\ \A j \in Queued \ {i} : Before(i, j)

Locked == turn.phase # "none" \/ lockQueue # {}

Recorded(i) == \E k \in DOMAIN messages : messages[k] = User(i)
\* Faulty: the transcript is not consulted.
NeverAnswered(i) == FALSE
\* The message after the item's own is an assistant message.
Answered(i) ==
  \E k \in DOMAIN messages : /\ messages[k] = User(i)
                             /\ k + 1 \in DOMAIN messages
                             /\ messages[k + 1].kind # "user"
\* A user message a stop may answer: not the one of a steering item whose turn has yet
\* to claim it.
Answerable(k) ==
  /\ messages[k].kind = "user"
  /\ ~(/\ turn.phase = "starting" /\ turn.item \in Steering
       /\ messages[k] = User(turn.item) /\ queue[turn.item].materialized)
LastUser(k) ==
  /\ k \in DOMAIN messages /\ Answerable(k)
  /\ \A l \in DOMAIN messages : l > k => ~Answerable(l)
InterruptedAt(k) ==
  k + 1 \in DOMAIN messages /\ messages[k + 1].kind = "interrupted"

\* messages' has m after the latest user message, when there is one.
InsertAfterLastUser(m) ==
  IF \E k \in DOMAIN messages : Answerable(k)
  THEN \E k \in DOMAIN messages : LastUser(k) /\ messages' = InsertAt(messages, k + 1, m)
  ELSE UNCHANGED messages
\* Faulty: a stop leaves no trace.
PersistNothing == UNCHANGED messages
PersistInterrupted ==
  IF \E k \in DOMAIN messages : LastUser(k) /\ InterruptedAt(k)
  THEN UNCHANGED messages
  ELSE InsertAfterLastUser([kind |-> "interrupted", of |-> turn.item])

\* Faulty: the whole session's entries go; or the entry leaves the function's domain.
DropAll(entries, S) == [i \in Items |-> IF S # {} THEN Absent ELSE entries[i]]
DropKey(entries, S) == [i \in Items \ S |-> entries[i]]
Drop(entries, S) == [i \in Items |-> IF i \in S THEN Absent ELSE entries[i]]
\* Faulty: the row is left behind.
RemoveFromMemory(S) == queue' = Drop(queue, S) /\ UNCHANGED rows
\* Removal from the array and from the table.
RemoveItems(S) == queue' = Drop(queue, S) /\ rows' = Drop(rows, S)
\* Faulty: nobody is answered.
SettledNever(S, outcome) == waiter
Settled(S, outcome) ==
  [i \in Items |-> IF i \in S /\ waiter[i] = "waiting" THEN outcome ELSE waiter[i]]
Withdraw(S) == history' = [history EXCEPT !.withdrawn = @ \cup S]

-----------------------------------------------------------------------------
Init ==
  /\ queue = [i \in Items |-> Absent] /\ rows = [i \in Items |-> Absent]
  /\ counter = 0 /\ drainTimer = FALSE
  /\ turn = NoTurn /\ lockQueue = {} /\ controller = "none" /\ active = FALSE
  /\ settling = << >> /\ messages = << >>
  /\ waiter = [i \in Items |-> "none"]
  /\ resident = FALSE /\ restored = TRUE /\ orphan = FALSE /\ deletion = "none"
  /\ accepted = 0 /\ requests = 0 /\ crashes = 0
  /\ history = [withdrawn |-> {}, dropped |-> {}]

-----------------------------------------------------------------------------
(* Requests that change the queue. *)

\* handleChat with nothing ahead of it: the message runs at once as a turn.
SendDirect ==
  /\ requests < MaxRequests /\ deletion = "none"
  /\ ~Locked /\ Visible = {}
  /\ requests' = requests + 1
  /\ turn' = [NoTurn EXCEPT !.phase = "starting"]
  /\ UNCHANGED << queueVars, sessionVars, drainTimer, lockQueue, controller, active,
                  settling, messages, waiter, accepted, crashes, history >>

\* The item is pushed with the next sequence number; superseded items go first.
Accept(i, mode, superseded) ==
  /\ Cardinality(Queued \ superseded) < Capacity
  /\ counter < MaxSequence
  /\ accepted' = i /\ counter' = counter + 1
  /\ LET entry == [mode |-> mode, materialized |-> FALSE, sequence |-> counter + 1]
     IN /\ queue' = [Drop(queue, superseded) EXCEPT ![i] = entry]
        /\ rows' = [Drop(rows, superseded) EXCEPT ![i] = entry]
  /\ waiter' = [Settled(superseded, "rejected") EXCEPT
                  ![i] = IF i \in AwaitedItems THEN "waiting" ELSE "none"]
  /\ Withdraw(superseded)

\* handleChat while the session is busy: queue the follow-up, and schedule the
\* drain unless the mutex is held.
Enqueue(i, mode) ==
  /\ i = accepted + 1 /\ i \notin GoalItems /\ deletion = "none"
  /\ Locked \/ Visible # {} \/ active
  /\ mode = "steering" => "steer" \in Enabled
  /\ Accept(i, mode, Queued \cap GoalItems)
  /\ drainTimer' = (drainTimer \/ ~Locked)
  /\ UNCHANGED << runVars, sessionVars, messages, requests, crashes >>

\* The goal loop queues its next iteration behind a busy session.
EnqueueGoalIteration(i) ==
  /\ i = accepted + 1 /\ i \in GoalItems
  /\ Locked \/ (resident /\ Visible # {})
  /\ Accept(i, "queued", {})
  /\ drainTimer' = TRUE
  /\ UNCHANGED << runVars, sessionVars, messages, requests, crashes >>

\* A full queue refuses the message after its sequence number has been taken and, for a
\* client's, the goal iterations have gone.  The refused goal loop schedules no drain.
RefuseWhenFull(byGoalLoop) ==
  LET superseded == IF byGoalLoop THEN {} ELSE Queued \cap GoalItems
  IN /\ IF byGoalLoop THEN GoalItems # {} /\ (Locked \/ (resident /\ Visible # {}))
                      ELSE deletion = "none" /\ (Locked \/ Visible # {} \/ active)
     /\ Cardinality(Queued \ superseded) >= Capacity
     /\ counter < MaxSequence /\ counter' = counter + 1
     /\ RemoveItems(superseded) /\ waiter' = Settled(superseded, "rejected")
     /\ Withdraw(superseded)
     /\ UNCHANGED << runVars, sessionVars, boundVars, drainTimer, messages >>

\* steerPendingChatMessage: the entry becomes a new object that is not materialized.
Steer(i) ==
  /\ "steer" \in Enabled /\ requests < MaxRequests
  /\ resident /\ i \in Queued
  /\ ~(queue[i].mode = "queued" /\ queue[i].materialized)
  /\ LET entry == [queue[i] EXCEPT !.mode = "steering", !.materialized = FALSE]
     IN queue' = [queue EXCEPT ![i] = entry] /\ rows' = [rows EXCEPT ![i] = entry]
  /\ drainTimer' = TRUE /\ requests' = requests + 1
  /\ UNCHANGED << runVars, sessionVars, counter, messages, waiter, accepted, crashes,
                  history >>

\* reorderPendingChatMessages: the visible items take fresh sequence numbers in the
\* order asked for, and the whole array is persisted.
Reorder ==
  /\ "reorder" \in Enabled
  /\ Visible # {} /\ counter + Cardinality(Visible) <= MaxSequence
  /\ \E rank \in [Visible -> 1 .. Cardinality(Visible)] :
       /\ \A i, j \in Visible : rank[i] = rank[j] => i = j
       /\ LET reordered ==
                [i \in Items |-> IF i \in Visible
                                 THEN [queue[i] EXCEPT !.sequence = counter + rank[i]]
                                 ELSE queue[i]]
          IN /\ queue' = reordered
             /\ rows' = [i \in Items |-> IF i \in Queued THEN reordered[i] ELSE rows[i]]
  /\ counter' = counter + Cardinality(Visible)
  /\ UNCHANGED << runVars, sessionVars, boundVars, drainTimer, messages, waiter, history >>

\* deletePendingChatMessage
DeletePending(i) ==
  /\ i \in Visible
  /\ RemoveItems({i}) /\ waiter' = Settled({i}, "rejected") /\ Withdraw({i})
  /\ UNCHANGED << runVars, sessionVars, boundVars, counter, drainTimer, messages >>

-----------------------------------------------------------------------------
(* The drain timer.  While the mutex is held or the run status is active the *)
(* timer only re-arms itself, so those firings are not steps.                *)

DrainFires == drainTimer /\ ~Locked /\ ~active
SessionExists == resident \/ messages # << >>

\* Faulty: a firing that finds work loses the timer.
DrainLoses ==
  /\ DrainFires /\ drainTimer' = FALSE
  /\ UNCHANGED << queueVars, runVars, messages, waiter, sessionVars, boundVars, history >>
DrainEmpty ==
  /\ DrainFires /\ Queued = {}
  /\ drainTimer' = FALSE
  /\ UNCHANGED << queueVars, runVars, sessionVars, boundVars, messages, waiter,
                  history >>

\* The session cannot be restored: the item is dropped and its caller told so.
DrainDrop(i) ==
  /\ DrainFires /\ IsHead(i) /\ ~SessionExists
  /\ RemoveItems({i}) /\ waiter' = Settled({i}, "rejected")
  /\ history' = [history EXCEPT !.dropped = @ \cup {i}]
  /\ UNCHANGED << runVars, sessionVars, boundVars, counter, drainTimer, messages >>

\* A materialized head whose answer is in the transcript is only cleaned up.
DrainAnswered(i) ==
  /\ DrainFires /\ IsHead(i) /\ SessionExists
  /\ queue[i].materialized /\ Answered(i)
  /\ RemoveItems({i}) /\ waiter' = Settled({i}, "resolved")
  /\ resident' = TRUE
  /\ UNCHANGED << runVars, boundVars, counter, drainTimer, messages, restored, orphan,
                  deletion, history >>

\* The head's message is recorded, its entry marked materialized, its turn started.
DrainStart(i) ==
  /\ DrainFires /\ IsHead(i) /\ SessionExists
  /\ ~(queue[i].materialized /\ Answered(i))
  /\ messages' = IF Recorded(i) THEN messages ELSE Append(messages, User(i))
  /\ queue' = [queue EXCEPT ![i].materialized = TRUE]
  /\ rows' = [rows EXCEPT ![i] = queue'[i]]
  /\ drainTimer' = FALSE /\ active' = TRUE /\ resident' = TRUE
  /\ turn' = [phase |-> "starting", item |-> i, absorbed |-> {}]
  /\ UNCHANGED << boundVars, counter, lockQueue, controller, settling, waiter, restored,
                  orphan, deletion, history >>

-----------------------------------------------------------------------------
(* The turn that holds the mutex. *)

\* The user message of a direct turn is recorded and the abort controller installed.
TurnBegin ==
  /\ turn.phase = "starting"
  /\ turn' = [turn EXCEPT !.phase = "running"]
  /\ messages' = IF turn.item = Direct THEN Append(messages, User(Direct)) ELSE messages
  /\ controller' = "live" /\ active' = TRUE /\ resident' = TRUE
  /\ UNCHANGED << queueVars, boundVars, drainTimer, lockQueue, settling, waiter,
                  restored, orphan, deletion, history >>

\* No agent can take a direct turn: it ends before anything is recorded.
TurnRefused ==
  /\ turn.phase = "starting" /\ turn.item = Direct
  /\ turn' = [turn EXCEPT !.phase = "replied"]
  /\ resident' = SessionExists
  /\ UNCHANGED << queueVars, boundVars, drainTimer, lockQueue, controller, active,
                  settling, messages, waiter, restored, orphan, deletion, history >>

\* At a tool boundary the running turn takes every steering item, in queue order,
\* its own included when it was started from one.
Absorb ==
  /\ turn.phase = "running" /\ controller = "live" /\ Steering # {}
  /\ LET new == {i \in Steering : ~Recorded(i)}
     IN \E order \in [1 .. Cardinality(new) -> new] :
          /\ \A k, l \in 1 .. Cardinality(new) : k < l => Before(order[k], order[l])
          /\ messages' = messages \o [k \in 1 .. Cardinality(new) |-> User(order[k])]
  /\ RemoveItems(Steering)
  /\ turn' = [turn EXCEPT !.absorbed = @ \cup Steering]
  /\ UNCHANGED << sessionVars, boundVars, counter, drainTimer, lockQueue, controller,
                  active, settling, waiter, history >>

\* The assistant message is recorded and the absorbed callers are answered.
TurnReply ==
  /\ turn.phase = "running" /\ controller = "live"
  /\ messages' = Append(messages, [kind |-> "reply", of |-> turn.item])
  /\ controller' = "none" /\ active' = FALSE
  /\ waiter' = Settled(turn.absorbed, "resolved")
  /\ turn' = [turn EXCEPT !.phase = "replied", !.absorbed = {}]
  /\ UNCHANGED << queueVars, sessionVars, boundVars, drainTimer, lockQueue, settling,
                  history >>

\* finishAbortedChatTurn: the interrupted answer is in the transcript exactly once.
TurnAbortFinish ==
  /\ turn.phase = "running" /\ controller \in {"stopped", "aborted"}
  /\ PersistInterrupted
  /\ controller' = "none" /\ active' = FALSE
  /\ waiter' = Settled(turn.absorbed, "resolved")
  /\ turn' = [turn EXCEPT !.phase = "replied", !.absorbed = {}]
  /\ UNCHANGED << queueVars, sessionVars, boundVars, drainTimer, lockQueue, settling,
                  history >>

\* An error the turn does not catch.  Before the model is called it leaves the abort
\* controller installed; after it, absorbed steering may be unanswered.  Neither
\* resets the run status.
Throw ==
  /\ \/ /\ "throw" \in Enabled /\ turn.phase = "starting"
        /\ resident' \in {resident, TRUE} /\ UNCHANGED controller
     \/ /\ "throw" \in Enabled /\ turn.phase = "running" /\ turn.absorbed = {}
        /\ UNCHANGED << resident, controller >>
     \/ /\ "lateThrow" \in Enabled /\ turn.phase = "running"
        /\ controller' = "none" /\ UNCHANGED resident
  /\ turn' = [turn EXCEPT !.phase = "threw"]
  /\ UNCHANGED << queueVars, boundVars, drainTimer, lockQueue, active, settling,
                  messages, waiter, restored, orphan, deletion, history >>

\* The mutex is released; the caller resumes only after the trajectory recorder, which
\* serves its requests in order, has stopped.
TurnEnd ==
  /\ turn.phase \in {"replied", "threw"}
  /\ settling' = Append(settling, [item |-> turn.item, outcome |-> turn.phase])
  /\ turn' = NoTurn
  /\ UNCHANGED << queueVars, sessionVars, boundVars, drainTimer, lockQueue, controller,
                  active, messages, waiter, history >>

\* The failure message goes behind the item's own.
RecordFailure(i) ==
  LET failure == [kind |-> "failure", of |-> i]
  IN IF Recorded(i)
     THEN \E k \in DOMAIN messages :
            messages[k] = User(i) /\ messages' = InsertAt(messages, k + 1, failure)
     ELSE messages' = Append(messages, failure)

\* The caller of a finished turn resumes: the drain is scheduled and, for a pending
\* item, its row removed and its own caller answered.  A failed item first gets a
\* failure message behind its own.
Settle ==
  /\ settling # << >> /\ settling' = Tail(settling)
  /\ drainTimer' = TRUE
  /\ LET item == Head(settling).item
         threw == Head(settling).outcome = "threw"
     IN /\ IF threw /\ item # Direct THEN RecordFailure(item) ELSE UNCHANGED messages
        /\ RemoveItems({item} \ {Direct})
        /\ waiter' = Settled({item}, IF threw THEN "rejected" ELSE "resolved")
  /\ UNCHANGED << sessionVars, boundVars, counter, turn, lockQueue, controller, active,
                  history >>

\* stopActiveChatTurn, which also runs when a goal is paused or completed.
StopTurn ==
  IF controller = "live"
  THEN /\ controller' = "stopped"
       /\ IF resident THEN PersistInterrupted ELSE UNCHANGED messages
  ELSE UNCHANGED << controller, messages >>
Stop ==
  /\ controller = "live" /\ StopTurn
  /\ UNCHANGED << queueVars, sessionVars, boundVars, drainTimer, turn, lockQueue,
                  active, settling, waiter, history >>

\* The request's own abort signal, for instance a disconnected client.
AbortRequest ==
  /\ "abort" \in Enabled /\ turn.phase = "running" /\ controller = "live"
  /\ controller' = "aborted"
  /\ UNCHANGED << queueVars, sessionVars, boundVars, drainTimer, turn, lockQueue,
                  active, settling, messages, waiter, history >>

-----------------------------------------------------------------------------
(* Other holders of the mutex, and the status snapshot. *)

RequestAgentUpdate ==
  /\ "agentUpdate" \in Enabled \ lockQueue /\ SessionExists /\ requests < MaxRequests
  /\ lockQueue' = lockQueue \cup {"agentUpdate"} /\ requests' = requests + 1
  /\ UNCHANGED << queueVars, sessionVars, drainTimer, turn, controller, active, settling,
                  messages, waiter, accepted, crashes, history >>

\* updateSessionAgent ends: the mutex is free again and no drain is scheduled.
AgentUpdated ==
  /\ "agentUpdate" \in lockQueue /\ turn.phase = "none"
  /\ lockQueue' = lockQueue \ {"agentUpdate"}
  /\ resident' = SessionExists
  /\ UNCHANGED << queueVars, boundVars, drainTimer, turn, controller, active, settling,
                  messages, waiter, restored, orphan, deletion, history >>

\* A goal is paused, blocked, completed or cleared: its queued iterations go, the
\* running turn is stopped, and the command waits for the mutex as a turn.
GoalCommand ==
  /\ "goalCommand" \in Enabled /\ requests < MaxRequests /\ deletion = "none"
  /\ LET goals == Queued \cap GoalItems
     IN RemoveItems(goals) /\ waiter' = Settled(goals, "rejected") /\ Withdraw(goals)
  /\ StopTurn
  /\ lockQueue' = lockQueue \cup {"goalCommand"}
  /\ requests' = requests + 1
  /\ UNCHANGED << sessionVars, counter, drainTimer, turn, active, settling, accepted,
                  crashes >>

GoalCommandTurn ==
  /\ "goalCommand" \in lockQueue /\ turn.phase = "none"
  /\ lockQueue' = lockQueue \ {"goalCommand"}
  /\ turn' = [NoTurn EXCEPT !.phase = "starting"]
  /\ UNCHANGED << queueVars, sessionVars, boundVars, drainTimer, controller, active,
                  settling, messages, waiter, history >>

\* Faulty: a stale snapshot stays.
StatusStays == FALSE /\ UNCHANGED vars
\* An active snapshot nobody refreshes is dropped after STATUS_STALE_MS, unless the
\* mutex is held.
StatusExpire ==
  /\ active /\ ~Locked /\ active' = FALSE
  /\ UNCHANGED << queueVars, sessionVars, boundVars, drainTimer, turn, lockQueue,
                  controller, settling, messages, waiter, history >>

-----------------------------------------------------------------------------
(* Restarts. *)

\* The process dies: memory is lost, the tables stay.  A run whose status was active
\* and that has no interrupted message yet is left for recovery.
Crash ==
  /\ crashes < MaxCrashes /\ crashes' = crashes + 1
  /\ queue' = [i \in Items |-> Absent] /\ counter' = 0
  /\ drainTimer' = FALSE /\ turn' = NoTurn /\ lockQueue' = {} /\ controller' = "none"
  /\ orphan' = (active /\ controller # "stopped" /\ messages # << >>)
  /\ active' = FALSE /\ settling' = << >>
  /\ waiter' = Settled(Items, "lost")
  /\ resident' = FALSE /\ restored' = FALSE
  /\ deletion' = IF deletion = "gone" THEN "gone" ELSE "none"
  /\ UNCHANGED << rows, messages, accepted, requests, history >>

\* The process dies inside the drain, after the head's message is recorded and before
\* its row says so.
CrashMaterializing(i) ==
  /\ DrainFires /\ IsHead(i) /\ SessionExists /\ ~Recorded(i)
  /\ crashes < MaxCrashes /\ crashes' = crashes + 1
  /\ messages' = Append(messages, User(i))
  /\ queue' = [j \in Items |-> Absent] /\ counter' = 0 /\ drainTimer' = FALSE
  /\ controller' = "none" /\ settling' = << >> /\ waiter' = Settled(Items, "lost")
  /\ resident' = FALSE /\ restored' = FALSE /\ orphan' = FALSE
  /\ deletion' = IF deletion = "gone" THEN "gone" ELSE "none"
  /\ UNCHANGED << rows, turn, lockQueue, active, accepted, requests, history >>

\* restorePersistedPendingChatQueues, 1.2 s after the start: the rows join whatever was
\* queued meanwhile.
Restore ==
  /\ ~restored /\ restored' = TRUE
  /\ queue' = [i \in Items |-> IF i \in Queued THEN queue[i] ELSE rows[i]]
  /\ \E c \in {counter} \cup {rows[i].sequence : i \in Items} :
       /\ c >= counter /\ \A i \in Items : c >= rows[i].sequence
       /\ counter' = c
  /\ drainTimer' = (drainTimer \/ \E i \in Items : rows[i] # Absent)
  /\ UNCHANGED << runVars, boundVars, rows, messages, waiter, resident, orphan,
                  deletion, history >>

\* getSession of a session that is not in memory: a run the last process left gets its
\* interrupted answer.
OpenSession ==
  /\ ~resident /\ messages # << >> /\ turn.phase = "none"
  /\ resident' = TRUE /\ orphan' = FALSE
  /\ IF orphan THEN InsertAfterLastUser([kind |-> "recovered", of |-> Direct])
               ELSE UNCHANGED messages
  /\ UNCHANGED << queueVars, runVars, boundVars, drainTimer, waiter, restored, deletion,
                  history >>

-----------------------------------------------------------------------------
(* deleteSession. *)

DeleteBegin ==
  /\ "delete" \in Enabled /\ deletion = "none" /\ deletion' = "waiting"
  /\ controller' = IF controller = "live" THEN "aborted" ELSE controller
  /\ waiter' = Settled(Queued, "rejected")
  /\ UNCHANGED << queueVars, boundVars, drainTimer, turn, lockQueue, active, settling,
                  messages, resident, restored, orphan, history >>

\* waitForIdle returns; the simulators and the browser are released next, in steps that
\* leave the queue and its timer alone.
DeleteIdle ==
  /\ deletion = "waiting" /\ ~Locked /\ deletion' = "releasing"
  /\ UNCHANGED << queueVars, runVars, boundVars, drainTimer, messages, waiter, resident,
                  restored, orphan, history >>

DeleteWipe ==
  /\ deletion = "releasing" /\ deletion' = "gone"
  /\ queue' = [i \in Items |-> Absent] /\ rows' = [i \in Items |-> Absent]
  /\ drainTimer' = FALSE /\ messages' = << >> /\ resident' = FALSE /\ orphan' = FALSE
  /\ Withdraw({i \in Items : rows[i] # Absent})
  /\ UNCHANGED << runVars, boundVars, counter, waiter, restored >>

-----------------------------------------------------------------------------
QueueRequest ==
  \/ SendDirect \/ Reorder \/ \E byGoalLoop \in BOOLEAN : RefuseWhenFull(byGoalLoop)
  \/ \E i \in Items, mode \in {"queued", "steering"} : Enqueue(i, mode)
  \/ \E i \in Items : EnqueueGoalIteration(i) \/ Steer(i) \/ DeletePending(i)
Drain ==
  \/ DrainEmpty
  \/ \E i \in Items : DrainDrop(i) \/ DrainAnswered(i) \/ DrainStart(i)
TurnStep == TurnBegin \/ TurnRefused \/ TurnReply \/ TurnAbortFinish \/ Throw
OtherHolders == RequestAgentUpdate \/ AgentUpdated \/ GoalCommand \/ GoalCommandTurn
Restart ==
  \/ Crash \/ Restore \/ OpenSession
  \/ \E i \in Items : CrashMaterializing(i)
Delete == DeleteBegin \/ DeleteIdle \/ DeleteWipe

Next ==
  \/ QueueRequest \/ Drain \/ TurnStep \/ Absorb \/ TurnEnd \/ Settle
  \/ Stop \/ AbortRequest \/ OtherHolders \/ StatusExpire \/ Restart \/ Delete

\* Timers fire, awaited calls return, and a turn's model calls time out or end; nothing
\* obliges a client to send anything.
Fairness ==
  /\ WF_vars(Drain) /\ WF_vars(TurnStep) /\ WF_vars(TurnEnd) /\ WF_vars(Settle)
  /\ WF_vars(AgentUpdated) /\ WF_vars(GoalCommandTurn) /\ WF_vars(StatusExpire)
  /\ WF_vars(Restore) /\ WF_vars(DeleteIdle) /\ WF_vars(DeleteWipe)

Spec == Init /\ [][Next]_vars
FairSpec == Spec /\ Fairness

-----------------------------------------------------------------------------
Turn == [phase : {"none", "starting", "running", "replied", "threw"},
         item : Items \cup {Direct}, absorbed : SUBSET Items]
FinishedTurn == [item : Items \cup {Direct}, outcome : {"replied", "threw"}]
Controller == {"none", "live", "stopped", "aborted"}
Outcome == {"none", "waiting", "resolved", "rejected", "lost"}
History == [withdrawn : SUBSET Items, dropped : SUBSET Items]

\* Every variable has its type: queue entries, transcript and counters stay within the
\* shapes chat-runtime-state.ts declares and the bounds of the instance.
TypeOK ==
  /\ queue \in [Items -> Entry] /\ rows \in [Items -> Entry]
  /\ counter \in 0 .. MaxSequence /\ drainTimer \in BOOLEAN
  /\ turn \in Turn /\ lockQueue \subseteq {"agentUpdate", "goalCommand"}
  /\ controller \in Controller /\ active \in BOOLEAN
  /\ settling \in Seq(FinishedTurn)
  /\ messages \in Seq(Message)
  /\ waiter \in [Items -> Outcome]
  /\ resident \in BOOLEAN /\ restored \in BOOLEAN /\ orphan \in BOOLEAN
  /\ deletion \in {"none", "waiting", "releasing", "gone"}
  /\ accepted \in 0 .. NumItems
  /\ requests \in 0 .. MaxRequests /\ crashes \in 0 .. MaxCrashes
  /\ history \in History

\* What the queue promises, FollowUps, under the refinement that calls a follow-up
\* delivered once its message is in the transcript.
Promise == INSTANCE FollowUps WITH
  status <- [i \in Items |->
              IF i > accepted THEN "unused"
              ELSE IF Recorded(i) THEN "delivered"
              ELSE IF i \in history.withdrawn \cup history.dropped
                   THEN "withdrawn" ELSE "pending"],
  closed <- deletion = "gone"
KeepsPromise == Promise!Spec

\* Memory and table never disagree: every queued entry is in the table as it is in
\* memory, and once the rows are restored the two are the same (chat-pending-store.ts
\* writes follow every write of pendingChatQueues).
QueueMirrorsTable ==
  /\ \A i \in Queued : rows[i] = queue[i]
  /\ restored => rows = queue

\* No accepted follow-up vanishes: until it is withdrawn, or dropped for want of a
\* session, it is in the table or in the transcript, whatever crashes, fails or is
\* stopped.
NoFollowUpLost ==
  deletion # "gone" =>
    \A i \in 1 .. accepted :
      \/ i \in history.withdrawn \cup history.dropped
      \/ rows[i] # Absent \/ Recorded(i)

Replies(i) ==
  {k \in DOMAIN messages : messages[k] = [kind |-> "reply", of |-> i]}

\* A queued turn is answered at most once: a restart between the answer and the removal
\* of the row does not replay it (chat-pending-durability.test.ts:108).
AnsweredAtMostOnce == \A i \in Items : Cardinality(Replies(i)) <= 1

\* What the code ensures of that without steering: a turn whose answer directly follows
\* its message is not run again, across restarts before the row is removed, failures,
\* stops and direct turns in between.
AnsweredTurnNotRepeated ==
  \A i \in Items :
    (\E k \in Replies(i) : k > 1 /\ messages[k - 1] = User(i)) => Cardinality(Replies(i)) = 1

\* In one process, unless the clients steer or reorder, an item is recorded after every
\* earlier one, whatever failing turns, goals and stops come between.
FollowUpsInOrder ==
  crashes = 0 /\ Enabled \cap {"steer", "reorder"} = {} /\ deletion # "gone" =>
    \A i, j \in Items :
      i < j /\ Recorded(j) =>
        \/ i \in history.withdrawn \cup history.dropped
        \/ \E k, l \in DOMAIN messages :
             k < l /\ messages[k] = User(i) /\ messages[l] = User(j)

\* Queued work always has something that will start it: when the session is idle and
\* no caller is about to resume, the drain timer is set.
QueuedWorkIsScheduled ==
  restored /\ Queued # {} /\ ~Locked /\ settling = << >> => drainTimer

\* A caller that awaits a follow-up is always somebody's to answer: the item is queued,
\* or its turn runs or settles, or the running turn absorbed it.
AwaitedCallerHasOwner ==
  \A i \in Items : waiter[i] = "waiting" =>
    \/ i \in Queued \cup turn.absorbed \cup {turn.item}
    \/ \E k \in DOMAIN settling : settling[k].item = i

\* Once a running turn is stopped the latest user message keeps an answer behind it, so
\* that a restart does not run the stopped turn again.
StoppedTurnStaysAnswered ==
  turn.phase = "running" /\ controller = "stopped" /\ deletion # "gone" =>
    \A k \in DOMAIN messages : LastUser(k) => k + 1 \in DOMAIN messages

\* Every follow-up is eventually out of the queue: recorded, withdrawn or dropped.  Said of
\* the whole table, since none comes back once its row is gone.
EveryFollowUpSettles == []<>(\A i \in Items : rows[i] = Absent)

=============================================================================
