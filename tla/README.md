# Cybara gateway: TLA+ models, model checking and proofs

Cybara is an agent gateway: one long-lived process that serves chat sessions, runs model
turns with tools, executes scheduled work and drives simulators, browsers and desktops,
with SQLite and a few JSON files behind it. It is single threaded, but every `await` lets
timers, requests and other calls in, the process may be stopped between any two steps, and
several gateways may share a home directory. The modules here model the parts whose
correctness depends on that order of steps. Paths below are relative to `src/src/` unless
they start with another directory.

* `PROJECT.json` maps every definition to the lines it stands for and lists the runs, the
  hazards, the findings and the theorems.
* To check a run: `tlc -config ChatQueue_steering.cfg MCChatQueue`. To check a proof module:
  `tlapm ChatQueueProofs.tla`.

## 1. Inventory

### Parts that are modelled

**Follow-up queue** (`api/chat-pending-state.ts`, `chat-pending-store.ts`,
`chat-pending-failure.ts`, `chat-pending-mutations.ts`). State: `pendingChatQueues`, an array
per session, the table `pending_chat_messages`, a sequence counter, the promises of callers
that await a queued message. Operations: enqueue, enqueue a goal iteration (which supersedes
older ones), refuse at capacity, steer, reorder, delete, materialize, remove, restore.
Correct when memory and table agree, nothing accepted is lost or run twice, the order is
kept, and every waiting caller is answered.

**Chat turn lifecycle** (`api/chat-runtime.ts`, `chat-runtime-state.ts`,
`chat-runtime-stability.ts`). State: the mutex of the session, abort controllers, the drain
timer, the run status, the transcript. Operations: a direct message, a drained item, the
absorption of steering by a running turn, reply, failure, abort, stop, settlement. A message
to a busy session becomes a follow-up; the end of a turn arms the drain timer; the drain runs
the head of the queue as a turn. Correct when queued work always has something that will
start it, a stopped turn is not run again, and every accepted message is settled.

**Restart recovery** (`api/chat-runtime-recovery.ts`, `chat-run-recovery.ts`). The queue is
restored from its table a moment after the start; an orphaned run gets an answer that says it
was interrupted; an item whose turn is already answered must be recognised by the shape of
the transcript.

**Session control** (`api/chat-session-api.ts`). Opening a session, changing its agent and
deleting it hold or wait for the same mutex and clear the same queue.

**Keyed mutex** (`core/keyed-mutex.ts`). Appears as who holds or waits for the session's key.

**Task scheduler** (`core/scheduler.ts`). State: the `tasks` table, the map of registered
handlers, a 60 s interval. Operations: create, update, start, stop, trigger, delete, tick,
execution, initialize. The interval does not wait for the tick before and an execution is a
chat turn of any length. Correct when a task runs once at a time, a pending task is armed, an
armed one runs, and a stopped one stays stopped.

**Simulator leases** (`core/mobile-simulator-lifecycle.ts`). State: the map of devices with
owner flag, sessions, user lease and closing promise; a generation per session. Operations:
start, retain, abort, release, stop, shutdown; boots and shutdowns take time and fail.
Correct when a device is stopped exactly when nobody uses it and only if the lifecycle booted
it, and when a session that ended takes no lease.

**Cron job lock** (`core/cron/file-lock.ts`) and **cron jobs** (`core/cron/scheduler.ts`,
`core/cron/store.ts`). State shared by processes: a lock directory with an owner file, the row
of the job; per process: a timer and the run in progress. Correct when two gateways do not run
the same job at a time, a timer always leads to a run, and a job runs when it is due.

**Goal loop** (`core/session-goal-loop.ts`, `core/session-goals.ts`, `api/chat-goal-runtime.ts`,
`api/session-goal-routes.ts`). State, on disk: the status of a session's goal and its run, which
counts iterations and failures since the goal was started or resumed; in memory: whether a judge
is being asked, and whether the loop was asked to look again meanwhile. Operations: the commands
of the chat and of the routes, the look at the session after every turn, the answer of the
judge, checkpoints, resumption after a restart. Correct when the loop works for active goals
only and within their budget, never stands still for an active one, and leaves nothing behind.

**Subagents** (`core/subagent-registry.ts`, `core/tools/handlers/channel.ts`,
`api/chat-subagent-completion.ts`). State: the registry of runs, which is on disk; the child
sessions, their executions and two timers for each run, which are not. Operations: spawn, wait
(by the model, by the end of the turn, by a client), result, failure, timeout, stop, message,
clear, restore. Correct when registry and executions agree, an outcome stands once it could be
read, and a turn gets the results of what it spawned.

**Tool approval** (`core/tool-approval.ts`, the policy in `core/tools/handlers/index.ts`). State:
requests and their status, the keys allowed to a session or to all, the approval mode, whether an
app is connected. Correct when nothing runs without the consent the policy asked for, a decision
is final, and no call waits for an answer nobody can give.

**Concurrency limiter** (`core/concurrency-limiter.ts`). State: a counter and a queue of waiting
callers, who may abort or lose patience. Correct when the limit is kept, no permit is lost, and
nobody is overtaken.

### How the parts interact

    clients ──HTTP──> session control ──┐ mutex, clears
    clients ──HTTP──> chat turns <──────┴──> follow-up queue ──> pending_chat_messages
                        │  ^   drain timer         ^
                        │  └───────────────────────┤ restore after a restart
                        │                          │
       after each turn  └──> goal loop ──iterations┘ <── goal commands, judge
    a turn's tools ──> tool approval ──> limiter ──> file readers
                  └──> subagents <── clients wait, stop, clear
    task scheduler ───> an execution is a chat turn
    cron jobs ────────> a run is a chat turn or a command, under the cron lock
    session end ──release──> simulator leases ──> simctl/adb

### Parts that are not modelled

| Part | Source | Why |
|---|---|---|
| Rooms | `api/chat-room-runtime.ts` | to the mutex and the queue a round is a turn like any other; who speaks in which order is data |
| Serial queues, coalesced work | `core/keyed-serial-task-queue.ts`, `coalesced-work.ts` | a chain of promises per key, used for notes and indexing |
| Run status | `core/status.ts` | ChatQueue keeps the one fact the drain reads; the rest are views of it |
| Agent loop | `core/agent-loop*.ts`, `agent-tool-execution.ts` | sequential within a turn; its outcomes and the point where it absorbs steering are in ChatQueue |
| Providers, retries, credentials | `core/provider-*.ts`, `core/retry.ts` | network calls and back-off |
| Session store, plans, boards | `core/session-context.ts`, `core/kanban.ts` | synchronous SQLite calls, each one step of whoever makes it |
| Simulator drivers, browser, desktop, MCP, LSP, channels | `core/mobile-simulator*.ts`, `core/browser/`, `core/computer-use*.ts`, `core/mcp.ts`, `core/lsp/`, `core/channels/` | subprocesses and network I/O; where an await on them matters it is a step |
| Memory, wallet, routes and security | `core/memory/`, `core/wallet*.ts`, `api/routes.ts`, `api/security.ts` | data and validation without shared control state |
| Clients | `cli/`, `src/ui/`, `src/apps/`, `src/src-tauri/` | they appear as requests |

## 2. The modules

| Module | Models | Relation |
|---|---|---|
| `FollowUps` | what a session promises about follow-ups: pending, then delivered or withdrawn, for ever | abstract |
| `ChatQueue` | queue, table, turns, steering, stop, restart, deletion of one session | implements `FollowUps` |
| `TaskScheduler` | tasks, handlers, interval, executions | on its own |
| `SimulatorLease` | leases on one device | on its own |
| `CronLease` | the lock directory, one file system call at a time | used by CronJobs |
| `CronJobs` | timers, runs and the row of one job in several gateways | extends CronLease |
| `GoalLoop` | a session's goal, its run, the judge and the loop, over a queue reduced to its order | on its own |
| `Subagents` | registry, executions, timers and waits of one requester's runs | on its own |
| `Slots` | what a limiter promises: a slot is neither doubled nor kept from those who wait | abstract |
| `Limiter` | `ConcurrencyLimiter` | implements `Slots` |
| `ToolCalls` | tool calls of several sessions: policy, approval requests, file readers | extends Limiter, every step of it is one of Limiter or leaves it alone |
| `MC*` | model values for TLC | |
| `*Proofs` | theorems | extend the component's module; `ChatTranscriptProofs` extends `ChatQueueProofs`, and `ToolCallsProofs` also holds the limiter's |

### ChatQueue and FollowUps

*State.* `queue[i]` is the entry of item `i` in `pendingChatQueues` and `rows[i]` its row:
mode, the `materialized` flag, the sequence number. The array of the code is always sorted by
(sequence, createdAt), so that a function with the order `Before` stands for it. `drainTimer`
is membership in `pendingChatDrainScheduled`; `turn` is the holder of the mutex with the item
it runs and what it absorbed; `lockQueue` the other holders (agent update, goal command);
`controller` the abort controller; `active` the run status; `settling` the turns that have
released the mutex and whose `handleChat` has yet to resume; `messages` the transcript;
`waiter` the promise of each awaiting caller; `deletion` the progress of `deleteSession`.

*Actions.* The clients: `SendDirect`, `Enqueue`, `EnqueueGoalIteration`, `RefuseWhenFull`,
`Steer`, `Reorder`, `DeletePending`, `Stop`, `AbortRequest`, `RequestAgentUpdate`,
`GoalCommand`, `OpenSession`, `DeleteBegin`. The drain timer: `DrainEmpty`, `DrainDrop`,
`DrainAnswered`, `DrainStart`, one per way out of the callback. The turn:
`TurnBegin`, `TurnRefused`, `Absorb`, `TurnReply`, `TurnAbortFinish`, `Throw`, `TurnEnd` (the
mutex is released) and `Settle` (the caller resumes and arms the drain). The process: `Crash`,
`CrashMaterializing` (between the stored message and the materialized row), `Restore`,
`StatusExpire` (the 15-minute expiry of a run status).

*The refinement.* A follow-up is `delivered` when its user message is in the transcript,
`withdrawn` when a user deleted it, a newer goal iteration superseded it or the drain dropped
it for want of a session, `pending` until then. `closed` is the end of `deleteSession`.

### TaskScheduler

`rows` is the table, `registry` the map of handlers, each with the copy of the task it closed
over (all that matters of it is whether it has a schedule), `live` the executions. `Create`,
`Update`, `Start`, `Stop`, `Delete`, `Trigger` are the methods, `Tick(t)` the start a tick
makes, `Finish` the end of `executeTask`. `disturbed` collects the tasks that were touched
while an execution was live, lost to a crash, or triggered without a handler: properties about
tasks left alone quantify over the others.

### SimulatorLease

`lease` is the entry of the devices map: `owned`, `ready` (the boot is over), `sessions`,
`manual` (the user's lease) and `closing`, which is `absent` when there is no entry, then `no`,
`booting` (a close that awaits the boot) or `stopping`. A call goes through
`Resolve` (the driver's list of devices), `Acquire`, the boot or the closing it waits for, and
begins again after a closing. `ended` is the generation check, `cancelled` the abort signal.

### CronLease and CronJobs

`step[g]` is where gateway `g` stands in `tryAcquireCronLease`: look at an old lock, remove it,
`mkdir`, write the owner file, hold, release. Other processes act between any two of these.
`CronJobs` adds the job's row, each gateway's timer, and `run[g]`; every one of its steps is a
step of CronLease or leaves the lock alone, which is proved (`JobsKeepToLease`). A timer is
`armed` for the time in the store, `old` when the store has moved on, `ripe` when it may fire,
`recheck` after a run that was skipped because another gateway held the lock.

### GoalLoop

`goal` is the status of the session's goal, `run` its `GoalLoopState` with `old` for "its time is
used up", `judge` the judgment in flight (`same` while the run it read is the one in the map,
`latest` while the answer it reads is the last one), `requested` the remembered request. `queue`
and `turns` are the follow-up queue and the holders of the mutex, reduced to what the loop reads:
which items are iterations, whether the turn of one has begun (`taken`) or is in the transcript
(`answered`), how far the running turn is and whether it was stopped. `settling` holds the turns
that have released the mutex and whose callers have yet to resume. All that happens between two
awaits is one step, so that a handler is an operator from the record of all variables to such a
record: `Consider` is the loop up to the call of the judge, `Judged` what follows it, `RouteCommand`
and `ChatCommand` the two ways a command comes in, which differ in when they take effect.

The end of a turn is split at the awaits behind which state changes: the model calls are over
(`EndModel`), the answer is appended (`AnswerTurn`), a kick-off is made by the command that was answered
(`CommandWorks`), the mutex is free (`EndTurn`), the outcome of an iteration is recorded and the loop looks at
the session, and for a queued turn looks again when the drain has removed its item (`Settle`). A
judgment, a request or the turn that waits for the mutex may come between any two. A queued
turn that threw is `reported` until `StoreFailure` has stored its failure and removed its item.
`DrainAnswered` is the drain that finds the item answered, after a restart or because its turn has yet
to settle. `Keep` is the filter of the code's arrays, a function and not a recursion, so that a
theorem can speak of it; `Waiting` counts the iterations queued or about to run.
`overlapped` remembers that a command met a judgment, a loop not yet resumed after a restart, or a
command not yet answered, or that a command of the chat that starts the work met a turn that runs or
settles, or a queue that is not empty.

### Subagents

`entry`, `outcome` and `timer` are the registry, `session`, `child`, `owned` and `childTimer` the child
session with its execution; `owned` tells the execution of the run from that of a later message.
`turn` is the requester: working, in `sessions_wait`, or in the automatic wait after the model's
answer; `got` is what its waits returned of each run, `client` another waiter. `Release` is what the
end of a wait or a clear does to registry and sessions. `taken` collects the runs that somebody else
took from the turn.

### Slots, Limiter and ToolCalls

Limiter has one action per entry point (`Acquire`, `Release` with `GrantNext`, `Cancel` for aborts and
timeouts); the order of `pending` is the order of service. ToolCalls extends it: a call is refused,
enters its handler, or asks (`Refused`, `Enter`, `AskOperator`, one per way through `executeTool`), is
answered, times out or is aborted, and a file reader then asks for a permit. `said` and
`consents` keep what the operator really answered, to be compared with what runs.

## 3. The runs

| Run | Instance | Properties | Shows |
|---|---|---|---|
| `chat_steering` | 2 items (a goal iteration, then an awaited one that supersedes it), capacity 2, sequence numbers up to 4, 2 requests, 1 restart; steer, goal commands, reorder, delete | `TypeOK QueueMirrorsTable StoppedTurnStaysAnswered AwaitedCallerHasOwner KeepsPromise` | the queue survives every order of client requests, and implements FollowUps |
| `chat_settles` | 2 items (the second a goal iteration), capacity 2, sequence numbers up to 3, 1 request, 1 restart; failures early and late, aborted requests, goal commands, fairness | `NoFollowUpLost AnsweredTurnNotRepeated FollowUpsInOrder QueuedWorkIsScheduled EveryFollowUpSettles` | nothing is lost, repeated or reordered through failures, and each follow-up leaves the queue |
| `chat_replayed` | 2 items, steering, 1 restart | `AnsweredAtMostOnce` | **violated**, finding 1 |
| `tasks_left_alone` | 2 tasks, 3 executions, 5 requests, 1 restart, fairness | `TypeOK RunsOnceAtATime PendingIsArmed ArmedTaskRuns` | a task nobody touches while it runs is run once at a time, again and again |
| `tasks_stopped` | 1 task, 1 execution, 3 requests | `StoppedStaysPaused` | **violated**, finding 2 |
| `simulator_shared` | 2 sessions and the user, 2 calls in flight, 5 requests, fairness | `TypeOK BootedDeviceIsTracked ReleasedSessionHoldsNothing ClosingBeginsUnshared ForeignDeviceStaysOn EveryStartReturns` | leases survive overlapping starts, aborts, releases, stops and failing drivers |
| `simulator_retained` | the same, with `retain` | `StoppedOnlyAfterLastLease` | **violated**, finding 3 |
| `cron_shared` | 3 gateways, a job that may be due in more than 24 hours, 1 request besides adding it, 1 death, fairness | `TypeOK RunsAlone ArmedJobRuns` | one run at a time while nobody died; a timer leads to a run also after a death |
| `goals` | budget 2 iterations, 2 failures, 2 requests or turns that throw, 1 restart, 1 turn settling, fairness | `TypeOK LoopFollowsRun WorksForActiveGoals ActiveGoalGoesOn LeftoversEnd` | the loop works for active goals within their budget, also when it judges an answer before its outcome is recorded, never stands still for one, and leaves nothing behind |
| `goals_resumed` | the same, safety only | `FreshBudget` | **violated**, finding 4 |
| `subagents` | 2 disposable runs, one with a timeout, at most 1 active, waits for up to 2, 1 message, 1 restart, fairness | `TypeOK RunMatchesExecution TurnGetsResults OutcomeStands TurnReturns` | registry and executions agree, outcomes stand, the turn gets its results, every wait returns |
| `tools` | 3 calls that read files, 2 of one session, 1 of a session on a channel, one forced, one key, 1 permit, fairness | `TypeOK OperatorDecides RequestsAreAwaited KeepsSlots ServedInOrder DecisionIsFinal EveryCallReturns` | nothing runs unasked, decisions are final and a late answer allows nothing, the limiter implements Slots, every call returns |

**Why the bounds are enough.** Two items are the least with an order, a head and a
successor; one of them being a goal iteration lets it be superseded when it comes first
(`chat_steering`) and wait behind another when it comes second (`chat_settles`); an awaited one lets a
caller be lost. Two items fill the queue of capacity 2 in `chat_settles`, where the goal loop's next
iteration is refused (sequence number 3); a client is refused by the same action, and by the theorems
for every capacity. Sequence numbers up to 4 let `Reorder` renumber what is queued behind the
acceptances of both. Requests (direct sends, steers, goal commands) beyond two repeat what
two can do: one starts a turn, one interferes with it. One restart meets every step; a second
one finds the table as the first left it. Two tasks and three executions let two executions of
one task overlap with one of the other. Two sessions and a user are two holders of each kind of
lease; two calls are a start that meets another call. Three gateways are one that holds the
lock, one that dies, and one that recovers. The gateway may start with an active goal (left by the process before, whose restart
is then the one), so that two requests pause and resume it, or meet it with a message and a command,
or with a turn that throws and another request; without it the first starts one. One turn that
settles meets one that runs, and a judgment meets both. A budget of two iterations and two
failures tells the first, the last and the one too many apart. Two runs with one active at a time
meet the limit and a wait for several; both being disposable lets every waiter take them from the
other. Three calls and one permit are a holder, a first and a second in the queue, so that
somebody can be overtaken. Where a theorem covers a property the bound does not matter (section 5).

**Deadlock** is checked for the tool calls only: another gateway that has nothing to do rests.
That it does not rest with work in hand is `QueuedWorkIsScheduled`, `PendingIsArmed` and the
liveness properties.

## 4. Fairness

Nothing obliges a client to send, stop, steer or delete, and no crash is ever due. What is fair
is what the runtime and the timeouts in the code ensure:

* *ChatQueue.* The drain timer fires; a turn's model calls end, fail or time out (`TurnStep`);
  the code behind an await resumes (`TurnEnd`, `Settle`, `AgentUpdated`, `GoalCommandTurn`,
  `DeleteIdle`, `DeleteWipe`); the restore timer of a started gateway fires; a run status left
  active expires after 15 minutes. All weakly. `Absorb` is not fair: a turn may end first.
* *TaskScheduler.* Clocks advance, chat turns end, a started gateway initializes, weakly.
  `Tick(t)` is strongly fair because the execution ids are finite in the model only: a tick that
  finds them all taken now and then is not starved of them in the code.
* *SimulatorLease.* Calls resume when what they await has settled; the driver's commands have
  timeouts. Weakly.
* *GoalLoop.* The drain timer and the recovery timer fire, the judge answers or fails (it fails
  open), turns begin and end, each in one way or another, and the callers of a turn that has ended
  resume (`Settle`, `StoreFailure`). Weakly; no outcome, throw or verdict is fair by itself.
* *Subagents.* A wait has a deadline, and a child ends like any other turn (`ChildEnds`). Weakly.
  Timers are not fair: a property must hold whether they fire first or last.
* *ToolCalls.* The two-minute timer of a request and the timers of the readers fire, handlers end.
  Weakly. The operator never has to answer, and no app has to connect.
* *CronJobs.* Timers ripen and fire, handlers return, a living process goes on, time passes and
  an abandoned lock grows old. Weakly.

## 5. What is proved

The proofs hold for every number of items, sessions, calls, gateways, and every bound. They
assume only the named `ASSUME`s of the modules: `NumItems` is a positive natural, the goal and
awaited items are items and disjoint, bounds are naturals, `User` is no session, `NoOwner` is no
gateway, `Callers` and `Runs` are finite sets, a limiter has at least one permit, every call has a
session and a key, `"none"` is no task. TLC evaluates these in every run.

**ChatQueueProofs.** `TypeCorrect`, `MemoryMirrorsTable` and `NothingIsLost` prove `TypeOK`,
`QueueMirrorsTable` and `NoFollowUpLost`. `NoFollowUpLost` is not inductive: the step that
removes the row of a finished turn would lose an item whose message is not in the transcript.
The inductive invariant `IInv` adds `RunsAreRecorded`: the item of a turn that holds the mutex
or is settling has its message in the transcript. The argument has two halves, one lemma per
action each: until the session is deleted the transcript only grows (`MessagesGrow`, although
an interrupted answer is inserted in the middle), and what a step removes from the table it
records or accounts for (`Accounts`). The mirror follows from the fact that every step writes
both tables alike or leaves both alone, or empties memory in a crash. `QueuedWorkStarts` proves
`QueuedWorkIsScheduled` when no agent update is enabled (section 6 says what an update does): each step
arms the timer, keeps the session busy, or adds nothing to the queue (`Rearms`). `CallersHaveOwners` proves
`AwaitedCallerHasOwner` when no turn fails after absorbing steering; its invariant adds that only a
running turn owns absorbed items, and that nobody awaits what a deletion is about to clear or what a
restart has yet to restore.

**ChatTranscriptProofs.** `QueueKeepsPromise` proves `KeepsPromise`: ChatQueue implements FollowUps. The
step lemma sorts the actions by what they do to the promise (`Moves`): at most one follow-up is accepted,
only what is in the table is recorded or withdrawn, never both in one step, and what is withdrawn leaves
the table. That such a step is one of FollowUps needs the invariant `BooksBalance`: what the table and
the transcript hold was accepted, and nothing in the table has been withdrawn or dropped. Without it a
withdrawn follow-up could still be delivered.

The other three theorems speak of places in a transcript that grows in the middle, where a stop stores
what was said so far. They rest on what an insertion does to places: `SpliceOf` and `InsertShape` say
where each message of the old transcript stands in the new one, and `Notes` sums up what stops, recoveries and
failures add, one message that is neither a user's nor a reply.

* `StoppedStaysAnswered` proves `StoppedTurnStaysAnswered`. `StopInv`: the session of a running turn is in
  memory, so that a stop reaches its transcript, and once it is stopped the last message is not a
  user's.
* `RecordedInOrderOfAcceptance` proves `FollowUpsInOrder`. Order in the transcript alone is not
  inductive: an item is recorded when it heads the queue. `OrderInv` adds `QueueInOrder`: as long as no
  client steers or reorders and the process was not restarted, the sequence numbers of the queued items
  rise with their acceptance and stay below the counter.
* `AnsweredOnce` proves `AnsweredTurnNotRepeated` when no client steers (finding 1 says what steering
  does). `RepeatInv`, for each item: as long as the row of an answered item is there it is marked
  materialized, so that the drain looks for the answer; an answer that directly follows its message
  is the only one, and its item is not starting or running again. `Said` adds that an item has one message
  at most and all its replies behind it.

**SimulatorLeaseProofs.** `TypeCorrect`, `OwnershipIsKept`, `ReleaseIsFinal`,
`ForeignDevicesAreSpared` and `ClosingIsUnshared` prove the type invariant, two safety
invariants and two action properties. The inductive invariant adds to those invariants:
`LeaseOK` (what the flags of an entry imply of each other: an entry that is not ready was booted
here, one that is being shut down is owned and ready), `StopsForeign` (a call of `stop` that shuts
the device down itself holds an entry that is not owned), `StartsEntitled` (a start whose
session was not released since may add it), and `ForeignIsSeen` (a device that was on before is
owned by nobody and seen on by every start). The generation check of the code is what makes `StartsEntitled`
inductive: a release marks the starts of its session `ended`.

**CronJobsProofs.** `LeaseExcludes` proves for CronLease alone that at most one gateway holds
the lock as long as none has died. The inductive invariant says that nothing is to be
recovered (a lock without an owner is young, and one with an owner belongs to a living
process), that a lock without owner is being signed by someone, and that whoever holds the lock
has its name in it. `JobsKeepToLease` shows that CronJobs implements CronLease, and `OneRunAtATime`
follows from `RunsUnderLease`: a run that is running is at the step `held`.

**ToolCallsProofs.** First the limiter. `LimiterInv` says that `active` counts the holders, that `pending`
lists the waiting callers without repetition, and that nobody waits while a permit is free. From it each
action is shown to be a step of Slots, which is `LimiterImplementsSlots`; `PermitsAreUsed` and
`NobodyIsOvertaken` follow from the same invariant. The cardinalities need the finiteness of `Callers`.

Then the calls. `CallsUseLimiter` shows that every step of ToolCalls is a step of Limiter or leaves
it alone, so that the theorems about the limiter carry over (`CallsKeepSlots`,
`ReadersServedInOrder`). `NothingRunsUnasked` needs that every key on an allowlist has a consent in
`consents` that covers it, and that a decided request is the one its call went on with;
`RequestsMatch` follows from the match of requests and waiting calls. `DecisionsStand` shows of every
step that it leaves a decided request to the next call, and that the lists of what is allowed grow
exactly by the keys of the open requests approved in it (`ListsKept`, `ListsWidened`).

**SubagentsProofs.** The limit on active children is part of `TypeCorrect`: a spawn adds one, and no other
step adds any. `RegistryMatchesChildren` is inductive together with the nesting of the two
timers of a run, an outcome that stays open until the run ended, and the idleness of a session that is
done; `OutcomesStand` is its consequence for each step. For `ResultsReachTurn` the invariant adds that a
run the turn accepted leaves the registry only taken by someone, or delivered and disposable, and that
the last wait of the turn is for all it has not got.

**TaskSchedulerProofs.** `RunsAreSingle` needs that a task with a live execution is marked running, in the
row that the next tick reads, unless somebody disturbed it; `PendingTasksAreArmed` that the handler
in the registry has the schedule of the row.

**GoalLoopProofs.** A handler is an operator from the record of all variables to such a record, so that
the lemmas follow the handlers: one for each operator says what it keeps of a record, whatever called
it, and a lemma for an action composes them. A handler ends with a look of the loop at the
session (`Consider`), and what holds before the look is a little less than what holds after it.

* `TypeCorrect`. `TypeInv` says that the record of all variables is one of `States`; what the handlers filter
  stays a sequence of items by the lemma `KeepShape`.
* `LoopKeepsToRun` proves `LoopFollowsRun`. Its invariant `SoundInv` holds until a command meets a
  step of the loop: the run is sound (`RunSound`; before the look only `RunMid`, for a recorded outcome may
  contradict the reason of a pause until that run is dropped), a judge that is being asked was given
  the run in the map, of a goal that is active (`JudgeSound`), and a kick-off is due only to the turn that
  runs, with neither a judgment nor a restart under way and with budget left (`KickoffFirst`): it adds
  an iteration without looking at the budget.
* `WorksOnlyForActiveGoals` proves the action property `WorksForActiveGoals`, for turns that throw too
  and with no exception for commands that meet the loop. A step counts as working when it ends with more
  iterations, but the loop may look more than once in it: a queued turn is followed by a look at its end
  and one when its item is gone, a judgment by one that was requested meanwhile. Each look that adds an
  iteration leaves the goal active and its run within its failures (`ConsiderWorks`), and a look after it
  can only pause the goal at a checkpoint (`LookAgain`): it reads no answer that would end the goal, because
  `Fresh` says that the judge, as long as the answer it reads is the last one, judges a plain answer. That
  the second look may pause at all is the exception of the property: a failure recorded during the
  judgment makes it decide at once (section 6).

**Conditional theorems.** Three theorems have a hypothesis, each because the property is false of the code without it, as
sections 6 and 7 say: `QueuedWorkStarts` (no agent update), `CallersHaveOwners` (no failure after the
reply, which awaited steering may have been absorbed into) and `AnsweredOnce` (no steering). The run that checks the property meets the hypothesis.

**Only model-checked.** Every safety invariant and every action property of the passing runs is stated by a
theorem. Liveness (`EveryFollowUpSettles`, `ArmedTaskRuns`, `EveryStartReturns`, `ArmedJobRuns`,
`ActiveGoalGoesOn`, `LeftoversEnd`, `TurnReturns`, `EveryCallReturns`) stays with TLC: it follows from
fairness, which speaks of ENABLED, and the prover does not reason about it.

## 6. Findings

Each has a run that violates the property stating what the repository says.

1. `api/chat-pending-state.ts:121`. A queued turn that absorbed steering, or was itself steered
   while it ran, does not look answered after a restart: it runs again.
   `tests/api/chat-pending-durability.test.ts:108` says it does not.
2. `core/scheduler.ts:333`. The end of an execution writes `pending` over the `paused` of a task
   that was stopped meanwhile.
3. `core/mobile-simulator-lifecycle.ts:122`. `retain` joins a lease whose closing has begun; the
   device is shut down under the session.
4. `api/chat-goal-runtime.ts:145`. The loop decides by the run it read before it asked the judge. A
   goal that is resumed meanwhile is paused at once when the old run was used up, although
   `docs/cli.md:98` promises a fresh budget.

Met while modelling, reachable in the models, and left out of the passing runs:

* `api/chat-runtime.ts:885`. A follow-up sent while an agent update holds the mutex is queued without
  a drain timer, and the end of the update (`api/chat-session-api.ts:287`) arms none: it waits until an
  unrelated message comes. `QueuedWorkIsScheduled` is violated with `agentUpdate` in `Enabled`.
* `api/chat-session-api.ts:592`. A drain that fires while `deleteSession` awaits the release of
  simulators and browser starts a turn that writes to the deleted session.
* `core/cron/scheduler.ts:71`. The timer of a job due in more than 24 hours fires after 24 hours and
  runs the job.
* `api/chat-runtime.ts:732`. A queued turn that throws leaves an active goal without a loop: the error
  path does not call `maybeScheduleGoalIteration`. `ActiveGoalGoesOn` is violated if behaviours
  in which a queued turn throws (`FailureReported`) are not excepted.
* `api/chat-runtime.ts:1719` and `785`. An iteration that fails has its answer in the transcript
  while its failure is not yet recorded; hooks, the log and the release of simulators are awaited in
  between. A judgment that ends there finds a newer answer and asks the judge about the failed one. The failure
  is then recorded, and the look that follows is remembered as a request. When the judge says "continue" the
  loop queues or starts an iteration; then it looks again, finds a failure, does not ask the judge
  and pauses the goal when the run is at a checkpoint, so that this iteration runs for a goal that is
  paused. `WorksForActiveGoals` excepts a goal that the loop pauses at a checkpoint in the very step that adds
  the iteration; without that exception it is violated.
* `api/chat-runtime.ts:1222`. A goal that is resumed in the chat and paused before the turn that answers
  the resume is kicked off all the same, for one iteration. `WorksForActiveGoals` excepts it.
* `api/chat-subagent-completion.ts:26`. `partial` is no terminal status: a disposable run whose partial
  result the turn took is waited for again, is gone, and the turn fails. `TurnGetsResults` names it.

Steering is not in `chat_settles`, whose order and replay properties speak of queued items, but in
`chat_steering`.

## 7. What the models leave out

* **ChatQueue.** Content: edits of a queued message (`updatePendingChatMessage`), images,
  compaction, tools, model names. Messages deferred by `sendToSession`, eviction of idle
  sessions, the setting that turns follow-ups off. The step that stores a drained message and
  marks its row is one step, except for the crash in between, which is
  `CrashMaterializing`; the message of absorbed steering is stored asynchronously in the code and
  at once in the model. A failure after the reply (`lateThrow`) together with absorbed awaited
  steering leaves those callers waiting; no run combines the two. `FollowUpsInOrder` speaks of
  one process, since after a restart the sequence numbers start again at one and an item sent before
  the rows are restored comes first, and of clients that neither steer nor reorder.
* **TaskScheduler.** Dates are `none`, `later` or `now`; run records and broadcasts are not kept.
  Tasks in `disturbed` are out of the properties, and two hazards in PROJECT.json describe what
  may befall them (a recurring task that a crash interrupted is never armed again; one that is
  edited while it runs loses its handler).
* **SimulatorLease.** One device, because no step relates two. A promise settles together with
  the continuations that wait for it, which are microtasks. A boot that fails leaves the device
  off, and nobody turns it on or off outside the lifecycle.
* **CronLease, CronJobs.** One job. The same lock around the store is an atomic step. A writer
  that stalls for two seconds between `mkdir` and the owner file, and a removal that fails, are
  left out. An edit moves a job to a later time only. After a death two gateways may recover the
  same lock, each removing the other's: `RunsAlone` therefore speaks of the time before, and
  `ArmedJobRuns` excepts the gateway that finds its new lock gone. A timer that another gateway
  made obsolete still runs the job; no property forbids it.
* **GoalLoop.** One session. The queue and the turns are abstractions of ChatQueue's: capacity,
  steering, deletion and awaited callers are there, not here. Storing the
  message of an item, marking it and taking it are one step, as are storing the failure of
  a queued turn, which may or may not be the last answer then, and removing its item. A cleanup
  that throws is left out, and so are turns without a provider, which no stop can reach. A command
  is taken as parsed: `/goal complete <text>` for a session whose goal is complete is a `start`
  (`core/session-goals.ts:229`). Limits that are off, and the retention of 200 runs, are left out.
* **Subagents.** One requester. The archive sweep, which is off by default, runs rebuilt from
  transcripts, and the content of messages (one to a child that works is read by nobody) are left out.
  The 200 ms of a wait's poll are not: a wait returns at any time at or before its deadline.
* **Limiter, ToolCalls.** One limiter of the three. Tools are dangerous or need approval by the
  capability policy; what is denied outright, or needs none, does not reach the approval. Answered
  requests are forgotten after five seconds in the code and replaced by the next call in the model. A read
  of several paths (`core/tools/handlers/file.ts:459`) reads up to eight files, four at a time, so that one
  call may wait for and hold several permits; the model gives a call one. The limiter serves the files as
  separate callers, and its properties and theorems are about any finite set of those.
  `revokeToolApproval` (`core/tool-approval.ts:91`) is called by a test and by nothing in the program: the lists
  only grow.

## 8. Plan

Done: the queue and its promise, tasks, leases, cron, goals, subagents, approvals and the limiter,
with the proofs of section 5, which leave liveness to TLC. Worth doing next, in this order:

1. Content edits in ChatQueue (an edit awaits image conversion over a stale entry).
2. `GoalLoop` over the queue of ChatQueue instead of its abstraction, with the abstraction as
   the refinement.
3. A lock that survives the death of a gateway, as a specification to compare CronLease with.
4. `KeyedMutex` as a chain of promises, with the abstract mutex ChatQueue assumes as its
   refinement target.
