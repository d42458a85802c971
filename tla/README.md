# Verzeta Studio: a TLA+ model of its concurrent core

Verzeta Studio is a desktop chat application (C++/Qt) in which a user talks to one or several
language-model agents.  The part that is hard to get right is small: who may use a provider now,
how a turn moves through its asynchronous hops, who speaks next in a group, how tool calls are run,
which run belongs to which conversation and session, what becomes of plans and of the agents'
scheduled background runs, and how calls to a child process or to a remote client end.  This
directory models that part, checks it with TLC and proves, with TLAPS and for instances of any
size, the safety of eight of its components.

Contents: [inventory](#inventory), [modules](#modules-and-how-they-correspond-to-the-code),
[runs](#runs), [bounds](#bounds), [fairness](#fairness), [proofs](#proofs),
[disagreements](#where-code-and-comments-disagree), [not modelled](#what-is-not-modelled),
[plan](#plan).

## Inventory

All chat code runs on the Qt main thread.  Concurrency comes from three sources: the event loop
(zero timers, queued signals), direct signals (an `emit` in the middle of a handler runs other
handlers before it returns), and workers (providers, tools, classifiers, recall, child processes)
that answer later or never.  Two components have threads of their own: the inference host's I/O
thread and the host bridge's socket thread; both talk to blocked workers through semaphores.

| Component (`src/backend/...`) | State | Operations | What is hard | What makes it correct |
|---|---|---|---|---|
| `services/chat/provider-scheduler` | per provider: count in flight, limit, FIFO queue, peak | acquire, release, cancel, setProviderLimit, deferred grant | the slot is counted before its callback runs | every slot has one owner; no waiter behind a free slot; FIFO |
| `services/chat/conversation-run` | one turn: generating flag, request id, slot held or awaited, stream, queued text, agent, pending recall, batch, verdict | sendMessage, stop, chunk/finished/error, recall, tool batch, cascade answers, reactions, images, task turns, destructor | every hop can be overtaken by stop, resend, deletion; re-entrancy through `isGeneratingChanged` | slots come back on every path; every turn ends; no reply in the wrong chat |
| `services/chat/cascade-controller` | immediate and deferred queue, turn and retry counts, round, progress | enqueue, tryDispatchNext, routeOrFinalize, applyClassification, complete, pause | five budgets interact; members leave; verdicts are asynchronous | the team falls silent, and never silently with work waiting |
| `services/chat/tool-dispatcher` | pending calls, parent message, iterations, failures, request id | enqueue, dispatchNext, watcher, reset | workers outlive a stop; a posted dispatch belongs to no batch | serial, in order, answered, within budget |
| `services/chat-controller` | map conversation -> run, active run, facade key | createRun, runFor, switch, rekey, repoint, delete | a run changes its conversation while it is in the map | a turn survives switches; one run per conversation |
| `services/session/session-router` | sessions, generating count, last state per controller | create, destroy, generation tracking, `slotAvailable` | counts transitions of a signal that is not sent for background runs | the count matches its records |
| `services/model-router`, `services/agent-service` | relay per request; agent execution | route, cancel; execute, cancel | provider signals carry no request id | one relay per provider |
| `services/conversation-controller`, `-service` | conversation rows | create, delete | deletion during a turn | the turn is stopped first |
| `services/task-gate-service`, `chat/streaming-manager`, `chat/memory-retriever`, `chat/action-intent-confirmer`, `ragp/*` | anchor, stream, query, watcher, verdict cache | answered once per turn | late answers | seen through ConversationRun and CascadeController |
| `services/heartbeat-subagent-service`, `-queue`, `heartbeat-config-service`, `utils/heartbeat-schedule` | configs and reports (rows), queue, run in flight, review, run timer, deferred posts | schedule tick, runNow, cancel, pause, finish, error, time out, review, post, dismiss, delete, restart | one background slot; time-out against late answer; posts deferred while a conversation streams | an accepted run gets a run or a report; a run ends; a pause is quiet; the daily cap holds; schedules fire |
| `utils/http-client` (streaming) | reply, last request, retry timers | postStream, cancel, end, error, 429 | a retry timer outlives a cancel | seen through the heartbeat's background slot |
| `services/task-runner`, `plan-service`, `task-controller`, `task-gate-service` | plans, steps, statuses; one anchor | start, stop and complete task tools, markers, retry, skip, override, switch, delete | one anchor for all conversations; tools against the user | the anchor is live; a plan with nothing left is closed; only the user reopens one |
| `services/inference-sidecar-host`, `inference/*`, `api/llamacpp-provider` | lane of requests, belief about loaded models, child process | blocking calls, streams, cancel, load, spawn, crash, shutdown | crash with calls pending; time-out against late answer | every request ends once, by its own model |
| `remote/wire-host-bridge`, `remote/server/wire-session`, `wire-server`, `wire-host-client`, `services/folder-mount-client-wire` | link to the daemon, sessions, pending calls on three sides | call a client, reply, sweep, reconnect, authenticate, evict, stop | loss at every hand-over; reconnects; superseded sessions | a call is resolved once and in time |
| `services/background-process-service`, `utils/process-sandbox` | processes, cap | start, exit, stop | operating-system outcomes | not modelled |
| `services/conversation-summarizer`, `history-budgeter` | summaries | generate | runs next to a turn | decision only |
| voice, canvas, images, audio, RAG, MCP, memberships, polls, messages, database, provider adapters, tools, skills, settings, UI | mostly rows, text, I/O | | | not modelled |

`PROJECT.json` lists every component with its sources and status, and the hazards at their lines.

Interactions that the model keeps:

* a run acquires a slot (`ConversationRun -> ProviderScheduler`), the scheduler calls back from a
  zero timer; the run routes its request (`-> ModelRouter`) or lets its agent do so;
* the router's terminal signal makes the run release the slot *before* it looks at the reply;
* the reply goes to the tool dispatcher, the intent confirmer or the cascade, each of which answers
  now or later with a continuation, another member's turn or the end;
* the end emits `isGeneratingChanged`; the session router counts, and when the last session falls
  idle it emits `slotAvailable`, which synchronously starts queued messages of *other* runs before
  the first run's handler has finished;
* deletion and session teardown stop and destroy runs in the middle of any of this;
* turns, task tools and the user's buttons all write plan statuses; the gate listens and clears the
  one anchor that every conversation's next request reads;
* heartbeats share the router's background slot and one HTTP client with themselves only; their posts
  ask the chat controller whether a conversation streams;
* a worker blocks on a semaphore until the inference host's or the bridge's thread releases it.

## Modules and how they correspond to the code

```
ProviderBuckets ---EXTENDS--- ProviderScheduler ---EXTENDS--- ProviderSchedulerProofs
       |                          | INSTANCE
       |                       SlotPool            (abstract specification)
       +------EXTENDS---- ConversationRun ---EXTENDS--- ConversationRunProofs
                          (scheduler + run + router + agent + sessions)
ChatController ---EXTENDS--- SessionRouter ---EXTENDS--- SessionRouterProofs
CascadeController ---EXTENDS--- CascadeControllerProofs
ToolDispatcher ---EXTENDS--- ToolDispatcherProofs
HeartbeatSchedule ---EXTENDS--- HeartbeatSubagents ---EXTENDS--- MCHeartbeats
TaskPlans ---EXTENDS--- MCTaskPlans, TaskPlansProofs
InferenceSidecar ---EXTENDS--- MCInferenceSidecar, InferenceSidecarProofs
ClientRpc ---EXTENDS--- ClientRpcProofs
    | INSTANCE
OneShotCall                                        (abstract specification)
```

* **ProviderBuckets** - the scheduler's methods as operators on one provider's bucket, named as in
  `provider-scheduler.cpp`.  Shared by the next two, so that the proofs and the composition speak of
  the same code.
* **ProviderScheduler** - the methods closed with clients that keep the class comment's contract.
  `client[w]` is what run `w` believes: idle, queued, posted (a grant is in the event loop) or held.
* **SlotPool** - what the scheduler promises: a client waits only for a full provider, and a freed
  slot changes hands in one step.  No queue, no counter, no callback.
* **ConversationRun** - the real client.  `run[c]` has one field per member of the class that
  decides control, each commented with the member's name.  A handler is an operator on the whole
  state.  `calls` is the stack of handlers that an `emit` interrupted; `posted` is the event loop's
  FIFO of zero timers; `wire[p]` is the run a provider works for.  Slots, routing, agents, recall,
  continuations, stop, teardown and `slotAvailable` are modelled; what the cascade and the tools
  decide is an input, bounded as the cascade bounds it.  `Features` selects the kinds of event an
  instance contains, so that each run asks one question.
* **CascadeController** - the record `cc` holds the controller's members; operators return it with
  the signal they emitted in `out`, and `React` is the run's slot for that signal.  Inputs are the
  kind of reply (plain, mentioning, bad = empty, echoed or impersonated), whether its content has a
  fingerprint, tool batches, verdicts and members that leave.  A verdict is resolved against the roster
  it was asked with (`asked`), the dispatcher against the present one.
* **ToolDispatcher** - `d` is the dispatcher, `workers` the calls on other threads, `ticks` the
  posted `dispatchNext` calls, `log` the rows of the current assistant message.
* **ChatController / SessionRouter** - a controller's run map as operators, then sessions, users,
  background events, deletions and disconnects over it.  A run is reduced to the conversation it
  shows and the one its turn is for.
* **HeartbeatSchedule** - the schedule forms and `nextFireTime`, with instants relative to now so
  that time can run on without bound.
* **HeartbeatSubagents** - `hb` is the service (queue, the run or review in flight, timer, deferred
  posts), `db` the rows, `net` the background relay and the HTTP client, `streaming` the
  conversations with a turn in flight.  `drainQueue` is the mutual recursion of `drainQueue` and
  `dispatchEntry` as a fold; the loop of `drainPendingPostsFor` is one round per step, so that its
  end is a property.  A restart keeps the rows only.
* **TaskPlans** - `rows` are the plans with their steps, `later` which of two was updated later, `anchor`
  the gate's plan, `turn[c]` the phase of a conversation's turn, `front` what the desktop shows,
  `loaded` and `keyed` which conversations have a run that has, or has not, loaded them.  Steps are
  owned by an agent, whatever owner a model names; only a task without an outline in a group without
  members is the user's (`StepOwners`).
* **InferenceSidecar** - `host` is the I/O thread's worker, `child` the process with its pipes,
  `posts` and `toMain` the queued calls between threads, `caller` the one blocked caller
  (`callerMutex`), `ended[r]` the outcomes request `r` was given.  The child's output may also hold
  noise: a malformed frame is skipped, an oversized one ends the process.
* **ClientRpc** - a worker's call to a remote client: `peer` is the bridge's thread, `link[l]` a
  local connection with its two directions, `daemon` the server process, `session[s]` a WebSocket
  session with its pending calls, `performed` how often the client carried each request out.
  **OneShotCall** is what the worker may rely on: one outcome per call, an answer only for what was
  performed, and that at most once.

Definitions used only as deliberate defects (`releaseForgetsSlot`, `releaseGrantsNewest`, ...) stand before
the definition they vary.  Each replaces it once, in a run that must then fail: this shows that the
property notices that defect.

Details kept because they matter:

* request ids are compared for equality only, so an id nobody refers to is reused
  (`nextGlobalRequestId`), which keeps the state space finite and loses no behaviour;
* a provider's terminal signal reaches *every* run with a relay on it, as Qt's signals do;
* a destroyed run's timers do nothing when they fire (they have the run as their context) but a
  grant posted by the scheduler is still called;
* `emplace` on a taken key destroys the run that was to be moved (`rekeyRun`, `createRun`).

## Runs

| Run | Question | Distinct states |
|---|---|---|
| `MCProviderScheduler` | Are slots counted exactly, queues FIFO and never stranded, waiters served, and is the scheduler a slot pool? | 2 628 |
| `MCContinuations` | Every way a turn continues or fails, agents, queued text, two runs competing for one provider: does every slot come back, every turn end, and the text leave? | 27 738 |
| `MCStops` | Agent and plan turns stopped, deleted and torn down anywhere: is a slot ever shared, does a reply reach two runs? | 239 636 |
| `MCCascade` | Are dispatches bounded, is each queue in order, does no cascade end silently with work waiting, and does the team fall silent? | 12 184 |
| `MCTools` | Are batches ordered, answered, within budget, and do failing tools end the turn? | 8 389 |
| `MCSessions` | Do run maps and the router's count survive switches, background turns, deletions, disconnects? | 38 449 |
| `MCHeartbeats` | Is an accepted run ever lost, does every run end, is a pause quiet, does the daily cap hold, through time-outs, retries, reviews, posts, deletions and restarts? | 331 992 |
| `MCTaskPlans` | Is the anchor live, is a plan with nothing left closed, does only the user reopen one? | 811 192 |
| `MCInferenceSidecar` | Does every request end, once, by the model it asked for, whatever the child does? | 181 936 |
| `MCClientRpc` | Is a call performed at most once, resolved once and in time, and is a superseded session empty? | 308 700 |
| `MCHeartbeatDrain`, `MCHeartbeatSchedules` | violations, see below | |

What the properties say, beyond their comments:

* `SlotsMatchHolders` is the scheduler's contract seen from its real client, at rest (no handler in
  progress).  It holds while nobody stops or destroys a run (`MCContinuations`) and
  fails otherwise (`MCStaleGrant`, `MCTeardown`).  `SlotNeverShared` is the half that always holds:
  slots can be lost but are never handed out twice.
* `SomethingPending` is the safety core of `TurnEnds`: a generating run always has a request, a
  place in a queue, a timer or a worker that will move it.
* `QueuedTextLeaves` says when text typed during a turn goes out.  A turn whose cascade ends sends it;
  a turn that fails, or an agent's that ends, leaves it behind (`Stranded`), and then it waits for
  `slotAvailable`: some other session must be generating, and nothing waits in an idle application.
  That such text waits at all is against the code's comment: `MCStrandedText`.
* `OnePlacePerQueue` speaks of each queue by itself.  A member that the user mentioned may stand in
  the deferred queue while a verdict or a tool has it speak, and then it speaks again: `enqueueTarget`
  looks at the immediate queue only, and `tryDispatchNext` takes what it finds.
* `NoSilentEnd` looks at the members waiting *before* the step that ends a cascade.
* `RepointResynchronises` states what the router's count is good for: it is exact at the moment the
  facade moves, although it may be wrong between.
* `NoLostRun` follows an entry from the moment the queue accepts it: it waits, or runs, or left a
  row, or its config was deleted; a process exit is the only thing that may forget it.
* `RunEnds` and `PausedMeansQuiet` hold although a review (Tier 2) shares slot, timer and
  accumulator with runs: the timer is what ends a run whose reply was dropped by an earlier run's
  retry or review.  `RunEnds` excepts the endless drain that `DrainEnds` is about.
* `NoOvertaking` speaks of the step that grants: whoever gets a slot, nobody who stood in front of it
  is left without one, and nobody is put in front of a waiter that stays.  A release that serves the
  newest waiter violates it, as does an arrival that jumps the queue.
* `BudgetHolds` bounds the calls and the failures in a row while tools run.  Failures are tested
  between batches only, so they may pass their cap by the calls of one batch.
* `AnchorIsLive` is about plans that were completed or have failed.  A plan deleted with its
  conversation leaves its id in the anchor; `buildRequest` and the tools find no row and drop it.
* `OnlyUserReopens` is the reason why `updatePlanStatus` may write any status: of its callers, only
  the user's step buttons reach a closed plan.
* `OwnModelAnswers` and `InFlightIsReal` relate the host's belief to the child's state across
  crashes; `EndsOnce` counts the outcomes of one request over all of the six ways it can end.
  `RequestEnds` says that a request ends and that the provider hears of the end of its stream, unless
  the host is being destroyed: the destructor drops the signals still queued to it.
* `ImplementsOneShotCall` maps a call's status to what its caller was told, a caller that gave up
  having been refused, and counts performances: a request that reached the client twice would violate
  it.  `CallbackFires` needs
  only that threads, timers and the link make progress: a client that never answers is covered by
  the sweep.

Runs that say `CHECK_DEADLOCK FALSE` are those whose system may stop: all runs destroyed
(`MCStops`), no conversation left or the program at a destroyed run (`MCSessions` and relatives), and
bounded numbers of steps, plans, requests or sessions used up (`MCHeartbeats`, `MCTaskPlans`,
`MCInferenceSidecar`, `MCClientRpc`).

### Bounds

Two runs and two providers are the least with which a slot can be lost on one provider while a turn
runs on the other; three waiters give the scheduler a queue with a middle to cancel from.  A default
limit of 1 makes every second request queue.  Two members with caps of 1 and 2 hit every cap in a
round; two autonomous rounds show the reset between them.  Three calls per batch with a budget of 4
let a budget end inside a batch and across two.  Two conversations and the empty key suffice for
every rekeying conflict.  Two heartbeat configs with one target compete for the slot, the queue and
the conversation's posting cap.  Two conversations and two plans let the anchor
be another conversation's plan than the one a turn or a button works on.  Two requests over two models, one blocking slot and
the chat slot put one in flight and one behind it that wants the other model; with
`kMaxConsecutiveSpawnFailures` at 1 (3 in the code) the latch falls at the first process that does
not start, with the other request waiting.  Two calls, two
sessions and two links are a client that reconnects and a daemon that does, or one daemon whose
connection either side drops; with one pending call in the bridge's table and one in a session's the
second call meets both limits.  Where a component is proved correct, the theorems hold without these
bounds: the instance then only has to show that the interesting cases happen.

Named bounds: `MaxContinuations` (turns a cascade adds), `MaxPosted` (timers pending when a user
acts again), `MaxCalls`, `MaxIterations` (above every cap, where the count makes no difference),
`MaxWorkers`, `MaxTargets` (members one verdict names); `MaxRuns`, `MaxSteps` (steps of users and
other turns), `MaxRetryTimers`, `MaxPosts`, `MaxAge` (beyond which ages make no difference) in the
heartbeats; `MaxPlans`, `MaxGenerating`, and the steps `left` in the plans; `MaxRequests` in the
sidecar, whose `fresh` lets a stream be cancelled once; `MaxSessions`, `MaxLinks`, `MaxAbandoned` (callers
gone while their call travels) in the calls.  The caps of the code
(`kMaxAgentCascade`, `kMaxTurnsPerMember`, `kMaxEchoRetries`, `kMaxAutoRounds`,
`kMaxGroupDeferredPerAlias`, `kMaxConsecutiveToolFailures`) are constants with small values.
Symmetry (of the conversations) is used in `MCTaskPlans` only, which checks no liveness.

### Fairness

* `ProviderScheduler`: weak fairness of `RunGrant` (the event loop runs posted callbacks) and of
  `Release` (a turn reaches a terminal path, which `MCContinuations` checks of the real client).
* `ConversationRun`: calls return (weak).  Timers, providers' reports and workers' answers have
  strong fairness, because each is disabled while another handler runs: the event loop, back from a
  handler, eventually serves a source that is ready again and again.  A provider may answer with an
  error.  Users are never obliged to act.
* `CascadeController`: a dispatched member replies and a classification ends (weak).
* `ToolDispatcher`: replies end, tools return, timers fire (weak).
* `HeartbeatSubagents`: the loop over deferred posts goes on, and the run timer, once armed, is not
  refused for ever by an event loop that is free again and again.  The timer's guard is spelled out
  (`RunTimerFires`), because a tick that restarts the timer must not count as its firing.  Providers,
  turns and users need not act.  `ScheduleSpec` has the schedule tick weakly fair and nobody else.
* `InferenceSidecar`: the worker's thread and the process make progress (weak); nothing obliges the
  child to crash, or the caller to wait.  The code has no watchdog, so a process that hangs without
  exiting would block its lane; the assumption on `Process` excludes exactly that.
* `ClientRpc`: queued calls and socket events are served, the sweep timers fire (weak).  Clients,
  users and the daemon's life are free.

That a provider or worker answers is justified by timeouts (transfer timeout of the HTTP client,
tool and classifier timeouts).  One caveat: a provider that answers 429 for ever is retried for ever,
since every retry resets the retry count (`utils/http-client.cpp`), so the assumption fails for it.

## Proofs

Eight modules hold theorems.  All of them are of the form `Spec => []P`, `Spec => [][A]_vars` or
`Spec => AbstractSpec`, for every value of the constants that the named assumptions allow: these ask
for finite sets where the code counts (runs, providers, waiters, calls, conversations, clients), for
distinct model values and for caps that are positive where the code's are.  Every theorem rests on an
inductive invariant of its module (the proofs about turns and cascades have two), proved action by
action; the properties are corollaries.  TLC checks the properties themselves in the runs.

| Module | Theorems | Properties they establish |
|---|---|---|
| `ProviderSchedulerProofs` | `Inductive`, `TypeCorrect`, `SlotsAccounted`, `QueuesMatch`, `NobodyStranded`, `FirstInFirstOut`, `RefinesSlotPool` | `TypeOK`, `SlotAccounting`, `QueueMatchesClients`, `NoIdleSlotWithWaiters`, `NoOvertaking`, `ImplementsSlotPool` |
| `ConversationRunProofs` | `SlotHasOneOwner`, `SlotIsNeverShared`, `RepliesReachOneRun`, `TurnsKeepModes`, `SlotsAreHeld`, `TurnsHaveWork`, `RecallsKeepRepliesApart` | `SlotNeverShared`, `NoCrossTalk`, `SlotsMatchHolders`, `SomethingPending` |
| `CascadeControllerProofs` | `Inductive`, `DispatchesBounded`, `LineInOrder`, `PlacesInQueues`, `EndsAreVisible` | `BoundedByRounds`, `OnePlacePerQueue`, `NoSilentEnd` |
| `ToolDispatcherProofs` | `Inductive`, `TypeCorrect`, `RowsPairUp`, `BudgetKept`, `NoEarlyReply` | `ResultsPairUp`, `BudgetHolds`, `AllAnswered` |
| `SessionRouterProofs` | `CounterExact`, `MapsStaySound`, `TurnsApart`, `DeletedStaysQuiet`, `SwitchIsHarmless`, `RepointTellsTruth` | `CountIsSum`, `OneTurnPerConversation`, `DesktopLeavesDeleted`, `SwitchKeepsTurns`, `RepointResynchronises` |
| `TaskPlansProofs` | `Inductive`, `AnchorStaysLive`, `FinishedPlansClose`, `ModelsNeverReopen` | `AnchorIsLive`, `NothingLeftMeansClosed`, `OnlyUserReopens` |
| `InferenceSidecarProofs` | `Inductive`, `NoneAnsweredTwice`, `AnsweredByOwnModel`, `WaitsForSomething` | `EndsOnce`, `OwnModelAnswers`, `InFlightIsReal` |
| `ClientRpcProofs` | `Inductive`, `TypeCorrect`, `OneSessionPerClient`, `RefinesOneShotCall` | `ReplacedSessionIsEmpty`, `ImplementsOneShotCall` |

The arguments, and why the properties alone are not inductive:

* **Provider scheduler.**  `IInv` is the conjunction of the four state properties.
  `SlotAccounting` survives a `release` that hands the slot on only because the head of the queue is
  queued and not already an owner (`QueueMatchesClients`), and the same for each waiter a raised
  limit admits; `QueueMatchesClients` survives a grant only because no waiter stands twice in a
  queue; `NoIdleSlotWithWaiters` survives a `release` because the counter goes down and up in one
  step.  One lemma per method says what it does to a bucket (`AcquireEffect` ... `LimitEffect`);
  the bodies are expanded nowhere else.  For `FirstInFirstOut` two
  facts are drawn from those effects: a queue keeps the order of those that stay and appends who is
  new (`KeepsOrder`), and who gets a slot has nobody left in front of it (`StepServesInOrder`).
  `RefinesSlotPool` maps limits to capacities and beliefs to the pool's turns; a `release` with a queue is the pool's hand-over, a raised limit its resize.
* **Turns: slots.**  `SlotNeverShared` compares counts, and handlers nest: a run that has just
  acquired a slot does not hold it yet, a run that has given its slot back may still have the relay
  of the request it made with it.  The invariant (`IInv`) therefore speaks of owners: a run owns a
  slot when it holds it or is wired to what its provider answers, a posted grant owns the slot it is
  for, and a slot has one owner at most, whose provider counts one in flight (`Apart`).  Each
  handler is argued once, from the caller's state to the state it leaves (the lemmas `...Core`), with
  the run whose relay is about to be dropped disregarded until it is (`DisregardCore`,
  `RestoreCore`).  A slot just granted is `Vacant`: counted and nobody's.  Since the wired runs are
  owners, `NoCrossTalk` follows, under the hypothesis `"memory" \notin Features`: a late recall
  dispatches a run again that may be wired, as `MCStaleRecall` shows, so with recalls the relays are
  not counted and, while turns are stopped, only `SlotNeverShared` is proved.
* **Turns: modes.**  `SlotsMatchHolders` and `SomethingPending` say that nothing is lost, so they need
  to know what each turn waits for.  `TurnInv` says that a run is in exactly one of the `Modes`: idle,
  wired to a provider, served by the agent, waiting in a queue, granted by a posted timer, at a tool
  batch, a recall, a confirmation or a verdict, or about to build.  The mode fixes the members that
  matter (`Row`), the one queue place a run may have, with the current request in it (`Queued`), and
  the one timer that may wake it (`Timed`).  It also says that every counted slot is held or carried
  by a posted grant (`Accounted`) and that a provider works for the run wired to it (`Wired`).  Inside
  a handler a run is in a mode of its own: `free`, `called` back with a grant, or it only `holds`.
  Each handler is argued once from the modes it may be entered in to those it may leave (the lemmas
  `...Turn`); between a provider's report and the handler it reaches the run keeps its relay, and
  only that run is told (`Told`).  Request ids are compared for equality only, so a fresh one must
  differ from all that are captured anywhere (`RequestIdFacts`): there are finitely many, which is why
  the sets of runs and providers are assumed finite.  The hypothesis is `Undisturbed`: nobody stops a
  turn, ends a session or deletes a conversation.  It is needed, as `MCStaleGrant` and `MCTeardown`
  show for `SlotsMatchHolders`, and holds of `MCContinuations`, the run that checks the two properties.
  Under it `NoCrossTalk` holds with recalls too, since no stopped turn leaves one behind.
* **Cascade.**  `dispatched` is a history variable; the controller's counters pay for it.  While a
  cascade is open it is at most `(round - 1) * MaxAgentCascade + iterations` (`Spent`): a dispatch
  raises `iterations`, and `nextRound`, which starts them again, raises `round` by a whole budget.
  Retries and continuations of the same member dispatch nobody and cost nothing.  `Fits` states this
  of each operation's result, so that the run's reaction (`Reacted`) is argued once.
  That the immediate queue does not name the speaker survives a dispatch only because nobody stands
  in it twice: the head that gets the floor might otherwise stand behind itself.  `Line` says so of
  every operation's result, and of the deferred queue that it names nobody twice; a second relation
  (`Serves`) says of each operation that whoever waited still waits, unless somebody speaks next or
  the end is a visible pause; `NoSilentEnd` is that relation composed over a step.  Targets and
  mentions are taken one after the other by recursive functions; what holds of every prefix is shown
  by looking at the first place where it would fail (`StepByStep`, from the well-foundedness of `<`).
* **Tool dispatcher.**  The rows of a batch tell how far it is: `Started` calls, the last of them
  `Running` or answered.  The invariant ties pending calls, workers of this request and the posted
  dispatch to that (`Batch`), says that between batches nothing is left of the last one
  (`Gathering`), and that a new request's id is not one an abandoned worker still carries
  (`FreshRequest`): without it a late answer would count for the wrong batch.
* **Sessions and run maps.**  `CountIsSum` needs only that a session that is not open counts for
  nothing, and is proved for all features.  The others need that no run has two keys
  (`RunsApart`), that what a run shows and generates is its key's conversation or nothing
  (`TurnsInPlace`), and that the active run belongs to the active key (`FacadeFollows`).  They are
  proved under the hypothesis `"stale" \notin Features`: nobody opens a list entry of a conversation
  that is already deleted.  The hypothesis is needed, as `MCDuplicateRun` shows, and holds of
  `MCSessions`.
* **Plans.**  `Good` says of the state each handler works on that the anchor is live and that a plan
  with nothing left is closed.  Between a step's write and the status that follows it, it holds but
  for that plan (`GoodBut`); each handler that writes a step is shown to come back to `Good`.
* **Sidecar.**  Three parts.  `Lane`: a request is posted, queued, in flight or ended, one of these
  and once, so nobody can tell it a second outcome.  `Told`: outcomes are honest about the model.
  `Wire`: what the host believes agrees with pipes and child - idle, a load asked for or told, a
  request asked for, streaming or answered, or the child is gone - with at most one frame other
  than a cancel on its way.  `Wire` is what makes a late answer impossible after a crash and a
  restart, since a new child starts with empty pipes.
* **Calls to clients.**  Whatever carries a call towards the client (the bridge's inbox, a link, a
  session's socket) is a place; a call is in at most one of them, once, and not performed yet
  (`Travelling`).  What the bridge waits for has not ended (`Waiting`), an answer claims only what
  was performed (`Answers`), and only one open session is bound to the client (`Replaced`).  So no
  call is performed twice, and each step is a step of `OneShotCall` or a stutter.

Only model-checked:

* liveness (`QueuedIsServed`, `TurnEnds`, `QueuedTextLeaves`, `CascadeEnds`, `FailingToolsEnd`,
  `RunEnds`, `RequestEnds`, `CallbackFires`): fairness and ENABLED are outside the prover;
* `NoLostRun`, `PausedMeansQuiet` and `DailyCap` of the heartbeats, whose `drainQueue` is a fold over
  the queue: the prover cannot instantiate the library's facts about folds.

## Where code and comments disagree

Two runs are kept as violations; `PROJECT.json` quotes the lines.

* `MCHeartbeatDrain` - a report waits for its conversation's stream; when the stream's message is
  finalised the report is drained while the turn still counts as in flight, is put back, and is
  drained again: the loop on the main thread does not end.
* `MCHeartbeatSchedules` - the tick compares the next fire with now, and `nextFireTime` returns an
  instant after now for every form but an interval that has fired before: schedules do not start.

Further configurations state what a comment says and are violated in the same way.  They are not
part of the regular runs; `tlc -config <name>.cfg <module>` shows each trace (the module is the one
that defines the property, or its `MC` module where there is one).

| Configuration | Property | Says | What the code does |
|---|---|---|---|
| `MCStaleGrant` | `SlotsMatchHolders` | `conversation-run.cpp:2575`, `provider-scheduler.h:38-45` | stop a queued turn after its grant was posted, resend on another provider: the stale grant overwrites the record of the slot the new turn holds, which is never released |
| `MCStaleRecall` | `NoCrossTalk` | `conversation-run.cpp:2508` | a recall that a stopped turn's leftover timer began is taken for the next turn's, whose request is dispatched again: its slot is given away while its provider still works for it, and one reply reaches two runs |
| `MCRemoteDelete`, naming it | `ActiveRunResolves` | `chat-controller.h:1331` | deleting the active conversation while the constructor's run is still in the map destroys the active run |
| `MCBatchCap` | `NotLeftOpen` | `tool-dispatcher.cpp:367` | a batch that reaches the tool budget in its middle reports `batchFailed`, which the run only logs: the turn stays open |
| `MCTeardown` | `SlotsMatchHolders` | `conversation-run.cpp:2564-2568` | a run destroyed while its grant is posted leaves the slot counted |
| `MCGhostTurn` | `CancelledNeverResumes` | `conversation-run.cpp:1067-1069` | a posted continuation survives a stop and sends a request |
| `MCAgentFlag` | `HeldMeansWorking` | `conversation-run.cpp:1350-1358` | stopping an agent turn that waits keeps `m_usingAgent`, so the next direct turn's terminal is ignored and its slot kept |
| `MCStopFlag` | `OnlyStoppedTurnsCancelPlans` | `task-gate-service.h:225-231` | the cancel flag of a stopped turn is read by a later task turn |
| `MCStaleVerdict` | `StaleVerdictDropped` | `cascade-controller.h:111-113` | the request id of a verdict is unused |
| `MCLoweredLimit` | `LoweredLimitStopsGrants` | `provider-scheduler.h:170-172` | a release hands the slot on although the count is above the lowered limit |
| `MCMemberCap` | `MemberTurnsBounded` | `cascade-controller.h:405-411` | the cap is tested when a member is enqueued and counted when it replies |
| `MCStrandedText` | `DrainsWhenIdle` | `conversation-run.cpp:2303-2305` | text queued behind a turn that fails waits until all sessions are idle |
| `MCSessionCount` | `CountIsTruth` | `session-router.h:316-317` | turns of background runs send no signal |
| `MCRemoteDelete`, naming it | `RunShowsItsKey` | `chat-controller.h:1413-1415` | `createRun` does not set the conversation the run shows |
| `MCRemoteDelete` | `NoTurnInDeletedConversation` | `conversation-controller.cpp:124-129` | only the desktop's controller is told of a deletion |
| `MCDuplicateRun` | `OneTurnPerConversation` | `chat-controller.h:1309-1310` | opening a deleted conversation's entry leaves the map's key and the run's conversation apart |
| `MCSharedAnchor` | `TurnTouchesOwnPlans` | `task-gate-service.h:232-236` | the gate is one object for all conversations: a turn closes the plan another conversation anchored |
| `MCStopPlan` | `StopPlanStopsTurn` | `task-controller.h:222-225` | closing the plan clears the anchor before the runs are told, so none of them takes the stop for its own and the turn goes on |
| `MCWarmModel` | `WarmMeansLoaded` | `inference-sidecar-host.h:123` | a warm-up whose caller sees success may have found another model loaded in between |
| `MCStreamCancel` | `CancelLands` | `inference-sidecar-host.h:187-190` | a cancel that arrives while the stream's model loads is sent with no frame the child knows, and is dropped |
| `MCZombieSession` | `LiveSessionIsReached` | `wire-session.h:240`, `wire-server.h:108-122` | while an evicted session still closes it stays first in the list, and calls go to it and are refused |
| `MCDaemonStart` | `DaemonConnects` | `wire-host-client.h:11` | a first connection that fails emits no disconnect, so no reconnect is scheduled |
| `MCWrittenTwice` | `WrittenOnce` | `file-service.cpp:956-965` | a write whose answer is lost counts as undone and is repeated locally |

Two of these bound what the regular runs say: `MCSessions` leaves out opening a deleted
conversation (`"stale"`), and `MCContinuations` leaves out stops.

`SpeakerWaitsNowhere` of `CascadeController` fails when it is named in `MCCascade.cfg`: the comment of
`enqueueDeferredTarget` (`cascade-controller.cpp:196-199`) counts on a dispatcher that would dedupe at
pop time, and `tryDispatchNext` does not.

Three more properties of `HeartbeatSubagents` are stated and fail when named in `MCHeartbeats.cfg`:
`CancelIsRecorded` (a cancelled run keeps the outcome "pending" in its row), `PostedOnce` (a report
posted by hand while its deferred automatic post waits is posted twice) and `ReviewDecided` (a review
whose reply is lost is not ended by the timer).

Read in the code, and behind a definition without a property of its own: skipping a step records it as
done where `task-runner.h` says blocked (`userSkipStep`); the dispatch queue a retry fills is only
ever emptied unread (`userRetryStep`); `start_task` and a file-writing tool in one batch make two plans
(`autoAnchor`).

## What is not modelled

Within the modelled components: storing and showing messages, attachments and their failures
(`storeUserMessage` failing), `retryLastMessage`, `compactNow`, the artifact follow-up; echo,
impersonation and narration detection (inputs); tool arguments and results; the agent's inner loop;
property forwarding to QML; destroying the local session; the text of reports and the cascade that a
posted report starts; step artifacts and the task observer; the plan operations that nothing calls
(`handleSubmitResult`, `handleReportBlocked`, `handleUpdatePlanStep`, `appendStepToPlan`); the HTTP
client's plain requests and its retry count (every retry resets it); prompts, vectors and frame ids
of the sidecar; the operations remote clients invoke on the host, and events sent to them; file
manifests and fingerprints.  A dispatch posted to the bridge's thread just before that thread quits
never runs: its caller waits out its own limit (`GiveUp`).

Outside them: everything marked so in the inventory, for the reasons `PROJECT.json` gives.  Most of
the repository's lines are of that kind: rows and SQL, prompt assembly, wire formats, request
decoding, audio and image I/O, and the UI, where a model would restate the text.

## Plan

1. Done: scheduler, abstract slot pool, proofs; turns; cascade; tools; run maps and sessions.
2. Done: heartbeats with the background slot and its HTTP retries; plans and the anchor; the
   inference sidecar; calls to remote clients and the one-shot call they implement.
3. Done: proofs for eight components (above).
4. Proofs next: `DailyCap` and `PausedMeansQuiet` of the heartbeats, if their fold can be replaced by
   one step per entry without changing what the code does in one handler.
5. Candidates for later: background processes, the summarizer, the MCP client, poll closing.
