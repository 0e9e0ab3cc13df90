# Elowen: specification and proofs

Elowen is a self-hosted daemon that runs AI agents: conversations of people
(web, CLI, chat platforms) whose turns are executed by a model, and sub-agents
those turns delegate work to. This directory holds a TLA+ model of the parts of
the daemon whose correctness depends on order: events and promise continuations
interleaving in one process, child processes that boot, die and are re-forked,
and durable rows read by the next boot. Every definition is translated from the
TypeScript and JavaScript under `src/`; `PROJECT.json` maps each one to its file
and lines.

## 1. The system

### Components

| Component | State it keeps | Operations | What makes it hard | What makes it correct |
|---|---|---|---|---|
| Fair producer queue (`src/subagent/fairQueue.ts`) | a lane per producer, the rotation, a count | push, shift, unshift | three redundant structures; a drain takes items out and puts them back | they agree; each lane is FIFO; no producer passes another without bound |
| Sub-agent runner pool (`pool.ts`, `sizing.ts`, `dispatch.ts`) | listed runners with their load, session routes, queue, the fork in progress, a generation | run, drain, grow, exit, maintain, release, nested edge, reset, in-process fallback | continuations that settle after a reset or an exit; routes changed across an await | exact admission, live routes, no turn run twice, none lost, cap respected |
| Runner host and runner process (`runnerHost.ts`, `runner.ts`) | child and ready promise, pending turns, dead flag; `runningChannels` in the child | fork, handshake, post, exit, reset; turn, release, leave | a host whose pointer was cleared forks again while the first process leaves | pending turns settled on exit, none handed to two processes |
| Delegation store and inbox (`store/brainDelegationStore.ts`) | a run row per delegated call (lifecycle, owner boot, attempt), a result row per call (delivery state) | upsert, enqueue, acknowledge, requeue, claim, complete, park, supersede, discard | crash between two writes, a second boot, a late real answer after a synthetic one | an orphan has one claimant; a completed call has a result row; a real answer is never replaced |
| Delegated sessions and their recovery (`brain/service/delegatedSession.ts`, `brain/recovery/`) | claims of a boot | claim all, resume leaves first | synchronous claim, asynchronous resume, nested claims | everything claimed ends, and its caller hears of it |
| Workflow engine (`plugins/subagent/lib/workflow.mjs`, `dag.mjs`) | the graph, a state object per node, runs, the journal, the row, the result | start, add nodes, tick, stop, abort, detach, resume, summarise, boot claim | tasks of an old run that go on after a resume; a summary that is still being written; restart between journal, row and result | a node runs after its dependencies, once per run; no run sleeps; every run is reported |
| Channel sessions and platform turns (`brain/channels.ts`, `brain/platformTurnRecovery.ts`) | the room's lock and queue, envelope, park marker, delivery row, interruption row | send, capture, settle, park, sweep, resume, post | posts that arrive without confirmation; a result and a sweep that resume the same turn; a newer turn meanwhile | a parked turn is continued or its answer posted, neither without bound |
| Conversation queue (`brain/service/turnAdmission.ts`, `sessionQueue.ts`, `sessionTeardown.ts`, `brain/session/queueMirror.ts`) | the mirror of the PI library's queue, the checkpointed queue, the Esc-discard claim | send, steer, deliver, remove, recall, Esc, promote, checkpoint, replay | positional removal, an Esc decided before an await and carried out after it, a replay that races a new message | a message is in one place until it is in the transcript or its user took it back |
| Elicitation (`brain/elicitation.ts`) | parked questions, a serialised chain of approvals | ask, answer, time out, cancel | parallel tool calls, an answer racing a timeout or a cancel | each prompt settles once; approvals are shown one after the other |
| Pause for restart (`daemon/shutdown.ts`, `brain/turnPark.ts`, `brainService.ts`) | park markers, checkpointed queue, envelopes | checkpoint, park, bounded waits, exit | the process may leave at any point of it | what is parked is durable before the exit, and resumed once |
| Goal loop, credentials, process registry, stores, memory, plugin host, HTTP API, web, CLI | rows, files, views | | sequential, single statements, or pure I/O | listed in `PROJECT.json` with the reason they are left out |

### How they interact

A turn that delegates calls the dispatcher (`dispatch.ts`). Unless the daemon is
configured to run sub-agents in-process, the dispatcher asks the pool; the pool
places the turn on a runner host, which posts it over IPC to its child process,
and the child answers with progress, a reply or an error. A child that delegates
in turn reports a nested edge, which pins the grandchild to the same runner. When
no runner could be started the dispatcher runs the turn in the daemon. The call
is recorded as a run row while it is open; its answer goes back to the parent
turn, or, if the parent no longer waits, into the durable inbox from which the
parent is woken. After a restart the claim pass gives every open row to the new
boot, and the resume pass completes it through the same inbox.

A workflow is a graph of such children run by one engine object in the daemon.
The engine writes a journal after every change and publishes a row; the outcome
of a run is the result of the tool call that waits for it, or a row of a result
inbox like that of a delegated call.

A message of a person reaches the daemon from a chat room or from an owner's
client. In a room it is a turn under the room's lock; a pause parks that turn
with the envelope it was captured with, the boot's sweep continues it, and the
answer is posted from a delivery row until the platform confirms it. For an owner
it is a turn of its own or a steer in the queue of the running turn; a pause
checkpoints that queue, and the boot replays it after the interrupted turn.

### Execution model

The daemon is one JavaScript event loop. Between two awaits nothing interleaves,
and when an event ends its promise continuations (microtasks) run before the
next event. The models keep exactly this granularity: an event handler up to its
first await is one action, the continuation another. In `SubagentPool`, where
continuations share state with the events that follow, a predicate `Quiet` keeps
events from starting while continuations are due; the other models let any
continuation wait, which is more behaviours and not fewer. Runner processes are
concurrent with the daemon; what they share with it is frames in order. A crash
is an action that clears what the process held and leaves disk and database.

## 2. The modules

| Module | Models | Role |
|---|---|---|
| `FairQueue` | `fairQueue.ts` | the queue's methods as operators on a record |
| `FairRotation` | the pool's use of the queue | a state machine over `FairQueue`: arrivals, and drains that take or set aside any item, with a history of who was passed |
| `SubagentPool` | `pool.ts`, `runnerHost.ts`, `dispatch.ts`, `sizing.ts`, the turn and release paths of `runner.ts` | the pool with its hosts and processes; uses `FairQueue` for the waiting turns |
| `Elicitation` | `brain/elicitation.ts` | the prompts of running turns: questions, chained approvals, timers, cancels |
| `DelegatedCalls` | `store/brainDelegationStore.ts`, `brain/service/delegatedSession.ts`, the settlement in `brainService.ts`, the drain in `service/turnRunner.ts`, the driver in `plugins/subagent/` | a tree of delegated calls, their run rows, transcripts and results, across crashes and boots |
| `DagRun` | what a workflow's row promises | the abstract specification of a workflow: nodes done, failed and working, and a verdict |
| `WorkflowEngine` | `plugins/subagent/lib/workflow.mjs`, `dag.mjs`, the workflow tables of the store, the boot claim | one workflow with its runs, tasks, journal, row and results; implements `DagRun` |
| `PlatformTurns` | `brain/channels.ts`, `brain/platformTurnRecovery.ts`, the pause and the claims of a boot in `brainService.ts` | one chat room across restarts |
| `SessionQueue` | `brain/session/queueMirror.ts`, `brain/service/sessionQueue.ts`, `turnAdmission.ts`, `sessionTeardown.ts`, promotion, checkpoint and replay in `brainService.ts` | the messages of one owner conversation; implements `Mailbox` |
| `Mailbox` | what a conversation promises to who types into it | the abstract specification of a message: unsent, waiting, read, back or astray |
| `MCFairRotation`, `MCSubagentPool`, `MCElicitation`, `MCDelegatedCalls`, `MCWorkflow`, `MCPlatformTurns`, `MCSessionQueue` | | instances for TLC |
| `FairQueueProofs`, `FairRotationProofs`, `SubagentPoolProofs`, `ElicitationProofs`, `DelegatedCallsProofs`, `WorkflowProofs`, `PlatformTurnsProofs`, `SessionQueueProofs` | | the lemmas and theorems of section 5 |

The components meet at rows and at turns, and each model carries the other side
as choices of its environment: to `DelegatedCalls` a turn ends whenever the pool
says so, to `WorkflowEngine` a child ends with or without an answer, to
`PlatformTurns` a recovered call brings its result at some point of a boot. What
a restart does is the same in all of them: memory goes, rows stay, the claim
pass runs first.

### Correspondence of `SubagentPool`

| Variable | Code |
|---|---|
| `queue`, `deferred` | `pool.queue`; the local `deferred` of `drain()` |
| `runners`, `inFlight` | `pool.runners` in list order, `PooledRunner.inFlight` |
| `route` | `pool.routes` |
| `spawning`, `generation` | `pool.spawning` with the generation `spawn()` read, `pool.generation` |
| `timer` | `pool.maintenance` |
| `child`, `dead`, `cooling` | `host.child` with `host.ready`, `host.dead`, the boot cooldown |
| `proc` | the life of each forked process |
| `pc`, `at`, `ran` | the promise of a delegated turn, the process it was handed to, where it was executed |
| `running`, `asked` | `runningChannels` in the runner; a release request in flight and its answer |
| `phase`, `after` | where the synchronous `drain()` stands, and what its caller does next |

`Submit` and `Wake` are `run()` before and after it awaits the cold start.
`Offer`, `StopOffering`, `PutBack` and `DrainEnd` are the iterations of
`drain()`. `SpawnReady` and `SpawnFail` resolve `spawn()`; `RebootReady` and
`RebootFail` the second fork of a host. `TurnEnds` is the reply or the error of
a turn with its `finally`. `Crash` and `Leave` end a process, `ExitEvent` is the
exit handler of the host and of the pool. `Maintain` is the tick, `AskRelease`
and `Released` a release or a sweep around its await, `NestedEdge`, `Heartbeat`
and `Reset` the handlers of those names. `SettleRefused` is the rejection that
sends a turn to the dispatcher's fallback.

Environment choices: whether the heartbeat streak, the growth cooldown and the
free memory allow a fork; which runners are idle long enough; which routes are
stale; whether a boot succeeds; when a process dies. Abstractions a reader
should know: the cap is constant, although `pool.ts` recomputes it from the
memory a runner was seen to use; the first process of a host appears when it is
ready; a boot that failed keeps its host refusing for the rest of the behaviour;
sweeps of several channels may overlap, which the code serialises, so the model
has more behaviours there, not fewer.

### Correspondence of `Elicitation`

| Variable | Code |
|---|---|
| `pc` | the promise `ask()` returned: not asked yet, deferred behind a tail, in the `pending` map, or how it ended |
| `approvalStates` | the map of that name, an entry named by the approval that wrote it |
| `ahead`, `tailed` | the promise chain: the approvals in front of one, and the tails that have settled |
| `cancellation`, `cancelled` | the shared `{ error }` object of a chain, named by the approval that created it, and the ones that carry an error |
| `onScreen` | what the surfaces were told by `ask` and `ask_resolved` events |
| `revoked` | history only: calls in flight when their conversation was cancelled |

`AskFirstApproval`, `AskNextApproval` and `AskQuestion` are the three paths of
`ask()`; `Answer`, `TimeOut`, `CancelForSession` and `CancelAll` the exits.
`TailSettles` is the pair of reactions on one tail, which the runtime runs back
to back: the clean-up of the entry, then the park (or the rejection) of the next
approval. How many microtasks separate a settled prompt from its tail depends on
the promises in between, so the model lets any event come first; that includes
orders the runtime does not produce. An answer is either one that matches the
questions or a no-op, so the matching is not spelled out. Each call asks once.

### Correspondence of `DelegatedCalls`

A call is named by its child session, and one call has one child. `Caller` is the
tree: the owner's conversation at the root, children that delegate below it.

| Variable | Code |
|---|---|
| `lifecycle`, `owner`, `attempt` | a row of `brain_subagent_runs`: `lifecycle`, `owner_boot_id`, `attempt` |
| `inbox` | `delivery_state` of the call's row in `brain_subagent_results` |
| `reply`, `tail`, `heard` | the transcripts: the tool result of the call, whether the child's last message is a finished answer, and the outcomes a finished turn of the caller was shown |
| `boot`, `up` | the boot id of the process, and whether there is one |
| `turn`, `visiting` | whether a session runs a turn, and the result a hidden turn was started to deliver |
| `call` | where the driver of a call stands: waiting for its session, active, answered, terminal row written |
| `claimed` | `recoveryOf` and `pendingRecovery` of this boot |
| `steered`, `woken` | results in the context of a live turn; results whose acceptance woke their caller |

`Delegate`, `Register`, `HandleReturns`, `SettleReturns`, `Push`, `Return` and
`Emit` are the steps of one call: the tool call, the child's first turn with its
row, the handle of a background call, the settlement, the terminal progress row,
and the answer as a tool result or as an inbox row. `Steer`, `Deliver` and
`Acknowledge` are the three outcomes of a drain. `Boot` is the whole of
`reconcileDelegationsOnBoot` up to the resume pass; `GiveUp`, `RecoverAnswered`,
`RecoverContinues`, `RecoverySettles` and `RecoveryFails` are the ways a claim
can go. `Crash` may come between any two of them and leaves the database.

Abstractions a reader should know:

* A call is made once per child: `delegate_continue`, which opens a second call
  on the same child and retires an overtaken claim, is left out, and with it the
  healing of rows written by older versions.
* A turn of a child ends by answering. Stops, errors of ordinary turns and the
  time budgets of a settlement are left out; the failure of a continuation after
  a restart is `RecoveryFails`. A settlement whose child gave no text cannot be
  reached, since the task is written before the run row.
* An answer too large for the inbox (`Spilled`) is written to a file before its
  row; nothing records that it is on its way. The model has this window, and one
  for a crash between the terminal row and the inbox row.
* A terminal row keeps `owner`, where `completeRecoveredRun` sets it to null;
  nothing reads the stamp of a row that is not open.
* Delivery to a parked conversation that the owner opens is `StartTurn` followed
  by `Deliver`; the confirmation of a steer through a runner process is not a
  step of its own. Workflow nodes are not calls here.
* Every opening of a conversation answers its unfinished tail
  (`settlePartialTurn`, called at each spawn of a session), a child's like the
  owner's. Only the recovery of a claimed child acknowledges the rows it folds, in
  one transaction. So `FoldedAtOnce` and `PromisesKept` speak of children while
  their own run lasts; what can happen to a child after that is in
  `OutcomesHeld` and in the disagreements below.

### Correspondence of `WorkflowEngine`

One workflow. A task is one execution of `runNode`, named by its node and by the
run that created the state object the execution holds: `WorkflowResume` gives
unfinished nodes new objects, and the executions of the run before keep writing
to the old ones.

| Variable | Code |
|---|---|
| `nodes`, `deps` | the declared graph, the same in memory, journal and row |
| `engine` | the workflow object: none, in the plugin's map, or dropped from it by a reload |
| `state`, `gen`, `session` | the state object of a node: its status, the run that created it, whether it knows its child session |
| `status`, `finished`, `background`, `run`, `broken` | the fields of the object; `broken` is `deliveryFailure` |
| `at`, `stopped` | where a task stands (preparing its access, spawning, live), and whether its child was told to stop |
| `summary`, `waiter` | where the outcome of a run is on its way, and the runs a tool call is blocked on |
| `claimed`, `attempt` | a row this boot has claimed and not decided about; the claims counted in the row |
| `journal`, `row`, `inbox` | the journal file, the row of `brain_workflow_runs`, the row of its result |
| `told`, `overlap` | history only |

`Start`, `AddNodes`, `Stop`, `Abort`, `Reload`, `Detach` and `Resume` are the
tools and controls; `AccessReady`, `AccessFails`, `SessionReported` and
`TurnEnds` are the continuations of `runNode`; `Summarised` and `Sent` those of
the outcome. Each ends with what its handler ends with: `Tick` is `tick()` with
`maybeFinish`, `settle`, the journal write and the published row, all synchronous.
`Boot` claims, `BootResumes` and `BootGivesUp` are `resumeClaimedWorkflow`.

`DagRun` is what a watcher of the row is promised: every node that can run is
running, none runs before all it waits for is done, a result that was shown
stays, and the verdict `done` means every node is done. `Promise` maps the
engine to it: `done` and the verdict are those of the published row, `failed`
and `working` the nodes of that state in memory. A crash is then `Lose`, a boot
that resumes or a `WorkflowResume` is `Redo`, and a task of an old run is
nothing, which is what the refinement shows.

Left out: the pruning of old workflows and the limit on how many may run, writes
of the journal that fail, the second turn `continueOnce` asks of a node whose
answer is empty, retries of a provider's error, previews and wording.

### Correspondence of `PlatformTurns`

One room. A job is one call of `ChannelSessionService.send`: a message of the
room, the silent continuation of a parked turn, or its continuation with the
result of a recovered sub-agent.

| Variable | Code |
|---|---|
| `marker`, `attempts` | `parked_at` and `park_attempts` of the session row |
| `envelope` | the row of the platform envelope table, named by its message |
| `delivery` | the row of a computed answer with the attempts spent on it |
| `recorded` | a row of `brain_pause_interruptions` |
| `awaiting`, `child`, `tail` | what the boot reads in the transcript: ends on delegations, owes a result, ends on an answer |
| `lock`, `streaming`, `queue` | the turn that holds the room's lock, whether its model runs, the turns that wait for the lock |
| `unparkable` | the pause waits for a turn it could not park |
| `sweep`, `telling`, `recovering` | the items this boot claimed: the room, its interruption notice, its sub-agent |
| `posts`, `reachable`, `linked` | posts on their way, `canDeliver`, whether the sender's account resolves |
| `said`, `owed`, `sent`, `spent`, `wiped`, `silent` | history only |

Handing the answer of a live turn to the adapter that called `send()` counts as
the room having heard it; only answers of resumed turns have a delivery row. A
promotion of marker and envelope to a delivery row and the start of the first
post are one step, as in the code. `wiped` names turns whose envelope a boot item
of another turn erased, and `silent` turns given up without a word: `postNotice`
posts nothing when the platform is out of reach, and a notice that fails is only
logged. The code lets both happen; `NothingLost` and `OwedSettles` except them and
the list of disagreements below names them. Users of the room other than the
sender, several rooms, the inbox of a recovered result and cron turns are left
out; a steered message rides the running turn.

### Correspondence of `SessionQueue`

| Variable | Code |
|---|---|
| `queue` | `queuedSteer` and PI's steering queue, which change in the same synchronous call |
| `rows` | the user rows of the transcript |
| `live`, `turn`, `output` | the `LiveBrain`, the conversation's locks, `turnProducedOutput` |
| `lastAdmitted`, `esc`, `doomed` | `live.lastAdmitted`; an abort between its two halves, and the row it decided to delete |
| `prom`, `promote` | where `interruptQueued` stands, and what it has not consumed of its snapshot |
| `marker`, `paused` | `parked_at`; the table `brain_paused_queue` |
| `item`, `replay` | the boot's item for the conversation; what `replayPausedQueue` took and has not sent |
| `sent`, `taken`, `past`, `doubled`, `cut` | history only: accepted; taken back by the user; sent or put back past a fence that is still up; got a second copy; went astray |

PI is outside the repository and is modelled from how the code uses it: it
delivers the oldest steer, announces a shrunken queue, then the start of the
message. Preparing a turn, its row and its preflight are one step, so a preflight
that rejects, which rolls the row back, does not occur. A turn that throws later
is `TurnEnds`, or `PromotedTurnFails` for a promoted message that is not the
first: `interruptQueued` counts such a message only when its send resolved
(`Unsent`), so one whose turn fails goes back on the queue although its row
stands. `QueueRemove` takes any position, since the
id a client sends is one and may name another message by the time it arrives.
`ResumeNothing` stands for every way a resume of a parked conversation ends
without a turn. Compaction chips, hidden steers of the system, the images that
travel in the mirror, disposing of a session and its respawn, and branches of
the resume that deliver results of calls (`DelegatedCalls` has them) are left
out.

## 3. Hazards

`PROJECT.json` lists them at the lines where they bite, each with the property
that would catch it going wrong or the reason none does.

## 4. What the runs check

| Run | Instance | Properties |
|---|---|---|
| `fair_rotation` | 3 interchangeable producers, each pushing `MaxPushed` = 3 items at most | `QueueExact`, `BoundedPassing`, `LaneInPushOrder`, `FruitlessDrainRestores` |
| `pool_safety` | 3 turns of 2 parents on 2 channels and a nested one, 2 hosts of one slot, cap 2; one reset, one reap, one crash, two releases | `TypeOK`, `AdmissionExact`, `RoutesLive`, `NoDoubleRun`, `QueueHoldsWaiting`, `NoRunnerOfAnOldEpoch`, `DrainExhausts` |
| `pool_liveness` | the same turns under a cap of one with a second host available, fair | `WithinCap`, `EveryTurnAnswered` |
| `pool_stranded_queue` | violated: `QueuedTurnRuns` | finding 1 |
| `elicitation` | 3 approvals and a question of one conversation, a question of another, fair | `TypeOK`, `OnePromptOfAKind`, `RevokedNeverPrompt`, `RejectedOnlyByCancel`, `ScreensMatchPending`, `EveryAskSettles` |
| `delegation_recovery` | a blocking call of the owner whose child makes a blocking and a background call, 3 boots, one recovery attempt, fair | `OpenRowsDriven`, `PromisesKept`, `FoldedAtOnce`, `SettlementIntegrates`, `OutcomesHeld`, `RecoveredCallHeard` |
| `calls_provisional_answer` | violated: `AnswersIntegrate` | finding 2 |
| `workflow_safety` | 2 nodes in every graph they can form or grow into, one resume, 2 boots, one claim | `TypeOK`, `AfterDependencies`, `EngineAwake`, `JournalCovers`, `StopReachesAll`, `ImplementsDagRun` |
| `workflow_liveness` | one node, one resume, 3 boots, fair | `RowSettles`, `EveryRunReported` |
| `platform_turns` | 2 messages, any number of boots, both caps 2, fair | `TypeOK`, `NothingLost`, `RetriesBounded`, `OwedSettles` |
| `session_queue` | 3 interchangeable messages, the process leaves twice | `NothingLost`, `OneCopy`, `ImplementsMailbox` |
| `queue_orphaned` | violated: `CheckpointHasMarker` | finding 3 |

Why the bounds are enough for the cases that matter: one slot per runner makes
every second turn wait, so placement, pinning, deferral and growth all happen;
two turns share a channel, so a turn can be pinned to a full runner while the
other has room; the second host lets the pool grow, be rebuilt after a reset, or
outlive a crash of the first. Each event that the code treats as exceptional may
happen at least once, at any point. `MAX_TURNS_PER_RUNNER` is larger in the
code; the theorems hold for every value.

Three approvals are a chain with a first, a middle and a last; the question
supersedes any approval on show and can itself stand beside one; the second
conversation shows that a cancel stays in its own.

The tree of `delegation_recovery` has a call of each kind and two levels, so a
claim can wait for deeper claims and a child can be owed an answer of each kind.
Three boots allow a crash during the recovery of a crash; `MaxAttempts` is 1
there (3 in the code), so that giving up is reached.

Two nodes are a dependency, a pair without one, and a graph that grows by one
while the other runs; one resume (`MaxRun` = 1) makes tasks of an old run meet
objects of a new one, and a second boot resumes, or gives up, what the first
left. The liveness run has one node and three boots, so that a claim is given up
for its attempts after another crash. Two runs (`MaxRun` = 1) bound the journal's
run too: a boot beyond it is not resumed but given up.

Two messages are the turn that is parked and the one that overtakes it; caps of
2 (3 in the code) are reached by boots that crash. The safety part was also run
with three messages. Three messages are what an Esc discards, what stands behind
it and what comes later; two exits are a checkpoint and the one that replaces it,
or a kill in the middle of a replay; `session_queue` was also run with
three exits. The theorems of section 5 hold for any numbers.

`CHECK_DEADLOCK FALSE` is set where the system may stop: a pool whose turns are
all settled, a registry whose calls have all asked, a workflow that is reported
and will not be resumed, a conversation whose process left for the last time.
`DelegatedCalls` and `PlatformTurns` do not need it: the owner may always write
again, and the daemon may always be restarted.

### Findings

1. **A queue without a runner is never served** (`pool.ts:474`). When the last
   runner exits while turns wait, nothing forks: growth asks for a saturated
   runner, and the cold start happens only in `run()`. The header of `pool.ts`
   says a queued turn "runs when room appears; it is never refused".
2. **A recovered call can answer without its background work**
   (`delegatedSession.ts:428`). A child that had ended its turn to wait for a
   background call of its own is claimed after a restart, and its last message is
   taken as the answer; the rule that makes a settlement wait for such calls,
   whose comment names boot recovery, guards only the continuation.
3. **A checkpointed queue can lose its marker** (`turnRunner.ts:676`). The boot
   finds a parked conversation by its marker alone. A message sent after the boot
   and before the replay clears it; if the process leaves again before the
   replay, no later boot reads the queue rows, and the next checkpoint deletes
   them.

### Known disagreements

Further places where the code and what it says of itself part. The models reach
them, and the properties above are stated so as to hold beside them; no run of
its own shows them.

* Pool: a release deletes a route after an await without looking again at the
  load (`pool.ts:530`, `570`), so a running turn can lose its route; a turn placed
  on a host between its reap and its exit event forks a second process
  (`runnerHost.ts:393`).
* Elicitation: an approval asked while a question is parked stands beside it
  (`elicitation.ts:90`), where the class comment promises one prompt.
* Calls: a result steered into a child is acknowledged while only the memory of
  its turn has it (`turnRunner.ts:283`); a call interrupted before its child's
  first turn has no row, and its caller is told that it resumes
  (`persistence.ts:231`). A child whose own run is over can be woken by a late
  result, delegate again and be interrupted; no claim recovers it. The next
  result opens its session, which folds the ended calls into its tail
  (`session/factory.ts:570`) and leaves their rows pending, so each is delivered
  again; the comments at `delegatedSession.ts:314` and `:345` want every answer
  once. A call of it that was still open then is promised to resume, and a boot
  after its end discards the result, since the child counts as over.
* Workflows: a child of a run that was stopped and then resumed reports its
  session when the run is no longer finished, and is not stopped
  (`workflow.mjs:602`). `resumeClaimedWorkflow` sends its notice without the id of
  the run (`brainService.ts:1010`), so a second notice is taken for a repetition
  and dropped. A failed delivery is not forgotten by a resume
  (`workflow.mjs:814`). A summary that is still being written when the workflow
  is resumed can take over the row of the newer run's result or end that run;
  this is the exception `overlap` of `EveryRunReported`. A crash between the
  terminal row and its result loses the result, since only running rows are
  claimed.
* Rooms: the comment at `brainService.ts:1324` calls rooms and interruption rows
  disjoint, which they are not when a later turn parks; a refused sweep clears
  the envelope of a newer turn; the result of a sub-agent and the sweep may both
  continue one park, with an answer each; a message between the lock and the
  capture parks under the envelope of the turn before; interruption rows are
  deleted before the notice is posted; a killed process leaves an envelope no
  sweep reads; a sweep that waits for sub-agents never looks at the cap. A
  give-up is silent when the platform is away (`platformTurnRecovery.ts:378` ends
  the turn with no notice, and `postNotice` at `:233` returns without posting) or
  when the notice fails, where the comment at lines 58-60 wants it "posted into
  the conversation rather than silent". These are the exceptions `wiped` and
  `silent` of `NothingLost` and `OwedSettles`.
* Queues, read twice (the exception `doubled` of `OneCopy`): between the
  checkpoint and the exit PI may still deliver what was checkpointed, a promotion
  may send it, and the user may take it back by a removal, a recall or Esc
  (`sessionTeardown.ts:105` and `sessionQueue.ts` clear the queue in memory and
  leave `brain_paused_queue`). The boot replays the table, so the message is read
  again, or read although its user took it back; the comment at
  `brainStore.ts:555` says that a message is not delivered again. A promoted
  message whose turn fails after its row was written is put back
  (`brainService.ts:1564` counts it only when `send()` resolved), where the
  comment at `:1546` speaks of what was "durably consumed".
* Queues, lost (the exception `cut` of `NothingLost`): a promotion or a replay may
  send past the fence of an Esc (`interruptResume`, `turnRunner.ts:681`). When
  such a message is steered into the turn the Esc discards, its row is deleted with
  the discarded one (`sessionTeardown.ts:122`), which `brainStore.ts:1114` calls
  safe and `queueMirror.ts:133-136` "a silent loss of text the user typed"; when it
  still waits, the second clearing of the queue drops it. A replayed message whose
  send fails is logged and lost, against `brainService.ts:764`. An exit loses what
  only memory held: the queue of an idle conversation and what a promotion or a
  replay has in hand; and a second checkpoint replaces one not yet replayed.

### Fairness

In `SubagentPool`, `FairSpec` assumes weak fairness of the microtasks: the event
loop runs them before anything else. It assumes strong fairness of the events
whose arrival the code bounds itself: a boot settles within its timer, a
signalled process leaves within five seconds, an exit event and an IPC answer are
delivered, a turn in a healthy runner ends (the stall watch aborts it otherwise),
the maintenance interval fires. They are strong because an event is enabled only
between the microtasks of others. Nothing is assumed of crashes, resets,
submissions or heartbeats.

In `Elicitation`, the timer of a parked prompt fires (`WF TimeOut`: it is armed in
`park()` and cleared only by another exit) and promise reactions run
(`WF TailSettles`). Nobody has to ask, answer or cancel.

In `DelegatedCalls`, a daemon that is down is started again (`WF Boot`: the
service manager, or the supervisor after a pause), turns end (`WF TurnEnds`),
and the promises of a call and of a recovery run on (`WF Progress`,
`WF Recovery`). Delivery is strongly fair, because it is enabled only between
turns: the session lock is a queue, so a drain gets its turn, and the owner
opens the conversation again. Nobody has to write, delegate, crash or fail.

In `WorkflowEngine`, promises settle and children end (`WF Continuation`; that a
delegated turn is answered is `EveryTurnAnswered` of the pool), and a daemon that went down is started again and
decides about what it claimed (`WF Restart`). Nobody has to stop, resume, detach
or crash. `EveryRunReported` follows the outcome up to the inbox row taken in by
a turn of the origin.

In `PlatformTurns`, the daemon is started again (`WF Boot`) and, since only a boot
sweeps, it leaves again (`WF Exit`); a boot now and then lives long enough for the
sweep and the recovered result (`SF SweepRoom`, `SF ResultArrives`). No post has
to arrive, no turn has to succeed, and the room may be out of reach for ever:
what brings the end is that each boot spends an attempt. The end may then be a
give-up the room never hears of, which `OwedSettles` says.

## 5. What is proved

`FairQueueProofs` proves what push, shift and unshift do to the rotation, the
lanes and the items they hold, and that unshift undoes shift.

`FairRotationProofs` proves, for any set of producers and any number of items,
`QueueStaysExact` (`QueueExact`), `PassingIsBounded` (`BoundedPassing`),
`LanesStayInOrder` (`LaneInPushOrder`) and `FruitlessDrainsRestore`
(`FruitlessDrainRestores`), all from `RotationInvariant`. The order of a lane is
not inductive by itself, since items leave the queue and come back: `Asides` says
that what is set aside comes before what its lane still holds. The lanes are
numbered with gaps, and `LaneOf` bounds the gaps from below, which bounds the
length of a lane and makes the set of places finite, so the count can be compared
with its cardinality. The bound on passing rests on `Passing`: a producer that was
passed twice stands in front of the one that passed it, and that one has nothing
set aside, so neither the rotation nor a put-back can bring it past a third time.
The count is kept since the producer was last offered, and starts again while all
it has is set aside.
That a fruitless drain can be undone is a claim about the past; `Restorable` keeps
it as the existence of the queues the drain went through, each the shift of the one
before, and a put-back steps back along them by `UnshiftUndoesShift`.

`SubagentPoolProofs` proves, for any sets of
turns, channels, parents and hosts and any caps and bounds allowed by the
assumption `PoolConstants`:

* `TypeCorrect`, `AdmissionCorrect`, `RoutesCorrect`, `ExecutionCorrect`
  (`NoDoubleRun`), `QueueCorrect`, `EpochCorrect` and `CapCorrect`, all from
  `PoolInvariant`;
* `DrainCorrect`, the action property `DrainExhausts`.

The inductive invariant `IInv` is a conjunction of named parts. The safety
properties are not inductive by themselves. Admission needs to know that a
listed host is never one whose exit path ran, that a placed turn sits on the
process its host points at or on one that was cleared, and that a fork in
progress names a host nobody uses yet. Routes need that a nested edge is
accepted only from a listed runner. No double run needs the history of where a
turn was handed: a refused turn has been handed to no live process. The queue
part needs the rotation to be exact, which the lemmas of `FairQueueProofs`
supply. `DrainExhausts` needs that during a drain every turn already set aside
is one nobody can take, and stays so while the drain only adds load; the
invariant `SetAsideUnplaceable` says it.

The proof of preservation has a lemma per action, and lemmas about the parts an
action leaves alone.

`ElicitationProofs` proves, for any calls and conversations, `ElicitationTypes`,
`PromptsSerialized` (`OnePromptOfAKind`), `CancelIsFinal`
(`RevokedNeverPrompt`), `NoSpuriousDeny` (`RejectedOnlyByCancel`) and
`ScreensCorrect`, all from `ElicitationInvariant`. That two approvals are never on
show together says nothing about a deferred one, so it is not inductive. The
strengthening describes the chains: approvals that share a token are totally
ordered by `ahead` (`Chained`, `OneChain`); a prompt that has left `deferred` has
only settled tails in front of it; the entry of a conversation is the last of a
chain still running (`EntryIsLast`), and every approval still running under a
good token is in that chain (`RunningIsCurrent`). Two approvals on show would
then be in one chain, one in front of the other, with its tail settled although
it is on show. `Revocation` ties a cancelled token to the calls it covers.

`DelegatedCallsProofs` proves, for any tree of calls, any number of boots and
attempts and any choice of background and spilled calls, `DelegationTypes`,
`RowsDriven` (`OpenRowsDriven`), `PromisesCorrect` (`PromisesKept`),
`FoldedCorrect` (`FoldedAtOnce`) and the action property `SettlementsIntegrate`
(`SettlementIntegrates`), all from `DelegationInvariant`. A promise is
kept only if the result of a call comes at its end (`ResultsAtEnd`: a row
written earlier would make the one written at the end a duplicate, which is
dropped) and if nothing answers an interrupted call a second time. That a child
continues with every outcome it waits for needs two facts: while a claim waits
for deeper ones nothing starts a turn in its child (`Undisturbed`), and a call
that still has a driver of this boot either gave its caller a handle or has the
caller's turn running (`DirectCalls`), so the tail of an idle session holds no
such call. What remains are claims, and a claim continues only when those below
it are over. `FoldedIsFinal` says that an answer taken from a closed row stays
the last word. A settlement sees only that nothing is open, pending or on its way to
the inbox below its child; that everything else was heard is `NothingDropped`: what
ended in this boot below an open call was heard, is pending, is on its way, or is in
the context of the turn that runs. `Rooted` (a child that was never registered has
neither run nor delegated) and `Handed` (only a background call has a handle, and an
answer on its way is not in the inbox yet) are what its steps need.

`OutcomesAreHeld` (`OutcomesHeld`) is about the same outcomes between the steps:
what has ended stays in the inbox, in a running turn, with its driver or in the
transcript. The action property names its exceptions by the step that makes them,
so that no other interleaving may lose an outcome: a crash with the answer in
memory, a continuation that fails with results steered into it, and the rows a
boot discards. Its proof needs that nothing open was ever heard or steered
(`TakenInOver`), that a call a running turn waits for is under way or its outcome
is (`Awaited`: the turn may be given a handle after the answer left the driver),
and that a child between turns has every answer (`Answered`: a hidden turn that
opens the session of an open child finds no tail to settle).

`WorkflowProofs` proves, for any finite set of nodes, any graph over it and any
bounds, `WorkflowTypes`, `NodesAfterDependencies` (`AfterDependencies`),
`EngineNeverSleeps` (`EngineAwake`), `JournalResumes` (`JournalCovers`) and
`StopIsHeard` (`StopReachesAll`, of the current run while it stays cancelled),
all from `WorkflowInvariant`. What makes the
invariant inductive is what it says of runs that are over: their nodes and tasks
still fit (`Manned`), because a resume starts from there; tasks belong to runs
that were begun (`Numbered`), so a new run's tasks cannot be taken for old ones;
what the row shows as done had all it waits for (`Fed`), because a restart
rebuilds the engine from it; and the graph has no cycle (`Graph`), which is why a
tick that finds nothing to run can end the run. The lemmas about a tick (`Ticked` and those
after it) are proved once for all handlers; the lemma of an action shows what its
handler passes to the tick.

The last part of `WorkflowProofs` is `EngineKeepsPromise`: `Spec => ImplementsDagRun`. A
tick is a `Dispatch` of the abstract graph; a handler that writes for an old run,
or reports a session, is a stutter; a tick that ends a run as done needs that
every node is, which follows from acyclicity: among the nodes that are not done
and did not fail, one would wait only for nodes that are done, and would be ready.

`PlatformTurnsProofs` proves, for any messages and caps, `PlatformTypes`,
`ParkedTurnsAreKept` (`NothingLost`) and `RetriesAreCapped` (`RetriesBounded`),
from `PlatformInvariant`. The first excepts the turns of `wiped` and `silent`, as
its run does. That a parked turn is a marker or a delivery row needs to know who may clear either: a marker and its continuation name the same
message (`OneTurn`), each kind of continuation exists once (`OneOfEach`), a turn
of the room's own words ends what it overtook (`WordsWin`, `Overwritten`), and
posts on their way are of the message in the delivery row (`PostsOfOne`), so that
a late confirmation cannot delete the row of another. The two caps are the parts
`PostsCounted` and `TurnsCounted`, which tie the history of posts and turns to
the counters in the rows; the extra turn in `RetriesBounded` is the one a result
and a sweep can start from the same reading of the counter.

`SessionQueueProofs` proves, for any messages and number of exits, `QueueTypes`,
`NoMessageIsLost` (`NothingLost`) and `NoMessageIsReadTwice` (`OneCopy`), from
`QueueInvariant`. The first lemmas say what stands in a sequence, and whether
twice, after it was appended to, shifted, cut, joined or one entry was taken out.
The invariant says where a message stands (`Placed`), that the places exclude
each other unless it got a second copy (`Unique`), that what came back or went
astray has no place (`LeftGone`), and that what an Esc will delete is the last row
of its message, with nothing behind it but rows that went past the fence
(`Armed`). That part rests on `LastRow`: the claim an Esc reads is always the last
row, since a delivery disarms it. `Noted` says that whatever waits between the two
clearings of an Esc or a promotion went past the fence, since the first clearing
left nothing and nobody else may send; so the exception for what the second
clearing takes covers nothing that was merely queued when Esc came. `InTurn` keeps
the row of the promoted message whose turn the loop waits for.

Its last part is `ConversationKeepsPromise`: `Spec => ImplementsMailbox`. The
refinement mapping `Box` reads the place of a message off the sequences:
"repeated" for one with a second copy, "astray" for one that is in `cut` and
nowhere, and "wrong" for a message in two places, in none, or back or lost and yet
somewhere, which the invariant excludes (`PlacingIs`, `Seen`). The read of a
message past a fence is a `Read`; only the step that deletes it makes it astray.
Every handler is an `Accept`, a `Read`, a `Drop` or a stutter. What this adds to
the two invariants is about the steps: a message in the transcript leaves it only
by the one `EscEnd` that discards its turn, which takes back the one row and loses
only what got behind it past the fence (`EscEndKeeps`; an exit, a boot or a
promotion never touches it), and whatever came back to its user or went astray
stays there (`Leaving`, since `LeftGone` leaves it no place to return from).

Model-checked only: liveness (`EveryTurnAnswered`, `EveryAskSettles`,
`RecoveredCallHeard`, `RowSettles`, `EveryRunReported`, `OwedSettles`), which is
out of the prover's reach, and the three violations. The types of `SessionQueue`
and `DelegatedCalls` are the other way round: proved (`QueueTypes`,
`DelegationTypes`) and not checked by a run.

## 6. Not modelled

The list with reasons is in `PROJECT.json`. In short: parsing and formatting,
single-statement stores, presentation, and what belongs to the PI agent library,
whose behaviour is outside the repository. Most of the repository's lines are of
these kinds: the web interface, the terminal client, dictionaries, routes and
their validation, adapters of chat platforms and of model providers, tables of
model capabilities.

What could be added to the models that exist, in the order of what it would show:

1. `delegate_continue` as a second call on a child, with the retirement of an
   overtaken claim, in `DelegatedCalls`; an abstract specification of an owed
   answer for it to implement.
2. The waves of the recovery coordinator over its providers: each model has its
   own claim and resume today, and no property spans two of them.
3. The rollback of an admission that its preflight rejects, and the images in the
   mirror, in `SessionQueue`; several senders of a room in `PlatformTurns`.
