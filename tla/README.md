# Status Pipe in TLA+

Status Pipe is a VS Code extension that runs a fleet of coding agents over the
tickets of a repository. It launches a *planner* pass on a cadence, spawns the
*workers* that pass asked for, shows the operator which tickets wait on them, and
carries the operator's answers back. Everything is coordinated through files under
`.status-pipe/` and through processes the extension starts and kills.

The specifications here model that coordination. They are read beside the source:
`PROJECT.json` maps each definition to the lines it stands for. Paths below are
relative to the repository; `supervisor/x.ts` means `src/supervisor/x.ts`.

## 1. Inventory

| Part | State it keeps | Operations | What makes it correct |
|---|---|---|---|
| **SupervisedRunner** (`supervisor/supervisedRunner.ts`), one per approved launch entry | run state, two timers, strikes, pending wake, spawn number, process handle | start, tickNow, stop, retry, wake, parkDaemon, checkDaemonWedged, timer and timeout callbacks, process exit | a waiting loop has a timer; the handle is the current process; nothing leaks; a hung pass is a failure; the cadence goes on |
| **WorkerRunner and worker pool** (`supervisor/workerRunner.ts`, part of `agentSupervisor.ts`) | map key → worker, last pass acted on, one timeout per worker | reconcile a plan, spawn, stop all, time out, exit | at most one worker per key, a plan acted on once, entries are live workers, no worker unbounded |
| **AgentSupervisor** (`supervisor/agentSupervisor.ts`) | runners and pool per repository, parked state, recheck timer, last pass time | setAgents, updateSettings, noteOrchestrator, noteAckCreated, noteBacklogChanged, wedge check, control | parking never strands the loop; a disabled supervisor starts nothing by itself |
| **Planner pass** (`planner/*.ts`) | files only: tickets, inbox, orchestrator.json, worktrees | trust gate, inventory, consume acks, reconcile staleness and lifecycle, select, dispatch, reclaim, wrap | every planned key has a stamped ticket and a worktree and fits under the cap; nothing written by others is overwritten; parking hides no work; no starvation |
| **Built-in planner spawner** (`host/plannerSpawn.ts`) | whether a pass has settled | spawn, kill | kill settles at once although the pass runs on |
| **Launch trust** (`host/launchApproval.ts`, `supervisor/trustGate.ts`) | approvals by content of an entry | prompt, record, install | what runs was approved as it is |
| **Host controller** (`host/controller.ts`, `protocolStore.ts`) | loaded protocol state per repository, debounce timers, known acks | discover, reload, feed, ack, withdrawAck, removeTicket, control | the latest file is acted on in the end; what the operator commands hurts nothing else |
| **Ack protocol** (`protocol/ackId.ts`, `ackWriter.ts`, `ticketRemover.ts`, `host/recentAcks.ts`, `queue/ackState.ts`) | ack files, remembered acks, the note field of the card | build, write, withdraw, remember, forget, sweep, match; chip, button and staleness | an answer is consumed once or is visibly not; a calm card has been answered; a healthy loop raises no alarm |
| **Queue model and toasts** (`queue/*.ts`, `host/notifications.ts`) | the cards pushed last | lanes, ranks, order, buttons, PR rows; diff of two pushes | a ticket that needs the operator is never shown as waiting; each alarm rings once per reason |
| **Queue view** (`queueView/`, `host/queueViewProvider.ts`, `messageRouter.ts`) | the page's life, its state, selection, filter, note field | open, close, ready, render, click, deliver | it shows the latest push; a click on an old card does no harm |
| **Forge enricher, budget, pool** (`forge/enricher.ts`, `budget.ts`, `http.ts`) | cache, pending changes, backoff, poll timer, pool queue | change, poll, focus, force, refresh | the pool stays served, no change lost, what is frozen is final |
| Forge clients, parsing, discovery, process spawner, stream reducer, plugin prompts | little or none | | adapters, modelled in part or not (section 5) |

How they interact: the runner's timer starts the planner (as a process or
in-process); the pass asks the supervisor for the live worker keys *once, when it
starts*; it rewrites ticket files and at the end `orchestrator.json`; the file
watcher makes the host reload the directory 250 ms later and feed the supervisor,
which parks, unparks and spawns workers; workers rewrite their tickets and exit;
the operator acks, withdraws, removes and commands through the view. Every write
below `.status-pipe/` feeds the last plan again.

What is hard here: handlers run to completion but `kill()` of a built-in pass
re-enters them; exits arrive late; passes await between reads and writes; the same
file is fed many times and perhaps out of order; passes die half-way; and the
operator does everything at any time. `PROJECT.json` lists the hazards with their
lines.

## 2. Modules

### SupervisedRunner
One runner and its processes. A variable per private field that matters
(`state`, `timer` = what `cancelTimer` is armed for, `timeout`, `failures`,
`pendingWake`, `timedOut`, `seq`, `handle`), plus `alive`/`killed`, the processes
that exist, and `parked`/`idle`, what the runner reads of its surroundings. One
action per public method and callback: `Start`, `TickNow`, `Stop`, `Retry`,
`Wake`, `NoteParked` (with `parkDaemon`), `NoteUnparked`, `IdleChange`, `Wedged`,
`TimerFires`, `TimeoutFires`, `Exit`. The private methods are operators with the
names they have in the code. The synchronous cases are inside the actions: a spawn
that throws, a built-in pass that reports before `launch()` returns, an exit
reported from inside `kill()`.

Abstractions: spawn numbers are names out of `Runs` that are not in use (they are
only compared); a delay is the reason it was armed for; strikes saturate at
`MaxRestarts`, which the runner reads on each failure and is a constant here.

### WorkerPool
The worker half of AgentSupervisor with WorkerRunner: `slot` is the `workers` map,
`keyOf` the processes, `armed` their timeouts, `reconciled` the pass last acted on.
`PassStarts`/`PassEnds` produce plans that respect the live keys *as they were when
the pass started*; `Load`/`Feed` are the two halves of `reloadRepo()`, so feeds come
late and out of order; `ReconcileWorkers` (the loop over the items in the order of the
plan, each with its tests), `StopWorkers`, `UpdateSettings`, `SetAgents`, `TimeoutFires`,
`Exit` are the methods. Pass counts are fresh names
(they are compared for equality only); the items of a plan are a set.

### Planner
A whole pass, step by step (`pc`), over the files, with everyone who touches them
meanwhile. `Begin` (live keys), `Discover`, `ReadAck` / `NoteAck` / `DeleteAck` (the
three awaits of `consumeOne`), `LoadTickets`, `Reconcile` (staleness, reopened,
closed), `Select`, `Dispatch` / `DispatchFails`, `Reclaim`, `Wrap`, and `PassDies`
at any point. Surroundings: `Feed` (WorkerPool has its detail), workers writing and
exiting, `StopWorkers` that kills them, killed workers (`stray`) that go on writing until
`StrayExits`; the operator acking, withdrawing, removing; the forge closing and reopening
issues. Nothing orders `Begin` after `Feed`: a follow-up pass starts as soon as the last
one ended, 250 ms before its plan is fed, and without an approved worker entry a plan is
never taken. A ticket file is what the pass decides by: terminal
or not, waiting or not, which request it makes, stamped running or not.
`updatedAt` is a rank among the files. `unseen` is a history variable: the keys whose
worker a pass could not know of when it asked for the live ones, because it was still to
be spawned or had left the map. Of those keys the pass may well plan a second worker; the
safety properties speak of all the others.

Abstractions: a heartbeat may be stale whenever it is looked at; one pass at a time (a
killed built-in pass runs on beside the next one, plannerSpawn.ts:11-15, see NoOverlap
below) and the plan on disk is the one fed (older ones are WorkerPool's); a ticket, its branch slug and its worktree share one key; all waits
with health `waiting` are on the operator (a wait on the world has health `ok`, as
the protocol asks of workers); tickets with blockers only are left out, because their
request changes with every write of the file; a worker writes health `done` only with
a terminal phase; epics and the trust filter are reduced to the set of candidates;
reading and unlinking a settled ticket is one step.

### AckLifecycle and AckSignal
The operator's answers to one ticket, from the card to the history. On the host's
side `view` is what `loadRepoProtocol()` returned last, `remembered` is RecentAcks and
`doing`/`asked`/`target` the click, note field or withdrawal under way; `Chip`,
`NeedsYou` and `Actionable` are `chipStateFor`, the lane of a ticket that waits on the
operator and the button of `deriveAckControl`. `OpenNote`, `Escape`, `Send`,
`SendFails`, `Remember` are the ack control and `controller.ack()` with its two awaits;
`Withdraw` and `Recheck` are the two halves of `withdrawAck()`; `Reload`,
`HostRestarts` and `AckAges` can come at any time. On the pass's side `Begin` (its start
time is what staleness compares with), `ListAcks`, `ReadAck`, `NoteAck`, `DeleteAck`,
`Wrap`, and `PassDies` anywhere. `WorkerWrites` raises the next request.

`AckSignal` is the abstract promise: an answer is idle, sent, withdrawn, taken or
superseded; it disappears only by a withdrawal and what is recorded is final. `Outcome`
maps the files and the pass's hands to it.

Abstractions: requests are numbered and name their ack, as the ackId is a hash of the
request; tickets with blockers only, settled tickets and their removal are left out; of
the history the first note per ack is kept, which is the one the card reads; a load of
the directory is one step with the lines after it, and so are an ack's time stamp and
its write (sending again what is still on disk does not change the order of acks); from
the end of consumption to a spawned worker is one step; a worker that rewrites its
ticket keeps the history. `Wordy` are acks whose note contains "supersed", which the
chip cannot tell from a supersession.

In the code a chip "state moved on since ack" has no withdraw button
(`AckControl.tsx:84`), although `design/02-protocol.md:318-322` offers one; `Withdraw`
follows the code.

### Fleet
The launch entries of one repository, one level above SupervisedRunner: each loop is
reduced to `stopped`, `waiting`, `running`, `failed` and a recorded wake. Host side:
`FirstLoad` and `Connected` are the two halves of the first `reloadRepo()` (it awaits
`connectRepo()`), `Reload` every later one; both end in `Feed`, which is
`installApprovedAgents()` where the launch file changed, then `noteOrchestrator()`,
then `detectNewAcks()`. Operator side: `Press` (start, tickNow, restart, start all) with
the dialogs of `approveAgents()` as `Answer`, `Stop`, `Retry`, `TickAll`, `Switch`,
`SendAck`, `BacklogChanges`, `EditLaunch`. Loop side: `PassWrites`, `PassEnds`,
`PassFails`, `TimerFires`, and `RecheckFires`, the timer of `armParkedRecheck()`.

Abstractions: an entry is its id and its content, which is what `launchEntryHash()`
covers; an ack may be on disk before the first load; an entry that is missing or does not parse is no entry; feeds that come late
or out of order are WorkerPool's, idle pause and processes that still exit are
SupervisedRunner's; the workspace is trusted.

### Queue and QueueView
Queue is `buildDisplayState()` as operators with the names of the code (`NeedsYou`,
`Asked`, `ReviewIsSomeoneElses`, `OrphanedFailingCi`, `TicketCard`, `Before`), and the
pipeline around it: `Edit` (anyone writes a file of the directory), `TimePasses`, `Reload`,
`ForgeNews`, `LoopChanges`, `Push`. `last` is `lastState`, `told` remembers which reason
the operator was told of per card. A ticket is the fields lanes depend on; the acks of a
ticket are summarised by the newest one, AckLifecycle has their detail.

QueueView EXTENDS it with one page and the operator: `Open`, `Ready`, `Close`,
`PushToView`; `Choose`, `SetFilter`, `OpenNote`, `Escape`, `Send`, `Click`; `Deliver` is
`routeWebviewMessage()` with the handlers of the controller. `Kept` says when React keeps
the note field of a card.

Abstractions: one pull request per ticket; all toasts switched on; typing in the filter
gives the set of cards that match; one note field and one message at a time; links, logs
and layout are left out.

### Enricher
The cache of one repository's pull requests with what asks for a refresh
(`PollTick`, `FocusRegained`, `ForceRefresh`, `Coalesced`), the fetch (`Refresh`, `Answer`,
`Reject`, `Done`) over the request pool (`Fill`, `Release`, `LeftEnds`), backoff, the
freeze rule (`Frozen`), and a reload of the window with the persisted cache. The client is
Bitbucket's, one request per pull request and one for its checks; requests of a fetch that
failed stay in the pool as `Left`.

Abstractions: times are states (`due`, `backoff`), so the rate budget only decides when
`TimePasses` comes; comments, tasks and pages are one request with the info; an answer
from the ETag cache is an answer; a ticket change is one step with the reload that feeds
it; a closed pull request is not opened again; requests enter the pool in the order of the
numbers, where the code has the order in which the tickets named them (the pool treats all
alike).

### MC modules and proof modules
`MCSupervisedRunner`, `MCWorkerPool`, `MCPlanner`, `MCAckLifecycle`, `MCFleet`, `MCQueue`,
`MCQueueView` and `MCEnricher` carry the instances, the `.cfg` files the constants.
`SupervisedRunnerProofs`, `WorkerPoolProofs`, `PlannerProofs`, `AckLifecycleProofs`,
`FleetProofs`, `QueueProofs`, `QueueViewProofs` and `EnricherProofs` hold the theorems and
lemmas about the module they are named after. Definitions named `Mut...` stand next to the
definition they vary: each is that definition with a plausible bug, and shows that a
property notices it.

## 3. Runs

| Run | Configuration | Checks | States |
|---|---|---|---|
| `runner` | MCSupervisedRunner.cfg, FairSpec | types, `NeverStranded`, `HandleIsCurrentRun`, `StrayRunsCondemned`, `FailureBudget`, `StrayExitInert`, `KilledRunIsAFailure`, `KeepsTicking`, `WakeIsServed` | 8 thousand |
| `pool` | MCWorkerPool.cfg | types, `EntriesAreLive`, `WorkersAreBounded` | 185 thousand (with symmetry) |
| `planner` | MCPlanner.cfg | types, `NothingOverwritten`, `PlanIsProvisioned`, `PlanFits`, `NeverParksOverWork` | 2.2 million |
| `planner_fair` | MCPlannerFair.cfg, FairSpec | `NoStarvation` | 108 thousand |
| `planner_defers` | MCPlannerDefers.cfg | `DeferredIsRetried`, violated | |
| `acks` | MCAckLifecycle.cfg, FairSpec | types, `NoFalseAlarm`, `CalmMeansAnswered`, `SignalIsKept` (AckSignal), `AckIsSettled` | 769 thousand |
| `fleet` | MCFleet.cfg, FairSpec | types, `OnlyAllowedRun`, `ParkingHasItsEnd`, `NothingStartsItself`, `SeenAckWakesAll`, `ParkingNeverStrands` | 646 thousand |
| `fleet_manual` | MCFleetManual.cfg | `ManualKillsNothing`, violated | |
| `queue` | MCQueue.cfg, FairSpec | `OverdueAckReachesOperator`, violated | |
| `view` | MCQueueView.cfg | types, `NobodyStarves`, `AlarmsAreTold`, `ViewIsCurrent`, `RevivedIsNotRemoved` | 2.2 million |
| `forge` | MCEnricher.cfg, FairSpec | types, `PoolIsServed`, `ViewCatchesUp` | 176 thousand |
| `forge_frozen` | MCEnricherFrozen.cfg | `FrozenIsFinal`, violated | |

What the violations show (the texts they contradict are quoted in `PROJECT.json`):

* **DeferredIsRetried** - an acked ticket that finds no free slot, or whose worktree
  fails, has lost its ack and still waits on the operator, so the next pass refuses it.
* **ManualKillsNothing** - Run, Tick now or Restart worker reinstalls the agents of the
  repository first: the pass that runs is killed instead of getting a follow-up, and the
  other loops are left stopped.
* **OverdueAckReachesOperator** - an ack becomes stale by the clock alone, and the cards are
  derived only when something happened: with no loop running, nothing written and no forge
  refresh, the card stays where it was, in just the case design/02-protocol.md is about.
* **FrozenIsFinal** - a pull request cached as open is frozen as soon as its ticket calls
  it merged or closed; the final state is never fetched and the queue shows it as open.

### Stated and not run
These hold in no model because the code does not do what its texts say. The definitions
are kept in the modules; each can be checked by adding it to the configuration named.

* **NoOverlap** (SupervisedRunner, MCSupervisedRunner.cfg) - stop, then start: the new
  pass runs while the killed one is still exiting. design/09:115-116 has "no overlap,
  ever". The runner's own safety does not depend on it (`StrayExitInert`,
  `StrayRunsCondemned`), the ticket files' does.
* **NoWorkerLost** (WorkerPool, MCWorkerPool.cfg) - stop all, a new plan for the same key,
  then the old worker's exit: `onDone` deletes the entry of the *new* worker, which from
  then on cannot be stopped, is not counted and can be doubled ("Live worker processes,
  keyed by dispatch item key", agentSupervisor.ts:42). Only its timeout ends it.
* **StaleReadsAreInert** (WorkerPool, MCWorkerPool.cfg) - the guard against acting on a plan
  twice remembers the last pass count only: feeds of plan A, B and A again act three times
  ("at most once per planner pass", agentSupervisor.ts:221).
* **OneWriterPerTicket** (Planner, MCPlanner.cfg) - ack consumption, and the closure or
  reopening of an issue, write the ticket of a live worker; design/09:157-158 has "at most
  one writing process tree at a time".
* **ListedHasExited** (Planner, MCPlanner.cfg) - a pass that starts before the last plan was
  taken lists its keys again while their workers come up ("the planner only re-lists a key
  once its worker has exited", agentSupervisor.ts:128-129). The supervisor then skips a key
  that is live when the plan is fed.
* **NoStarvation** (Planner, MCPlannerFair.cfg with two keys, `MaxConcurrent = 1` and
  `Broken = {k1}`) - the oldest ticket that always fails takes the only slot in every
  pass; tick.md:143-144 has "so nothing starves". With `Closable` keys it fails as well: a
  ticket that is settled, removed and discovered anew comes before all others each time.
* **WithdrawalIsFinal** (AckLifecycle, MCAckLifecycle.cfg) - the pass has the ack listed or
  read, the operator withdraws it, the re-read of the history finds nothing and the
  operator is told so; then the pass writes its note and dispatches
  (design/02:332-335).
* **AnswersWhatWasAsked** (AckLifecycle, MCAckLifecycle.cfg) - the note field is open, the
  ticket moves to a new request, the operator presses Enter: the message names no request,
  and `ack()` answers the new one; design/02:280 has "`target` snapshots the `waitingOn`
  being answered".
* **NoteStaysOnItsCard** (QueueView, MCQueueView.cfg with `Keys = {1, 2}`) - the detail
  pane's ack control has no key: choose another card while the note is open, and the note
  is sent for that one.

### Bounds, and why they are enough
* `Runs = 3`: the current run, one killed and not yet gone, and a third name to launch
  under; more late exits behave as the second does. `MaxRestarts = 3` has a first, a
  middle and a last strike.
* `Workers = 3`, `Keys = 2`, `Passes = 3`, `Caps = {1, 2}`, `MaxLoads = 2`: a key can
  be planned again while its killed worker still runs and the other key is busy; three
  pass counts are the one acted on, the one on disk and one being read; the cap can
  bind or not and can change.
* Planner: two tickets and one slot make selection, deferral and order matter; one
  request name suffices because a request is fresh only when nothing refers to it. `k1` has
  whatever can befall a ticket (`Asking`, `Closable`), `k2` competes with it and its worker
  lingers when killed (`Lingering`). Without `Dated` any file may be the oldest, which
  allows more than the code; the fairness run, where order is the point, keeps the dates and
  takes three tickets and two slots, one ticket git never provides for, and no acks and
  closures.
* `MaxRequests = 2`: one request answered, passed over or withdrawn and a newer one that
  must not be mistaken for it; each can be sent again any number of times. The newer
  one's ack carries the ambiguous note.
* Fleet: a scheduled loop and a daemon, two contents of an entry, two launch files (one
  edits the first entry and drops the other): approval by content, installation over
  running loops and an orphaned daemon all occur. `Parkings` has no parking and one with
  `recheckAfter`; one without an end promises no wake and is left to the operator. At
  most one ack is new to the host while the first load waits.
* QueueView, with the host: `Keys = {1}`, as a card depends on no other, and the card of the
  failed loop, so that selection, order and toasts have a second card. The ticket waits for
  a review or is settled; the forge knows nothing or knows of no reviewer; an ack may get
  overdue: the reasons review, stale-ack, degraded and launcher-failed come and go, by
  themselves and after each other. The other reasons and answers of the forge are the
  theorem's (section 4). The one filter lets everything through, and as no card is old
  enough to be hidden the eye stays shut (`Eye`). A page misses pushes at any point of its
  life.
* Queue: one ticket that waits for a review, is blocked or settled is enough for the
  violation.
* Enricher: two pull requests and a pool of one, so a request waits behind another and a
  failed fetch leaves one queued; `MaxLeft = 1` such request may still be there when the
  backoff ends. `States` has no final state in the passing run: tickets that call a pull
  request final while the cache does not are the violation's subject.

Deadlock is checked in every run.

### Fairness
* `SupervisedRunner`: timers fire, and a run that was told to stop does end. Both are
  the operating system's part; nothing is assumed of passes that were not killed, of
  the operator or of wakes. `KeepsTicking` and `WakeIsServed` speak of scheduled
  entries: a daemon has no timeout, and a daemon that neither exits nor reports is the
  wedge check's case.
* `Planner`: the pass takes its steps (it is awaited), plans are fed, workers end
  (their timeout), from some point on no pass dies before it wrapped, and git provides
  a worktree in the end unless the key is `Broken` (strong fairness of `Dispatch`,
  since the attempt is not continuously enabled). That plans are fed supposes a worker
  entry that is approved; that workers end holds of killed ones too, as a ticket whose
  killed worker writes for ever can be kept from the passes for ever. A wrap without a plan is the same
  step as a death, hence the form `PassDies => Wrap`.
* `AckLifecycle`: passes take their steps and start again (the runner's cadence, see
  `KeepsTicking`) and from some point on none dies. Nothing is assumed of the operator,
  the host or the worker.

* `Fleet`: a recheck timer that is armed fires. Nothing is assumed of the operator, the
  files or the passes.
* `Queue`: the reload and push timers fire. Nothing else asks for a push: the code has no
  timer that does. The reload timer is re-armed by every write; that writes pause for 250 ms
  now and then is assumed.
* `Enricher`: timers fire, time passes, and every request ends with an answer or an error;
  `fetch()` has no timeout, so a request that hangs is outside this. `ViewCatchesUp` is
  about the time after the forge and the tickets stopped changing and no request fails.

## 4. Proofs

Every safety property that a run checks, invariant or action property, is also proved, for
every value of the constants that the assumptions of its module allow. Each argument is an
inductive invariant (`IInv`, `QInv`, `VInv`, `TInv` and `PInv` in the proof modules); TLC
found it to hold on the instance of the component's run before it was proved. The
theorems by component:

**Runner** (`RunnerAssumption`: any entries, `MaxRestarts > 0`, any run names).
`RunnerSafe`: types, `NeverStranded`, `HandleIsCurrentRun`, `StrayRunsCondemned` and
`FailureBudget`. The conjunction is inductive as a whole and none of its parts is alone:
that a failure leaves a waiting state with a timer needs that a tracked process implies
`running`, that stop leaves no unkilled process needs that the handle is the current run.
`RunnerTypes`, `HandlesTrackRuns`, `StraysAreCondemned` and `BudgetIsKept` name its parts;
`OneRunPerEntry` draws what they are for: one entry never has two processes that nobody
told to die. `StrayExitsAreInert` and `KilledRunsFail` are the action properties.

**Worker pool** (`PoolAssumption`: any finite set of keys, any workers, passes, caps and
overlapping reads). `PoolSafe` with its parts `PoolTypes` and `WorkersStayBounded`. What
makes it inductive is that an entry's worker is a live worker *of that key*: an exit can
then clear only its own key's entry.

**Planner** (`PlannerAssumption`: finitely many keys, any requests and cap, any keys that
ask, close, break or linger). `PlannerTypes`, `NothingIsOverwritten`, `PlansAreProvisioned`,
`PlansAlwaysFit` and `ParksOverNoWork` assume nothing of when plans are fed, when passes
start or how long a killed worker lives; what they leave out are the keys of `unseen` (and,
for overwriting, the two writes to live keys that the code makes), and what the module
leaves out: one pass at a time, and no feed of an older plan. One invariant carries them:
* a worker that runs during a pass is of a key that was live when the pass started or is
  `unseen` (`LiveAreSeen`): a feed under way spawns keys of the old plan, a stray exits or
  writes, and both were counted as unseen when the pass began;
* from loading the tickets to the wrap the files of all other keys are as the pass loaded
  them or were removed when settled (`HeldIsCurrent`, `SnapIsCurrent`), because nobody else
  writes them;
* what is, was or will be dispatched is selectable and fits beside the live workers
  (`LiveFit`, `ChosenFit`), and nothing selectable is dropped without being deferred. With
  `SnapIsCurrent` this gives the parking theorem: an empty wrap had nothing to dispatch on
  disk.

**Acks** (`AckAssumption`: any number of requests). `SignalKept`: AckLifecycle implements
AckSignal; every step is a Send, a Settle, a Withdraw of a set of answers, or a stutter (a
pass that dies with several withdrawn acks in its hands is why Withdraw takes a set).
`NoFalseAlarms`, `CalmIsAnswered`, `AckTypes`. The parts that matter: an ack in the pass's
hands whose file is gone was withdrawn or is already recorded, so that losing it with the
pass loses nothing; beyond its scan, what predates the pass and is still on disk is in its
hands. `AckTypes` rests on lemmas about what appending to and removing from a sequence
without repetitions leaves.

**Fleet** (`FleetAssumption`, `FleetNulls`: any entries, contents and launch files).
`FleetTypes`, `OnlyAllowedContentRuns`, `ParkingsEnd`, `StartsAreCommanded`, `AcksWakeAll`.
`OnlyAllowedRun` is not inductive: a stopped loop can be started later, so all that is
*installed* must be allowed, what a dialog has collected so far must be allowed or be among
the entries still asked for, and what waits for the connection must be what was loaded.

**Queue** (`QueueAssumption`, `QueueNulls`: finitely many keys, any tickets and words of the
forge). `NobodyEverStarves` needs the types only: it is a statement about the lane
operators, over every file, age, ack and pull request state. `ToastsAreExact` needs that
`last` is derived from the loaded files of the last push. `QueueTypes`.

**Queue view** (`ViewAssumption` as well). `ViewTypes`, `PagesAreCurrent`,
`RemovesOnlySettled`, `AcksNameACard` (an open note always has a card to be sent for), and
`ViewsDisturbNothing`: the queue keeps its promises with a page and an operator attached,
since the view's steps are the queue's steps or leave it alone.

**Enricher** (`EnricherAssumption`: finitely many pull requests, any width of the pool).
The invariant ties the pool to the fetch: what is on its way or waits is asked for once
(`NobodyAskedTwice`) and is exactly what the fetch needs next, the infos still missing and
then the checks of the first entry not stored (`FetchesKeepTheirRequests`); so a fetch
cannot be left under way with no request that would end it. `PoolStaysServed` counts what
`Fill` takes. `FinalsAreNotAskedFor` and `FinalsStay` are the half of "fetched once, then
never re-fetched" that the code keeps (`FrozenIsFinal` is the half it does not): a cached
final pull request is not asked for, nor overwritten by an answer that comes late.
`EnricherTypes`. `AskedOnce`, `FetchHasItsRequests`, `FinalRests` and `FinalStays` are
stated in EnricherProofs and are not properties of a run.

Two helpers of the models are written so that the provers can follow them: `Enricher`
numbers a set by counting instead of sorting (`InOrder`), and `AckLifecycle` moves an ack's
time stamp by removing one place of a sequence without repetitions (`Stamp`). The null
values (`NoCards`, `NoTicket`, `NoEntry`, ...) are assumed to differ from what they stand
beside, which model values do.

Only model-checked: the liveness properties (`KeepsTicking`, `WakeIsServed`,
`NoStarvation`, `AckIsSettled`, `ParkingNeverStrands`, `ViewCatchesUp`), as liveness under fairness is out of the prover's reach; and the
violations, which are refutations on an instance.

## 5. Plan, and what is not modelled

Done: SupervisedRunner, WorkerPool, Planner, AckLifecycle with AckSignal, Fleet, Queue,
QueueView, Enricher; the proofs above.

Next: refinements between the components, of which AckSignal is the only one so far.
Planner's `Feed` by WorkerPool (a plan taken over all at once against feeds that come late),
and Fleet's loops by SupervisedRunner, to show that the coarse module promises no more than
the detailed one.

Not modelled:
* the GitHub client (one query for all pull requests), mappings, credentials, remotes and
  the registry: request building without a protocol of its own;
* discovery of repositories, worktree roles and dropping a repository while it loads: one
  repository is modelled;
* field-by-field parsing, configuration, schema versions: a file is its value, absent or
  corrupt;
* the agent stream reducer, output channels, the agents strip's wording, the HTML;
* the sweep of inbox directories that lost their ticket (it needs seven days);
* an untrusted workspace and several windows on one directory;
* what the language models run by the plugin's prompts decide: it appears as the
  environment action `WorkerWrites`.
