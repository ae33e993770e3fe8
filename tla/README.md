# Brain ecosystem: formal verification

TLA+ specifications of the parts of the Brain ecosystem whose behaviour depends
on the order of events: several actors on shared rows, calls that wait, crashes
between two writes, caches that go stale. TLC checks them on small instances;
TLAPS proves the most important results for every value of the constants.
`PROJECT.json` holds the same information for tools: components, runs, the
source lines behind every definition, hazards, findings, theorems.

Contents: [the system](#the-system) · [modules](#modules) ·
[runs](#runs-and-what-they-show) · [bounds](#bounds) · [fairness](#fairness) ·
[proofs](#proofs) · [findings](#findings) ·
[not modelled](#not-modelled) · [plan](#plan)

## The system

Four Node daemons (brain, trading-brain, marketing-brain, brain-hub) share the
library `packages/brain-core`. A daemon is one process with one event loop and
one SQLite database (better-sqlite3, synchronous). Two facts shape every model:

* code between two `await`s runs alone: no other call sees it half done;
* the process can die anywhere, also between two synchronous writes, and each
  SQL statement commits for itself. Rows and files survive, everything in memory
  does not.

Where a death or a throwing statement between two writes matters, a synchronous
stretch is taken write by write (`SelfModification`, `Missions`,
`PaperTrading`); elsewhere it is one step.

| Component | State | Operations | Interacts with | What is hard |
|---|---|---|---|---|
| Governance (`governance/`) | `governance_actions`, `engine_registry.enabled`, `loop_detections` | throttle, cooldown, isolate, escalate, restore, shouldRun, review | orchestrator steps 67 and 68, IPC routes `governance.*`, token budget tracker | one review runs five stages that see each other's rows; expiry restores a whole engine; restart |
| Self-modification (`self-modification/`) | `self_modifications`, the working tree, generations of the last hour | propose, generateCode, testModification, approve, apply, rollback, reject, recovery | orchestrator step 40, dashboards, IPC, CodeForge, the sandbox, the API | calls that wait while the status changes; crash between writes; failed writes |
| LLM service and token budget (`llm/`, `governance/engine-token-budget.ts`) | `llm_usage`, reservations, two caches, call history | call, reserve, release, provider fallback | all engines, providers, governance review | concurrent calls against one budget; stale caches; leaked and stale reservations |
| Research orchestrator (`research/`) | cycle counter, timer | runFeedbackCycle | all engines | a cycle from the timer and one from IPC at a time |
| Daemon lifecycle and watchdog (`brain.ts`, `init/lifecycle.ts`, `cli/commands/start.ts`, `stop.ts`, `watchdog/`) | processes, the PID file, the pipe, the watchdog's view | boot, in-process restart, SIGTERM, crash; start with its supervisor, stop; launch, exit handler, backoff, health check, restartDaemon | the operating system, the IPC server | three parties that may launch; a PID file written late and unlinked by anybody; timers that outlive what they were set for |
| Missions and the autonomous research loop (`missions/`, `research/autonomous-research-loop.ts`) | `research_missions`, `mission_phases`, `autonomous_research_log` | createMission, five awaited phases, cancelMission; the loop's cycle | LLM, web research, operators, action handlers | cancellation during an await; a crash leaves rows nobody works on |
| Action bridge (`action/`) | `action_queue` | propose, processQueue, executeAction, recordOutcome, rollback | orchestrator step 59, IPC routes, handlers | a list read before an await; outcomes recorded during one |
| Paper trading (`trading-brain/src/paper`) | positions, trades, balance, `cycleInProgress` | runCycle, closePosition, reset | price feed, the handler of `execute_trade` | several commits per trade; reset under a waiting cycle |
| Borg sync (`cross-brain/`) over IPC (`ipc/`) | flag, timer, filters, list of peers, items, memories; requests in sockets | start, stop, setEnabled, updateConfig, syncCycle, the two handlers; request, answer, timeout; heartbeats that come or stay away | the three brains, each with each; `PeerNetwork` | requests that are executed after their sender has given them up; flag, filters and peers change during a cycle |
| Consensus (`consensus/`) | proposals, votes | propose, vote, resolve | step 40 | one voter only, nobody reads a resolution |
| Guardrails, checkpoints | parameters, snapshots | validate, rollback, trip; save, load, prune | orchestrator | order of calls |
| Knowledge, memory, reasoning, synapses | rows with scores | many | each other through the orchestrator | quality of heuristics rather than order of events |
| Dashboards, HTTP, MCP, CLI, webhooks, plugins | sockets | input and output | everything | pure input and output |

What makes the modelled components correct:

* governance: decisions are a history; isolation, flag and rows move together;
  cooldowns are honoured, end, and do not hide each other for long; repeated
  throttles isolate;
* self-modification: no generated code in the tree that no successful apply
  put there; patches are whole; every test ends and says so in its row;
* LLM service: an engine stays within its token budget however its calls
  interleave, and is refused only if it is really out of budget;
* daemon lifecycle: nobody starts a daemon twice for one reason, the running
  daemon can be found and stopped, and the watchdog's view follows it;
* missions: the limits on concurrent and daily missions hold, the rows of a
  mission and its phases agree, missions end;
* action bridge and paper trading: an action is carried out at most once, sure
  actions are carried out, money is neither made nor lost;
* Borg sync: nothing comes back to who learnt it, disabled brains neither share
  nor take pushes, timers match the flag, knowledge spreads between brains that
  have each other as peers.

## Modules

| Module | Models |
|---|---|
| `Governance` | `GovernanceLayer`, the flag of `EngineRegistry`, unresolved rows of `LoopDetector`, steps 67/68, restart |
| `GovernanceProofs` | theorems about `Governance` |
| `SelfModification` | `SelfModificationEngine` with its callers, the tree, crash and recovery |
| `SelfModificationProofs` | theorems about `SelfModification`, and that it implements `PatchedTree` |
| `PatchedTree` | abstract specification that `SelfModification` implements |
| `LLMService` | `LLMService.callInternal` with `EngineTokenBudgetTracker` |
| `LLMServiceProofs` | theorems about `LLMService` |
| `Supervision` | a daemon, `brain start` and `brain stop`, the `WatchdogService`, PID file and pipe |
| `SupervisionProofs` | theorems about `Supervision` |
| `Missions` | `ResearchMissionEngine` and `AutonomousResearchLoop` |
| `MissionsProofs` | theorems about `Missions` |
| `ActionBridge` | `ActionBridgeEngine`, with handlers that settle when they like |
| `PaperTrading` | `PaperEngine`, `PortfolioManager`, `PaperRepository` |
| `TradingBrain` | the two composed: the engine's cycle behind the handler of `execute_trade` |
| `TradingBrainProofs` | theorems about `ActionBridge` and `TradingBrain`, and that one implements the other |
| `BorgSync` | `BorgSyncEngine` in several brains, over the requests of `CrossBrainClient` |
| `BorgSyncProofs` | theorems about `BorgSync` |
| `Sums` | lemmas about sums over finite sets and about least and minimal elements, for two of the proof modules |
| `MC...` | constants of the small instances |

### Governance

`log[e]` is the table restricted to one engine, in id order; every query in the
code is of that form. A row keeps type, expiry, `active` and (for throttles,
where it is read) the cycle. `review(c)` is synchronous, so it is one step, but
it is written as the composition of the stages the method runs: loop findings,
token budget, grades, expiry, escalation. Each stage is an operator on one
engine's rows (`AfterLoops`, `AfterBudget`, `AfterGrade`, `AfterExpiry`,
`AfterEscalation`); the flag goes through the same stages
(`FlagAfterReview`). What the detectors, the budget tracker and the report
cards say is chosen freely at each review; the detectors may find any number of
new loops, up to the bound. `getActive` returns the latest 50 of all rows, more
than the bound allows to exist.

The two comparisons of expiry times are not the same. `shouldRun` compares two
ISO strings and gets the order of the times. The review compares an ISO string,
which has a `T` between date and time, with SQLite's `datetime('now')`, which
has a blank; the blank sorts first, so the expiry counts as past only when its
*date* is. `Unexpired` and `Stale` say so, with `DayLength` clock ticks per day.

`shouldRun` reads one cooldown row (`LIMIT 1`). If that row has expired it is
retired and the call falls through, whatever other cooldowns are active. The
property `CooldownHonoured` states what is left of the promise: an unexpired
cooldown is overlooked only in the call that retires another, expired one.

Rows of type `escalate` and `restore` are inserted active and are retired only
by the next restore. Any active row suppresses the budget and grade cooldowns,
so an engine that was restored once is never cooled down for them again.
`AfterBudget` and `AfterGrade` show this; no document states an intention.

### SelfModification

Two calls wait: `generateCode` for the API (`gens`) and `testModification` for
the sandbox (`tests`, a count, as one modification may be tested by several
callers). All other code, `execSync` included, blocks the event loop until it
is done; such a stretch is a *section* and is taken one write at a time, because
a crash can come between two writes: `WriteFile`, `AllWritten` (rollback data
stored), `BuildPasses`/`BuildFails`, `RestoreFile`, `Restored` (verdict stored).
`WriteFails` and `RestoreFails` are the failures the code catches or lets out.
While a section runs nothing but its own steps, a mishap and the clock happen.

A file's content is abstract: the code of a modification, what the file held
before any (`Original`, or `Empty` if that was no text), or `Absent`. The code
saves the old content as a string, and `''` for a file that is not there, that
is empty, or that could not be read; `restoreFiles` unlinks whatever was saved as
`''`. So a test deletes an empty file of its diff, and one it could not read.
`Read` is what is saved, `Void` says which contents are no text (also a block
without any, `Hollow`), `WriteUnread` and the parameter `unread` of the applies
are the reads that fail. The history variables `landed` and `torn` record
applies that succeeded and modifications that an unrepaired mishap may have left
on disk.
`torn` grows only at the mishaps named in the comment of
`CodeOnDiskIsExplained`; every other crash and failed write must be repaired.

`PatchedTree` says what an observer outside the sections sees: a test snapshots,
an apply lands all files of a modification at once, an undo goes back to the
last snapshot, and only a mishap tears a patch. Whoever takes a snapshot may
delete files of his modification that have no text (`Drop`). The refinement
maps the tree to what it will be once the running section has put back what it
saved (`TreeOf`), and rollback data to snapshots (`BaseOf`).

### LLMService

A call checks the answer cache, reserves tokens, awaits the providers'
availability (`Routed`), and then awaits one `chat` after another
(`ChatSucceeds`, `ChatFails`). The tracker's usage cache per engine (`seen`)
holds both windows and the time of reading. Reservations are dropped when
someone next reserves and they are older than two minutes. Two catches fail
open: `getUsage` returns zero usage when its query throws (the parameter `blind`
of an admission; the zero is not cached), and the service goes on when the
statement of `recordUsage` throws (`recorded` of `ChatSucceeds`). The history
variable `missed` holds the calls the tracker has lost sight of in one of the
three ways. Elsewhere a query of `getUsage` that throws changes nothing. The
clock is a small number of ticks; every comparison keeps the code's strictness.

### Supervision

One daemon with all its processes: `phase[p]` goes from `booting` to `up`, and
by `restart()` through `restarting` back to `up` or, when `start()` throws, to
`down` (alive without service); `stopping` lasts until the logger has flushed.
The parties share no lock. They meet in the PID file, which a daemon writes when
its boot is over and which its own shutdown, `brain stop`, `brain start`, the
watchdog and a supervisor that gives up all unlink without looking whom it
names; and in the path of the pipe, which a server that finds it in use probes
and, if nobody answers, unlinks and binds (`Probe`, `Reclaim`).

`brain start` leaves a supervisor (`sup`): exit handler and backoff timer. The
child is detached and unreferenced, so nothing keeps the command alive once it
has launched it; `SupLeaves` is that end of the supervision and may happen at
once. The `WatchdogService` runs in monitoring mode, the only one a daemon uses.
Its health check waits for the pipe: `CheckHealth`, `PingMeets`, `PingEnds`.

An uncaught error calls `restart()` in a process that is stopping, too
(`UncaughtError`): the exit then wins over the restart timer or comes after it.
`stop()` calls `cleanup()` outside of any `try` (`brain.ts:1235`); that it throws
there is not modelled, nor is what an error in the signal handler would do.

### Missions

A run of a mission is `run[m]`: the phase it is in and the statement it comes to
next (`rows`: the inserts of the phases; `status`, `start`, `complete`, `report`,
`journal`, `catch`), or `phase` while it waits for the LLM or the web. Every
statement is a step, since it is a commit of its own: the process may end after
it (`Crash`) and it may throw (`Throws`, `InsertPhaseThrows`, `FailThrows`,
`LogLaunchThrows`). A stretch between two awaits is not interrupted by other
calls; `turn` is the mission whose run is in one, `launching` the mission that the
loop has created and not yet logged. The clock stands still within a stretch.
The continuation of a phase that has ended is a microtask and counts as the same
stretch. What the inner `try` of `phaseDecompose` absorbs is a stutter.

`cancelMission` writes the row only, so a cancelled run goes on and overwrites
`failed`. An error that escapes `createMission` (a phase row that cannot be
inserted) or the catch of `executeMission` (the status `failed` that cannot be
written) leaves an active row without a run, as a death of the process does.
`cancelled` and `stranded` record these missions for the properties.

### ActionBridge, PaperTrading, TradingBrain

`ActionBridge` knows nothing of handlers: a call may settle at any time
(`HandlerSettles`). A walk of `processQueue` keeps the list it read (`todo`);
`StartWalk` reads it, `WalkInvokes`, `WalkFindsNoHandler` and `WalkSkips` are
the ways an action of the list is met. `PaperTrading` takes a cycle commit by
commit from the moment the prices are there (`RecordTrade`, `DeletePosition`,
`Credit`, `Open`, `Debit`), because each statement commits for itself; what is
bought and sold is chosen freely. `TradingBrain` puts the second behind the
first: `Handler` starts a cycle or finds one under way, and the call settles
when the cycle it began is over (`Through`). While a cycle runs (`~Waits`)
nothing else of the process does. The bridge's specification is also what the
trading brain refines: `BrainIsABridge`.

### BorgSync

Brains are processes with a flag (`enabled`), the handle of the timer
(`handle`) and the intervals that really tick (`intervals`); keeping the last
two apart shows leaks. A request lives in the socket of its receiver after its
sender has given it up (`live`), is served when the receiver gets to it, and is
then executed under the receiver's flag and filters of that moment. `broadcast`
also hands the request to the brain's own handlers. A cycle is a push, a pull and
the import of what came back; disabling in between does not stop it.

`peers` is the list of a brain's `CrossBrainClient`. It begins with the other
brains (`DefaultPeers`) and loses one, a default peer too, when its multicast
heartbeats have stayed away for 90 seconds, which lost datagrams suffice for
(`PeerLost`: `brain.ts:1051-1053`, `trading-core.ts:797-799`, `client.ts:121-125`);
a heartbeat that comes through brings it back (`PeerFound`). Neither is bounded.
The marketing brain constructs no `PeerNetwork`: its list never changes, which is
a special case. `updateConfig` also sets the filters (confidence, relevance, mode,
types); a filter is modelled by the items it lets out (`outgoing`) and in
(`incoming`). The items are those that pass the filters a brain boots with; a
restart brings back these filters and the default peers.

## Runs and what they show

| Run | Checks | Result |
|---|---|---|
| `governance` | `TypeOK`, `RetiredStaysRetired`, `FlagFollowsIsolation`, `RepeatedThrottlesIsolate`, `NoStaleCooldownAfterReview`, `CooldownHonoured` | hold |
| `governance_isolation` | `IsolationNeedsManualRestore` | violated, see findings |
| `self_modification` | `TypeOK`, `CodeOnDiskIsExplained`, `TestingHasOwner`, `ImplementsPatchedTree`, `TestEnds` | hold |
| `self_modification_crash` | `CrashedTestIsUndone` | violated, see findings |
| `self_modification_rollback` | `RollbackRemovesCode` | violated, see findings |
| `llm_service` | `TypeOK`, `BudgetKept`, `ReservationsOwned`, `DenialsJustified` | hold |
| `llm_rate` | `PaidCallsWithinLimit` | violated, see findings |
| `supervision` | `TypeOK`, `EverySpawnHasACause`, `LoneDaemonIsFound`, `SignalledDaemonsExit`, `ViewForgetsTheDead`, `ViewFindsTheLiving` | hold |
| `supervision_restart` | `RestartedDaemonsRun` | violated, see findings |
| `missions` | `TypeOK`, `LimitKept`, `RowsAgree`, `RunsAreRecorded`, `DailyLimitKept`, `MissionsEnd` | hold |
| `trading_brain` | `TypeOK`, `AtMostOnce`, `PositionsInBounds`, `BooksBalance`, `SureActionsAreExecuted` | hold |
| `borg_sync` | `TypeOK`, `NoEcho`, `OnlyExposedIsShared`, `OneIntervalWhenEnabled`, `DisabledTakesNoPush`, `KnowledgeSpreads` | hold |

Run one with `tlc -config MCGovernance.cfg MCGovernance.tla`. Each property of
a passing run has at least one *fault* in the module, an operator whose comment
begins with "Fault:": a plausible bug which, put in place of the definition that
follows it, breaks the property under the same configuration (`mutants` in
`PROJECT.json`).

What the properties rule out:

* `RetiredStaysRetired`: no step of any actor edits or loses a row or revives a
  retired one. The audit trail can be trusted, and one `restore` is final.
* `FlagFollowsIsolation`: when isolation begins or ends, the registry flag and
  the active rows end up in agreement, although up to three stages of one
  review may write the flag. It is a property of edges: between them the
  operator's `governance.enable`, or a restart, may set the flag on its own.
* `RepeatedThrottlesIsolate`: the escalation is the last word of a review.
* `NoStaleCooldownAfterReview`: a cooldown ends at the first review of a later
  day at the latest, even if nothing calls `shouldRun`.
* `CooldownHonoured`: see above.
* `CodeOnDiskIsExplained`: outside sections a file holds generated code only if
  an apply of it succeeded or one of four named mishaps hit it. A read that fails
  is none of them: it may cost the file, but leaves no code.
* `TestingHasOwner`, `TestEnds`: a row in `testing` always has a call, a section
  or a pending recovery that will end it, and it does end.
* `ImplementsPatchedTree`: refinement of `PatchedTree`. Tests and failed applies
  are invisible but for the files without text that they delete, and for the
  mishaps.
* `BudgetKept`: the estimates of waiting calls and what finished calls used, up
  to their estimate, fit in the engine's limits in both windows. Beyond them go
  the part of an answer that exceeds its estimate (the input's size is not part
  of it) and three kinds of calls that the tracker misses: one that waits until
  its reservation is dropped as stale, one admitted while the usage could not be
  read, and one whose row could not be written.
* `ReservationsOwned`: a reservation belongs to a waiting call or to one that
  found no provider (which leaks it), and no call has two.
* `DenialsJustified`: a refusal is explained by the rows of the window and one
  life of the usage cache, and by reservations not older than two minutes; a
  leak does not starve an engine for longer.
* `EverySpawnHasACause`: supervisor and watchdog together start at most one
  process per crash, `brain start` and `restartDaemon`, and none for a stop,
  though both may hear of the same exit and their timers fire later.
* `LoneDaemonIsFound`: a daemon that is up is in the PID file, so `brain stop`
  finds it. The exceptions are in the property: two daemons at a time, which a
  PID file written at the end of the boot allows, and a supervisor or watchdog
  that gives up and unlinks a file that may name a successor.
* `SignalledDaemonsExit`: also a SIGTERM in the second between the two halves of
  an in-process restart leads to the end.
* `ViewForgetsTheDead`, `ViewFindsTheLiving`: the watchdog's state is written
  after awaits and by handlers of old children, and still converges.
* `LimitKept`: exactly the missions that were cancelled and came back may exceed
  `maxConcurrentMissions`.
* `RowsAgree`: status, phases and report of a mission tell one story after every
  single commit, wherever a crash or an error cuts the run off and although the
  run of a cancelled mission writes over the cancel.
* `RunsAreRecorded`: a mission that waits says which phase it waits in, unless
  it was cancelled, and an active mission without a run is one that a crash or an
  escaped error stranded.
* `DailyLimitKept`: in no 24 hours does the loop create more missions than its
  limit, but for those it could not log, of which there is at most one per crash
  or escaped error.
* `MissionsEnd`: an active mission whose phases do not wait for ever ends, unless
  its run was stranded; such rows stay active, and count against the limit,
  until somebody cancels them.
* `AtMostOnce`: see below, it is also proved; the price is that an action whose
  process died stays in `executing`.
* `BooksBalance`: cash plus what is held is the start plus the realised profits,
  except for the amount and gain of one position per crash or throwing
  statement. With no mishap it is an equation.
* `SureActionsAreExecuted`: an action that may be executed automatically does
  not stay pending, whatever outcomes, rollbacks and crashes intervene.
* `OnlyExposedIsShared`, `NoEcho`, `DisabledTakesNoPush`: about requests served
  late, after flags and filters have changed and brains have died.
* `OneIntervalWhenEnabled`: the timer follows the flag, as long as the flag is
  not changed by `updateConfig`, which leaves the timer as it is.
* `KnowledgeSpreads`: two brains that stay up and enabled end up sharing what
  their filters let pass, whatever was lost before, if one of them has a ticking
  interval and keeps the other among its peers; it is enough for both
  directions. While neither has the other among its peers, no sync follows:
  90 seconds without heartbeats are enough for that, though both serve and tick.

## Bounds

All bounds are constants named in the modules and applied in guards.

* Governance: one engine (no query relates two), five rows, two throttles and
  two cooldowns, one row of each other type, two unresolved detections, two
  reviews' worth of cycles between restarts, three ticks of a two-tick day.
  `ThrottleLimit` is 2 rather than 3 and a review comes every second cycle
  rather than every tenth. That is enough for a cooldown to end on the same and
  on the next day, for two cooldowns to hide each other, for throttles to fall
  out of the window, and for two detectors to report in one review. That
  isolation is lifted and reimposed in one review takes a second row of that
  type, which only the theorem `FlagsFollowIsolation` covers. The run of the
  finding has one unresolved detection.
* Self-modification: two modifications, one of two files and one that shares a
  file with it. One file has text in the beginning, the shared one is empty, and
  the second modification writes it without text: an empty file that a test
  deletes, a block without content, and a snapshot of either all occur. One
  mishap; one waiting test of each. Larger instances (two mishaps; two waiting
  tests of one modification) take too long with the liveness property; with two
  mishaps the invariant of the proofs was model-checked, and it is proved for any
  number.
* LLM service: three calls of one engine with the same key, one call of an
  engine without budget, a paid and a free provider, answers below and above the
  estimate, four clock values, one mishap (a restart, a query or a statement that
  throws), an answer cache of one entry. The windows are one and two ticks, both
  caches live longer than in proportion, so that every order of expiry occurs.
  Symmetry: the three calls are interchangeable and the run checks safety only.
* Supervision: three processes, so that two daemons can be alive and have a
  successor; one run of `brain start`, two faults, one call of `restartDaemon`
  and one `brain stop`; one restart in the process and one crash borne by a
  supervisor instead of three and five, so that both limits are reached.
* Missions: two missions of two topics, one at a time, one launch a day of two
  ticks; two phases instead of five, so that there is a first, a next and a last
  one; one mishap. Two missions are enough for one that is cancelled, replaced
  and comes back; one launch a day for a mishap to hide it. The theorems are for
  any number of phases.
* Trading brain: two actions, of a type with and one without handler, a walk and
  the operator, two symbols of which one may be held, one mishap. A second walk
  adds nothing that the route does not do already: both call `executeAction` at
  any time.
* Borg sync: two brains, one cycle each, one item, two mishaps (timeouts and
  crashes), one call of `updateConfig`, at most two intervals of a brain. Lost
  and found peers are not bounded. The proofs of the safety properties cover
  overlapping cycles and any number of brains.

Unbounded in the code: the number of rows, the clock, the number of calls,
processes and mishaps.

## Fairness

`SelfModification`: weak fairness of the steps of a section (synchronous code,
`execSync` with timeouts of 60 and 120 seconds), weak fairness of the restart (the daemon is started again by its
service manager), strong fairness of the sandbox's answer to each modification
(its timeout is ten seconds; strong, because other sections disable the answer
again and again, while the event loop serves its queue in order).

`Supervision`: weak fairness of what processes and timers do of themselves:
boot, probe, signal handler, exit, restart timer, exit handlers, backoff timers,
the interval of the health check and the end of its request. Users, faults and
the end of the command `start` are free.

`Missions`: weak fairness of what a run does without waiting (the event loop
goes on with it) and of the statement after `createMission`. That a phase is
answered is not assumed, since `chat` (`anthropic-provider.ts:68`,
`ollama-provider.ts:126`) and the web requests set no timeout: `MissionsEnd`
speaks of a mission that is again and again found not waiting, which is so if
what each of its phases waits for comes or fails. The loop and the clock are free.

`TradingBrain`: weak fairness of a cycle's steps (the price requests,
`price-fetcher.ts:118,155,219,256`, set no timeout of their own, so this rests on
that of the runtime; the rest is synchronous); strong fairness of a walk's next
step and of the end of its handler call. Feedback cycles come from an interval
for ever, with step 59 among their steps; strong, because the walk finds the
engine in one of its synchronous stretches now and then, each of which ends.

`BorgSync`: weak fairness of the intervals, of the servers' handling of each
request and of the promises that settle. Heartbeats, timeouts, crashes, boots
and users are free; `MaxMishaps` and `MaxUpdates` bound timeouts, crashes and
calls of `updateConfig`. So the property says: once these are over and a brain
keeps its peer, knowledge spreads.

No operator call, no API answer and no clock tick is assumed to happen.
`Governance` and `LLMService` state no liveness: the first is driven from
outside, in the second `chat` has no timeout in the code.

## Proofs

`GovernanceProofs` proves, for any sets of engines, any periods, limits and
bounds that satisfy the module's assumptions:

| Theorem | States |
|---|---|
| `TypeCorrect` | `Spec => []TypeOK` |
| `HistoryKept` | `Spec => RetiredStaysRetired` |
| `ThrottledEnginesIsolated` | `Spec => RepeatedThrottlesIsolate` |
| `NoStaleCooldowns` | `Spec => NoStaleCooldownAfterReview` |
| `CooldownsHonoured` | `Spec => CooldownHonoured` |
| `FlagsFollowIsolation` | `Spec => FlagFollowsIsolation` |

The inductive invariant is `TypeOK`: it holds of the initial state, and each
action preserves it given lemmas on the row writers (`NewRow` is a row; each
stage of a review maps a sequence of rows to one). The other theorems are about
steps. They rest on one relation between an engine's rows before and after,
"the old rows are a prefix, edited only by retiring", which each stage satisfies
and which composes along the stages of a review; and on a lemma that the lowest
active cooldown exists, from the well-foundedness of the naturals.

`SelfModificationProofs` proves, for any modifications, files and diffs
(responses with two blocks for one file included) and any number of crashes and
failed writes:

| Theorem | States |
|---|---|
| `TypeCorrect` | `Spec => []TypeOK` |
| `NoRowIsStuck` | `Spec => []TestingHasOwner` |
| `CodeIsExplained` | `Spec => []CodeOnDiskIsExplained` |

`CodeOnDiskIsExplained` speaks of the moments between sections only, so it is
not inductive. `IInv` says what holds inside them:

* `SectionShape`: which fields of a section go together; in particular a
  section never ends with the verdict `testing`;
* `SnapshotsWhole`: stored rollback data covers every file of the diff and
  holds nothing that is not safe to go back to;
* `SavedSoFar`: a test has saved exactly the files it has written so far, an
  apply has saved all of them; saved contents are safe. The one way for a test
  to save its own code is a diff that names a file twice (`SavedNext`);
* `FilesSafeOrUndone`: a file with unexplained code belongs to the running
  section, which has its original still to restore, or, after a crash, to a row
  in `testing` whose rollback data covers it.

The crash step is where these meet (`CrashTree`): a crash that recovery cannot
see is in `torn`, and any other leaves a stored snapshot of the whole diff.
TLC checked `IInv` as an invariant of the instance before the proof, with two
mishaps and with a repeated file block too.

The module also proves `PatchesAreWhole`: if no diff names a file
twice (`Single`), `Spec => ImplementsPatchedTree`. Without that condition it is
false, as `restoreFiles` then ends with the first block's code. On top of `IInv`
the step simulation needs `RInv`: saved contents and snapshots name each file
once (`SavedOnce`, `SnapshotsDistinct`); the blocks written so far hold the
modification, so that a passed build lands all of them (`Written`); and the
entries restored so far hold what was saved, so that nothing changes when the
section lets go of them (`PutBack`). Restoring a file is a stutter, and so is
writing one that has text: the mapped tree is what the section will put back. A
test that writes a file without text, or an apply that reads one, is a `Drop`.
The step of `Test` is the storing of the snapshot, that of `Land` the passed
build of an apply, that of `Undo` the begin of a rollback or of the recovery of
a row, and each mishap (a crash, a failed read, write or restore) is a `Tear`.

`LLMServiceProofs` proves, for any calls, engines, providers, routes, limits and
lifetimes of the caches:

| Theorem | States |
|---|---|
| `ReservationsHaveOwners` | `Spec => []ReservationsOwned` |
| `LLMServiceTypes` | `Spec => []TypeOK` |
| `EngineBudgetsAreKept` | `Spec => []BudgetKept` |
| `DenialsAreJustified` | `Spec => DenialsJustified` |

The first needs only the types of `pc` and of the reservations: a call that moves
keeps its reservation only into a place where it may have one. The second is
inductive with a lemma per operator on the answer cache (`Without`, `Store`) and
on the chain of providers (`Available`, `FromAskable`).

The budget is a race between three books: the reservations, the rows, and a
usage figure that may be as old as its cache lives. `UInv` says how they agree:

* `Reserving`: a waiting call of a budgeted engine has a reservation unless it
  is missed;
* `RowsOnce`: a call has at most one row, and none before it is done;
* `CacheCounts`: a cached figure is at least what the rows in the window now sum
  up to, missed calls aside, and at most what the window and one life of the
  cache sum up to. A new row is no exception: its call, if it was not missed,
  releases a reservation, which drops the figure. A figure that could not be
  read is not cached, so it harms no call but the one it admits.

`BudgetKept` sums the claims of calls. At the admission of a call the claims of
the others split into those with a reservation (`ReservedCovers`) and those with
a row (`RowsCover`); both sums are bounded by what `Fits` compares with the limit
(`AdmissionFits`). Every other step, the clock and the end of a call included,
lowers each claim or leaves it (`LowerClaims`). `DenialsJustified` uses the upper
half of `CacheCounts`.

`SupervisionProofs` proves, for any numbers of processes, supervisors, faults,
restarts and stops:

| Theorem | States |
|---|---|
| `DaemonsAreFound` | `Spec => []LoneDaemonIsFound` |
| `SupervisionTypes` | `Spec => []TypeOK` |
| `EverySpawnIsCaused` | `Spec => []EverySpawnHasACause` |

The invariant of the first adds `Shape` (types; who is not spawned is `unborn`; a
signal or a due restart waits only in a process that has booted) and `OneAlive` (without an overlap at
most one daemon is alive): every step that writes or unlinks the PID file then
speaks of the one daemon, of nobody, or sets one of the exceptions.

That of the others is a ledger (`Ledger`): what was spawned and the timers that
are set are at most the runs of `brain start`, the calls of `restartDaemon` and
the crashes that nobody listens to any more. Hearing of a crash moves it to the
right-hand side, which pays for the timer set in the same step. This is so because
a crash has at most one listener, the watchdog or one supervisor
(`OneListener`), and only the dead have an exit code (`Codes`).

`MissionsProofs` proves, for any topics, limits and windows:

| Theorem | States |
|---|---|
| `MissionTypes` | `Spec => []TypeOK` |
| `MissionRowsAgree` | `Spec => []RowsAgree` |
| `MissionRunsRecorded` | `Spec => []RunsAreRecorded` |
| `MissionLimit` | `Spec => []LimitKept` |
| `MissionDailyLimit` | `Spec => []DailyLimitKept` |

The inductive invariant is `TypeOK`, `LimitKept` and `Sound(m)` for each mission:

* `Story(m)`: what the rows are while the run is at its place. The phases before
  it are complete, the one it is in is running once `StartPhase` has written so,
  the later ones are pending, and the mission says what the run wrote last, or
  `failed` if it was cancelled. This is why a run that comes back after a cancel
  finds rows that it can go on with;
* `Agree`: the statement of `RowsAgree`, which is all that is left of the story
  when a crash or an error cuts it off after any statement;
* an active mission has a run or is stranded.

One lemma per statement shows that it tells the next piece of the story. The limit
needs that only a cancelled mission becomes active again, and a lemma on the
cardinality of the active ones per step.

For the daily limit `DInv` adds that no mission is of the future, that a log entry
carries the date of its mission, and that the mission being launched is of now.
The missions of a window that are not unlogged are then images of entries of the
log in that window; at the launch of a new one there are fewer than the limit. An
error or a crash between `createMission` and the log makes the mission an unlogged
one and costs a mishap.

`TradingBrainProofs` proves:

| Theorem | States |
|---|---|
| `BridgeTypes` | `BridgeSpec => []BridgeTypeOK` |
| `HandlersAreCalledOnce` | `BridgeSpec => []AtMostOnce` |
| `BrainIsABridge` | `Spec => BridgeSpec` |
| `TradesAreExecutedOnce` | `Spec => []AtMostOnce` |
| `TradingBrainTypes` | `Spec => []TypeOK` |
| `PositionsAreBounded` | `Spec => []PositionsInBounds` |
| `BooksAreBalanced` | `Spec => []BooksBalance` |

The first two hold of the bridge alone, with handlers that do anything. Its
invariant: an action that is still `pending` was never invoked (`Marked`); it is
inductive because nothing writes `pending` back. The third is a step
simulation, and the fourth follows from the two by temporal logic. The bound on
positions needs that a cycle at `opened` has just found room, and that the
entries it still has are of symbols that are not held, also after a reset under
a waiting cycle.

`BooksBalance` speaks of the moments between cycles. Within one the books are off
by what the remaining statements of a closing or an opening will write (`Owed`);
a mishap there turns that amount, at most `Largest`, into a loss for good. `Books`
says so, and it rests on two facts about the rows: what a cycle sells is held
once until the cycle deletes it (`ExitsAreHeld`), or a position could be paid out
twice, and the id of a new position is new (`IdsAreSpent`), or it would replace
one that is held in the sum.

`BorgSyncProofs` proves, for any brains, items, overlapping cycles and mishaps:

| Theorem | States |
|---|---|
| `BorgTypes` | `Spec => []TypeOK` |
| `NobodyHearsItself` | `Spec => []NoEcho` |
| `SharingIsOptional` | `Spec => []OnlyExposedIsShared` |
| `OneTimer` | `Spec => []OneIntervalWhenEnabled` |
| `PushesAreTurnedAway` | `Spec => DisabledTakesNoPush` |

The invariant has a half about timers (a handle implies a ticking interval; of a
brain nobody meddled with, handle and flag agree) and one about what is on the
wire (`ShareInv`: whatever an enabled brain has and its filter lets out is
exposed). Lost and found peers touch neither.

The assumptions are those named in the modules: natural periods, limits and
bounds, engines and providers that are registered, diffs that name files and are
not empty, contents that differ from each other, phases whose names differ from
each other and from those of the other states of a mission, an answer cache of at least one
entry, finitely many calls and supervisors, and finitely many sizes and gains of
which there is at least one (the largest amount of `BooksBalance` is a maximum).

Sums and counts need induction, and the induction theorems of the library have a
predicate as a parameter, which the provers here cannot instantiate. `Sums` takes
the set of counterexamples instead: a set of naturals has a least element
(`Least`), and a set of subsets of a finite set has a minimal one (`Minimal`,
`SubsetInduction`), both from well-foundedness. From these follow what the proofs
use of `SumFunctionOnSet`: the sum over nothing, with an element more or less
(`SumInsert`, `SumRemove`), over smaller terms (`SumBelow`), in two parts
(`SumParts`) and over an image (`SumImage`). The list that `Available` builds is
treated the same way, by the least place where it would go wrong.

Every invariant and every action property of a passing run is thus a theorem.
Model-checked only are the liveness properties: `TestEnds`,
`SignalledDaemonsExit`, `ViewForgetsTheDead`, `ViewFindsTheLiving`, `MissionsEnd`,
`SureActionsAreExecuted` and `KnowledgeSpreads`. They rest on fairness, hence on
`ENABLED`, which the prover does not treat. `ImplementsPatchedTree` is checked on
an instance whose diffs satisfy the theorem's condition.

## Findings

1. Isolation does not need a manual restore (`governance_isolation`), against
   `governance-layer.ts:125`. An expired cooldown of the same engine makes the
   next review restore it altogether.
2. Recovery does not undo a test that crashed while writing
   (`self_modification_crash`), against `self-modification-engine.ts:204`.
   Rollback data is stored after the last write, not before the first.
3. Rolling back a modification that was tested again after it was applied
   restores its own code (`self_modification_rollback`), against
   `self-modification-engine.ts:695` and its unit test. `testModification`
   accepts any status and overwrites the snapshot.
4. `maxCallsPerHour` is not a maximum under concurrency (`llm_rate`), against
   `llm-service.ts:23`. The check and the count are on different sides of an
   `await`.
5. `restartDaemon` stops a daemon (`supervision_restart`), against
   `watchdog-service.ts:191`. It launches in the tick of its SIGTERM, finds the
   old process alive in the PID file, adopts it, and nobody starts another when
   it has exited with code 0.

Comments that disagree with the code without a run of their own: `brain.ts:879`
calls Borg sync "opt-in, default: disabled", line 913 constructs it enabled;
`README.md:187` and `brain/README.md:250` promise a watchdog that restarts
daemons, but the command `start` ends after its launch (`SupLeaves`) and the
daemons run the `WatchdogService` in monitoring mode, which restarts only
children it launched itself; `self-modification-engine.ts:899` says "File didn't
exist before — remove it" of an entry that may also be that of a file that was
empty or could not be read (`Read`, `Drop`).

## Not modelled

* How engines reach their judgements: detectors, grades, scores, prompts,
  embeddings. The models let them say anything.
* Runtime changes of limits (`ParameterRegistry`, the research loop's
  `updateConfig`): limits are constants. Only the filters and the flag of the Borg
  sync, which its `updateConfig` sets, are variables.
* Two processes on one database: each daemon has its own.
* The git backup branch and commit of `applyModification`: no code path reads
  them back.
* Two file blocks for one path in a response: the module allows it and
  `CodeOnDiskIsExplained` excuses it, the instance has none.
* Consensus: every vote is written under the engine's own brain name and nothing
  reads a resolution. With one voter, counting and majorities have no behaviour.
* IPC subscriptions and notifications: fire and forget; no state depends on
  their arrival. Message framing: one client per request.
* Auto-experiments, evolution and the parameter registry: an experiment restores
  a whole snapshot when it ends (`auto-experiment-engine.ts`), which can undo
  what another writer set meanwhile. A real ordering question, left to the plan.
* Guardrails, checkpoints: synchronous statements on values computed elsewhere.
* `WatchdogService.start`, `stop`: the program only calls `startMonitoring`.
* Outcome callbacks of the bridge, the handlers `create_goal`, `start_mission`
  of the other brains: they write rows of engines that are not modelled.
* Most of the 127,000 lines of the repository: some seventy engines that compute
  scores, prompts, texts and statistics from SQLite rows, three dashboards, the
  MCP tools, migrations, and adapters to external services. Nearly all are
  sequences of synchronous statements over data; a model would repeat the
  arithmetic and have little interleaving, failure or ordering to check. The lines mapped are a
  small share for that reason.

## Plan

1. Overlapping Borg cycles (two slots) in a second instance: proved for the
   safety properties, so far unchecked for `KnowledgeSpreads`.
2. Guardrails with step 40: the circuit breaker that gates self-modification,
   composed with `SelfModification`.
3. The parameter table and its writers: an auto-experiment from start to restore
   beside `EvolutionEngine.activate` and the guardrails, with a crash between
   setting the treatment value and recording the experiment.
