# TLA+ models of the ARC Lucifer cleanroom runtime

The runtime in `src/` is a local, event-sourced agent shell. An operator's request becomes a
*proposal*, a policy decides about it, a tool runs it, and a receipt in an append-only log says how
it ended. Around that core lie an autonomous loop, a ladder of models with failover, streaming
sessions, a voice bridge, a perception loop, self-improvement runs that patch and replace the
workspace, a memory that ages its records into archive packs, and a dozen small ledgers that every
command reads and rewrites. This directory models those parts in TLA+, checks them with TLC, and
proves every safety property the runs check with TLAPS, for all values of the constants.

Contents: [inventory](#1-inventory) · [models](#2-models) · [runs](#3-runs) ·
[proofs](#4-proofs) · [findings and deviations](#5-findings-and-known-deviations) ·
[limits](#6-what-is-not-modelled) · [plan](#7-plan)

To check a module by hand: `tlc -workers 2 -config MCRuntimeSolo.cfg MCLuciferRuntime`; to check its
proofs: `tlapm LuciferRuntimeProofs.tla`. `PROJECT.json` says which lines of the source each definition stands
for, which mutation of which definition breaks each property, and at which line each hazard bites.

## 1. Inventory

Paths are relative to `src/src/`.

### Components that are modelled, in whole or in part

| Component | State | Operations | Talks to |
|---|---|---|---|
| Kernel (`arc_kernel`: `event_log`, `state`, `policy`, `budgets`, `engine`) | an SQLite table of events, and in each process the list of events it read when it opened the file | append, find_latest, slice, projection to pending/completed/denied, evaluate, assess | every other part appends to it |
| Proposal path (`lucifer_runtime`: `runtime`, `tools`, `router`) | the workspace files; the locals of a call | handle, approve, reject, rollback | kernel, tools (files, allowlisted shell) |
| Streaming sessions (`cognition_services/stream_session`) | a generator's frame, two queues, a stop and a pause event, the receipt, the manager's table | stream, inject, interrupt, redirect, pause, resume, begin, close | cognition core below, operator threads and a consumer above |
| Cognition core, fallback consciousness (`cognition_services`) | the ladder of tiers with health and error counts, the active tier under a lock, the degradation episode, two facts of the world model | generate, stream, add_tier, remove_tier, a recovery thread, the tier-change callback | model backends; FixNet, curriculum, trust and goals learn from a fall |
| Prompt path and model servers (`runtime_model`, `resilience`, `model_services`) | rows of a proposal, one retry budget for the life of the runtime, the handle of one managed server | prompt_model, choose a fallback; ensure_running, stop, stream through it | kernel, router, an external server process |
| Autonomous loop (`agi_loop`, `persistent_loop`, `goal_engine`, `goal_synthesizer`, `reflection_service`, `drift_detector`) | the goal list, rolling windows of scores, the drift flag and its streak, the frozen flag, a thread and its stop event, the world model the rules read | tick (synthesize, reflect, check, act, evaluate drift), start, stop, freeze, thaw, add_goal | handle() of the runtime; the critic's scores |
| Self-improvement (`self_improve`: `sandbox`, `executor`, `promotion`, `adversarial`, `candidates`), safety baseline | per run: a worktree, a manifest, `validation.json`; the workspace; the baseline's protected paths | scaffold, apply_patch, validate_run, review_run, promote_run, execute_cycle, inject_fault, generate, score and execute candidates | the workspace, the ledgers, FixNet |
| Memory tiers (`memory_subsystem`: `manager`, `retention`, `records`, `archive`) | memory updates in the log; `.arcpack` files | consolidate, archive_now_but_keep_live, sync_live_mirrors | kernel log |
| Voice bridge (`perception_adapters/personaplex_adapter`) | one connection, a stop event, a connected flag, three bounded queues | connect, disconnect, reader and writer threads; perceive, stream, perform of three adapters | an external server; perception, cognition core, voice output |
| Perception loop and fusion (`perception_adapters`) | slots by name, error counts, a thread, the window of recent alerts | register, unregister, enable, disable, start, stop, tick_once, process | sensors, world model, an alert callback |
| Ledgers (`directives`, `trust`, `curriculum`, `continuity_shell`, model profiles) | one JSON file each | register, supersede, complete; outcome; record; boot, heartbeat; activate | every command that runs, judges or promotes |
| FixNet (`fixnet`) | fixes, edges, consensus, an index of embedded packs: four files | register, embed, sync, retire, link, record_outcome | the verdict commands register fixes |
| Code editing, run and workspace commands (`code_editing`, `runtime_code`) | code files; undo records | replace a range or a symbol; each command on a run | kernel, ledgers, FixNet |
| Curriculum trainer (`curriculum_trainer`) | its cooldown | should_train, export, train | curriculum memory, in the loop's process |

What makes each of them correct, and what makes that hard:

* **Kernel and proposal path.** Nothing runs without an approval in the durable log, and nothing
  destructive without the operator's; nothing runs twice; the log is neither ahead of nor behind what happened
  more than a crash explains; budgets hold; a receipt can undo its run. *Hard:* the log is loaded once
  per process and never refreshed, so two processes decide from stale views; the tool's effect, its
  EXECUTION event and its RECEIPT are three separate steps; `append` puts the event into memory before
  the INSERT that may fail.
* **Streaming sessions.** Control is prompt, no chunk disappears unexplained, the receipt tells the
  truth, every session ends. *Hard:* the generator looks at the pause, the stop, the redirect and the
  injection one after the other while operator threads change all of them, and runs only while its
  consumer iterates.
* **Cognition core.** The world model names the tier that answers; a dead tier is left alone, a live
  one is not lost; every call ends. *Hard:* a call works on a copy of the ladder and on the tier that was active when
  it began, health and error counts are unlocked, tiers are replaced under calls in flight, and
  the recovery thread, whose lock the counting callers do not take, revives a tier it has tested before and without forgiving its errors.
* **Prompt path and servers.** Servers do not pile up; every prompt ends and is on record; what the
  operator interrupts is not done by other means. *Hard:* the server is remembered only when it is ready, cleared some time
  after it was stopped, and shared without a lock; budgets are spent once or twice per failure and never refilled.
* **Autonomous loop.** Nothing is acted on in drift; a freeze is prompt and lasts until it is lifted;
  drift ends only after a quiet streak; goals get done. *Hard:* three writers of one flag, callbacks in
  the middle of a tick, checks made stages before the act, exceptions that skip the rest of a tick.
* **Self-improvement.** Only vetted and passing work reaches the workspace, and what a promotion that
  died has destroyed can be had again. *Hard:* the verdict is a file that outlives the tree it judged,
  directories are removed before they are copied, processes die between a file and the manifest that
  records it, and runs build on one another.
* **Memory tiers.** Retired records are sealed before they are retired and stay retired; mirrored ones
  stay live until their date; old ones are retired in the end. *Hard:* a periodic job and an operator's
  command each decide from the log they loaded, die between pack and update, and meet at instants
  where days and seconds round differently.
* **Voice bridge.** One connection at a time, an answer made of what was said after the question,
  calls and threads that end. *Hard:* all threads share one event and one flag, `connect()` clears the event
  the last thread was to see, and two adapters take from one queue.
* **Perception loop.** No alert is lost by deduplication, the breaker trips for the sensor that fails,
  enabled sensors are polled. *Hard:* a tick holds slot objects while their names are registered again or switched.
* **Ledgers, FixNet, code editing.** An update once written survives, an event is backed by the files, no reference dangles,
  an undo record undoes. *Hard:* every update is load, truncate, write without a lock, commands are chains of such updates over several
  files, and may overlap or die anywhere; a range's undo is computed from text that is split and joined again.

### Components that are not modelled

| Component | Why not |
|---|---|
| Analyzer, planner, benchmarks and training export of `self_improve` | one-shot reports; nothing they leave is read by another step but the task list of the plan |
| Critic, episodic retrieval | scores computed from the log; the loop takes the critic's score as an input |
| Shadow, planner, evaluator, world model, branch planner, verifier | functions of their arguments and a dictionary of facts; no control to check |
| Sensor adapters, model interfaces | calls of optional libraries, one packet at a time; interfaces and a stub |
| Bluetooth, robotics, spatial truth, geo overlay | stateless checks, mocks and coordinate arithmetic |
| CLI, configuration, dashboards | parsing and rendering; each command is one call of an operation above, in its own process |
| `build/`, `dist/`, scripts, examples, tests, docs | stale copies; the tests and docs were read for what they promise |

## 2. Models

```
ArcKernel --extends-- LuciferRuntime --implements-- ProposalLifecycle
                          +-- LuciferRuntimeProofs (also of the refinement)
GoalEngine, DriftDetector -- AGILoop -- AGILoopProofs
                                +-- MCAGILoop -- SynthesisRules
FallbackConsciousness -- CognitionCore, StreamSession -- CognitionProofs
LlamafileProcess -- PromptPath -- PromptPathProofs
SelfImprove -- SelfImproveProofs        MCSelfImprove -- ImmutableBaseline
MemoryRetention -- MemoryRetentionProofs
PerceptionLoop, PersonaPlex -- PerceptionProofs
Ledgers, FixNet, CodeEditing, CurriculumTrainer, RunManifest (-- ImmutableBaseline) -- Workspace
                                                          +-- WorkspaceProofs
```

Each `MCx.tla` gives one of them its small instances.

**ArcKernel** has no state. Its operators take a log, the list `EventLog._events`, and return what the
kernel derives from it: `FindLatest`, the projections `Completed`, `PendingConfirmations` and
`DeniedProposals`, the budgets and `Evaluate`. Only the event kinds the kernel reads back are kept.

**LuciferRuntime** has the durable table (`disk`), each process's list (`mem`), where each process is
in its call (`pc`, `call`), the workspace (`files`) and histories. One action per step between two
appends: `Handle` (the PROPOSAL event), `Decide`, `Confirm`, `Approve`, `Reject`, `Execute` (the tool),
`LogExecution`, `LogReceipt`, `Rollback`. `Record` is `EventLog.append`: memory first, then the
database, which may raise and leave the process with an event no one else will see. `Open` loads the file,
`Crash` takes a process at any step of a call, `ToolRaises` is an exception of a tool, and
`OtherAppendRaises` an exception of one of the events that are otherwise left out.

**ProposalLifecycle** is the promise about one proposal: decided before it runs, run at most once and only while approved,
completed only after it ran, never approved again once denied. `LuciferRuntime!ImplementsLifecycle` is
the refinement, with the status computed by the projector from the durable log. It says what a single
process guarantees; two processes do not (each may run what it saw pending).

**StreamSession** is one session. `gen` is the generator's frame, a stage for each place where another
thread's step can matter; `ops` is what the operators have put and the manager's table. A text is its
number in its queue. A pull that ends the stream, a failure of every tier (`Raise`), a consumer that drops the
generator (`AbandonStream`) and a session displaced by another `begin` are actions. Its specification is `StreamSpec`, so that a
module can extend it together with the core it streams from.

**CognitionCore** has the tier objects in order of registration (`tiers`) and the object each name stands for
(`slot`), so that a call may hold an object that was replaced. A caller copies the ladder (`Start`), enters
the foremost healthy tier (`Enter`: the skipping of unhealthy ones is one step), and succeeds, fails
(`Fail`, and in a second step `Disable`) or runs out. A stream that enters another tier switches to it before it calls it, under
the lock (`Announce`); `generate()` when it has its answer (`Conclude`), against the tier it read at its start.
A pass of the recovery thread (`Probe`) holds the lock from its first step to its last, one step for each access of a tier: the test of availability and
count (`Look`), the tentative revival (`Revive`), the health check and the switch (`CheckHealth`), the withdrawal (`DisableAgain`).
The lock keeps out registrations, the starts of calls and switches, not the callers that count, disable and revive: a tier that they give up
between `Look` and `Revive` comes back (a build of CPython with the global lock switches no thread there, as no call is between the two; one without it may, and around the health check any may).
So a tier that never answers may be charged up to two failures per caller past the limit, less one, and no more (`DeadTierLeftAlone`). **FallbackConsciousness** is the callback of a switch: the two
facts, the episode, and the lesson of a fall. The echo tier has no health check and never fails, so that
the reply of last resort behind it (`cognition_core.py`, after the loop over the tiers) cannot be reached and is left out.

**LlamafileProcess** is the managed server: a caller reuses a warm one or starts one and waits for whoever
answers on the port (`Ready`), then streams; the `finally` clause stops it unless it is to be kept
(`Terminate`, then `Forget`). A start that times out or is interrupted leaves its server behind. **PromptPath**
is `prompt_model` over it: the rows of one proposal, the classification of the outcome into options, the
budget that is spent once or twice, and the fallback to the router (whose own proposal is another's), to the
echo or to the partial receipt. A prompt has low risk, and the policy never denies one.

**GoalEngine** and **DriftDetector** are operators on the goal list (kept sorted by the code, equals in order of
arrival) and on the detector's record. **AGILoop** is the loop: `BeginTick` (synthesis), `Reflect`,
`CheckFrozen`, `Act` or `ActRaises`, `DriftTick`, and the operator's `Start`, `Stop`, `Freeze`, `ThawCheck`
and `Thaw` (two steps: it reads the detector, then clears the flag), `TickOnce`, `AddOperatorGoal`. What
`handle()` answers depends on the goal's kind and is otherwise nondeterministic. `Act` is one step:
goals the operator adds while `handle()` runs are seen after it. `FileBacked` chooses between a kernel
whose log is in memory and one with a database, whose connection belongs to the thread that opened it.
**SynthesisRules** has the eleven default rules: condition on a snapshot of the world model and the one
before, whether it completes its own goal, and what ends it. The loop's instance takes its rules
from there; which of them are ready and fire is free in the loop.

**SelfImprove** takes the content of a tree to be the set of changes made to it. Each call is a process of its
own; calls on different runs interleave, two calls on one run do not. `RemoveDst`/`CopyDst` are the
`rmtree` and `copytree` of each promoted directory. `Broken`, `Protected` and `Failing` say which changes the
patch verification, the baseline and the commands object to; what is protected comes from
**ImmutableBaseline**, the table of frozen, guarded and supervised paths and the answer of `check`. The history variables `unvetted` and
`untested` collect the named ways around the court: faults, patches whose process died before
the manifest had them, trees promoted by force, and changes made after the verdict.

**MemoryRetention** has two processes, the periodic job and an operator's command. `Consolidate` loads the log and
decides; `SyncRecord`, `SyncsDone`, `Seal`, `Retire` and `Consolidated` are its later steps, each taken
from what it loaded. `ArchiveNow`/`Mirror` and `SyncLiveMirrors` are the operator's commands. Time is in
ticks, a day is `Day` of them, ages are floored to days while cut-offs are instants, as in the code.
Assumed: consolidations do not overlap one another, and the file of a mirror or sync pack has a name of its own
(record and second).

**PersonaPlex** has one record of reader and writer per `connect()`, the two shared flags, the text queue with a mark on what
is older than the question, and counters for audio and for what waits to be sent. A connection is refused, breaks, or is
ended; its socket is open exactly while its reader talks; the reader's own wait for its writer may time out and is part of `Close`.
`connect()` is called by one who sees no connection. The three roles may run at once.

**PerceptionLoop** numbers the slot objects and maps names to them, for the same reason as the tiers. A
tick is `Collect`, one `PollSucceeds` or `PollFails` per due object in any order, `Fuse`,
`WriteWorldModel`, one `HandleAlert` per new alert, `EndTick`. `Stop` waits, and may give up on a thread in a long poll or callback.
`tick_once` is for programs without the thread; one caller starts, stops and ticks.

**Workspace** is the command line: processes that each run a command, a list of steps over the files of one workspace. An
update loads a file, opens it for writing (which empties it) and writes it; a read loads; an event goes to the log. A file left
empty by a crash, or written by two who overlapped, cannot be parsed and ends every command that loads it. What an
update does to the content is in **Ledgers**, **FixNet**, **CodeEditing**, **RunManifest** and
**CurriculumTrainer**, pure operators named after the functions they translate. The commands compose them as `runtime.py` and `runtime_code.py` do:
a validation that fails records its event, a tool outcome, a lesson, and registers, embeds and syncs a fix; a promotion
asks the court and goes one way or the other. The loop's trainer (`Evaluate`, `Train`) reads the curriculum file from its own process.

## 3. Runs

Every property of a passing run is broken by a mutation of a mapped definition, listed in `PROJECT.json`.

| Run | Config | What is asked |
|---|---|---|
| `runtime_solo` | `MCRuntimeSolo` | One process, all intents, one fault. Shell budget for the life of the file up to one command per fault, and no high-risk proposal made after the budget is used up ever runs; undo entries carry the file as it was, and without faults and rollbacks the log alone reproduces the workspace; an approved proposal is receipted unless a fault intervenes; refinement of ProposalLifecycle. |
| `runtime_shared` | `MCRuntimeShared` | Two processes with stale views: authorisation, at most one run per process, an audit trail that never overstates and views that are subsequences of the file. |
| `stream_session` | `MCStreamSession` | At most one chunk after `interrupt()` or `pause()`; chunks are accounted for and receipts are honest; sessions end. |
| `agi_loop` | `MCAGILoop` | The goal list stays well formed and bounded; no act in drift and a prompt freeze; drift lifted only after the quiet streak, a completion drift never; an unfrozen loop completes goals. |
| `self_improve` | `MCSelfImprove` | What the court would deny, or what fails, reaches the workspace only by the named exceptions; `execute_cycle` promotes only what passed as it stands; a directory a dead promotion removed is whole in some run. |
| `memory_retention` | `MCMemoryRetention` | A live mirror has a pack and its status names it, and retired records were sealed; retirement is final and mirrors stay live until their date; what is old is retired in the end. |
| `cognition_core` | `MCCognitionCore` | The last switch's fact is the one in the world model; a dead tier is left alone; calls end; a primary that stays up returns while calls keep coming. |
| `prompt_path` | `MCPromptPath` | One server at a time and none longer than wanted, but for abandoned starts and callers that met; every returned prompt is on record, an interrupted one is not carried out otherwise; every prompt ends, with the budgets used up too. |
| `voice_bridge` | `MCPersonaPlex` | While no wait timed out connections do not overlap and the flag is up; an answer has no chunk from before its question; `disconnect()` ends every thread; streams, reports and speech end. |
| `perception` | `MCPerceptionLoop` | What deduplication holds back was told; the breaker counts the failures in a row of the object it disables; a start after a stop runs the loop; every enabled and due sensor is polled. |
| `workspace` | `MCWorkspace` | What a command wrote survives later ones unless updates overlapped or one crashed; events are backed by files; references are whole, across crashes too; undo records undo, symbols are patched where they are. |
| `never_trains` | `MCNeverTrains` | A counterexample, section 5. |

### Bounds

* *Runtime:* two proposals, one file, budgets of one, one fault and one rejection. Two proposals are the
  least that compete for a budget or for the latest event of a file; a budget of one is reached by the
  first of them. The solo run is exhaustive; the shared run extends states with fewer than 8 rows
  (`ShortLog`), enough for both proposals to be proposed and decided and one of them run, in either process, and
  checks safety only. Its two kinds of symmetry permute ids the properties quantify over.
* *Stream:* generations of three chunks (first, middle, last), one injection, two redirects (one queued
  behind another), one pause; any number of interrupts.
* *Cognition core:* a primary with a health check and echo; a tier is disabled at one error and given up at
  two (3 and 10 in the code; what matters is that they differ); counts saturate one past what `DeadTierLeftAlone` allows
  (`MaxErrors`), which is the least bound that holds here; two registrations, so the primary may be replaced under a call or a pass, or removed
  (`MinRegistered` 0); lessons are not counted (`MaxLessons` 0), for they change no decision. One caller streams and one generates, any number of
  times. With the steps of a pass as fine as they are, a secondary tier is beyond a run with liveness; the safety of this one with a secondary
  tier (`Spec`, `TierNames = {1, 2, 3}`, `MinRegistered = 1`) was run by hand over 10,878,026 states without an error, and the theorems of section 4 are for any ladder.
* *Prompt path:* four prompts of two callers against budgets of one, so that router, echo and smaller-model budgets are
  used up and the last prompt finds none.
* *Voice bridge:* two connections, three text and one audio frames, queues of two and one: both overflow.
* *Loop:* windows of two entries, two goals, two rules (one whose trigger can end, one without `auto_complete`),
  scores on either side of the floor, reflection every second tick. Minimum counts of the detector (5 in the code)
  are scaled to the window.
* *Self-improvement:* two runs, two directories, changes of each kind of objection, four calls besides
  scaffolding and editing the commands: a run patched, validated and promoted leaves one call for the other.
* *Memory:* two records, days of two ticks, six instants, thresholds of a day, one crash.
  The four kinds of record (plain, pinned, recently accessed, with a retirement date of its own) are
  spread over the two.
* *Perception:* two names and two slot objects (one name twice, or each once), one alert besides the two of failing sensors,
  a breaker at two failures, a window of one cycle. Counts of failures saturate at the breaker's limit.
* *Workspace:* two commands in two processes with one crash, on a workspace that a session has used before. Two action constraints keep the
  product small. `OverlapsContend`: a second command begins while another runs only if the files the two touch meet; steps on different files commute,
  and every interleaving of such commands is equivalent to one where they follow one another, for properties that relate files only to the log.
  `LongMeetsShort`: of two commands that overlap one has at most seven steps; two validations that overlap meet in the
  same updates as a validation and each of its parts. A run's patch may fit, fail its verification, or not fit, on a free or on a protected path;
  a profile is registered under a new name.

`CHECK_DEADLOCK FALSE` is given where the bounded inputs run out or a session is over: those systems may stop.

### Fairness

* `LuciferRuntime`: WF of a call's next step. Nothing between two appends waits; a process that stops
  there has crashed, which is a fault of its own. The operator's calls are not fair.
* `StreamSession`: WF of the generator and of the consumer's iteration. Nobody is obliged to resume a
  paused session, and the property excepts it.
* `CognitionCore`: WF of a call's next step (backends have timeouts) and of the recovery thread, a daemon on a timer; SF of a call's step that takes
  the lock (`WaitForLock`), since the lock is free again and again without staying so: between two passes the thread sleeps 60 seconds, in which a
  waiting caller gets it. A consumer need not iterate a stream it began, and a backend may send chunks for ever without `EveryCallEnds` being met by fairness of
  `Chunk`: it is `LastEvent`, `RunOut` or `Fail` that is always enabled and so taken.
* `PromptPath`: WF of each caller's next step: the wait for a server and the stream through it are timed.
* `AGILoop`: WF of the running thread's steps; the operator owes nothing. `CurrentGoalsComplete` asks for
  progress only while the loop's thread runs unfrozen on a goal that `handle()` approves.
* `MemoryRetention`: WF of time and of the job. The repository's `docs/memory_retention.md` has the
  manager run periodically; the operator's commands are not fair and cannot put retirement off for ever.
* `PersonaPlex`: WF of waits (they time out), of the end of a handshake, of a reader and a writer that see the stop event (both poll
  it), of the loops of the roles. The server owes nothing; `Breaks`, `Write` and the operator are not fair.
* `PerceptionLoop`: WF of the thread's ticks and of `StopReturns`: sensors and callbacks return. Callers owe nothing.
* `Workspace` (only for `never_trains`): WF of the steps of a process that runs and of the trainer, which every tick of the loop calls.

## 4. Proofs

All theorems are about `Spec`, for every value of the constants allowed by the modules' assumptions, with the bounds
(`MaxFaults`, `MaxCalls`, ...) as arbitrary numbers.

| Module | Theorems | Argument |
|---|---|---|
| `LuciferRuntimeProofs` | `TypeCorrect`, `PolicyNeverApprovesHighRisk`, `FindLatestAppend`, `RunsAuthorised` | The query lemmas: the latest event of a kind after an append is the appended one or the old one. `AuthInv`: a process about to run its tool, and every run there was, has its approval on disk (`ReadyIsCleared`, `RunsAreCleared`). The property alone is not inductive: it says nothing of the process that has approved and not yet run. Such a process has left `Record` by its success branch, so the approval is in the table, and rows are only appended (`ApprovalsPersist`). |
| | `RunsOnce` | `OnceInv`: a process logs only for ids that were issued (`LogsAreOfIssued`), its own log decides each id once (`DecidedOnce`), asks before it is answered (`LogsAskFirst`), and remembers what it ran (`RunsAreRemembered`); so what it ran is no longer pending to it, whatever the other processes do. |
| | `LogHonest` | `AccountsBalance` (runs, executions and receipts of a proposal differ by the processes that are between the two) and `ViewsFollowLog`. That a process's list is a subsequence of the table is carried by an explicit matching of positions, which an append or a failed append extends. |
| | `ShellWithinBudget`, `BudgetsKept` | `RequestInv` ties an id to one request. `ShellAccounts`: but for at most one run per fault, every shell command run is in the file's count and in its process's, or about to be logged. `EarlyInv`: for one process, whose list has all the file has, what is asked about or run of high risk was proposed before the budget was used up. |
| | `RuntimeImplementsLifecycle`, `ReceiptsTell` | `LifeInv` gives the status of a proposal at each place of a call, so that every action maps to one action of `ProposalLifecycle` or a stutter; `FilesInv` says what the locals of a call know of the files before the receipt tells it. |
| `CognitionProofs` | `TypeCorrect`, `TiersTracked` | Of CognitionCore. `FramesInv`: what a call holds is the number of a tier that was registered, also one replaced since. `TiersLeftAlone`: but for an allowance of one failure per caller, the failures of an available tier past the limit belong to callers about to disable it; those still to come to an unavailable one belong to calls in flight. Steps that move a caller between the two sets leave the sums alone. The allowance is what a pass between `Look` and `Revive` may still spend: while it is there the tier has none (`Allowance`), for the count was below the limit at `Look` and no caller has failed twice on a tier that is unavailable; `Revive` returns it. |
| | `StreamTypeCorrect`, `StopPrompt`, `PausePrompt`, `ControlPrompt`, `ReceiptHonest`, `ChunksAccounted`, `ReceiptsExact` | Of StreamSession. Three strengthenings of the type invariant by stage: what may have been yielded before the next check (`PromptInv`), how the last generation ended at each stage (`HonestInv`), and the balance of chunks with the one in hand (`AccountInv`). |
| `PromptPathProofs` | `TypeCorrect`, `ServersKept`, `PromptsSettled` | `PathInv`: a frame of the manager exists only while its prompt is generated (`FramesFollowPrompts`); while no start was given up and no two callers met there is one frame, and no server lives behind the handle from the moment it found none to the moment it has its own (`LoneFrame`); every prompt asked pays for one server (`StartsArePaid`). |
| `AGILoopProofs` | `PromptFreeze`, `NoActInDrift`, `OnlyAllowedActs`, `ClearsOnlyAfterQuiet`, `DriftOfCompletionsStays`, `DriftSteady` | `LoopInv`: at the `act` stage the detector is clear (only `DriftTick` sets it, a later stage of the same tick) and no act has been counted against a freeze; one that was counted means the loop is frozen, so the next check stops it; while in drift the detector's streak is the number of quiet evaluations. |
| | `StateWellFormed` | `WellFormed` is inductive. Insertion into a sorted list keeps it sorted, removal too (`AddGoalKeeps`, `CompleteGoalsKeeps`); the sum of the active goals grows by at most the rules that fired (`SumGrows`), which the cap bounds. |
| | `OnlySirensEndWhatTheyFire` | Of `SynthesisRules`: case analysis of the rules with an `auto_complete`, whose conditions exclude their endings, but for the alarm rule on a siren. |
| `SelfImproveProofs` | `TypeCorrect`, `WorkspaceVetted`, `WorkspacePasses`, `CyclePasses`, `PromotedPass`, `LostIsKept` | Two invariants. `Sound` is about each run's call by stage (what the court objects to in a tree is recorded in its manifest, in hand, or excused; after a passed verdict what fails is newer than it; what is being copied is excused altogether). The safety of every tree, of runs as of the workspace, is carried along, since a run is scaffolded from what others promoted. Only one run moves in a step (`OneRunMoves`), and the exceptions only grow. For what a dead promotion destroys: as soon as there is a run, every directory is whole in some worktree (`SomeRunKeeps`), since the first was copied from a workspace nothing had promoted to. |
| `MemoryRetentionProofs` | `TypeCorrect`, `LiveMirrorArchived`, `RetiredSealed`, `ArchivedFirst`, `RetiredFinal`, `MirrorsLive`, `RetirementOrderly` | `Inv` adds `Calls` to the type invariant and the two properties: what a process loaded is still true when it acts on it. What the job is to retire was sealed, is not pinned and has reached the date it was promised; a record the operator saw with a retirement pack is still retired. |
| `PerceptionProofs` | `TypeCorrect`, `AlertsKept`, `BreakerExact`, `StartRuns` | Of PerceptionLoop, each local to the tick or to one slot object: what deduplication has in its window was told or is about to be told in this tick; a name that leads to another object no longer leads to the one polled. |
| | `OneSession`, `FreshAnswers` | Of PersonaPlex (its names carry the prefix `Voice`, so that one module can extend both): sessions are numbered, the flag is that of the last one while no wait timed out, and what the flush left in the queue is newer than the question. |
| `WorkspaceProofs` | `WorkspaceIsSound`, `WritesSurvive`, `EventsBacked`, `ReferencesKept` | `WorkInv`. What is left of each command is well composed: a step that records or refers to an item comes after the step that puts it there, unless it is there already (`Supplied`), a step that is told something follows its teller (`Chained`), and what commands are to bring is new and brought once (`NewItems`). A loaded copy that no other process has made old is the file (`CopyIsGood`), so that an update adds one item to it (`Counted`) and takes none away (`Grown`). One lemma for each kind of command shows it well composed, one for each file what its updates do. Boots between their two files hold numbers of their own (`BootsAreNumbered`). |
| | `PatchesExact` | `CodeInv`, on top of it: what a patch was computed from is the file as it was, or nothing; its range is that of the symbol in what it was computed from. That the undo record restores it (`UndoRestores`) rests on what cutting and joining sequences yields (`ThreeParts`, `PartsAreCut`, `PartsAreJoined`). |

**What the proofs assume.** The constants' named assumptions, which are the code's: callers are finitely many, the ladder is not empty, there is a rule
(`GoalSynthesizer.__init__` always loads the default ones), line numbers count from 1 (`WorkspaceConstants`; the patch engine does not check it).
The processes of a workspace may be any set, and the code file any sequence of lines. The three properties of the log as *one process's* record
(`BudgetsHold`, `ImplementsLifecycle`, `ReceiptsTellFiles`) have `Procs = {p}` as a hypothesis: two processes break them (section 5), which is why
the shared run does not check them. To be provable the operators that walk over data (`Matched` of the kernel, `CompleteGoals`, `ActiveGoals` and `AddSynthesized` of
the loop) are recursive functions on the naturals; that such a function exists is itself proved where it is used (`Iterates`).

**Only model-checked.** Liveness (`ApprovedIsReceipted`, `SessionEnds`, `CurrentGoalsComplete`,
`OldAreRetired`, `EveryCallEnds`, `PrimaryReturns`, `EveryPromptEnds`, `DisconnectEndsThreads`, `VoiceCallsEnd`,
`EnabledArePolled`): beyond this prover. Every other property of a passing run is stated by a theorem. Induction over data (what a fold of a
community module computes for every input) is out of reach of the installed provers; no module uses RECURSIVE. The inductive
invariants were model-checked too, on the instances of section 3 (in `EarlyInv`, which ranges over every set of events, with the sets of events in the file).

## 5. Findings and known deviations

`never_trains` is a run whose counterexample contradicts a docstring (`PROJECT.json` quotes the lines): the loop hands the trainer one profile for each failure cluster,
whatever its count, so a cluster never has more than one failure and the threshold of five is never met.
Seven of the models state eight more formulas that documents of the repository promise and the code
breaks. They are kept as definitions beside the properties that do hold; to see the counterexample put the formula in place of the properties of the cfg named.

| Formula (module) | cfg | What happens |
|---|---|---|
| `HighRiskApprovalsWithinBudget` (LuciferRuntime) | `MCRuntimeSolo` | `approve()` does not ask the budget, so pending high-risk proposals can all be approved, past `max_high_risk_approvals_per_session`. What does hold is in `BudgetsHold`. |
| `InterruptIsKept` (StreamSession) | `MCStreamSession` | serving a redirect clears the stop event, whoever set it: an interrupt that comes while a redirect is queued is lost |
| `CurrentGoalsComplete` (AGILoop) | `MCAGILoop`, with `FileBacked = TRUE` | with a log on disk, the thread of `start()` may not use the connection opened by the constructor's thread; every tick with a goal raises, for ever |
| `OperatorFreezeIsKept` (AGILoop) | `MCAGILoop` | a drift that begins and clears during an operator's freeze lifts the freeze |
| `OnlyPassingPromoted` (SelfImprove) | `MCSelfImprove` | the court approves on a validation older than the last patch |
| `RetiredIsInPack` (MemoryRetention) | `MCMemoryRetention` | two consolidations can give their packs one name, and the second overwrites the first |
| `NoSilentFallback` (CognitionCore) | `MCCognitionCore` | a stream takes its prefix when it is begun and compares tiers when it is iterated: one that is iterated after another call fell speaks of no fallback |
| `AlertsComeBeforeFacts` (PerceptionLoop) | `MCPerceptionLoop` | "called on every new high-priority alert before the world model is written" (`perception_loop.py:111-112`): a tick writes the facts (line 259) and then calls `on_alert` (line 260). `NoAlertLost` is about what is told, in either order. |

Not in conflict with a document, but worth knowing:

* *Runtime.* A crash after the approval leaves a proposal that is neither pending nor complete and that `approve` refuses for good.
  `rollback` leaves no event, so the log no longer reproduces the workspace after one. Undo records of code patches are never applied by `rollback`.
* *Loop.* A completion rate below the floor freezes the loop, and a frozen loop
  completes nothing: only a new detector ends it (`DriftOfCompletionsStays`, proved). A goal that waits for a confirmation keeps its place and starves those behind it;
  a synthesized goal of a rule without `auto_complete` counts as active for ever, so that the synthesizer falls silent at its cap.
  On a siren the alarm rule withdraws the goal it adds; the text of the alarm goal routes to `delete_file`; rules on an
  edge lose their edge when it comes during a cooldown or at the cap.
* *Streams.* Redirects and injections put after the last check are accepted and never served; when every tier fails the exception leaves without a receipt.
* *Self-improvement.* A guarded path is never promotable without force, since the court passes no score; overrides and protections added to the loop's baseline
  instance do not reach the court, and each promotion rewrites the baseline file with the defaults. The adversarial cycle never
  promotes, so its quarantine follows no promotion. `score-improvement-candidates` looks for a key that is never in its payload.
* *Ledgers.* A torn JSON file disables every command that loads it; a re-embedded fix loses its status `retired`; `complete` of a directive
  accepts any status. The trainer looks for model profiles in `.arc_lucifer/model_profiles/`, where no command puts one, so live fine-tuning is not reached.
* *Code editing.* The undo of an empty replacement also removes the line after it, an undo text loses a trailing blank line, and a start line past the end is not refused.
  Nor is a range that ends more than a line before its start: the lines between are then in the file twice, and its undo record does not take them out.
* *Perception.* Without a connection, or after a timeout, the voice bridge's stream ends with an apology that the ladder of the cognition core takes for a success.
* *Goal list.* Its `append` and `sort` are not locked; CPython empties a list while it sorts with a key function, and another thread may find no goal. The model adds a goal in one step.

## 6. What is not modelled

Of the modelled components: import, export and backup of the log; `info` and replay views; INPUT,
BRANCH_PLAN and EVALUATION events except that they may raise; paths and UTF-8; the FixNet and shadow signals of the detector, which nothing
feeds; `inject()` and `max_ticks` of the loop; cooldowns of the synthesizer (which depend on a monotonic clock that may be younger than the cooldown after a boot);
two calls on one run at once in SelfImprove (Workspace has them, for the manifest) and so a patch that slips in between a verdict and the copy, quarantine copies, file errors while a promotion copies;
the warm index and the readers of the memory (one torn pack makes status and search fail until it is removed); overlapping consolidations;
`stream_model`; the first creation of ledger files; FixNet's publisher and cache of remote references; re-registration of a profile under an old name;
fine-tuning; a `describe()` of a sensor that raises (it is called outside the guard and would end the thread; all of the repository's return constants);
the second reading of a file that verifies a patch. The table of section 1 gives the components left out as a whole.

## 7. Plan

1. **Composition.** StreamSession over CognitionCore, whose `LastEvent`, `RunOut` and failures are its `Pull`, `Exhausted` and `Raise`; the
   voice bridge as a tier whose apology is a success. `CognitionProofs` extends both specifications already.
2. **An abstract specification of an update.** Each file of Workspace as a set that only grows, with WorkInv as the refinement's invariant.
3. **Left to TLC.** The ten liveness properties.
