# A TLA+ model of the collaborative AI-DLC execution engine

This directory is a verification development of the process engine of
`aws-samples/sample-collaborative-ai-dlc`: TLA+ modules translated from the
JavaScript sources, TLC configurations that check them on small instances, and
theorems about them that TLAPS proves for every instance.

The engine runs an *intent* (a software delivery workflow) as a durable Lambda
execution. The orchestrator walks the workflow's stages; each stage is an agent
turn in an AgentCore container; an agent or the engine may ask people something,
which parks the execution, possibly for days, at no compute. People answer,
cancel, rewind and restart through an HTTP API while any of that is going on.
All processes meet in a few DynamoDB rows, and most of the difficulty is there:
who may write which row, after which other write, and what still holds when one
of the writers is late, repeated or dead.

## 1. Inventory

| Component | State | Operations | Hard behaviour | What makes it correct |
|---|---|---|---|---|
| Process store (`shared/v2-process-store.js`, `v2-process-keys.js`, `stage-attempt.js`) | META, `STAGE#`, `HUMAN#`, unit, PR, steering and event rows | conditional updates and transactions | conditions evaluated long after the read that led to the write; best-effort follow-ups | two ownership tokens (`META.orchestratorRunId`, `STAGE.stageCallbackId`) fence every write of a retired writer |
| Durable orchestrator (`v2-orchestrator/index.js`, `gate-callback.js`) | its checkpoints; the callbacks it waits on | mint, init, mark running, dispatch, await, bind, wait, un-park, finish, fail | an answer racing the bind; timers racing callbacks; retirement between two steps; its own death | an answer always resumes the run; only the owner writes META; a dead run is repaired |
| Stage worker (`agentcore/commands/run-stage.js`) and MCP bridge (`shared/mcp/process-bridge.js`) | the conversation; the stage row under its callback | claim, resume, ask, poll, park, fail, complete | a callback timeout under a live worker; inline answer against durable resume; partial retirement of a question | an answer enters one conversation once; a late worker changes nothing |
| Job registry (`run-stage-start.js`) | `activeJobs` in the container | accept, refuse, heartbeat, report | retried dispatches; check-then-register | one live attempt of a leg |
| Intents API (`intents/index.js`) | none of its own | answer, resume, start, cancel, rewind, repair, watchdog, ... | each reads META, then acts on what it read, in several writes, and may die between two of them | no lost answer, no revived execution, no two runs |
| Parallel sections (`v2-orchestrator/section.js`, `shared/unit-completion.js`, `agentcore/commands/lane.js`) | lanes, `UNIT` rows, permits, unit and intent branches | fan out, admit, run, merge, halt-and-ask, review, check, fan-in | lanes finishing, failing and asking in any order; partial merges; replays; a walk that a rewind leaves running | dependency order, MERGED means integrated, every round ends, nothing lost at fan-in |
| Unit plan promotion (`promote-units.js`, `v2-sensor-contract.js`, `unit-completion.js`) | the `UNITPLAN` row | parse, split into waves, choose a skeleton, approve, check | a list produced again after a choice was made for the earlier one | every promoted plan can be walked |
| Unit pull-request waits (`section.js`, `intents/index.js`) | `UNITPR` and `FEEDBACK` rows, the wait on the `UNIT` row and its claim | draft, revise, reconcile, ready, observe, bind, claim, wake, complete | news between a poll and its bind; a claim whose holder dies; requests merged, squashed or closed at any time | no wait is lost, nothing half-reviewed is mergeable, the unit is complete only with the reviewed work |
| Loop-back and skip (`shared/stage-loopback.js`, `stage-skip.js`) | counters, reset rows | offer, accept, reset | replays of a multi-row reset | bounded rounds, idempotent reset |
| Quorum edits (`v2-orchestrator/quorum-edit.js`, the `quorum-edit` commands, `shared/artifact-edit.js`) | `QEDIT` rows, a second durable execution, jobs in a shared container, drift markers | ask, plan, decide, apply, mark, steer; save, verify | start and answer checked before, not with, the edit; decision against expiry; a job that outlives its row; a write and the removal of its marker apart; an end that is not written | only approved changes, true reports, drift marked, one verdict, the edit ends |
| Steering (`run-stage.js`, `discussions/`) | queued corrections | queue, inject, consume | consumed in separate steps | each correction used once |
| Tracker synchronisation (`trackers/`) | delivery claims | claim, deliver, retry | duplicates and lost deliveries | at-least-once with idempotent targets |
| Document server (`yjs-server/`) | rooms, snapshots, relay links | open, edit, persist, evict, revoke | two server tasks with one room | no acknowledged edit is lost |
| Plan resolution (`shared/v2-workflow-plan.js`, `v2-execution-plan.js`, ...) | none | pure functions | cycles, pruning, scopes | producers before consumers |
| Git engine, agent command lines, ensembles, sensors, artifacts, graph, environments, credentials, CRUD handlers, frontend, infrastructure | files, external services, their own tables | I/O | mostly outside the process state | not modelled, see section 7 |

Components interact through the rows (every arrow is a conditional write or a
consistent read), through durable callbacks (a stage callback completed by the
container, a gate callback completed by the API) and through asynchronous
invocations (the API launches a run, a run dispatches a job). `PROJECT.json`
lists every component with its status and every hazard with its line.

## 2. The modules

| Module | What it is |
|---|---|
| `Execution.tla` | the execution core: META, one once-per-workflow stage row, its question gates, orchestrator runs, worker attempts, API requests and watchdog sweeps |
| `HumanGate.tla` | the abstract specification of a question gate, which `Execution` implements |
| `MCExecution.tla` | the kinds of request the checked instances make, and the constraint of Questions; the instances themselves are the `.cfg` files |
| `ExecutionProofs.tla` | theorems about `Execution`: its types, the ownership token, who has the stage row, earned success |
| `GateProofs.tla` | theorems about `Execution`: its questions and their answers, and the refinement of `HumanGate` |
| `Lanes.tla` | a parallel section: its walk, its lanes, the merges, the human gates, and the cancel, rewind or repair that takes it over |
| `UnitDelivery.tla` | the abstract specification of a section, which `Lanes` implements |
| `UnitPlan.tla` | operators: from the list of units an artifact holds to the plan a section schedules |
| `Promotion.tla` | `Lanes` and `UnitPlan` together: what every list becomes, against reference definitions |
| `MCLanes.tla` | the unit plans and the small lists of the checked instance |
| `LanesProofs.tla` | theorems about `Lanes`: types, permits, the state of the walks |
| `LaneRowsProofs.tla` | theorems about `Lanes`: rows against branches, delivery order, the refinement, what a lane's branch is cut from |
| `PromotionProofs.tla` | theorems about `UnitPlan` and `Promotion`: lists of any length |
| `UnitPr.tla`, `MCUnitPr.tla` | the delivery of one unit by pull requests, and its durable wait |
| `UnitPrProofs.tla` | theorems about `UnitPr`: types, what is delivered, the wait |
| `QuorumEdit.tla`, `MCQuorumEdit.tla` | edits of an intent's documents after the fact |
| `QuorumEditProofs.tla` | theorems about `QuorumEdit`: types |
| `EditOutcomeProofs.tla` | theorems about `QuorumEdit`: what an edit changes, reports and marks, and its verdict |

The modules meet where one takes a step of the other as one action: a stage inside
a lane (`StagesSucceed`) is the protocol of `Execution`; the merge of a lane under
the strategy `pr-per-unit` is `UnitPr`; a run that parks, goes on or ends in
`QuorumEdit` is a run of `Execution`.

### Execution: state

| Variable | Code |
|---|---|
| `meta.status`, `.gate`, `.owed`, `.name` | META's `status`, `pendingHumanTaskId`, `resumeRequired`, `durableExecutionName`/`Arn` |
| `meta.owner`, `meta.retired` | `orchestratorRunId`: the run that minted it; a rewind replaces it by a token of its own (`retired`), which no run holds |
| `stage.state`, `.cb`, `.gate` | the stage row's `state`, `stageCallbackId`, `pendingHumanTaskId` |
| `gate[g]` | a `HUMAN#` row: `status`, the run and callback that asked, `callbackId` (`bound`, the run whose callback it is), `callbackConsumedAt` (`consumed`); and `woken`, whether the durable service has completed that callback |
| `run[r]` | the next step of a durable execution, the attempt it awaits, the gate it is parked on or resumes from |
| `worker[c]` | the attempt with stage callback `c`: next step, the run and the gate it was dispatched with, the answers in its conversation (`got`), its result, and the verdict its durable callback was completed with |
| `req[q]` | an API request or watchdog sweep: what it read, and its next step |

Three status words of an answered gate (`answered`, `approved`, `rejected`) are
one value, since question gates take them alike; `SKIPPED` rows and texts are
left out. A run's callback for a gate and the run itself are identified.

### Execution: actions

One action is one DynamoDB operation (a conditional update, a transaction, a
consistent read) or one durable-callback operation, with the local code up to the
next one. Everything between two such points interleaves: the five kinds of
process are in `Worker`, `Orchestrator`, `Begin`/`Handle`, `Watchdog`, and the
environment's `Timeout`, `Crash`, `DurableEnds`, `ReleaseTimer` and
`RequestDies`. `PROJECT.json` maps each definition to its lines.

Points worth knowing when reading them:

* `Owns(c)` is the condition of `writeStageAttempt`: META names the worker's run
  and is RUNNING or WAITING, and the stage row names the worker's callback.
  Every write of a worker is conditional on it, and a refused one leads to
  `ClassifyConflict`.
* `Answer` has the same condition for the run and callback *recorded on the
  gate*, evaluated in the transaction that answers it.
* A start and a cancel compare only the status they read; a rewind and the
  repairs compare the token too (`SameToken`), unless they read none.
* A write the code makes best effort (`.catch(...)`) may be skipped in the model.
  A send that reports an error may have been delivered.
* `Timeout` completes a stage callback as failed whether or not its worker is
  alive; the worker then goes on. With `Crash` it is also an attempt that throws.
* `Sweep` also repairs an execution whose run was named but never launched, which
  the code decides by the local deadline (`orchestratorExpiresAt`): the model
  takes a launch still under way to be quicker than that deadline.

Ids are minted fresh. `FreshRun`, `FreshAttempt` and `FreshGate` take the first
unused one, which is a symmetry reduction: all unused ids are alike. When ids run
out the system stops, which is why the configurations turn the deadlock check
off; a system nobody sends a request to may stop as well.

### HumanGate and the refinement

`HumanGate` says what gates promise whatever implements them: a question is asked
for the current owner, answered only while the owner that asked still is the
owner, never answered once superseded, and its answer enters at most one
conversation, a leg of the run that asked. `Execution!Gate` instantiates it with
the refinement mapping: the owner is the unretired token; a gate's status and run
are the row's; the users of an answer are the attempts whose conversation holds
it. The property `GateProtocol` is the abstract specification, checked as a
step-by-step implementation over two runs, with the rewind between them.

### Lanes

A walk of a section is `sec[r]`, one for each durable run that entered it; the run
META names is `owner`. `lane[r][u]` is where the lane body of unit `u` is in that
walk, `row` and `note` are the `UNIT` rows (state, recorded skip), `landed`, `cut`
and `delivered` are what git knows: in which repositories the head of a unit
branch is merged, which heads a unit branch contains, and which units were once
merged everywhere. `permits[r]` is the semaphore of the walk, which lives in its
memory: `Replay` empties it.

* The walk: `Launch` (with the hydration from the rows), `EndRound`, `Retry`,
  `Skip` and `RecordSkip`, `AnswerHalt`, `Approve`, `RequestChanges`, `FanOut`,
  `ChooseMode`, `Check`, `Retire`. A round opens all its lanes at once (`Round`,
  `Opened`).
* A lane: dependency wait (`LaneReady`, `LaneBlocked`, `LaneRetired`), permit and
  RUNNING row (`StartLane`), branch (`InitLane`), stages (`StagesSucceed`,
  `NothingToBuild`), `BeginMerge`, `MergeLane` repository by repository,
  `ResolveConflict`, `RecordMerged`; whatever throws is `LaneFails`.
* The API: `Cancel` leaves the owner on META; `Rewind` retires the owner and
  resets the rows one by one, each at best effort, without stopping the old walk;
  `Repair` stops the old durable execution first.

`Write(u, from, to)` is `updateUnitState` with its list of expected states: a
refused write is tolerated. The merge lock is left out: the model lets the merge
attempts of two lanes interleave, which the code serialises. The order in which a
lane waits for its dependencies is abstracted to what it finds.

`UnitDelivery` says what a section promises: a unit enters the intent branch after
the units it depends on, what is integrated stays integrated, and the section is
resolved only with every unit integrated or omitted by a human. The mapping of
`Lanes!Delivery` is a step-by-step refinement (`DeliverySpec`), checked and proved.

`UnitPlan` is where plans come from: `parseBoltDag` checks the entries of the units
artifact (what its text is parsed into) and `computeBatches` splits them into waves;
`promoteUnits` keeps the walking skeleton of an earlier promotion while it is still
valid; `fanoutDecision` applies the human's override; `sectionRefuses` is the check
the section makes before it starts. `Promotion` composes them, for any lists, earlier
choices and overrides, and compares the result with the reference definitions `Sensible`
(a list that names each unit once, depends on listed units only and has no circle) and
`InEarliestWave`, and with `PlanOK`, which is what `Lanes` and its proofs assume of a
plan. The first candidate for a skeleton is chosen among all units that depend on
nothing, of the earliest wave, by the order of names (`FirstCandidate`); the code lists
them all. `MCLanes` takes every list of up to three entries.

### UnitPr

One unit with the strategy `pr-per-unit`, in one run. A branch is the number of
its last commit. `pc` goes through drafts, the feedback loop, reconciliation,
ready, observation and the wait; the provider's actions (`MergePr`, also of a
squash, `ClosePr`, `LiftDraft`, `TargetMoves`, `HeadMoves`) come at any time; `waker` holds
those who end a wait: one feedback request per batch, the maintenance pass, a
cancel, each between its claim, its send and its completion. A step that visits
every repository is one action, because a visit reads and writes what belongs to
its repository only; the failures half-way are actions of their own
(`DraftFails(S)`, `ReadyFails(S)`, `RedraftFails(S)`). Callback ids nobody knows
any more are used again (`Fresh`). The lease of a claim is modelled by who may
claim over it: anyone once the holder is dead, and, as a counted event, before.

A durable step whose checkpoint is lost runs again. Two of the lane's steps are not
idempotent, and have an action for it: the bind (`BindAgain`) and the claim of a
feedback batch (`LoseClaim`). The second claim finds the batch RUNNING and returns
nothing, which the lane takes for "processed" (`section.js:978`): nobody revises, the
batch stays RUNNING, and from the observation the lane goes straight to reconciling
(1434-1436) with requests that are ready. The history field `early` of a request says
that it is out of draft for this reason, or because a person has lifted it.

### QuorumEdit

`row[e]` is the `QEDIT` row, `pc[e]` the request and then the durable flow, `job`
and `planJob` the container, `deciding` and `saving` the people in the middle of a
request, `stale` the drift markers. `planned`, `decided` and `applied` are the
three callbacks. The guards of a start, an answer, a save and an edit read the
rows and act later (`AskRun` and `GoRun`, `AskEdit` and `StoreEdit`, `StartSave` and
`WriteSave`), so an edit and a run, or two edits, may be live together. A durable
step may run twice (`Advance`, at most once per edit). `StopSession` and
`ContainerDies` end every job of the intent. The graph does not change.

Two steps of the code that look like one are two in the model:

* A document is written, or verified, and *then* loses its drift marker
  (`artifact-edit.js` 238 and 244, 265 and 271). `RewriteTarget`, `ApplyItem`,
  `WriteSave` and `VerifyArtifact` are the first halves, `ClearMarker` and `ClearSave`
  the second ones; marks are set one document at a time (`MarkDownstream`, `MarkSave`).
  A removal is best effort (`MayClear`), and one that comes late takes off a marker that
  somebody else has set in between. `Clearing(d)` says that some writer of d is between
  its two halves; `due[e]` is what edit e has made stale and nobody has taken care of
  since, without the documents that were `Clearing` when e marked them.
* The end of an edit is written on its row by a step that swallows the failure of the
  write (`WriteEnd`: `quorum-edit.js` 116-125, 207-219 and 286-301, and the hand-off in
  `intents/index.js`). A lost write costs an event, and the history variable `lost`
  remembers it. The row then stays live, and blocks the intent's answers, starts and
  edits, for as long as nobody repairs it.

The steering of a parked run is one step without effect on the state (`Steer`): it is
best effort, made once, and nothing in an edit depends on it. What its comment says
about the run is the property of the run Answers.

## 3. The runs

The first seven runs use module `MCExecution`. r, c, g, q, w count runs, attempts,
gates, concurrent requests and concurrent sweeps.

| Run | Bounds | Checks | States |
|---|---|---|---|
| Questions | 1r 4c 2g 2q; `Bound`: one request at a time, or one question and two legs | `TypeOK`, `PendingQuestionAnswerable`, `AnsweredWaitIsOwed`, `AnswerUsedOnce` | 1.8 M |
| Rewind | 2r 3c 1g 1q | `FencedForGood`, `GateProtocol`, `LegKeepsStage`, `SuccessIsEarned` | 0.7 M |
| Recovery | 1r 2c 1g 1q 1w, fair | `DeadRunIsRepaired`, `WokenWaitEnds`, `EarlyAnswerResumes` | 0.08 M |
| Cancel, RetiredRun, DoubleStart, Restart | 2r 2c 1g 1q (Restart: 1w) | one claim of a comment each, violated | |
| Lanes (`MCLanes`) | plans Forked, Tree (3 units, 1 run, 1 extra) and Chained (2 units, 2 runs); 2 repositories, 1 permit; fair | `TypeOK`, `PlanIsPromoted`, `DeliveredInOrder`, `BuildsOnDependencies`, `MergedMeansIntegrated`, `ResolvedIsAccounted`, `RetryKeepsIntegration`, `RoundEnds`, `DeliverySpec` | 0.17 M |
| Edits (`MCQuorumEdit`) | 2 documents, 2 edits, 2 deciders, 1 editor, 4 events; fair | `TypeOK`, `OnlyApprovedChanges`, `ReportIsTrue`, `DriftIsMarked`, `VerdictStands`, `EditEnds` | 0.79 M |
| Answers (`MCQuorumEdit`) | 2 documents, 1 edit, 1 decider, 3 events | `AnswersAreRefused`, violated | |
| UnitPr (`MCUnitPr`) | 2 repositories, 1 batch, 1 event, 1 retry; fair | `TypeOK`, `UnitDelivered`, `DraftWhileWorking`, `ParkedIsWakeable`, `RetryKeepsOutcome`, `NewsIsSeen` | 0.91 M |
| UnitRevision (`MCUnitPr`) | 2 repositories, 1 batch, no event | `WorkIsDelivered`, violated | |

What the properties say is in the comment before each. Why the bounds reach the
cases: a lost or doubled answer needs one gate, a parking leg, a resume leg and
two requests (an answer and a resume, or a cancel), which is why Questions has the
constraint `Bound`: a state with two requests at work is followed up only while one
question and two legs exist; an ownership race needs two runs, a leg each and a late leg of the first; a second question needs two gates
and up to four legs (ask, resume, ask again, resume). Larger instances (two runs
with every kind of request: about 2.0 M states; two gates with two requests:
about 3.8 M) were explored with the same safety properties and no error, and are
too slow to keep as standing runs.

Lanes: dependency order needs a unit with two dependencies (Forked) and one that
others depend on (Tree); permits need more ready lanes than permits; a partial
merge needs two repositories; a walk left behind needs two runs, which only the
two-unit plan affords. Promotion: three entries over three names and one that no entry
has give every graph on three units, with repeated names, missing names and circles of
each length. `MaxExtras` counts retries, revisions, repeated questions
and replays together. Edits: a race on a verdict needs two deciders, the sharing
of a container two edits of one target; `MaxEvents` counts everything that comes
from outside (run changes, requests, saves, verifications, repeated steps, deaths
of the container, writes that are lost). UnitPr: a half-merged unit needs two repositories; one batch
revises once; `MaxEvents` counts failures, closed and squashed requests, foreign
pushes, cancels, lifted drafts, lost checkpoints, deaths and expired leases, while a review, a
merge of a ready request and a wake-up cost nothing. UnitPr with two events and
Lanes with two extras are beyond the time of a standing run.

Each property of the passing runs has a mutant of the code that breaks it, marked
"Mutant" in its module; in `Execution.tla`, for example: the re-read after the
bind left out, the answer conditional on the gate alone, the claim without the
ownership check, a failed leg simply dispatched again, a run that un-parks by
stamping its own token, the watchdog's index without WAITING rows.

### Fairness

`FairSpec` assumes: a durable run that can step does (the durable runtime keeps
replaying it); an open stage callback is eventually completed, at the latest by
its timeout or missed heartbeats; a request finishes or its Lambda dies; the
scheduled watchdog runs. It does not assume that a person acts, that an agent's
turn ends well, that a worker lives, or that an intent has a park-release timer
(`parkReleaseSeconds` may be null). So the three liveness properties hold with
the answer given and never resent, with the container dead, and with the durable
execution dead.

The other modules: `Lanes!FairSpec` lets every walk that can go on by itself do so
(the durable runtime replays it, stage callbacks time out, runtime commands are
bounded calls), and never a human answer. It is weak fairness of the walk as a
whole, not of each lane, so a lane that could take its turn for ever at the cost
of another would be found; the loss of a merge answer is left out of it.
`QuorumEdit!FairSpec` has the flow go on: its callbacks expire (plan after an hour,
apply after four hours or a quarter without a heartbeat, a decision after 72
hours). `UnitPr!FairSpec` has the scheduled maintenance pass run, a claim holder go
on or die, and a lane whose callback was answered wake up; nobody has to review or
merge anything, and the wait itself has no timeout.

What is scheduled reads a bounded list: the watchdog the first 100 active executions
(`intents/index.js:6824`), the reconciler the first 100 waits (6900; both limits are
settings), always in the order of execution ids. Whatever is beyond stays beyond, as
long as the ones before it stay. So the fairness of `Watchdog` and `Maintenance`, and with
it `DeadRunIsRepaired` and `NewsIsSeen`, holds of deployments with no more active
executions, or waits, than the limit.

## 4. Where the code and its comments disagree

Six runs are violated, each a statement of a comment or a document:

* `CancelSticks`: a run interrupted by a cancel is said to exit without touching
  META. A run that was never parked does not look at a gate: it fails in its
  catch-all, and `fail()` asks only for the token, which the cancel left in place;
  META ends FAILED instead of CANCELLED.
* `RetiredRunIsHarmless`: `mark-running` is conditional on CREATED but not on the
  token, so a run retired while it was still checking out can flip the META of
  the run a cancel and rewind launched after it.
* `OneRunLaunched`: the compare-and-swap of a start does not exclude a second
  start, because CREATED is itself startable.
* `RestartRunsCleanly`: a stage row left RUNNING by a dead attempt refuses the
  attempts of every restart, until a rewind resets it.
* `AnswersAreRefused`: `quorum-edit.js:302-307` says of the step that tells a parked run
  what an edit has changed, "Gate answers and /start are refused while this flow runs, so
  the run is still parked here". The row reads SUCCEEDED before that step, and the guards
  (`intents/index.js` 2835-2850, 3182-3191) look for rows that are not terminal. A run
  answered in between goes on with the documents it has read, and hears of no change: the
  step finds it RUNNING and queues nothing.
* `WorkIsDelivered`: `docs/concepts/execution.md` calls a unit complete only when
  every changed repository has its head on the intent branch. A revision stage
  works in every repository, but only those that had a pull request are looked at
  afterwards. `UnitDelivered`, which holds, is the same statement about what was
  under review.

Smaller disagreements, visible in the modules and not given a run:

* After a replay, lanes that wait for their stages ask for permits again while the
  stages of others, started before, still run: more stages than
  `maxParallelUnits` may be at work (docs/concepts/workflows-and-blocks.md:98;
  `Replay`, `Readmit`). `TypeOK` bounds the permits of the current replay.
* After `HALT_REASK_LIMIT` answers nobody could interpret the halt gate aborts
  (`AnswerHalt`); the header of `section.js` (44-45) says never a fallback.
* After a rewind a lane finds its old unit branch and keeps its commits
  (`InitLane`).
* The BLOCKED write of a lane has no expected states and no owner (`LaneBlocked`),
  so it may overwrite a terminal verdict, which `v2-process-store.js:2528-2530`
  excludes.
* A wake-up that dies between send and completion leaves the old callback on the
  unit row; a lane that binds again before that fails with
  `pr_wait_callback_conflict` (`BindRefused`). The reconciler clears the wait of a
  retired run without waking it, so that its durable execution stays suspended
  (`ClearStaleWait`). A batch whose revision was retired or crashed stays RUNNING.
* The apply job marks everything below its target and says "the WHOLE closure is stale
  until the plan rehabilitates each member" (`quorum-edit-apply-start.js:284-285`). The
  late removal of another edit, or of a save or verification by a person, may take such
  a marker off again: a second edit writes the lower document, this one rewrites the
  upper one and marks the lower one, the second one clears it. The lower document is
  then older than the upper one and shows no marker. The conjunct `Clearing(d)` in
  `MarkDownstream` leaves exactly these documents out of `due`; without it TLC finds
  `DriftIsMarked` violated, for instance by a person's `VerifyArtifact`, `MarkDownstream`,
  `ClearSave`.
* The end of an edit may not be written at all (`WriteEnd`). The comment of `fail`,
  "Terminal FAILED write + event" (`quorum-edit.js:113`), holds only of a write that does
  not fail. `EditEnds` says what remains: the flow is over, and only such a write can
  have left the row live.
* A lane whose claim of a feedback batch is executed again reconciles requests that are
  ready for review (`LoseClaim`, section 2). `DraftWhileWorking` names this and a person
  lifting a draft as the only two ways in which unfinished work becomes mergeable.

All of these are steps of the models, and the passing properties hold with them: what a
property leaves to them is in its comment.

## 5. What is proved

`ExecutionProofs.tla` and `GateProofs.tla`, for arbitrary sets of runs, attempts, gates,
requests and sweeps, from the two assumptions of `Execution` (`NoneAssumption`: `None` is
no id; `SlotAssumption`: request and sweep slots are distinct). First, of the processes
and the two tokens:

* `TypeCorrect == Spec => []TypeOK`. `TypeOK` is inductive as it stands because it
  carries, besides the ranges, the obligations a process has in the middle of an
  operation (`RunsOK`, `WorkersOK`, `RequestsOK`): a run that binds, waits or
  un-parks has a gate; a worker that reports WAITING names one; a request that
  relaunches has minted a run. One lemma per kind of process, one step per action
  under it; small lemmas (`GotoTyped`, `ReturnTyped`, `FinishTyped`, ...) for the
  operators that move a process on.
* `Fenced == Spec => FencedForGood`: a run that minted its token and lost it never
  holds it again. The lemma `TokenMoves` shows that only two steps change the
  token: a launched run mints its own, a rewind retires whichever is there. A run
  is launched once and mints once, so a loser cannot return. Everything the token
  fences rests on this.
* `TurnsAreKept == Spec => []InTurn`. Neither of the next two invariants is
  inductive: a claim takes the stage row for its attempt, and what keeps it from
  taking the row from another attempt of the same run is that there is no other
  one at work. `InTurn` says so. A run is launched by the one request that named
  it (`NamedOnce`), so a run that mints its token has no attempt yet; each attempt
  of a run but the latest has parked (`OneAfterTheOther`, `OneOpen`), and one that
  has parked is gone (`Settles`), because reporting is a worker's last act; a run
  that finishes was told a success of its own attempt (`Awaited`).
* `RowIsAlwaysHeld`: an attempt of the owning run that has claimed the row, and
  has not parked, failed or been refused, is the one the row names
  (`OwnersHaveRow`). Claims of other runs are refused by the META token
  (`TokenIsMinted`, from `TokenMoves`), other attempts of the same run are gone.
* `LegsKeepStage == Spec => []LegKeepsStage` and
  `SuccessEarned == Spec => []SuccessIsEarned` follow. They hold with requests and
  runs overlapping in ways the checked instances are too small for, such as a
  rewind whose cleanup a start overtakes: that cleanup may reset the row's state,
  but not whose row it is.

Then, in `GateProofs.tla`, of the questions:

* `QuestionsKeepOrder == Spec => []QuestionsInOrder`. A question travels through four
  places (the gate, META's pointer, the stage row's pointer, the run), and the invariant
  says how they agree. A question keeps the attempt and the run that asked it
  (`Askers`); what META shows while a run owns it is the question of the one attempt at
  work, and its conversation does not hold the answer (`MetaShows`); the same of the row
  and of a question an attempt is about to park on (`RowShows`); a leg resumes from a
  question of its own run, whose asker has parked (`LegsResume`), and at most one leg
  does (`ResumedOnce`). Only three actions ask, dispatch a leg or decide on a verdict
  (`Ask`, `Dispatch`, `Await`). All others are one case, `Moves`: they leave every
  question to its attempt, take an answer into at most one conversation (`Taken`) and
  show nothing new. Each action is shown to be a move once, and each part of the
  invariant to survive a move once.
* `AnswersAreUsedOnce == Spec => []AnswerUsedOnce`. The asker takes an answer inline only
  while it has not parked, and a run dispatches a leg from it only after the asker has
  parked without it; hence not both, and by `ResumedOnce` not two legs.
* `PendingIsAnswerable == Spec => []PendingQuestionAnswerable`: a question META shows for
  the owner is that of the attempt the row names, and while it is pending that attempt
  has parked or is about to.
* `GatesKeepProtocol == Spec => GateProtocol`: the refinement of `HumanGate`, one step per
  abstract action. `Ask` asks for the current owner, `Answer` is fenced by it, `Taken` is
  the use of an answer, a token that moves settles nothing by itself.
* `AnsweredWaitsAreOwed == Spec => []AnsweredWaitIsOwed`, from the invariant
  `AnswersReach` on top of the above: an answer counts as delivered only after its
  callback was completed (`WokenFirst`, through every request that marks one); the gate
  a run waits on is bound to that run, and so is a pending one it reads again
  (`BoundToWaiter`); and the question META waits with is the one the owner parks on, from
  the attempt's turn to the run's wait (`WaitsInView`). So an answer that reached no
  callback is one META still shows, which is what `ResumeOwed` asks.

`LanesProofs.tla` and `LaneRowsProofs.tla` prove of `Lanes`, for every set of plans,
repositories, runs and permits, from its three assumptions (`PlansAssumption`: the plans
are acyclic, in waves; `BoundsAssumption`; `FiniteAssumption`: finitely many units and
repositories):

* `WalksAreSound == Spec => []Sound`: `TypeOK` with what is true of a walk where it
  is (`Walks`): only lanes of the round are at work (`LanesSettled`), the lanes a
  halted round may run again or omit are not merged (`OpenAtGates`), nor are those of
  the batches to come (`BatchesToCome`), and only a skeleton or a batch is reviewed
  (`PhaseFits`). `TypeCorrect` and `RetryKeepsWhatIsMerged` follow: a retry opens
  lanes `OpenAtGates` says are not merged.
* `RowsAreRight == Spec => []RowsInv`, on top of `Sound`. Its parts: merged rows and
  lanes are delivered units, and a lane has a permit only with its dependencies
  delivered (`Order`); merged rows, and merged lanes of the owner, have their head in
  every repository (`Landed`); a retake has no owner, and the owner knows of every
  recorded skip (`Owned`); a walk takes its lanes from the plan (`InPlan`). `Landed`
  would not be inductive with its first line alone: stages move the head of a unit
  branch and so empty `landed`, and what keeps a MERGED row from being left behind is
  that only the owner's stages succeed, and that a lane of the owner at work has no
  MERGED row. That is `RowKnown`: the owner's lane of a MERGED row is merged too, or
  a revision is about to reopen it and has yet to write RUNNING. `Owned` serves the
  verdict: units of the plan not delivered were omitted by a human in this walk, or
  in an earlier one whose skip the rows kept. `DeliveryInOrder`,
  `MergedIsIntegrated` and `ResolvedMeansAccounted` are consequences.
* `LanesDeliver == Spec => DeliverySpec`: the refinement of `UnitDelivery`, one step
  per action.
* `LanesBuildOnDependencies == Spec => []BuildsOnDependencies`, from `Branches`. That a
  lane waits for its dependencies to be merged (`Admitted`) is not enough: a merged unit
  may be sent back to work by a review, and its head then moves away under the branches
  cut from it. So a branch the owner cut holds the heads of its dependencies (`Held`),
  and each of those is final (`Final`): merged, and in no batch still to be reviewed.
  That holds because the remaining lanes are asked about only after the skeleton is
  settled (`Phased`), and lanes of one batch do not depend on each other.

`PromotionProofs.tla` proves of `UnitPlan` and `Promotion`, for every set of names and of
lists of any length over them, from `PromotionAssumption`:

* `PromotionSound == PromotionIsSound`. `computeBatches` is a loop, here a recursive
  function (`Remaining`). That it exists, and each of its properties, is an induction over
  the waves, made first-order: the waves at which the property fails are a set of numbers,
  which has a first member (`FirstMember`, from the well-foundedness of the numbers), and
  the wave before that one has the property. So names that depend on each other in a
  circle are never taken (`CirclesRemain`); without a circle every wave takes a name, and
  as many waves as names are enough (`AllAreTaken`, by cardinality); each name is taken by
  one wave, after those it depends on and right after one of them (`WavesAreLayers`). A
  list has as many names as entries just when no name is repeated (`NamesAreDistinct`), so
  it is accepted just when it is `Sensible` (`ParsedIsSensible`). From there: a promotion
  leaves a skeleton that is a unit without dependencies, whatever was chosen before
  (`PromotedIsLed`), an approval keeps it so (`ApprovedIsLed`), and such a plan is not
  refused (`LedIsNotRefused`) and is one that `PlansAssumption` allows (`LedIsWalkable`):
  what the proofs about `Lanes` assume of its plans is what promotion establishes.
* `PromotedIsWalked == Plans \subseteq Scheduled => (Spec => []PlanIsPromoted)`, in the
  form `ASSUME ... PROVE`: the first conjunct is that no step changes the plan. The
  hypothesis is no assumption of a module, because the checked instance shows it.

`UnitPrProofs.tla` proves of `UnitPr`, for every set of repositories and of finitely
many batches, from `BoundAssumption`, `StartedAssumption`, `NamesAssumption` and
`FiniteAssumption`:

* `TypeCorrect`. `Typed` adds to `TypeOK` that what the lane looks at has a request. A
  fresh callback id exists because those who could know an id are finitely many
  (`FreshIsFresh`).
* `ReviewedIsDelivered == Spec => []UnitDelivered`, `WorkIsDraft` and `OutcomeIsKept`,
  from the inductive invariant `Delivery`. It follows a commit from review to the intent
  branch: a repository the lane found nothing to review in is in, and stays in
  (`RestFits`); a request was merged with all that was under review (`MergedFits`), except
  right after a revision it overtook, when the lane replaces it; a ready request was made
  ready with all of it (`ReadyFits`); so the ready heads account for every repository
  (`AllIn`). That a half-merged repository is never under review (`PartialFits`) is what
  keeps its outcome through a retry. Requests are drafts from the first draft until they
  are made ready, but for those marked `early` (`DraftsFit`): every step that makes drafts
  makes one of each open request, failures leave the lane, and the one step that keeps
  ready requests and goes back to work is `LoseClaim`.
* `ParkedIsFound == Spec => []ParkedIsWakeable`, from `WaitFits`: the callback of a parked
  lane is on the row, and nobody who has answered some wait is about to clear this one,
  because a bind uses an id no waker knows.

`QuorumEditProofs.tla` and `EditOutcomeProofs.tla` prove of `QuorumEdit`, for every
document graph and set of edits and people, from `GraphAssumption`, `TargetsAssumption`,
`BoundAssumption` and `SlotAssumption`:

* `TypeCorrect`. `Typed` adds to `TypeOK` that a plan covers what is below the target of
  its edit, and that nobody is asked about an edit without one (`PlanFits`,
  `TargetFits`).
* `ApprovalIsKept`, `VerdictsStand`, `ReportsAreTrue` and `DriftStaysMarked`, from one
  invariant, `Outcomes`. For each edit it says which states the row may have at each place
  of the flow, a repeated step and a lost write included (`Place`); that a decision that
  reached the flow is the one on the row (`DecisionFits`), for which the winner of a race
  on the verdict is followed from its write to its send (`WonFits`); that an edit has
  changed nothing before it applies, and only what was approved then (`ChangesFit`); and
  that the job, the callback and the row report only what was rewritten (`ReportsFit`).
  `OneJob` and `DriftFits` are about edits none of whose steps ran twice: two jobs of one
  edit may overtake each other, so what is due is only then accounted for. What is due
  and no longer to be marked carries its marker, and no writer is about to remove it
  (`Marked`); the lemma `MarksLast` says that no step removes a marker nobody was about
  to remove, and whoever comes to be about to has just made the document current, which
  takes it off what is due.

The inductive invariants were explored with TLC before they were proved: those of
`Execution` on the Rewind and Questions instances, on one of three runs and two
requests, and on one of a run, two questions, a request and a sweep; those of the other
modules on their standing instances. A proof also corrected a property:
`AnsweredWaitIsOwed` was first stated of every execution its run owns, which holds on the
checked instances and has a counterexample of five runs (section 7).

## 6. What is only model-checked

Liveness: `DeadRunIsRepaired`, `WokenWaitEnds`, `EarlyAnswerResumes`, `RoundEnds`,
`EditEnds`, `NewsIsSeen`. Temporal properties under fairness and `ENABLED` are beyond the
proof system. So are the induction theorems of its library and recursive operators, for
which modules to be proved about declare no recursive operator, and inductions are made
by a least counterexample. Every safety and action property of a passing run is proved.

## 7. What is not modelled

* Of the core: several stages in order, engine gates (approvals, plan review),
  revise and recompose, a durable step of a run executed again because its
  checkpoint was lost, the registry's own races, deletion, attachment revisions.
  A status or guard these would add is absent, not assumed. Repair is in `Lanes`, for
  what it does to a section; it has no action in `Execution`.
* Reads the code makes one after the other at the start of a request (META, gate,
  records) are one step.
* Two overlapping rewinds, or a start that overtakes a rewind, with three runs: the
  actions of `Execution` allow them, the bounds of the standing runs do not. The
  theorems of section 5 cover them. One effect no property excludes: a rewind that is
  slow to reset, two starts that overtake it, an ARN stamped late and the watchdog that
  trusts it may together leave META RUNNING over a parked run, whose answered question
  nothing then offers to resume. `AnsweredWaitIsOwed` is about META that reads WAITING.
* Of `Lanes`: the stages inside a lane; the merge lock; branch deletion and workspace
  checkpoints; the rows a promotion creates before the section starts (`syncUnitRows`);
  unit kinds and the skip matrix; two retakes at a time; executions that predate
  `completionPolicyVersion` 1, whose fan-in follows older rules.
* Of `UnitPr`: two runs of one lane, and so a rewind or repair of a unit under review
  (the retired run's wait is in, `ClearStaleWait`); several units sharing a target
  branch, beyond `TargetMoves`; the projections shown in the frontend.
* Of `QuorumEdit`: several intents in one graph; the text of plans; the impact preview;
  the queue of corrections, and so whether a parked run is told what changed, which the
  code promises at best effort only. Two things the code leaves open and no property
  claims: a request that dies between creating the row and handing it to the flow strands
  the row in PLANNING (`EditEnds` is about edits handed over), and the step that opens the
  question, executed again after a rejection, may write FAILED over REJECTED
  (`VerdictStands` excludes steps executed again).
* The components with no module in section 1: I/O around external programs and
  services, CRUD, views. They are most of the repository's lines, and hold next to
  none of its protocol.

## 8. Plan

Done: `Execution` with `HumanGate`, `Lanes` with `UnitDelivery`, `QuorumEdit` and `UnitPr`,
and `UnitPlan` with `Promotion`, each with proofs of all its safety properties, the two
refinements among them.

Modules to come: the job registry (`run-stage-start` with retried dispatches and
heartbeats), loop-back (multi-row reset, cap and replay), steering, document rooms,
plan resolution as operators against reference definitions.
