# ILCS in TLA+

ILCS runs laboratory batches on real equipment. An API process takes decisions of
people (dispatch, hold, abort, recover, verify on site) and writes them to
PostgreSQL; one executor process drives the devices from there. This directory
holds TLA+ modules of the part where that can go badly wrong, the TLC
configurations that check them, and proofs checked by TLAPS.

1. Inventory of the system
2. Plan
3. What is modelled, and how it corresponds to the code
4. Runs: bounds, fairness, results
5. What is proved, and how
6. Where code and documents disagree
7. What is not modelled

Paths are relative to `src/api/app/` unless they begin with `src/` or name a
top-level document.

## 1. Inventory

| Part | State it keeps | Operations | Talks to | Hard behaviour | Correct when |
|---|---|---|---|---|---|
| Command queue (`models/execution.py`, `repositories/execution.py`) | `commands`, `adapter_executions`, `checkpoints` | issue, claim, withdraw, settle | services and executor, through the database | claim races withdrawal; three time scales (decision, delivery, verdict) | a device takes a command up at most once, and never one that was declared not sent |
| Execution (`services/execution_service.py`) | the above, `adapters.current_command_id` | `execute`, `poll_running`, `reconcile`, `check_timeouts`, `settle`, `fault`, abort consolidation | devices through `adapters/`, exception engine, workflow | a device call lies between a read and the write that rests on it; crash in between; lost and blurred answers; several stations in parallel | a moving device is never out of the books' sight; channels are not overfilled; an abort is concluded exactly when everybody has stopped |
| Batch use cases (`services/batch_service.py`) | `batches`, step runs, commands | `dispatch`, `hold`, `abort`, `recover`, `verify_command`, `skip_step`, `rerun_from`, scheduling | queue, workflow, schedule, inventory | each is one transaction under the batch lock while workers are mid-call | no step is driven twice; an ended batch stays ended; an unknown outcome stops the batch |
| Workflow (`services/workflow_service.py`, `domain/workflow.py`, `domain/graph.py`) | `step_runs`, `workflow_events`, `step_advances` | emit, process, retry, reject, open, finish, timeouts | batch and execution services | duplicate, late and rejected events; joins; attempts voided and opened again | every step is concluded once and opened once for each reason to open it |
| Exception engine (`services/exception_service.py`, `domain/exceptions.py`) | `exception_events` | register, retry, reroute, skip, reschedule | runs inside `fault()` | acts automatically in the transaction that faulted | it retries only what provably never left the system |
| Executor process (`services/executor_runtime.py`, `services/leadership.py`, `src/executor/main.py`) | advisory lock, threads, futures | control loop, station passes, fencing, takeover | all of the above | two replicas during a failover; a stuck gateway | at most one replica acts; no station starves another |
| Recovery rules (`domain/recovery.py`) | none | preconditions, options | batch service | many preconditions, each from another table | never proposes to drive a device blindly |
| Transfers and labware (`services/transfer_service.py`, `domain/labware.py`) | labware, positions, transfer commands | plan, deliver, complete, lose | queue, execution | a plate half way between two stations | a plate is in one place, and nobody acts on a plate that is not there |
| Schedule (`services/schedule_service.py`, `domain/scheduling.py`, `domain/cpsat.py`) | allocations, bookings, proposals | schedule, shift, extend, optimise | batch service | concurrent requests under one advisory lock | two bookings do not overlap beyond capacity |
| Inventory (`services/inventory_service.py`, `services/material_service.py`) | ledger, reservations | reserve, take, consume, return | batches | concurrent reservations of one lot; decimals | the ledger explains the balance; nothing is promised twice |
| Idempotency and sessions (`api/deps.py`, `core/db.py`) | idempotency keys | replay, remember | every write route | crash between business commit and record; inner commits | one key, one effect |
| Identity and signatures (`services/identity_service.py`) | sessions, signatures | sign, consume | every signed use case | one-shot tickets | a signature is used for the one thing it was given for |
| Acceptance runs (`services/acceptance_service.py`, `adapters/acceptance.py`) | acceptance queue | request, run, conclude | executor, station | runs on devices beside the command queue | no delivery to a device under acceptance |
| Point writes (`services/point_service.py`) | point writes | request, write, confirm | devices | an answer may be lost | each write has one verdict |
| Webhooks (`services/integration_service.py`) | outbox | enqueue, lease, deliver, retry | outside | lease expiry | at least once, nothing lost |
| Stations, assets, maintenance (`services/station_service.py`, `services/asset_service.py`, ...) | configuration, heartbeats, tags | edit, tag out, calibrate | executor's guards | configuration changed under a running executor | a command goes where its station pointed when it was claimed |
| Tasks, staffing, people | views over step runs, bookings | claim, assign | workflow, schedule | mostly sequential | work lists follow the flow |
| Plans, recipes, methods, SOPs, samples, analysis, reports, formulation | versioned documents, results | edit, approve, publish, compute | batches take a snapshot | optimistic versions | an approved version does not change |
| Alarms, monitoring, telemetry, events, streams (`core/events.py`, `core/stream_hub.py`) | alarms, readings, notifications | raise, clear, publish | everything | notification before or after commit | derived from the transitions above |
| Web client, seed, migrations, scripts | none of their own at run time | | API | | |

`PROJECT.json` lists every part with its status, and the hazards of this code
with the properties that watch each of them.

## 2. Plan

Done, in this order: the core (`Commands`, `Execution`, `Handover`); the rules and
the advancer of a flow (`Flow`, `Workflow`); what runs beside the flow
(`Leadership`, `Requests`, `Outbox`, `Stream`, `Transfers`); what feeds the batches
(`Inventory`, `Planner`, `Schedule`, `Tasks`); what people decide at their desks
(`Records`, `Sops`, `Recipes`, `Plans`, `Acceptance`, `Stations`, `Upkeep`,
`Definitions`, `Access`, `Staff`, `Removal`, `Watch`); the proofs of section 5.

Left: a module for commands split into one device call per sample (a crash between
two samples); row locks over several tables in one model (deadlock); the
composition of `Workflow` with `Execution`, which today share the receipt and the
queued command as an interface but are checked apart; the properties of the frontier
of `Workflow` for every flow. What is proved today is `Execution` but for its one open
attempt, the conclusions and the signals of `Workflow`, the four parts of the site that
have safety properties, and every part of the desk but the removal of an identity and
the watch over alarms.

## 3. What is modelled

### `Commands`

What a command row and a step run are, and the readings of the command table that
`repositories/execution.py` and `services/batch_service.py` share: which commands
are queued, in flight, engaged, without a verdict, occupying a channel. They are
operators over a table given as an argument, because a handler such as
`_finalize_abort` reads the table half way through its own changes. `Issue` adds
rows under fresh ids; ids are bounded by `MaxCmd`.

A command has three independent aspects, as in the code: `state` (what the
executor and people concluded), `delivery` (did it reach the device) and
`outcome` (what the device said). `started` stands for `started_at`.

### `Execution`

| Variable | Code |
|---|---|
| `batch`, `current` | `batches.state`, `batches.current_step` |
| `cmd` | `commands` |
| `run` | `step_runs.state`, one sequence of attempts per step |
| `ack` | the `device_ack` row in `workflow_events`, one per command (its key) |
| `acur` | `adapters.current_command_id` |
| `job` | a station worker between two commits: phase, what it is doing, the run row it locks, the answer, and the values it read before the call |
| `phys` | what the device really made of a command |
| `trouble` | how many things have gone wrong |

A database transaction is one action, with one exception that is the point of the
model: a worker's device call splits its transaction in three. `Begin` or `Ask`
reads the batch, the command and the control target; `DeliverAction`,
`DeliverControl` or `Answer` is the call; one of the `Settle` actions writes back
from what was read, over whatever the rows hold by then. SQLAlchemy writes an
attribute only where it differs from the value read; `Fault` models exactly that,
and three of the findings live there.

| Actions | Code |
|---|---|
| `Dispatch`, `Hold`, `Abort`, `Recover`, `Verify*` | `batch_service.py`: one transaction under the batch lock each |
| `Withdraw`, `Refuse`, `Claim` | `execute()` up to its first commit |
| `Begin`, `BeginRefused`, `BeginMoot`, `BeginUnsupported` | the second transaction of `execute()`, `_perform()` up to the call |
| `Ask` | `poll_running()` and `reconcile()` up to the query |
| `DeliverAction`, `DeliverControl`, `Answer`, `DeviceFinish` | the device (external): the call may be lost, refused, taken up or finished at once; its answer may be lost or blurred; the device may forget |
| `SettleRunning`, `SettleActionDone`, `SettleHoldDone`, `SettleAbortDone`, `SettleFailed`, `SettleLost` | `settle()` and the error branches of `_perform()`, `poll_running()`, `reconcile()` |
| `ReconcileBlind`, `ReconcileMismatch`, `Timeout` | the branches of `reconcile()` and `check_timeouts()` that do not call the device |
| `Interrupt` | the process dies or its transaction is killed: what was not committed is gone |
| `FinishAborts` | `finish_hanging_aborts()`, `reconcile_abort()` |
| `ProcessAck` | `process_event()` on a receipt: completion, opening of steps, end of the batch, or rejection |

The steps of a batch are independent device actions, i.e. several roots of a
dependency graph (graph mode), each with its station. That is the shape in which
stations work in parallel for one batch, so every race between workers is there;
edges between steps belong to `Workflow` in the plan. Delays (`not_before`, a closed
gate, waiting for acceptance) need no action of their own: a queued command may
always wait. The many reasons to refuse a delivery are one action, `Refuse`.

People are truthful but free: any operator action at any time it is allowed, any
verdict that matches what the device did, never forced to act.

`Trouble` counts crashes, refusals, failures, lost or blurred answers and timeouts
together; only their number is bounded. Aborts, recoveries, holds, retries and
races need no trouble and are bounded by `MaxCmd` alone.

### `Handover`

The promise the queue makes about one action command, as a specification of its
own: nobody has decided, it may have been sent (`Give`), or it will never be seen
(`Bar`); a device takes it up at most once (`Take`), only when given, and a
command that was taken up is never declared barred. The automatic retry and the
recovery rest on the last part: they issue a fresh command for the same physical
action. `Execution` maps `fate` to the delivery of the row and `taken` to what the
devices did.

### `Flow` and `Workflow`

`Flow` has the rules of a flow as operators (`domain/graph.py`, `domain/steps.py`,
`domain/workflow.py`): predecessors, frontier, which path an exit belongs to, when
everything is resolved. `Workflow` is the advancer: instances of steps (`runs`),
persisted events with claims, retries and backoff (`events`), what has been advanced
already (`claims`, the `step_advances` rows), gates, branches, merges, splits, signals,
deadlines, hold, recovery, skipping and redoing. Processing an event is two steps,
`Begin` (row lock of the instance, the batch read without a lock) and `Apply`;
what a transaction still has to do when a step concludes at once and opens others is
its `agenda`, during which nobody interferes. A device step has a command that is
queued, acting, held or over; `Execution` has the rest of it.

### Beside the flow

| Module | Code | State | What makes it hard |
|---|---|---|---|
| `Leadership` | `services/leadership.py`, `services/executor_runtime.py`, `src/executor/main.py` | advisory lock, process, watchdog interval, grace, the job in hand, commands, how often a device was called | the lock is free at once when a connection breaks, the old process notices within an interval |
| `Requests` | `api/deps.py`, `core/db.py`, `core/events.py` | requests in hand, lock and record of the key, committed changes and events, answers told | the lock may be lost, the process may die, the pool may be empty, a savepoint may be rolled back |
| `Outbox` | `services/integration_service.py` | rows, subscription, the pass in progress, what the receiver got | lease expiry, edits and repeats while a row is in hand |
| `Stream` | `core/events.py`, `core/stream_hub.py`, `api/routers/stream.py`, `web/src/shared/stream.ts` | data version, hub, notifications, queues, fetches under way, pages | notifications are lost, queues overflow, fetches overtake each other |
| `Transfers` | `services/transfer_service.py`, `domain/labware.py` | plates, where they really are, transfers, places, scans | rides, scans, stops and verdicts in any order |

### What feeds the batches

| Module | Code | State |
|---|---|---|
| `Inventory` | `services/inventory_service.py`, `consumption_service.py`, `material_service.py` | lots, reservations, ledger, row locks, open transactions; a transaction reads first, then locks row by row without reading again |
| `Planner` | `domain/scheduling.py` | operators: where each step of a recipe is placed between windows, transfers, clean time, assistants, hard gaps, plates |
| `Schedule` | `services/schedule_service.py`, `reschedule_service.py`, `proposal_service.py` | clock, batches, windows, real progress, maintenance, proposals, the request that waits for the lock with what it read |
| `Tasks` | `services/task_service.py`, `domain/tasks.py` | the task rows, their batches, acceptances, the request that has checked and not yet written; the state of a task is derived |

### At the desk

| Module | Code | Subject |
|---|---|---|
| `Records` | `analysis_service`, `device_result_service`, `report_service` | analysis tasks, values with corrections and reviews, reports with versions and signatures |
| `Sops` | `sop_service`, `domain/sop_steps.py` | periods of effect of the versions, keys of steps, guides, acknowledgements |
| `Recipes` | `recipe_service`, `domain/steps.py`, `domain/subflow.py` | step ids, sub-flows, review, release, revision, equipment that comes and goes |
| `Plans` | `plan_service`, `domain/approval.py` | lock, levels of approval, signatures, withdrawal, restoring, revision |
| `Acceptance` | `acceptance_service`, `adapters/acceptance.py`, `point_service` | registration and driver of a device, acceptance runs, the gate before delivery, manual point writes, the worker's pass with crashes |
| `Stations` | `station_service`, `asset_service`, `domain/recipe_rules.py` | assets, stations, limits, capabilities, open windows, recipes that must be told |
| `Upkeep` | `maintenance_service`, `asset_service`, `domain/resources.py` | bookings, maintenance orders, calibrations |
| `Definitions` | `method_service`, `template_service`, `report_template_service`, `metric_service` | versions of catalogue entries, updates under way, and what refers to them |
| `Access` | `identity_service`, `domain/permissions.py`, `api/deps.py` | accounts, roles, the saved matrix and its upgrades, one-shot signatures, device services |
| `Staff` | `people_service`, `domain/qualification.py`, `task_service` | qualifications against work given ahead |
| `Removal` | `force_delete_service` | closure, blockers, signature and deletion, with rows that arrive in between |
| `Watch` | `monitoring_service`, `alarm_service`, `exception_service` | alarms for conditions, two evaluators at a time, rules that handle a fault |

**Transactions that cross.** The services run at READ COMMITTED; row versions are compared
in Python only (`repositories/base.py:44`), a statement writes only the columns that
changed, and few handlers outside the batch take a lock. What a handler checked may
therefore be stale when it writes. The modules differ in how much of that they have:

- Two steps, check and write, with everything else in between: the worker's calls
  (`Execution`), an event (`Workflow`), a scan (`Transfers`), a booking of stock
  (`Inventory`), a request that waits for the schedule (`Schedule`), new conditions and a
  dispatch (`Tasks`), the judgement of a sample (`Records`, where `Look` is a request's reading
  of its batch and tasks), an update of a catalogue entry (`Definitions`), of an account
  and of the matrix (`Access`), a removal (`Removal`), an evaluation (`Watch`), the order with
  its booking (`Upkeep`).
- One step: the register of the equipment (`Stations`), the handlers of documents and
  plans (`Recipes`, `Sops`, `Plans`), releases and retirements of definitions, the handlers of
  a report. Their properties are of requests in any order, one at a time; that two of them
  which cross can leave what each alone would refuse is listed as a hazard without a property.

Signature tickets may name no object and no version, as `create_signature` allows; the handlers
that consume without `strict` (`identity_service.py:492`) take such a ticket for any. Steps of a
recipe may come with any id the editor sends (`domain/steps.py:115`). Both are in the models.

### Instances

`MCExecution` and `MCWorkflow` extend the module they instantiate. `MCSite`, `MCLab`
and `MCDesk` hold several modules that share no state: `focus` says which one moves, so
that one run explores them one after another without their product. The parameters of
`MCSite` and of the parts of `MCDesk` that are proved about are constants that the
configurations give values to, so that the theorems hold for all of them; `NoneIsNothing` (the mark for absence is no thing of a part)
and `LeaseIsTime` are assumed of those of `MCSite`; section 5 lists what is assumed of
those of `MCDesk`.

## 4. Runs

| Run | Instance | Properties |
|---|---|---|
| `parallel` | 1 batch, 2 steps at 2 stations (the second can neither hold nor be queried), 4 commands, 1 trouble | `BooksCoverDevice`, `AbortedMeansStopped`, `HeldMeansStill`, `OneAttemptOpen` |
| `shared` | 2 batches at 1 single-channel station, 3 commands, 1 trouble, automatic retry allowed | `TypeOK`, `SingleAction`, `OneActionPerChannel`, `KeepsPromise` |
| `aborts` | 1 batch at 2 stations, 4 commands, no trouble, fairness | `AbortConcludes` |
| `flow` | six flows of 2 to 5 steps: join, choice with a loop, list with rework, two steps on one plate, per-sample routes, a gate that scraps | `OneAttemptUnderWay`, `NothingLeftBehind`, `DoneMeansResolved`, `PathIsChosen`, `NoMissedSignal`, `ConclusionsStand`, `EventsSettle` |
| `site` | 2 replicas; 3 requests under one key with 2 bodies and 4 connections; 2 deliveries; 1 page with a queue of 1; 2 plates and 2 batches | `OneHandAtATime`, `OnceAndTold`, `NothingLost`, `PlatesAccountedFor` and, under fairness, `AllSettled`, `EveryRequestEnds`, `EveryDeliverySettles`, `PagesCatchUp` |
| `lab` | 2 lots and 2 batches; receipts that overlap; 2 batches on 4 stations of 3 assets, a request that read its batch early; trees of tasks with one slow request | `StockHolds`, `OverlapsAreReported`, `PlanHolds`, `UpstreamHasEnded`, `FrozenWindowsStand` |
| `desk` | fifteen parts, each with two or three rows and a budget of edits | `SettledOnlyWhole`, `ReportsStand`, `DocumentsHold`, `SignaturesStand`, `GateHolds`, `RegisterHolds`, `UpkeepHolds`, `DefinitionsHold`, `AccessHolds`, `RemovalHolds`, `WatchHolds` |
| `restart`, `repeat`, `retried`, `stock`, `models` | the smallest instance that shows it | one property each, violated (section 6) |

The comment before each property says what it means and which code it is about.

**Bounds.** Three commands on one step give dispatch, hold and resume, or dispatch,
abort and the abort's own trouble, or dispatch, retry and hold; the fourth lets two
stations be held or aborted at the same time, or two batches hand a channel back
and forth. One trouble can hit any call, commit or answer; two give a crash whose
reconciliation is lost as well. Two stations are enough for the races between
workers, which are pairwise (they meet in the batch row); two batches are enough
for those over a channel. Elsewhere two of a kind that compete (replicas, bodies,
lots, plates, versions, administrators) and one more event than is needed to
go wrong and come back. No symmetry is used: steps, versions and rows are ordered.
In `desk` a plan is edited once (`MaxPlanEdits`), which with two bodies, a withdrawal, a
revision and a restored version is enough for a signature to be of another content; a catalogue
entry once (`MaxDefEdits`), the update that crosses a release; a recipe twice (`MaxRecipeEdits`), so
that an id may be taken out and come back, or be brought along by the editor; a sample has two
values and two tasks (`MaxValues`, `MaxTasks`), one to be there and one to be missed. `Value`
has one member: values are told apart by version. In `lab` and `desk` one request at a time is between its check and
its write, except for updates of definitions and accounts and the evaluators, of which there are two.

**Deadlock** is not checked: when all batches have ended and all commands have a
verdict, or when a bound is used up, there is nothing left to do.

**Fairness.** `Execution` (`Fairness`): `executor_runtime.cycle` starts a worker for
every station with open work in every cycle, and a worker's pass tries each
unanswered command, each one in flight and each queued one in turn; hence strong
fairness of the claim or withdrawal and of the question, command by command: a
worker that is busy with another command makes them unavailable again and again,
but only for a while. A device call returns or times out (`adapters/` set a timeout
on every call), so a worker's current step is weakly fair. `advance()` processes
pending receipts and `finish_hanging_aborts()` runs in every cycle. A device that acts
comes to an end. `Leadership`: containers are restarted (`docker-compose.yml`), clocks
go on, a waiting replica keeps trying. `Requests`: a thread that can go on does; the lock
and the pool serve who waits. `Outbox`: a pass runs in every cycle. `Stream`: the hub
reconnects, pages poll. Nothing is assumed of people, and nothing of crashes except
their bound. In `site` the premise `focus = ... /\ Fairness` is part of the property,
so that one run serves all parts.

Each property of a passing run has a mutant of the code in the modules (operators
named `..._Mut`): a plausible bug, such as an unknown outcome that no longer counts
as acting or a lost answer taken for "not sent". Each is caught by the property it
is listed with.

Some properties are stated and explored outside the runs: `EndedStaysEnded`,
`UnknownStopsBatch` and `HoldIsNotOverrun` (`Execution`) are violated, see section 6;
`OneReleased` (`MCDesk` with `Parts = {"siblings"}`) and `BreaksAreMadeGood` (`MCSite`) as well.
`PagesCatchUp` rests on the poll of a page alone; the gap between a snapshot and its stream is
open in the model as in the code, and no property says otherwise.

## 5. What is proved

Eight modules of proofs: `Execution_proofs` about `Execution`, `Workflow_proofs` about
`Workflow`, `Site_proofs` about the parts of `MCSite`, `Sops_proofs`, `Recipes_proofs` and
`Records_proofs` about the modules they are named for, `Office_proofs` and `Desk_proofs`
about the parts of `MCDesk`. They hold for every set of batches, steps, stations, flows,
signals, replicas, handlers, bodies, rows, plates, places, people, roles, documents,
devices and equipment and for every value of the bounds.
Hypotheses beyond the assumptions on constants stand in the theorem itself.

| Theorem | Says | Hypothesis |
|---|---|---|
| `TypeCorrect` | `TypeOK` | |
| `HandInvariant`, `ImplementsHandover` | `HandInv`, `KeepsPromise` | |
| `BasisInvariant` | `Basis`, the invariant under all that follow | |
| `HeldStandsStill` | `HeldMeansStill` | |
| `CoverInvariant` | `CoverInv` | one channel per station |
| `NothingMovesUnseen` | `BooksCoverDevice` | one channel per station |
| `AbortStopsAll` | `AbortedMeansStopped` | one channel per station |
| `StepDrivenOnce` | `SingleAction` | one channel per station |
| `DoneInvariant` | `DoneInv` | |
| `ChannelsAreKept` | `OneActionPerChannel` | one channel per station |
| `FlowInvariant`, `FlowTypes` | `FlowInv`, the types of the advancer's variables | |
| `ConclusionsHold` | `ConclusionsStand` | |
| `NoSignalIsMissed` | `NoMissedSignal` | |
| `SiteInvariant` | the invariants of the four parts of the site | |
| `OneActs` | `OneHandAtATime` | |
| `KeyHasOneEffect` | `OnceAndTold` | |
| `DeliveriesAreKept` | `NothingLost` | |
| `PlatesAreAccountedFor` | `PlatesAccountedFor` | |
| `DeskInvariant` | the invariants of plans, accounts, duties, definitions, assets and the gate | |
| `PlansRunAsSigned` | `SignaturesStand` | |
| `WhoMayDecide` | `AccessHolds` | |
| `DefinitionsStand` | `DefinitionsHold` | |
| `AssetsFitAlways` | `UpkeepHolds` | |
| `UsedAsAccepted` | `GateHolds` | |
| `DocumentsAlwaysHold` | `DocumentsHold` | |
| `SamplesAreSettled` | `SettledOnlyWhole` | |
| `ReportsAlwaysStand` | `ReportsStand` | |
| `EquipmentStands` | `RegisterHolds` | |
| `SopsHold` | `OneInEffect`, `GuidedByItsOwn` of `Sops` | `SopsAssumed`: times and numbers of steps are numbers, `None` is none |
| `RecipesHold` | `IdsNameOneStep` of `Recipes` | `None` is no number |
| `RecordsHold` | `SettledOnlyWhole`, `ReportsStand` of `Records` | |

**`TypeCorrect`: `Spec => []TypeOK`.** `TypeOK` is not inductive: an action reads
the row its worker is busy with, the target of a command, the run its command
belongs to. The inductive invariant is

    TypeInv == TypeOK /\ Books(cmd) /\ CurrentOwn /\ BusyWithOwn

- `Books(cmd)`: the target of a command is an issued command;
- `CurrentOwn`: a batch's current step is one of its own;
- `BusyWithOwn`: a worker that is busy is busy with an issued command of its station.

`Execution_proofs` begins with what issuing, withdrawing and marking do to a well-formed
table, and has one lemma per action.

**`ImplementsHandover`: `Spec => KeepsPromise`.** The invariant is
`HandInv` (theorem `HandInvariant`):

- `PhysGiven`: what a device took up is given in the books;
- `BusyGiven`, `FlightGiven`: a command a worker is busy with, or that is in
  flight, is given, so no withdrawal can bar it;
- `NotYetTaken`: a command between its claim and its first delivery has not been
  taken up, so the delivery is the first.

For each action a lemma `...Writes` says of which commands it writes the delivery,
and to what. Four lemmas over such writes (nothing of interest, a claim, a
withdrawal or refusal, a delivery) turn that into preservation of `HandInv` and
into a stutter, `Give`, `Bar` or `Take` step of `Handover`; the theorem combines them.
The point of the invariant is `BeginRefused`, which declares a command not sent
although its claim said it may have been, and `Fault`, which may be about a command
that another worker holds: both are legal steps of `Handover` only because the
command is between claim and delivery, or already given.

**What a step does to a row.** The theorems on `Execution` that follow do not go through
its actions once for every invariant. The second half of `Execution_proofs` names what a
step can be, and shows once, one lemma per action, that each is one of three kinds
(`NextMoves`):

- `BookStep`: the tables change, the calls do not. Each old row is kept or taken one
  of eight other ways (`Row`: withdrawn, faulted, voided, turned running, done, taken over,
  held, cancelled), each with the condition under which the code does it; each new row
  is a `NewRow`; the batches move as `BatchMoves` says; no worker begins anything
  (`JobsCalm`); a device moves only where a person stops it (`PhysCalm`).
- `CallStep`: the tables stand. Workers begin a call, ask or are answered
  (`Begins`, `Asks`, `IsAnswered`), devices move as `PhysMove` allows and do what the
  command names to its target (`Obeys`).
- `Claim`, the one step by which something comes to be under way.

Everything after that is concluded from these kinds alone. Whoever changes a handler
proves its lemma again and has all the theorems back.

**`BasisInvariant`: `Spec => []Basis`**, with `Basis == TypeInv /\ HandInv /\ BookInv /\
DeviceInv`. What makes these handlers hard is that a worker writes back from what it
read before its call; so `BookInv` relates rows, targets and the workers' memory:

- `TargetsFit`, `StatesFit`: a target is an action of the same step that has left the
  queue; state and delivery of a row go together;
- `OneAtATime`: at a station one command at most is claimed or in a worker's hands, even
  where it has several channels; `SubmitsAccepted`: what is being delivered was accepted;
- `CallsRemember`: how far the row may have moved since the worker read it;
- `TargetsFirst`: a hold, abort, resume or retry is not sent before the action it names
  is settled; without it an abort could be confirmed before the action it stops arrives;
- `ControlsStand`: nobody decides on a hold or abort that a worker is busy with;
  `NotYetDispatched`: a scheduled batch has no commands.

`DeviceInv` relates them to the devices: an answer not yet settled is still true
(`AnswersTrue`); what a resume or retry names stands still, and is let go when the
new command is taken up (`ResumedAtRest`, `ResumedLetGo`); a device that has done an
abort or hold has stopped its target (`AbortsStop`, `HoldsStop`); what the books call
held or superseded does not move (`HeldAtRest`). `HoldsWait` was the part TLC had to
show: a hold issued with nothing in flight names no action, and nothing of its
batch may start while it is unanswered. `HeldStandsStill` is `HeldAtRest`.

**`CoverInvariant`.** `CoverInv` adds to `BooksCoverDevice` what makes it inductive over a
basis: an action without verdict that the device has done is not forgotten
(`DoneIsKnown`), of two actions of one step that are up one takes over the other
(`OneUp`), and nothing acts or is about to act for an aborted batch
(`AbortedIsOver`). `NothingMovesUnseen`, `AbortStopsAll` and `StepDrivenOnce` follow
from it.

The hypothesis `SingleChannel` is the schema's default (`models/resource.py:113`); the seed has
one station with eight channels. It is needed: the proof attempt without it led to a
run of events, confirmed by TLC on a script of these steps, in which a station with two
channels loses an action from its books. An action *c* runs; a hold and three aborts of
it get no answer and the batch is in fault each time. The first abort and the hold are
verified as not executed, so that the step counts as running again. A poll of *c* is
answered "unknown command" and not yet settled. *c* ends, and the second abort is
verified as executed, which cancels *c*; the third abort is still without verdict, so
the batch is not ended. It is verified as not executed, and the resume issues *d* for the
same attempt. Now the poll is settled: *c* becomes unknown, but the batch, which was
read in fault, is not put to fault and runs on. *d* is claimed on the second channel,
acts and is held. *c*, verified as executed, completes the step and supersedes the held
sibling *d*, which the device still holds: `BooksCoverDevice` is violated, after an abort
also `AbortedMeansStopped`, after a further resume also `SingleAction`. It takes seven or
eight commands and six troubles, far beyond what TLC can search freely; no run has a
station with two channels. With one channel the claim of *d* waits for the verdict on *c*.

**`ChannelsAreKept`.** With more than one batch at a station the books' own count of
what occupies a channel (`occupying`) leaves ended batches out, so one has to know
that nothing undone is left behind by a batch that ends. `DoneInv` says it: a batch that
is done has had every step completed (`DoneIsComplete`), and no worker commits over a
step run that has completed, because it holds the row's lock (`LockHolds`). It needs
what each step makes of the attempts (`RunNext`: only a receipt completes one).
`ChannelInv` then counts as `Live` also the command whose call is under way: outside a
claim nothing comes alive (`LiveShrinks`), and at a claim the channel is free but
for the target (`ChannelIsFree`, `ClaimedAlone`). The exemption of completed steps in
`OneActionPerChannel` is the finding `repeat` of section 6: without it TLC has a
counterexample of 19 states with four commands and no trouble.

**The flow.** `ConclusionsStand` and `NoMissedSignal` are proved for every set of sound
flows (`Sound`, what the release of a method checks) with at least one step. The hard
part is the transaction that writes: what it opens may conclude at once and open more,
and it may be refused half way. `FlowInv`, checked by TLC on the constants of `flow`
before it was proved, therefore says

- of the agenda (`AgendaFits`): only its first task enters an instance, the one just
  opened, and nobody has decided that one; this is why entering never rewrites a
  conclusion. What is planned opens steps of the flow only; for loops and reworks that
  rests on `Sound` (`LoopGoesBack`, `ReworkGoesBack`), for the frontier on
  `FrontierWithin`;
- of what is left when it is refused (`WorkFits`): the snapshot satisfies the same
  invariant as the tables it replaces, so that a refusal is sound although it throws
  instances away (`Refusal`);
- of instances (`RowsFit`): a wait nobody has decided is `waiting`. Nothing but opening
  makes an instance wait, so an early signal has one place where it must be looked for;
- of signals (`SignalsFit`): the instance a signal has woken is the one that carries it,
  which makes two signals of one instance the same; none waits for a signal that has
  come and woken nobody. Opening takes the early signal in the same step
  (`OpeningFits`), arriving takes the first that waits (`SignalStep`).

An action is not related to these parts one by one: it shows that its instances evolve
(`Evolves`: every row changes as `RowTame` allows and new rows do not wait), which
composes over the parts of a handler (`EvolvesOn`; recovery has four), keeps conclusions
(`EvolvesKeeps`) and signals (`SignalsStillFit`); only openings and signals need more.

**The site.** `SiteInv` is the conjunction of one inductive invariant per part; the
parts share no state (`OthersStay`).

- `LeaderInv`: of two replicas that have led and live, one is in its grace period and
  the other has lost the lock, and the grace that is left outlasts what the other's
  watchdog needs (`GraceOutlasts`); jobs exist only at a leader, and a device has taken a
  command up only after it was marked.
- `RequestInv`: what a request in progress has done is held back until its one commit
  (`HeldBack`), what is committed is nothing or one request's whole work with its events
  (`OneCommit`), and every reply held or told agrees with the record.
- `OutboxInv`: the row in hand stays pending, and what its sending has come to is true of
  it (`InHand`).
- `PlateInv`: every plate is on the shelf, in the air or where the log says, and no two
  share a place or a destination, also when scans overlap each other and the rides. That the
  row of a plate agrees with the log does not hold and is not claimed (section 6).

**The desk.** The parts of `MCDesk` share no state; each has an inductive invariant,
checked by TLC before it was proved, and `OthersStay` leaves it alone while another part
moves. What each of them needs beyond its property:

- `PlansInv`: the current version of a plan is the last one and is open only in review;
  a level that is concluded was concluded by whom it asks, and on the content the version
  still has if its signature names a version; such a ticket has seen the plan as it is unless
  the version number has moved on.
- `AccessInv`: no matrix, saved or about to be saved, gives away what is for administrators
  (`NothingKept`); what the last save took away is known to the program that merges
  (`TakenKnown`), so that no upgrade takes it for new.
- `StaffInv`: work stays covered at both ends of its window unless something was taken
  from its person since (`WorkCovered`); between the ends the need is unbroken, because
  a qualification is in force over an interval.
- `CatalogueInv`: what was approved says what it said then or what an update under way
  then writes, and every update still under way on it is one of those (`RowsApproved`,
  `SaysOf`); a reference points to a row that is kept.
- `UpkeepInv`: the bookings in force never overlap in more than the capacity at any
  moment, also of those nobody asks about (`FitsAlways`); an order that has ended has
  given its booking back (`EndedIsFree`).
- `GateInv`: what the gate lets through is what was proved last or is being proved by the
  run in hand (`OpenIsProved`, `CheckIsFor`, `ReportIsProof`), where the run in hand may
  be of a version of the registration that is gone (`SignedFor`); a crash leaves a run
  without worker, and nothing of it counts.
- `DocumentsInv`: the invariants of `Sops` and `Recipes`. Windows of published versions
  lie apart; a key belongs to one step for ever, so that equal keys are equal steps
  (`KeyIsStep`); a recipe and its revisions remember every id they ever had
  (`ParentsFit`), which is what keeps the system from giving one out again; ids that editors
  bring along are only told apart at the submission (`AllDistinct`).
- `ResultsInv`: the invariant of `Records`. Tasks that are collected have their values, and so
  do those a request under way has read as collected, for values are superseded only by
  others (`Sound`); only the last version of a report is still worked on, and a ticket that
  names it saw it unless it moved since (`SeenOn`).
- `RegisterInv`: the windows find their station (`WindowsStand`), stations keep within
  their asset (`ChannelsAll`), and a recipe that is not marked has a station that carries
  its step out (`FlowsTold`). `RevisionIsTold` speaks of capabilities in use only; it is
  inductive without that condition on what stations and options say, because retiring a
  capability looks at no recipe and bringing it back neither (`Meant`). Changes of models
  and assets do not matter to a step without a device method, which is where the part
  `models` differs (`ModelsAreTold`, section 6).

`Desk_proofs` uses the last-named modules of proofs as instances, with the substitutions
`MCDesk` makes (`PeriodsFacts`, `GuidesFacts`, `FlowsFacts`, `SiblingsFacts`, `ResultsFacts`,
`ReportsFacts`); the lemmas `DocumentsAreTheirs` and `ResultsAreTheirs` say that both
instances have the same steps.

**What the attempts found in the models.** `Acceptance` said that the approved driver was
always one that somebody answers for; that is not so once the connection is changed and
the digest of the driver changes again, since `driver_approval` is never cleared
(`acceptance_service.py:167`). `DriverVouched` now says what holds: it stays the last one
approved by name. Several case distinctions had overlapping guards, of which TLC takes the
first and a proof any; they are disjoint now. The key of a new SOP step, the walk
through sub-flows and the rows of derived values are stated without recursion and without
patterns, so that they can be reasoned about.

**Assumptions** on the constants: steps are numbers, each has a batch and a
station, each batch has a step, stations have at least one channel
(`StepAssumption`, `PlanAssumption`, `ChannelAssumption`); capabilities and policies are
about these sets (`PolicyAssumption`); `BoundAssumption`; `NoneIsNothing` and `LeaseIsTime`
of `MCSite`; of `MCDesk`, that the mark for absence is no thing of a part (`NoneIsNothing`),
chains of approval are chains (`LevelsAreChains`), administrators' rights come with no other
role (`RolesAreOthers`), a laboratory starts with an administrator (`LaboratoriesAreRun`),
times, lengths and capacities are numbers (`MomentsAreTime`, `SopsAreShort`, `AssetsAreUsed`),
a driver has a name (`DriversAreNamed`), an adapter is reached somewhere
(`AdaptersAreReached`) and the equipment fits together at first (`EquipmentIsRegistered`); in `Workflow`, a flow has a step (`FlowsAssumption`, a method without one is
not released) and "" is no signal (`SignalsAssumption`).

**Only model-checked**: liveness, which is out of TLAPS's reach under fairness;
`OneAttemptOpen`, whose induction would need that the open attempt is the last one
and that a step moves at most one action, and that part fails in holds
that name no action; `OneAttemptUnderWay`, `NothingLeftBehind`, `DoneMeansResolved` and
`PathIsChosen`, which need what the passes of `Frontier` compute (a fold over the steps,
whose induction TLAPS cannot instantiate); the properties of `MCLab`, whose modules reach
recursive operators (`Planner`, `Tasks`) or sum over data (the ledger of `Inventory`), which
TLAPS cannot take; `RemovalHolds`, whose closure goes as deep as the schema of the rows;
and `WatchHolds`, whose rules and evaluators overlap in more ways than the invariants
found so far describe.

## 6. Where code and documents disagree

Five runs exhibit a behaviour that a comment or document rules out; the quotations
are in `PROJECT.json`.

- `restart`: the step turns to running in the transaction of the settlement, not in
  that of the claim. A crash in between leaves a finished action whose receipt is
  refused: the step stays open, and a recovery repeats the physical action.
- `repeat`: a batch held just after its action has finished, and resumed before the
  receipt is processed, gets a second command for the same attempt. Nothing has to
  go wrong for it. It has a second consequence: the receipt may end the batch while the
  repetition still acts, its station then counts as free (`occupying` leaves ended
  batches out) and the next batch's command is sent to a channel that is in use.
  That is why `OneActionPerChannel` sets repetitions of completed steps aside.
- `retried`: a retry voids the current instance of a step only if it is ready or
  running. One that waits for the plate stays, the retry opens and drives a second one,
  and when that has completed the waiting one is released and driven: the device does
  the step twice. It takes a hold that comes too late for an action that ends by
  itself, so that the batch is paused with the waiting step as its current one. The instances
  a retry leaves are `batch.left`, which `DoneMeansResolved` sets aside.
- `stock`: the balance of a lot is computed from the row as it was read before its
  lock was taken.
- `models`: a released recipe whose device method no longer fits any asset is not
  marked when the model of the asset changes.

Others that the models show and no run of the list keeps (each can be seen by
putting the property named into a configuration):

- `EndedStaysEnded` (`services/execution_service.py:1406`, comment on the next line): a
  late answer, settled from a batch read before the call, puts an ended batch to fault.
- `UnknownStopsBatch` (`execution_service.py:1408`, `ARCHITECTURE.md:95`): the mirror
  image: the batch read was already in fault, so fault is not written, and the batch
  recovered meanwhile runs on with an unknown outcome.
- `HoldIsNotOverrun` (`ARCHITECTURE.md:107`): the exception engine puts a batch back to
  running while a station has yet to confirm its hold, which people may not do.
- `OneReleased` (`recipe_service.py:503`): only the direct parent is retired, so two
  revisions of one released recipe both end released.
- `BreaksAreMadeGood` (`web/src/shared/stream.ts`): after a break the hub keeps saying
  it is connected.
- `BooksCoverDevice`, `AbortedMeansStopped` and `SingleAction` at a station with two channels
  and seven or eight commands (`execution_service.py:1408`, the write of fault that is left out
  because the batch was read in fault): see section 5.

Others that are steps of the models, and that the properties are worded around:

- `schedule_service.py:263` says the windows of opened steps are never moved; a request that
  read its batch before the release (`batch_service.py:1202`) moves or removes them
  (`FrozenWindowsStand` says that nothing else does).
- `models/labware.py:13` calls the log the source of a plate's place; a scan that read the plate
  before the confirmation of its ride committed writes the row over it, and the row then differs from the log.
- `analysis_service.py:207-209` has a sample done once its batch and its values are; a value
  that is taken in while the batch ends misses it and is missed by it, and the sample stays running until the next
  value, correction or cancelled task (`SettledOnlyWhole` only says that it is never done too early).
- `report_service.py:3-5`: a signature ticket without a version is taken for any version of the
  report, as for a plan (`plan_service.py:894`); and a report is published with values that were reviewed
  anew after it was built.
- `ARCHITECTURE.md:119` says that the ids of deleted steps are not used again; the server keeps
  every id the client sends (`domain/steps.py:115`, `recipe_service.py:143`), and the editor sends ids of its own
  (`RecipeEditorPage.tsx:260`).
- `acceptance_service.py:719` has every change since the acceptance accepted anew; a driver that
  changes and changes back between two answers is no news (`execution_service.py:1818`).
- `maintenance_service.py:3`, `ARCHITECTURE.md:292`: with two orders open on one asset the first
  that ends gives it back while the other is open, and one that failed may be in use.
- `report_template_service.py:157` says that a release freezes the sections; an update that had
  checked the draft before still writes into the released row (so do those of methods, device templates and metrics),
  and is in force from then on.
- `identity_service.py:306` says the last administrator cannot be removed; two updates at the same
  time that each see the other's administrator leave none.
- `force_delete_service.py:8` says that what only mentions the object has the reference emptied; the stations that assist a command
  (`Command.assist_station_ids`) and the station a value came from are neither followed nor cleared; `:22` says that what runs is
  spared; a batch that starts between the check and the deletion is removed.
- `monitoring_service.py:4` and `alarm_service.py:58-60` have one alarm for a condition; the monitor
  and a report that overlap may raise two.
- `ARCHITECTURE.md:185` rules cycles of conditions out; `create` makes no cycle check for a new
  task under a parent (`task_service.py:1344-1354`).

Observations, each at its place in the code, that readers of the models should know
and that no property is about. *Execution*: a cancelled operator hold is lifted by
`decide_branch` (`workflow_service.py:1279`); `rerun_from` accepts a step on a path not taken
(`ARCHITECTURE.md:173`). *Leadership*: everything rests on a live process's watchdog
firing within one interval. *Outbox*: a redelivery of the row in hand takes the outcome of
the attempt under way. *Transfers*: a plate may be scanned away between the end of its
ride and the action; the real place of a lost plate counts as free. *Inventory*: the
event "reverse" writes a line but changes nothing; a second identical count on one day
is taken for a repetition; a return after the batch's end leaves stock reserved.
*Schedule*: the takeover probe drops windows of other batches with the same start and
end; calibration expiry is checked before transfers push the step back. *Tasks*: `accept()`
does not check for cancellation, and what it read may be of the person before; a cancellation
covers direct children only, and neither it nor `unschedule` and `delete` take a lock against a dispatch; `dispatch`
ignores it, and conditions set after it has read them do not bind its batch. *Workflow*: a submission or
review that was rejected is processed again, as it was first sent, when somebody submits once more (`Resubmit`). *Records*: the event "not measured" skips
the check for an existing value; approved values may be reviewed again. *Documents*: editors other than
the author may approve their own edits of SOPs, methods, report templates and plans; retiring a future SOP
version leaves the current one's end standing; a deleted plan's number is used again.
*Stations*: lowering channels ignores open windows; retiring a capability marks no
recipe, later checks do and bringing it back does not unmark; capabilities of manual steps
and assistants are not looked at. *Upkeep*: a crash between the two commits of an order
leaves a booking without order; an order's booking can be cancelled by itself; a
"fail" on an asset a person set active leaves it active. *Acceptance*: run and gate are two commits, and two
steps of the model (`CloseRun`, `SettleGate`); the version a point write was checked for is not part of its claim (`point_service.py:232`).
*Definitions*: of two editors the later write wins, under the version number both expected, so
that a signature for one may count for the other; two releases at once may leave two versions in force. *Access*: the roles of the
request schemas and of `ASSIGNABLE_ROLES` differ. *Staff*: only the two ends of a window
are checked. *Removal*: a running acceptance run or point write blocks nothing; deleting a lot takes
the ledger lines of running batches along. *Watch*: the recovery of one condition settles events of
others; an accepted action that is found unfit after a person's hold is retried by rule, which puts the batch back to running.

## 7. What is not modelled

Of `Execution`: transfers and the state `manual` (see `Transfers`); per-sample runs of a
command; assisting stations, asset capacity and units; edges between steps (see
`Workflow`); alarms as a precondition of recovery (a person can always clear them);
the attempt limits of the retry policy (`MaxTrouble` bounds it; `Watch` has them); two executors at the
same time (see `Leadership`). Row locks are modelled where a handler waits for a worker
in a device call (`RunLocked`); deadlock of row locks over several tables is not.

Not at all: the web client apart from its stream (some 25,000 lines of pages), request
schemas, database migrations, seed data, deployment and load scripts, device wire
protocols, rendering of reports and labels, formulation arithmetic, the optimiser's
search (its result is checked by the same rules as any plan). They hold no shared state of
their own; together they are why the modules map about a quarter of all lines. `PROJECT.json`
lists each part with its status and reason.
