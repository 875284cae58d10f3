# Formal models of the workflow platform

TLA+ modules for `src/`, a FastAPI / Kafka / PostgreSQL platform that runs agent
workflows: an HTTP write side publishes events, background workers consume them,
a projection worker builds the read model. The modules are read against the code:
`PROJECT.json` names, for every definition, the lines it stands for.

Contents: [the system](#1-the-system) · [modules](#2-modules-and-the-code) ·
[runs](#3-runs) · [fairness](#4-fairness) · [findings](#5-where-code-and-documentation-disagree) ·
[proofs](#6-proofs) · [limits](#7-what-is-not-modelled) · [plan](#8-plan)

## 1. The system

One process image plays several roles. The API publishes; each worker role is one
consumer group (`*-consumers`) around the same loop, `BaseConsumerWorker`. All
state is in Kafka (topics, committed offsets) and PostgreSQL (read-model tables,
`processed_events`); processes share no memory and talk through topics and tables.

| Component | Source | State | Operations | Interacts with | What makes it hard |
|---|---|---|---|---|---|
| Consumer loop | `messaging/kafka.py:127-355` | position, batch, attempt; committed offset; `processed_events` | poll, check marker, handler, transaction, commit, retry, dead-letter, stop | every worker role | rebalances in mid-batch, crashes between two writes, a commit that fails after the transaction, poison and malformed records |
| Event publisher | `messaging/kafka.py:45-113` | the producer, or none | start, publish, stop | all | a send that raises may have arrived; the producer is stored before it has started |
| Execution command | `orchestration/service.py:61-164` | none | create_execution | agent.executions, audit.events | two publishes, the second may fail |
| Execution workers | `orchestration/service.py:166-472`, `graph.py` | locals of one pass | run workflow, emit steps, costs, terminal event | start event in; steps, costs, metrics, audit out | retry re-runs everything; failure while reporting failure |
| Run projection | `projections/projector.py:156-225, 338-366` | `execution_runs`, `execution_steps`, `cost_records` | upsert, update, placeholder | reads four topics | step events have random keys: any order |
| Registry commands | `registry/commands.py` | none | eighteen commands | registry.events, audit.events | no validation: reads nothing, so every conflict surfaces later |
| Registry projection | `projections/projector.py:67-154` | six tables with unique names and foreign keys | upsert, update, delete | registry.events | order across entities, refused transactions |
| Alerting | `alerting/service.py`, `workers.py:294-332` | `alerts` row per dedupe key | look up, cool down, publish, notify | anomaly and drift events in, alerts.events and webhook out | decides by a row that trails its own events |
| Anomaly, drift, metrics handlers | `monitoring/anomaly.py`, `drift.py`, `workers.py:56-291` | metric history tables | detect, publish | metrics in; anomalies, drift reports out | history read while it is being written; window sizes |
| Worker runtime | `worker.py`, `runtime.py:159-173`, `kafka.py:45-75, 348-355` | tasks of one process, their Kafka clients | startup, gather, cancel, await, shutdown | all roles | one failure stops all; a cancellation that meets a task inside its own clean-up |
| Health and heartbeats | `worker.py:19-43`, `monitoring/health.py`, `projector.py:269` | `worker_heartbeats`, one row per name | beat, project, classify | worker runtime, run projection's group | period against TTL; heartbeats lost or late; a dead worker whose heartbeats still arrive |
| Demo seed | `scripts/seed_demo_data.py` | the item it is at | look up, post, wait | registry commands and queries | decides by a read model that trails; broken-off and overlapping runs |
| Audit, queries, routers, core | `audit/`, `*/queries.py`, `*/api.py`, `core/` | audit rows | one insert or one read each | commands | none of their own |

What makes each correct:

- *Consumer loop*: database effects of a record exactly once; the committed offset
  never passes a record that is neither applied nor in the dead-letter topic; every
  record is settled in the end.
- *Execution*: `execution.finished` means a whole pass is out; a start event is
  marked only behind an outcome; the run's partition opens with its start.
- *Run projection*: the row follows the run's own partition whatever comes through
  the unordered topics, up to events that were parked and are applied late; references
  resolve; a closed run is reopened by nothing but such a late start.
- *Registry*: a row follows its entity's partition, again up to events applied late; a
  deployment that shows has what it refers to; a refused event never blocks those behind it.
- *Alerting*: an update carries the id of the row; suppression is always covered by
  a published alert; nobody is notified of an alert that is not in the topic.
- *Detection*: what is over the threshold, or departs from a flat history, is reported
  before its event is settled; no statistics without samples; a steady series is quiet.
- *Runtime*: no task runs without a started producer; a dead task ends the whole
  process; what is left open at the exit is explained by a failure.
- *Health*: a live worker never shows as stale, a dead one always does.
- *Demo seed*: a run that ends well has every item projected; it never runs ahead of
  the projection; a rerun repairs what an earlier one left half done.

`PROJECT.json` lists the hazards at the lines where they bite, with the properties
that guard against each.

## 2. Modules and the code

```
 ConsumerGroup ──implements──> GroupLedger
 ExecutionRun  ──implements──> RunEvents <──EXTENDS── RunProjection
 DemoSeed      ──EXTENDS, implements──> RegistryCatalog
 WorkerHealth  ──EXTENDS──> WorkerRuntime
 AlertPipeline      MetricAnalytics

 <M>Proofs   EXTENDS <M>, for ConsumerGroup, ExecutionRun, RunProjection, AlertPipeline,
             RegistryCatalog, MetricAnalytics
 WorkerProofs    EXTENDS WorkerHealth, and with it WorkerRuntime
 DemoSeedProofs  EXTENDS DemoSeed, RegistryCatalogProofs
 MC<M>       instances for TLC, for ConsumerGroup, AlertPipeline, DemoSeed
```

Every worker role is an instance of the consumer loop. It is modelled once in full
(`ConsumerGroup`); the role models use what it promises. `AlertPipeline` and
`ExecutionRun` keep its retries, marker and dead-letter step, because there the
handler's own publishes are what goes wrong (`MetricAnalytics` too, with one owner); `RunProjection` and `RegistryCatalog`
use it as `GroupLedger` describes: each event is settled, that is applied, once at
most, or parked, behind those before it. Settling is in partition order, applying is
not: parking leaves no marker, and a member that has lost the partition parks
without moving the committed offset (`_commit` returns, `kafka.py:281-292`) and goes on with
its batch (`kafka.py:206-207`). The next owner finds the parked event unmarked and may apply
it behind later ones. All role models let a parked event come again in this way.
(`GroupLedger!Skip`, the loss through a reset to the end of the log, is
examined in `ConsumerGroup` and not repeated in them.)

**GroupLedger** — the abstract specification of one group on one partition: append,
apply once, park, move the bookmark, and `Skip` for a group without a bookmark. A parked
record may be applied later, whatever has been applied since.

**ConsumerGroup** — `BaseConsumerWorker` for one group and partition. One member is
one coroutine; `pc[m]` names the await it stands at (`idle`, `check`, `handle`, `store`,
`commit`, `dlq`, `dlqCommit`, `lag`, `down`). `Poll` is getmany, `CheckProcessed` the
idempotency query, `HandlerSucceeds/Fails` the handler, `StoreSucceeds/Conflicts/Fails`
`session.commit()` with the unique marker, `CommitSucceeds/Fails` the offset commit
*inside* the try block, `ParkInDlq`/`DlqCommit…` the last attempt's path.
`Assign`, `LearnRevoked` and `Crash` are the coordinator, the client and the
orchestrator (external). A failed commit may or may not have reached the broker. The
committed offset may go back when an old owner commits: harmless, since markers
absorb the repetition, and the ledger allows it.

**RunEvents** — what consumers may rely on of one run's events.

**ExecutionRun** — `create_execution` (actions of `Command`), then workers: `Deliver`,
`BeginWorkflow`, one `EmitStep`/`EmitTelemetry` pair per node along `NextNode`, the
terminal event, the audit publish, the marker. Each publish may raise with or
without having arrived (`MaybeAppend`); so may the transaction's commit (`StoreFails`). A start
that has been parked can be delivered once more. The gateway's transport errors are turned
into node output by the gateway itself, so a node does not fail on them.

**RunProjection** — the row of one run with placeholder flag, step rows and costs.
Execution events are settled in order, and a parked one may be applied late (`Due`: the
next position and the parked ones; `execOvertaken` records what was applied behind a later
event). A cost is parked (`ParkCost`) when its agent or environment, foreign keys that nobody
resolves, is missing, or when its attempts fail otherwise. Steps are in any order, because
`default_partition_key` finds no `execution_run_id` at the top of their payload and
falls back to a random `entity_id` — unlike what the comment at `kafka.py:38-39` hopes for.

**AlertPipeline** — the signals of one dedupe key. `Lookup` reads the row
(`seen`, `sentAt`), `Suppress` and `Decide` the clock (`now`), `PublishAlert` and `Notify` use them
later; each is an await of its own. The projection
(`UpsertAlert`, `UpsertClashes`, `UpsertLost`) goes through an alert's events in order, and
those that were refused or lost may be applied later. Parked signals may come again too.

**RegistryCatalog** — the eighteen commands, each one event and one answer; a fault
takes the answer away but not the event. A client holds an id from an answer or
from a read of the registry (`Seen`: a row that names it has been there, even if it is
gone since); version ids are in no answer, so they come from reads only (that
clients do not dig them out of audit records is an assumption).
A transaction commits only if unique names and foreign keys hold; otherwise it
fails on every attempt and is parked with the reason. An event that is parked stays `Due`:
a create can be applied behind the delete that found no row to delete, and `overtaken`
records that. The relationships in
`models.py` state no cascade, so a session that deletes an agent first clears
`agent_versions.agent_id`, which is NOT NULL: `HasDependents`.
An agent's version row lives and dies with it, so the pair is one row. The
description, labels and other payload fields of a row are abstracted to `rev`, the
position of the event that wrote it last.

**MetricAnalytics** — the `metric.recorded` events of one series. `Project`/`ProjectLost` fill
`metric_samples`; the anomaly worker reads it (`ReadHistory`: the query, the reversal, the
event's own value behind it, all four detectors), publishes finding by finding
(`PublishFinding`, `PublishFails`) and stores its marker. `ReportDrift` is the drift worker's
evaluation of the same rows. Values are small integers and means and deviations are
compared as fractions (`Distance`, `Spread`), so the detectors are exact; how large PSI and
Jensen-Shannon scores are is left open, only where they are zero is not. Offset commits
that fail and second owners are left to `ConsumerGroup`.

**DemoSeed** — the script as a client of `RegistryCatalog`. Each of its runs goes through
`Plan`; for an item it looks for a row (`SkipsExisting`, `FindsNothing`), then, one query after the
other, for the rows the item needs (`ReadsNeed`, `MissesNeed`), posts what is not there
(`Posts`) and polls (`SeesRow`, `TimesOut`). An agent that is there still needs its graph
(`FindsAgent`, `SkipsAgent`). The ids an item refers to are used after they were read (`found`).
`Runs` are numbered as they start, behind or beside one another, and are broken off; a user deletes rows, or writes a
deployment's configuration anew (`UserChanges`). A deployment is recognised by the
`seed_key` in it, which nothing in the database guards and such an update loses (`KeepsKey`).

**WorkerRuntime** — `run()` of `worker.py` (`main` names the await it stands at), the publisher,
one task per consumer of the role and the heartbeat task. A cancellation is a
request (`asked`) delivered at the await the task stands at, so it also interrupts a
task that is inside `finally: await self.stop()`. `GatherEnds` is the first task that
ends; `AwaitNext` and `RaiseAgain` are the loop of `shutdown_consumer_tasks`;
`GoOn` enters `runtime.shutdown`, and `Exit` is what `asyncio.run` does with the tasks
that are left. Both kinds of `stop()` may raise (`ConsumerStopFails`, `PublisherStopFails`). `Interrupt` is the first SIGINT,
which also replaces the exception of a task that has failed but not been awaited yet, `Kill` any end without a handler. asyncio
and the Kafka client are modelled by how this code uses them.

**WorkerHealth** — the same process with time: `Beat` publishes a stamp, `Project` and `Lose`
bring it to the row or to the dead-letter topic, and `Stale` is what `_check_workers`
says by the row. Time is kept as ages; `Slack`, `Delay` and `MaxLost` bound what a working
platform does to a heartbeat (one that was parked and is applied late is beyond them: the
stamp it brings is an old one), and `HealthAssumption` says that together they stay below
the threshold of `2 * ttl`.

## 3. Runs

`CHECK_DEADLOCK FALSE` except in `runtime` and `runtime_stop`: the logs are bounded, so a
system that has consumed everything stops; a worker process is always started again.
All bounds are guards on counters named in CONSTANTS.

| Run | Question | Bounds | Why enough |
|---|---|---|---|
| `group` | exactly-once effects, no silent skip, implements `GroupLedger`, every record settled | 2 members, 3 records (the first poison, the third malformed), 2 attempts, batch of 2, one crash, one rebalance, one fault | two owners, a batch cut off by a rebalance, a record behind a batch, retry and park, and every single failure at every await |
| `execution` | completeness of finished, marker, `RunEvents`, decision | 2 executors, 2 attempts, 3 passes, 2 faults | two interleaved passes plus a retry of either |
| `projection` | row, references, what can reopen a closed run, catching up | 2 steps, 3 terminal events, 2 costs, 2 parkings | a step before and one after every execution event; contradicting terminals of two passes; a start parked and applied behind them |
| `alerts` | ids, cover of suppression and notification, identity | 2 workers, 2 signals, cooldown 2, clock to 2, 2 attempts, 2 faults | both workers between look-up, clock and publish, cooldown both running and over |
| `registry` | row per partition, completeness of deployments, progress | 2 environments, one of each other kind, one name, 5 commands, 1 fault | agent, environment, deployment, delete and one more in every order; two rows that want one name; a create parked and applied behind its delete |
| `analytics` | spikes and thresholds reported, warm-up, quiet on a steady series | 6 samples of 2 values, windows shrunk (history 5, rolling 3, drift 6/5/3), 2 attempts, 2 faults | five samples before the sixth are the least that give every detector, both z thresholds and both drift windows something to say; the history limit cuts one off |
| `seed` | what a finished run has seeded, never ahead of the projection, single posts, reruns, client of the registry | 4 items (one of each kind but models), 2 starts of the script, 1 fault, loss, break-off or change by a user | a rerun after a setback at every step, and two overlapping runs; a deployment needs two items, of which one needs a third |
| `runtime` | producer under every task, what is open at the exit, the end of the process, stale and live workers | one consumer and the heartbeat; `Ttl` 3, `Floor`, `Slack`, `Delay`, `MaxLost` 1; any number of interrupts, kills and restarts | the state space is finite without a bound on restarts; two tasks fail, stop, fail to stop and are cancelled in every order |

Only `alerts` uses symmetry (workers and signals), and it checks no liveness.
`EveryRecordSettled` in `group` is about the records before the malformed one, which
is never settled. One consumer is enough in `runtime` because its safety properties are proved for any
role (section 6). Its unit of time is five seconds, the floor of the heartbeat's period.

The other four runs (section 5) each check one claim of the repository and find a
counterexample. Every property of a passing run has a mutant in `PROJECT.json`: a
plausible defect of the mapped code that makes the property fail in the same run.

What the properties say, briefly. `EffectOnce`, `NoSilentSkip`, `OrderInv` and
`ImplementsLedger` settle the loop. `FinishedIsComplete` and `MarkerHasOutcome`
relate topics to each other across passes; `RunIsDecided` is liveness: a started run
gets an outcome or its start event is parked. `RowFollowsLog`, `ReferencesResolve`,
`OnlyLateStartReopens`, `ReadModelCatchesUp` are about the read model of a run: the first
says that the row shows what the last of its applied events says, unless it was
written by one that was parked and came late; the third that a run shown as finished
goes back to running in that case only, and only through its start;
`RowFollowsPartition`, `DeploymentComplete`, `VersionsStayResolvable` and
`CatalogCatchesUp` about the registry. `VersionsStayResolvable` holds for an odd reason:
agents and models can never be deleted, so an id once read stays good.
`UpdatesResolve`, `SuppressedIsAlerted`, `NotifiedIsPublished` and `RowKeepsIdentity`
are what the stale read of alerting leaves intact.

`ThresholdReported` and `SpikeReported` span the attempts of an event: findings dropped
by a failed publish must come back although the history has changed meanwhile.
`WarmUp` and `SteadySeriesIsQuiet` bound what the race with the projection can do. What
it can do is hide: an event that finds itself among three earlier equal samples has a
z-score of √3, below both thresholds.

`DoneMeansSeeded`, `NeverAheadOfProjection` and `RerunSucceeds` say what the script gets out of
a read model that trails; `QuietRunsPostOnce` says where it is idempotent, and
`ImplementsCatalog` that all that holds of the registry holds of its clients too.

`LiveTasksHaveProducer`, `LeftOpenOnlyByFailure` and `StoppedInOrder` relate the phases of the
shutdown to each task; `DeadTaskEndsProcess` is liveness. `LiveNotStale` and `DeadReported` are
the two directions of the health check, one under the platform's bounds, the other
whatever the platform does.

## 4. Fairness

- `ConsumerGroup`: weak fairness of each member's fault-free steps (an event loop runs
  every ready coroutine), of `Start` (Compose `restart`, Kubernetes restart policy), of
  `LearnRevoked` (client heartbeats), and of assignment of a partition without live
  owner. No fairness of crashes, rebalances, transient failures; they are bounded.
- `ExecutionRun`: weak fairness of `Deliver` while the start is neither marked nor parked (an
  uncommitted record is delivered again) and of each worker's fault-free steps.
- `RunProjection`, `RegistryCatalog`: weak fairness of settling the next event of a partition
  (`Project`, `ConsumeNext`), which `EveryRecordSettled` is the ground for. That a parked event
  comes again is nothing to rely on. Commands and producers need none.
- `DemoSeed`: weak fairness of settling (`ConsumeNext`) and the runs' own steps (`Proceeds`) together: as
  long as one of them can go on, one does. Each has finitely much to do, so that is as
  good as fairness of each; polling ends in a row or in its timeout. None of starting a run.
- `WorkerRuntime`, `WorkerHealth`: weak fairness of `MainStep` (the event loop resumes `run()`) and,
  per task, of the delivery of a cancellation and of the end of a Kafka client's `stop()`,
  which returns or raises.
  None of failures, interrupts, kills, or of the start of a process.
- `AlertPipeline`, `MetricAnalytics`: safety only.

## 5. Where code and documentation disagree

Each is a run with `expect: violation`; the quotations are in `PROJECT.json`.

| Run | What happens |
|---|---|
| `group_reset` | `auto_offset_reset="latest"`: a group without a committed offset adopts the end of the log at each assignment. A member that dies on its first record loses it. |
| `projection_stub` | The start has been parked; the terminal event finds no row and is dropped; the step that comes later leaves a placeholder that runs for ever. |
| `registry_environment` | A deployment that names an existing environment without its id draws a new id for a taken name: its event is refused for ever and the accepted deployment never shows. |
| `runtime_stop` | SIGINT cancels the gather, which passes the cancellation to every task and returns when the heartbeat has ended; `shutdown_consumer_tasks` then cancels the consumers a second time, inside their `stop()`: their Kafka clients are open when the process exits. |

Not runs of their own, visible in the models: an event parked by a member that has
lost the partition is applied by the next owner behind later ones, so order within a
partition (`docs/architecture/kafka.md:9`, `kafka.py:38-39`) does not reach the database: a
finished run can show as running for good (`OnlyLateStartReopens`), and a create can land
behind its delete, so that a deleted row shows (`RowFollowsPartition`); offset commits that keep failing
after the transaction send a *processed* event to the dead-letter topic
(`kafka.py:255`); undecodable bytes kill each owner of a partition in turn, so
that nothing behind them is settled (`DeserializeFails`, `kafka.py:223`; the reason why
`EveryRecordSettled` stops before the malformed record); two alert workers may each publish `alert.created` for one key, the
second of which can only be refused (`UpsertClashes`); `execution.started` is
parked without outcome when publishing the failure fails on every attempt
(`ParkStarted`); an agent is lost when its graph is projected after it (`RefMissing`);
`execution.failed` follows `execution.finished` when the audit publish in the same try block
fails (`orchestration/service.py:249`); a retried signal is decided by a row that does not
yet show its own first alert, so two notifications go out in one cooldown
(`alerting/service.py:45`); the seed script posts a deployment twice after a broken-off run
or beside another one (`README.md:143` calls it idempotent); a heartbeat TTL below three seconds
cannot meet `HealthAssumption`, since the period has a floor of five (`worker.py:39`); an unknown
`WORKER_ROLE` is a process with a heartbeat and no consumer; replicas of a role share one
worker name, so a live one hides a dead one, and so does a process that crashes and
starts again before its row is stale.

## 6. Proofs

Checked by TLAPS for every value of the constants, under the assumption each module
names: `GroupAssumption`, `ProjectionAssumption`, `RunAssumption`, `AlertAssumption`,
`AnalyticsAssumption` (bounds and sizes are naturals, attempts, batch and cooldown positive, poison and malformed sets are sets of
offsets), `RegistryAssumption` (kinds of entities have no id in common, no name is
`NoName`), `SeedAssumption` (the plan is in the order of the script: an agent behind the graph it
needs, a deployment behind its agent, its environment and its model; names are unique), `RoleAssumption` (a role is a string) and `HealthAssumption` (heartbeats
that are late and lost still fit the threshold). TLC evaluates them in the runs.

`ConsumerGroupProofs`
- `TypeCorrect`.
- `EffectsExactlyOnce`: only `StoreSucceeds` touches marker and effects, together
  (`DbStep`).
- `OrderInvariant`, `NeverSkipsSilently`. *NoSilentSkip* is not inductive: a commit writes
  the position of a member whose batch was fetched long ago. `OrderInv` adds, for each
  member, that everything below the record in hand is settled, that its next fetch is
  at the batch's end or safe, and that a record about to be committed is settled.
  Settling only grows (`StepGrows`, `SettledStable`), so bystanders keep their part
  (`BystanderKeepsOrder`); the acting member's part is one step per action
  (`StepOrdered`).
- `Implementation`: every step is a ledger step or a stutter (`StepImplements`).
- `LedgerPromise`: what `RunProjection` and `RegistryCatalog` take for granted, proved of the ledger alone:
  behind the last skip a record is settled, not applied, only behind all those before it.
  `SettledInOrder` is that of the consumer group, by `Implementation`.

`ExecutionRunProofs`
- `TypeCorrect`, `RunInvariant`, `FinishedMeansComplete`, `MarkedMeansDecided`, from `RunInv`. An executor
  knows of its own pass only where it stands, so `Progress` says that every node before
  that has its step and its cost out, and `Reported` that an executor past its terminal
  event has published one. Topics only grow (`TopicsGrow`), so other executors keep theirs.
- `RunImplementsEvents`, from `EventsInv`. The bounds of `RunEvents` are the hard part: nothing counts
  how often a pass has published, and executors come and go. So `OutcomesInv` names a set of
  (pass, outcome) pairs as large as the log is long, disjoint from what each executor still
  has before it (`OpenOutcomes`), and `CostsInv` a set of (node, pass) pairs for the costs. A
  publish moves a pair from the open ones into the set, which never outgrows all the pairs.

`RunProjectionProofs`
- `TypeCorrect`.
- `RowFollows`, `ReopenedOnlyByLateStart`, from `RowInv`: besides `RowFollowsLog`, the partition opens
  with its start and has terminals after it, a run whose start is applied has a row, and
  a row that shows a terminal status has an applied terminal event. So a start applied
  to a closed row is overtaken, and a terminal event never reopens one. What was applied
  late is part of both statements: nothing in the proofs takes parking as final.
- `RowsHaveTheirRun`: a step makes the row it refers to, a cost takes only a row that is
  there, and no row of a run ever goes.

`AlertPipelineProofs`
- `TypeCorrect`, `AlertInvariant`, `UpdatesMeetTheirRow`, `SuppressionIsCovered`, `NoticeIsCovered`,
  `IdentityIsKept`, from `AlertInv`. What makes decisions by an old row harmless is that what a
  worker has seen is still the row's id (`SeenIsRow`) and that the row's time is that of an
  event in the topic (`RowIsAnnounced`), as is the time a worker has read of it, however
  long ago (`SeenIsAnnounced`); `NoticeIsAnnounced` is the same for a worker about to
  notify, and `NoFuture` keeps all times at or below the clock.

`RegistryCatalogProofs`
- `TypeCorrect`, `CatalogInvariant`, `RowsFollow`, `DeploymentsComplete`, `VersionsResolve`, from `CatalogInv`. Its parts:
  a partition, but an environment's, opens with its create (`Origins`); what a create names
  of agents and models shows (`Needs`) and what a row was written with has been created
  (`Backed`); agents and models stay once they show (`Permanent`, for the reason given in
  section 3); and a row is told from none (`Solid`). `RowFollowsPartition` has the late events
  in it: a row is there behind its delete only if its create is `overtaken`, and is last
  written by its last applied event or by an overtaken one. `DeploymentsComplete` and
  `VersionsResolve` have no such exception.

`MetricAnalyticsProofs`, for any thresholds, windows, history lengths and values
- `TypeCorrect`, `AnalyticsInvariant`, `ThresholdIsReported`, `StatisticsWarmUp`, from `AnalyticsInv`. A
  failed publish drops the rest of a list of findings, so `Pending` says of every attempt
  anew that the threshold's finding is out or in the list. `WarmReports` and `Enough` say of
  each finding that its rows were there when it was made; rows never go (`RowsGrow`).
- `SpikeIsReported`, `SteadyIsQuiet`: here the detectors enter by their sums. A series of one value c
  adds up to its length times c (`ConstantTotal`), so behind it a deviation is zero, any other
  value is at a distance from the mean, and its score is over every threshold
  (`SpikeIsCritical`); within it every distance is zero (`ConstantIsSilent`), and so is
  every difference of two windows, overlapping or not (`ConstantHasNoDrift`). `SpikePending` carries
  the two findings through the publishes as `Pending` does. `SteadyInv` works because a
  series that is steady now was so at every earlier evaluation.
- `ConstantTotal` and `OldestIsOne` (a finite set of positions has one of every rank) are
  inductions over numbers. No theorem that takes an operator is used: `SetInduction` is
  induction of a *set* of numbers and follows from the well-foundedness of `Nat` (`Least`), and the
  recursive function of `Total` is shown to have a solution by giving one.

`DemoSeedProofs`, for any plan that meets `SeedAssumption`, any number of runs and bounds
- `SeedImplementsCatalog`: every step of the script is a command that `RegistryCatalog` admits: its ids
  have been read from rows, so they are `Seen`. With it come all theorems about the registry.
- `SeedInvariant`, `SeedTypeCorrect`, `DoneSeeded`, `NeverAhead`, `QuietRunsOnce`, from `FullInv`, which is `CatalogInv` and
  `SeedInv`. `RunInv` says of each run that all items before its step are seeded, and of the
  ids it holds that they are projected items, one at most for each that is needed
  (`Gathered`), and one for each before it posts (`Readied`); `RefsInv` says the same of what is posted. `NeverAhead` needs only one direction of `RowFollowsPartition`, the one
  late events leave alone: a row whose create is applied is gone only behind an applied
  delete. The rows of a kind other than deployments carry
  the name they were created with (`RowsInv`), which is what makes a lookup by name find the item. Seeding is stable: creates stay in the log and what
  was applied stays applied (`Kept`), also when a user deletes the row.
- For `QuietRunsOnce` the invariant has a second half that holds only while runs do not
  overlap and nothing fails (`QuietInv`): one run at most is going (`Alone`), nothing is refused,
  deleted or there twice (`Undisturbed`), an item that does not show is the one the run waits
  for (`Awaited`), and what it is about to post is not there (`Unposted`). A run that is broken
  off while it waits would break `Awaited`, an overlap `Alone`.

`WorkerProofs`, for any role and so any number of consumers
- `TypeCorrect`, `RuntimeInvariant`, `ProducerOutlivesTasks`, `OpenOnlyByFailure`, `ConsumersStoppedInOrder`. `PhaseInv` says
  what each phase of `run()` knows of the tasks and the producer; `CancelInv` says why a
  consumer that is stopping is cancelled again without an interrupt: only by the end
  of `asyncio.run`, behind a task that failed. `StoppedInOrder` names what else leaves a consumer
  open without an interrupt: a `stop()` that raised, or its task having failed.
- `HealthImplementsProcess`: with heartbeats the process behaves as without, so the theorems above
  hold of `HealthSpec` too (`ProcessInvariant` is `TypeOK` and `PhaseInv` of it).
- `DeadIsReported`: without a process neither the row nor a heartbeat on its way is
  younger than the silence (`SilentInv`).
- `LiveIsNotStale`: the threshold bounds a chain, not a state, so `BeatInv` says that the row
  is followed in time, with `lost` heartbeats missing, by some heartbeat on its way or by
  the next one, and each of those by a younger one. A projection moves the chain's
  first link into the row; a loss takes a link out and costs one `Step`.

The type invariants of `ConsumerGroup`, `RunProjection`, `RegistryCatalog` and `WorkerRuntime` are
proved and not repeated in the runs.

Every invariant, every safety action property and every refinement that a passing run
checks is proved. Only model-checked: liveness (`EveryRecordSettled`, `RunIsDecided`, `ReadModelCatchesUp`,
`CatalogCatchesUp`, `RerunSucceeds`, `DeadTaskEndsProcess`), which needs ENABLED and fairness, out of
the prover's reach.

## 7. What is not modelled

- Several partitions of one group at a time: the loop handles records one by one, and
  offsets, markers and batches of different partitions do not meet, except that a
  dying member leaves all of them, which is a crash here.
- Kafka and PostgreSQL inside: a commit is atomic, a partition is a sequence.
- References to registry rows. Those of runs, and a cost's execution and step, are cleared
  when they do not resolve (`_resolve_fk_or_none`); a cost's `agent_id` and `environment_id` go into their
  foreign keys as they are (`projector.py:218-225`), and a cost that is refused for them is a `ParkCost`.
  Which cost that happens to is not modelled, nor what deleting a graph or
  deployment clears there.
- Updates of a deployment that keep its `seed_key`; the script cannot tell them from none.
- A second consumer of the process in the runs: the role `execution` has one. What holds
  behind a failed task in the list is proved for any number (section 6).
- Content: payloads, prices, texts, authentication, logging, metrics export, tracing.
- Routers and queries: one service call or one SELECT each.
- Cost anomalies: their events are keyed by agent or run, so the series of a workflow is
  spread over partitions; the amounts of the drift scores; the metrics worker, which
  publishes one constant metric per execution event.
- The publisher's lazy start inside `publish`: in a worker it always finds the producer
  started (`LiveTasksHaveProducer`). In the API process, startup awaits it as well.
- The probes of PostgreSQL, Redis, Kafka and the model endpoints: one call each.
- Local stack scripts, Helm, Docker and Compose files: they start what is modelled and
  keep nothing; restart policies are where the fairness of restarts comes from.
- Two processes under one worker name (section 5), and heartbeats applied later than
  `HealthAssumption` allows.

## 8. Plan

Done, in this order: ConsumerGroup with GroupLedger; ExecutionRun with RunEvents;
RunProjection; AlertPipeline; RegistryCatalog; MetricAnalytics; DemoSeed; WorkerRuntime;
WorkerHealth; and the proofs of section 6.

Next:
1. **Proofs** — the safety part of the liveness arguments (what is left to do shrinks with
   every fair step), and bounds the runs cannot reach: how often a run's row changes, how
   many alerts one cooldown can see.
2. **MetricAnalytics**, rest — cost events over several partitions, and the overlap of the
   drift windows at 20 to 29 rows against a reference without overlap.
3. **Composition** — `RunProjection` on `GroupLedger` with `Skip`, and with the registry's
   foreign keys.
