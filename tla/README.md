# Verification of drts_tsn

TLA+ modules, TLC runs and TLAPS proofs kept beside `src/drts_tsn`, a toolchain
that loads a Time-Sensitive-Networking case, normalizes and validates it, bounds
the response times of its streams analytically, simulates it with a
discrete-event engine, and compares the two results.

Contents: [1 the system](#1-the-system), [2 the modules](#2-the-modules),
[3 how the model relates to the code](#3-how-the-model-relates-to-the-code),
[4 the runs](#4-the-runs), [5 the proofs](#5-the-proofs),
[6 five disagreements found](#6-five-disagreements-found),
[7 what is not covered](#7-what-is-not-covered), [8 the plan](#8-the-plan).

Paths below are relative to `src/src/drts_tsn/`.

## 1 The system

A command is one process with one thread: it loads files, calls the engines and
writes files. Concurrency is in two places. Inside the simulator, actors
(streams, egress ports, credits) interact through a time-ordered event queue, and
everything that happens at one instant is ordered only by insertion. Between
commands, everything on disk is shared: commands follow one another or overlap in
one run directory, are killed between two files, race for the link
`outputs/runs/latest`, and read back what another command, or an edit of the
case, has left.

| component | state it keeps | operations | talks to | what is hard | what makes it correct |
|---|---|---|---|---|---|
| **CBS policy** `simulation/policies`, helpers of `services/credit_service.py` | the credits of a port's shaped queues, and the time they are valid for | integrate over an interval, forget idle positive credit, recovery time, eligibility, choice of the candidate | called by the port services | the interval is judged by the queues as they are *at its end*; no cap on credits; rounding | credits bounded by non-preemption; a class gets no more than its reservation; no credit for time without frames |
| **Simulation engine** `simulation/engine.py`, `dispatcher.py`, `event_queue.py`, `clock.py`, `services/` | clock, event heap, ports (queues, wire, markers of pending starts and wakeups), frames, per-stream counters, stop reason | loop of `run`, one handler per event type, stop conditions | policy, trace collectors, analysis results through the comparison | events of one instant in any insertion order; wakeups deduplicated by markers; stale credits; several limits met at once; exceptions in mid-run | see section 4 |
| **Simulation outputs** `simulation/outputs` | rows and traces | record, build result | engine, comparison | response times are maxima over observed frames only | a stream never observed is not taken for one that met its bound |
| **Analysis** `analysis/` | none (pure) | link model, interference terms, per-link bound, end-to-end sum | comparison | priorities, blocking by lower classes, frames queued up from earlier periods | the bound is at least every simulated response time |
| **Normalization** `normalization/` | none (pure case → case) | canonical ids, paths, link and frame parameters, queues and priorities | adapters, validation | two names that slug to one id; a derived field that later steps rely on | what the validators check is what the engines use |
| **Validation and readiness** `validation/` | a list of issues | case, topology, route, stream, CBS and assumption validators; preconditions of analysis and simulation; readiness | pipelines | checks that look a thing up by another key than its user does; a shape judged by counters | what is declared ready runs; "line" means a line |
| **Comparison** `comparison/` | none (pure) | align streams, metrics, flags, diagnostics, status, summary | result files | streams missing or repeated on either side, results of two versions of a case, absent values | "ok" means: the same streams, each within its bound |
| **Orchestration** `orchestration/` | run directories, the batch | analyze, simulate, compare, run-case; batch-run | everything | artifacts written by one stage and read back by the next; a failing stage; a reused run or batch id; processes killed or overlapping | an output belongs to the run that reports it; one failing case never hides another |
| **Output layout and writers** `output/` | files, the artifact index, `latest` | layout, write JSON and CSV, metadata | orchestration | optional outputs, leftovers of an earlier run, the link replaced in three steps | what a manifest or index names exists; the link leads to the last run |
| **Adapters** `adapters/` | none | load, parse and map external cases; export | normalization | defaults made of other ids | – |
| **Domain model** `domain/` | immutable dataclasses | – | everything | – | – |
| **Reporting** `reporting/`, **Command line** `cli/`, **Infrastructure** `io/`, `logging_ext/`, `common/` | – | formatting, argument parsing, exit codes, file helpers, unit conversions | – | `integer_hyperperiod` caps silently; a file is emptied before it is written | an exit code of 0 means that all went well |

How the simulator's parts interact: the loop pops the earliest event and calls
one handler. A *release* creates a frame and pushes its enqueue and the stream's
next release. An *enqueue*, a *transmission end* and a *credit update* change one
port and then call `schedule_next_transmission`, which synchronizes the port's
credits and pushes at most one event: a transmission start now if a queue may
send, else a credit update at the time the first credit is back at zero. A
*transmission start* picks the candidate and pushes the end of its
transmission. An end pushes a *forward* (which pushes the enqueue at the next
hop) or a *delivery*, which may push the *finalization*. Two markers per port,
`scheduled_scheduler_time_us` and `scheduled_credit_update_time_us`, keep
duplicates of starts and wakeups out of the queue; nothing ever removes a pushed
event, so all depends on the markers and the queue telling the same story.

How the components meet on disk: `analyze`, `simulate`, `compare` and `run-case`
make a run directory, replace `latest`, export the normalized case, run their
engines, write the result bundles, and last the metadata: manifest, its copy and
the artifact index, and the manifest and its copy once more. `compare`, and
`run-case` through it, *reads the two result files back*. `batch-run` calls the
run-case pipeline for each case directory below a root, catches what it raises,
keeps a row per case, and writes two catalogs, two failure catalogs, a manifest
and an index.

## 2 The modules

| module | what it is |
|---|---|
| `CbsPolicy` | pure operators on the credits and queues of one port: integration, normalization, synchronization, recovery delay, eligibility, candidate, order of recovery |
| `Simulator` | the state machine: the loop, the event queue, one action per event handler, and one per way out of the loop |
| `SimulatorProperties` | its type invariant, safety, action and liveness properties; its instance `Network` maps it to `StoreAndForward` |
| `StoreAndForward` | abstract: what a simulation promises of frames, without events, markers, queues or credits |
| `Analysis` | the analytical engine as functions of the same cases |
| `AnalysisProperties` | composes the two: the bound of a stream against the frames of the simulator |
| `MCSimulator` | four families of small cases for the five runs of the simulator |
| `Readiness` | from the external case to the two engines: mapping, the five passes of the normalization, every validator, the readiness stages and the engines' own refusals |
| `ReadinessProperties`, `MCReadiness` | what the stages promise; small cases |
| `RunPipeline` | the four commands step by step, any number of them at once, on shared directories and one link |
| `RunPipelineProperties`, `MCRunPipeline` | what a reader of `outputs/runs` may rely on; plans of three commands |
| `CaseOutcomes` | abstract: what a batch promises, without directories, files or runs |
| `Batch` | batch-run in detail, killed and started again; its instance `Promise` maps it to `CaseOutcomes` |
| `BatchProperties`, `MCBatch` | what the user of batch-run may rely on; two ids with one slug, two directories with one name |
| `Comparison` | the rows of the two results and everything the comparison engine computes from them |
| `ComparisonProperties`, `MCComparison` | what verdict and counts mean; cases that differ in one respect |
| `SimulatorProofs` | the simulator's types are invariant; facts about cases, tasks and credits; arithmetic of recovery; no wakeup is lost; ports and events agree, starts see fresh credits, time never runs backwards, every port is work conserving |
| `SimulatorFrameProofs` | frames are in one place and in order, nothing else raises; releases, counts and stop reasons are true |
| `SimulatorServiceProofs` | the credits' bounds, positive credit is owed, the reservations are kept; the simulator implements `StoreAndForward` |
| `AnalysisProofs` | what the formulas of the analysis amount to; first frames meet their bound, hop by hop |
| `RunPipelineProofs` | the invariants of the run directories, the link and the metadata |
| `BatchProofs` | the batch's invariants, and that it implements `CaseOutcomes` |
| `ReadinessProofs` | a ready analysis answers; default routes are found alike by all who look them up; the counters of the line assumption mean a line |
| `ComparisonProofs` | what the verdict and the counts of a comparison mean |

Definitions that no other definition uses and whose name says what is wrong with
them (`AnyCredit`, `RecoversLast`, `PeekedNotPopped`, `RequestedEarlier`,
`NeedsStartThoughBusy`, `IndexDropped`, `MetadataOnce`, `WorstByDefault`, ...) are mutants:
plausible mistakes in the definition that follows them. `PROJECT.json` pairs
each property with one that breaks it.

## 3 How the model relates to the code

### The simulator (`Simulator`, `CbsPolicy`)

**State.** The variables are the fields the handlers read: `clock`, `events`
(the heap), `queue`, `credit`, `syncedAt`, `onWire`, `startAt`, `wakeAt` (the
port, queue and credit states), `frames`, `released`, `completed`, `delivered`,
`processed`, `stopReason`. `status` tells the loop (`"running"`) from its three
outcomes: `engine_status` `"ok"` or `"stopped"`, and an exception (`"raised"`).

**Actions.** One action is one turn of the loop, with everything the handler
calls: `HandleRelease` (`release_frame`), `HandleEnqueue` (`enqueue_frame`),
`HandleStart` (`start_transmission`), `HandleEnd` (`finish_transmission`),
`HandleForward` (`forward_frame`), `HandleDelivery` (`complete_delivery`),
`HandleCreditUpdate` (`update_credit`), `HandleFinalize`; `Stop`, `StopBefore`
and `RunDry` are the three exits of the loop besides finalization, `Raise` an
exception, which every raising handler throws before it changes anything.

**Inputs.** A given case runs deterministically, so the nondeterminism of the
model is in the case: `Init` picks a member of the constant `Cases` (topology,
streams, routes, slopes and configuration, as `build_simulation_context` resolves
them). TLC checks all runs of a family in one go; the proofs hold for every
well-formed case, whatever the sets of streams and links.

**Abstractions**, and why they lose nothing the properties tell apart:

- *Time and credits are integers.* A case is modelled in a time unit in which
  periods and airtimes are whole. Credits are counted per link in units of its
  speed, so that slopes, which normalization makes a share of the link's speed,
  are the same integers on every link. `WellFormed` asks that what a frame
  spends is a whole number of time units of idle slope; then every recovery
  happens on the grid and `RecoveryDelay` is exact. Periods are positive, so the
  `max(1, int(round(value)))` of `integer_hyperperiod` changes none of them. On such a grid the code's
  tolerances of 1e-9 coincide with exact tests. Rounding of floats off the grid
  is not modelled (it is listed as a hazard no property covers).
- *`next_eligible_time_us`* is recomputed by `refresh_next_eligible_times` from
  credit and clock just before each read, so it is the operator `RecoveryTime`.
- *The insertion counter* of the heap is `2 * processed + nth`: a handler
  pushes at most two events, so this orders insertions as the counter does.
- *Statistics and traces* that no handler reads are left out, with the per-hop
  timestamps of a frame (its last enqueue time is kept).
- *Unknown names* (a queue or port id that no context has) cannot occur: the ids
  in events come from the context itself. The one lookup that can fail, the route
  of a stream, is the guard of `Raise`.

**Fairness.** `FairSpec` adds `WF_vars(Next)`: the loop is a single thread that
takes its next turn as long as there is one. Nothing else is assumed. TLC's
deadlock check is off because a run ends: the state in which the loop has left
has no successor. The same holds of every other module: commands end.

**Bounds.** The model has no bound of its own: the hyperperiod ends the releases
of every case, as it does in the code, and `maxEvents` is a limit of the code
(1000, never reached in the families without limits: `EveryFrameIsDelivered`
would fail if it were).

### The analysis (`Analysis`)

Pure operators named after the services: the streams that share a link by
priority, `EligibleInterval`, `SamePriority`, `LowerPriority`, `HigherPriority`,
`LinkBound`, and `Wcrt`, the sum over the route. Times are multiples of
`1 / Scale(k)`, chosen so that every quotient of the formulas is whole and no
rounding is hidden. Both engines read the same case record, as both read the
normalized case in the code. The shares of all links are equal because
normalization derives the slopes from the link's speed.

### Validation and normalization (`Readiness`)

**State.** `raw` is the parsed external case, `case` the case as mapped and then
normalized, `stage` how far a command is, `ready` the four readiness labels,
`simulation` and `analysis` what became of the engines when asked.

**Actions.** `Load` (`load_external_case`, `map_external_case`: default ids,
default route ids made from stream ids, classes from PCP), `Normalize`
(`normalize_case`, all five passes), `Refuse` (the `ValueError`s of both),
`Validate` (all validators, the assumption checks and both preconditions),
`Simulate` and `Analyze` (the gate of the command, then the engine's own
conditions: `build_simulation_context` and `release_frame`; the link contexts and
the reservable share).

**Abstractions.** Issues are sets of codes: only their presence decides. Python
dicts built from rows keep the last row of a key (`LastWith`). Names are strings
with a table `Slug` of what `slugify_identifier` makes of them (constant, assumed
idempotent). Slopes, shares and speeds are hundredths. The
`ValueError` of `derive_paths.py:49` for a negative link speed is left out of
`Refuse` (the runs take the default speed). `assumptions` holds nothing but the two
strings that `assumptions_validator.py:171` looks for.

### Runs on disk (`RunPipeline`)

**State.** `status`, `todo` (the steps a job, that is a command, has still to
take), `open` (jobs with a file opened and not complete), `loaded` (whose results
the job has read back), `recorded` (the list of artifact records in the code),
`files`, `made`, `latest`. A file is abstracted to who wrote it, whether it is
complete, the artifacts it names and the results it is made of.

**Actions.** `Steps(j)` is the order of calls in the four `execute_*` functions,
with the optional outputs of the configuration left out where the code skips
them; each step is an action: `Prepare`, `RunEngine`, `MakeDirectories`; the link
is looked at, removed and made again in three steps (`SeeLatest`, `Unlink`,
`Relink`), as `run_layout.py:83` does; `Load`; `OpenFile` empties a file,
`CloseFile` completes it; `SkipExpected`; `Finish`. `Crash` ends a job anywhere: a
kill, or a write that raises.

**Abstractions.** The CSV files of one result are written in a row and stand for
one; so a crash between two of them is a crash within one. `latest` given as an
input path is resolved at each read, as the file system does.

**Fairness.** `WF_vars(Start(j) \/ Work(j))` for each job: an operating system runs
a process that is not finished or killed. **Bounds:** three jobs, three
directories; `plan.crashes` bounds the kills (at most one).

### Batches (`Batch`, `CaseOutcomes`)

**State.** The command (`tree`, `batch`, `metadata`), `round` (batches started so
far), `phase`, `rows` (by directory), `step` (batch files written) and `torn` (one
is being written), `exit`; on disk `runs` (of each run directory: who wrote the
run manifest and the artifact index last), `diagnostics` and `files`.

**Actions.** `StartBatch`, `Discover` (`_discover_case_directories`), `Succeed` and
`FailCase` (an iteration of the loop, with the row and the diagnostic),
`CasesDone`, `OpenFile`/`CloseFile` for the seven writes in the code's order (the
manifest twice), `Return`, `Kill`. What a case does inside its pipeline is the
subject of `RunPipeline`; here it may leave any prefix of its metadata and succeed
or raise.

**Refinement.** `Promise == INSTANCE CaseOutcomes WITH due <- Due, outcome <-
Outcome, verdict <- GivenVerdict`: cases are due once discovered, an outcome is the
status of its row, the verdict the exit code. `KeepsThePromise == Promise!Spec`.
A killed batch maps to `Begin` with nothing due: what it had decided is withdrawn.

**Fairness.** `WF_vars(Work)`: a process that is neither killed nor finished takes
its next step. **Bounds:** `MaxRounds` batches.

### Comparison (`Comparison`)

A result file is kept as what its run was about: the case as it was then, the
bounds, or the response times of the frames delivered; the rows that the result
builders write, and the comparison engine's alignment, flags, status, diagnostics
and summary, are operators on it. `Edit` is the user changing the case between the
two commands; results without tables (as older files are) are read from their
stream results, as the aligner does.

## 4 The runs

| run | family of cases | properties |
|---|---|---|
| `simulator_port` | one port, one stream per class, periods 3–6, frames of 1, 2 and 4 units, equal, slow and fast recovery, both insertion orders, a whole hyperperiod (12 units); 12 thousand states | types and all port properties |
| `simulator_switch` | three streams meeting on a shared second hop, or sharing the first, with equal and different link speeds, two streams in one class or not; 28 thousand states | frame and liveness properties; the refinement; the bound of the analysis |
| `simulator_limits` | one port; every combination of release limit, delivery limit, time limit, event limit, hyperperiod cap and `stop_when_all_streams_observed`, also a stream without a route; 7 thousand states | releases, stop reasons, exceptions |
| `run_pipeline` | 25 plans of three commands: a directory used again with other outputs and one command killed anywhere; cases that are not ready or raise; commands that overlap in one directory or race for the link; 31 thousand states | the run directories |
| `batch` | two batches, under one id or two with one slug, over two directories of one name, with a case added, taken away or unreadable and metadata on or off, killed at any step; 466 thousand states | the batch, its end and its refinement |
| `readiness` | some ten thousand small cases, see below; 67 thousand states | the readiness stages |
| `comparison` | nine cases of two ids, edited between the commands, every bound and every set of response times of two values, files with and without tables; 319 thousand states | verdict and counts |
| `credit_before_arrival`, `run_case_without_json`, `batch_broken_manifest`, `readiness_shared_route`, `analysis_bound` | | each expected to fail, see section 6 |

### The simulator

- `TypeOK`: one type invariant for the whole state.
- `PortsMatchEvents`: a marker is set exactly when its event is pending, once and
  at that time; a frame is on the wire exactly when its end is pending; one
  release per stream is pending at most. `finish_transmission`'s exception and
  the deduplication of wakeups rest on it.
- `StartSeesFreshCredit`: `start_transmission` chooses on stored credits without
  synchronizing them. They are those of that very instant, the port is idle and
  there is a candidate, so two of its three branches are defensive only.
- `NoLostWakeup`: an idle port with frames has a start pending, or a credit wakeup
  no later than the first recovery. `WorkConserving` is what this buys: time never
  passes such a port by while it could send.
- `CreditWithinBounds`, `PositiveCreditIsOwed`, `ReservationRespected`: the code
  caps no credit, yet each stays between what one own frame costs and what one
  best-effort frame can earn; a positive one belongs to a class with a frame; and
  a shaped class never uses more of a link than its slopes reserve.
- `EachFrameInOnePlace`, `NoOvertaking`: frames, which queues, ports and event
  payloads share by name, are neither lost nor duplicated, and those of a stream
  keep their order on every hop, whatever is handled at the same instant.
- `ForwardsFrames`: seen without events, markers, queues and credits, every step is
  one of `StoreAndForward`: a stream sends a frame a period; a frame crosses the
  links of its route one after the other, whole and alone on the link, each in
  exactly its airtime there; of the frames of a class that wait for a link, of
  whatever streams, the one that came first goes first; and no time passes while a
  best-effort frame waits for a free link. The mapping is computed from the events:
  a frame has crossed a link at the *end* of its transmission, before the forward or
  delivery that says so is handled, and waits for the next from that instant on.
- `EveryFrameIsDelivered`: a run without limits ends by itself with every frame
  delivered. As the run may not stop otherwise, this also excludes wakeups that
  chase each other at one instant.
- `ReleasesOnSchedule`: releases are strictly periodic and end where the horizon or
  a limit ends them. The horizon is stated by its purpose, the first time at which
  all streams release together again or, for several streams, the cap, and not by
  the computation in `Hyperperiod`; the cap of 4 in the run cuts a release off that
  the least common multiple would allow. The *first* release of a stream is never checked: with
  `max_releases_per_stream` 0 or a time limit of 0 it still is released or pending.
- `StopReasonIsTrue`: the reported reason is a fact about the run, also when
  several limits are met together. `DrainedMeansDelivered`: a run that ends for
  lack of events has delivered everything.
- `OnlyUnroutedStreamsRaise`: no handler raises but for a stream that no route is
  keyed by; the clock's and `finish_transmission`'s exceptions are unreachable.

Bounds: within 12 units of time and
three streams a port meets every pair and the triple of classes queued together,
idle recovery with either class first and with ties, best-effort blocking longer
than a recovery, arrivals during transmissions and at their ends, and releases
that coincide; every action and disjunct of the next-state relation fires, save
the two defensive branches of `HandleStart` that are proved dead. Two hops
suffice for the switch because a port sees no more of a route than its
predecessor's end and its own enqueue.

### The runs on disk and the batch

- `NothingNamedIsMissing`: at every moment, also after a kill, every artifact a
  manifest or index names exists, and is complete unless another command has taken
  the file over. The order "artifact first, its record later, metadata last, index
  and manifest again" is what it takes.
- `MetadataTellsTheRun`: a command that ended well, with metadata on and nobody
  else in its directory, leaves a manifest, its copy and an index that name
  everything it wrote and nothing of an earlier run but, at most, a left-over
  `expected_wcrt_comparison.csv` (`pipeline_run_case.py:240` asks only whether the
  file exists).
- `ComparisonIsOfOneRun`: run-case with JSON on compares its own results; `compare`
  compares results of one directory if it was given one and nobody moved the link
  or wrote the results in between. It resolves `latest` once per file, so the last
  condition is needed: the mix of two runs that the code then makes is modelled and
  excluded by the condition (a hazard without a property).
- `LatestLeadsToTheLastRun`, `SoundJobsEndWell`: the link leads to the last run that
  ended well and is absent only in the middle of its replacement (or because a
  command died there); a command on a sound case ends well whatever the others do,
  unless they race it for the link: then `unlink` may find nothing and raise.
- `RowsTellTheRuns`: a row's run directory, diagnostic and, with metadata on, cited
  metadata are the case's own until the next batch, although directories share a name
  and ids a slug. With metadata off a row may cite what an earlier batch left: the
  code asks only whether the file exists (a hazard without a property).
- `CatalogsAgree`: at every moment, also after a kill in the middle of writing over
  an earlier batch of the same id, complete files of one batch tell one story; what
  a manifest or index names is there. Files of *two* batches may lie side by side
  after a kill; nothing in the catalogs themselves tells.
- `DoneMeansTold`, `BatchEnds`, `KeepsThePromise`: a batch nobody kills ends, with a
  row per case, complete files and the exit code its rows call for; and it
  implements `CaseOutcomes`.

Bounds: three commands are enough for one that leaves files, one that takes the
directory over and one that reads; two batches for a batch over the leavings of
another; two directories for two cases of one name, one failing and one not.

### Readiness

- `LineMeansLine`: the validator judges the shape of the active links by counters
  (degrees, one component, links against nodes, endpoints), with parallel and
  opposite links counted once or twice. Whenever both assumptions are declared, a
  case is runnable *exactly* when its active links are one simple directed line;
  the property compares with an independent definition, an order of the nodes.
- `AnalysisReadyNeverRaises`: an analysis that is declared ready has link contexts
  and a share that fits for every AVB stream.
- `DefaultRoutesAgree`: validators and analysis find a route by the id the stream
  names, the simulator by the stream the route names. When the case leaves route
  ids to the parsers, the three look-ups agree and the simulation does not raise.
  When it names them itself they need not: section 6.

Bounds: about ten thousand cases: thirteen topologies (lines, both directions, a fork, a
confluence, two components, a triangle, ids that collide after slugging, a
self-loop, an unknown node), the walks of two streams, three ways to name routes,
every set of assumptions; and the one-change variants of a good case for the
remaining validators. The properties about engines are stated for distinct stream
ids: nothing in the code refuses equal ones (a hazard no property of this module
covers, but `OkMeansBounded` shows that such a case never compares as ok).

### Analysis and comparison

- `FirstFrameIsBounded`: the first frame of a stream that shares its class with
  nobody on its links meets its analytic bound, over one or two hops here and over
  any route by its proof. In the default
  configuration, one release per stream, there are no other frames. For later frames
  and for streams that share a class it fails: section 6.
- `OkMeansBounded`: the verdict is "ok" *exactly* when both results are about the
  same AVB streams, each once, of one class and on one path, and no delivered frame
  exceeded its bound: neither the first-row rule of the alignment nor a value that is
  absent lets a difference pass. Two empty results (no AVB stream at all) are "ok",
  too.
- `CountsTellWhatWasCompared`: an "ok" does not say that a stream was delivered at
  all. The counts do: if all listed streams are matched, each analysed stream was
  delivered and within its bound, also where the files are of the older form.

Bounds: two ids are enough for a stream missing, repeated or changed on one side while
another agrees; two values for below, at and above the bound.

## 5 The proofs

Checked by TLAPS for every value of the constants: any sets of streams and links
and any well-formed case, any jobs, directories and plans, any external case, any
batch. They cover every safety invariant and action property that a passing run
checks, and both refinements; what is left to TLC is named at the end.

| theorem | module | says |
|---|---|---|
| `TypeCorrect` | `SimulatorProofs` | `Spec => []TypeOK` |
| `NoWakeupIsLost` | | `Spec => []NoLostWakeup` |
| `EngineIsConsistent` | | `Spec => []EngineInv`, the inductive invariant of the next three |
| `TimeNeverRunsBackwards` | | `Spec => []EventsNotInPast`, which no run checks as such: a past event would raise (`OnlyUnroutedStreamsRaise`) |
| `PortsAndEventsAgree` | | `Spec => []PortsMatchEvents` |
| `StartsSeeFreshCredit` | | `Spec => []StartSeesFreshCredit` |
| `PortsAreWorkConserving` | | `Spec => WorkConserving` |
| `FramesAreConsistent` | `SimulatorFrameProofs` | `Spec => []FrameInv`, the inductive invariant of the next two |
| `FramesAreInOnePlace` | | `Spec => []EachFrameInOnePlace` |
| `NothingElseRaises` | | `Spec => []OnlyUnroutedStreamsRaise` |
| `FramesKeepTheirOrder` | | `Spec => []NoOvertaking` |
| `ReleasesFollowTheirPeriod` | | `Spec => []ReleasesOnSchedule` |
| `DrainedRunsAreComplete` | | `Spec => []DrainedMeansDelivered` |
| `ReportedReasonsAreTrue` | | `Spec => []StopReasonIsTrue` |
| `CreditsAreBounded` | `SimulatorServiceProofs` | `Spec => []CreditWithinBounds` |
| `PositiveCreditBelongsToFrames` | | `Spec => []PositiveCreditIsOwed` |
| `ReservationsAreKept` | | `Spec => []ReservationRespected` |
| `SimulatorForwardsFrames` | | `Spec => ForwardsFrames`: the simulator implements `StoreAndForward` |
| `FirstFramesMeetTheirBound` | `AnalysisProofs` | `Spec => []FirstFrameIsBounded` |
| `PipelineTypes` | `RunPipelineProofs` | `Spec => []TypeOK` |
| `NamedIsThere` | | `Spec => []NothingNamedIsMissing` |
| `LinkLeadsToTheLastRun` | | `Spec => []LatestLeadsToTheLastRun` |
| `ComparedIsOfOneRun` | | `Spec => []ComparisonIsOfOneRun` |
| `ManifestsTellTheRun` | | `Spec => []MetadataTellsTheRun` |
| `BatchIsConsistent` | `BatchProofs` | `Spec => []BatchInv`, the inductive invariant of the batch |
| `BatchTypes`, `RowsAreTrue`, `CatalogsAreTrue`, `DoneIsTold` | | its consequences `TypeOK`, `RowsTellTheRuns`, `CatalogsAgree`, `DoneMeansTold` |
| `BatchKeepsThePromise` | | `Spec => KeepsThePromise`: the batch implements `CaseOutcomes` |
| `StagesAreInOrder` | `ReadinessProofs` | `Spec => []TypeOK` |
| `ReadyAnalysesAnswer` | | `Spec => []AnalysisReadyNeverRaises` |
| `ParsersRoutesAgree` | | `Spec => []DefaultRoutesAgree` |
| `AssumptionsMeanALine` | | `Spec => []LineMeansLine` |
| `OkIsAboutTheSameStreams` | `ComparisonProofs` | `Spec => []OkMeansBounded` |
| `CountsAreOfTheStreams` | | `Spec => []CountsTellWhatWasCompared` |

### What is assumed

- *Simulator.* `CasesAssumption`: every case has the type `CaseType` and is
  `WellFormed`. `NoneAssumption`: `None` is no number, frame or stop reason.
- *Runs on disk.* `PlansAssumption`: plans have the type `PlanType`.
  `CaseAssumption`: the file of the normalized case is not one of the files with a
  fixed name (it lies in `normalized/`, `output/run_layout.py:61`) nor a step.
  `NoneAssumption`: `None` is no directory, job or content.
- *Batch.* `PlacesAssumption`, `NamesAssumption`, `CommandsAssumption`: the types of
  its constants; `NoneAssumption`: `None` is no row, stamp, id or content. No
  assumption says that names or slugs differ.
- *Readiness.* `RawCasesAssumption`: the payloads hold lists of links, streams,
  routes and hops (the parsers refuse others). `SlugAssumption`: slugging twice is slugging once. `RouteNameAssumption`:
  the default names of two routes have one slug exactly when the streams' ids have.
  `slugify_identifier` (`common/ids.py:8`) makes this true for every id that has a
  letter or a digit. For one that has none it is false: the slug of the id is then
  `unnamed` and that of `route-<id>` is `route`, so two such streams, or one and a
  stream called `unnamed`, are outside the theorem. `NoneAssumption`: `None` is no
  case.
- *Comparison.* `CasesAssumption`: cases are typed. `ValueAssumption`: response times
  are numbers, and there is a greatest one (a run ends, so it has a latest delivery);
  without one, `Max` of the observed times would mean nothing. `NoneAssumption`:
  `None` is no number, id or class.

### The argument for the simulator

- *Types* step by step; the scheduler, which three handlers end in, has a lemma
  of its own (`SchedulerTypes`), as in all that follows.
- *No wakeup is lost* is inductive given the types. `SchedulerLeavesAwake` is its
  heart: if nothing is eligible, a waiting class has a negative credit
  (`WaitingMeansRecovering`), one of them recovers first
  (`SomeClassRecoversFirst`), and the wakeup that is pending or pushed for it is no
  later than any recovery; recovery delays are least (`RecoveryDelayLeast`). The
  other ports are left alone (`SamePort`).
- *Ports and events.* `PortsMatchEvents` is not inductive: a wakeup pushed while a
  later one is pending would break it. It takes three more facts, together
  `PortInv`: a pending wakeup is never later than the recovery of its class
  (`WakeupInTime`; synchronizing never brings a recovery forward,
  `RecoveryNotHastened`), so that the code's case "an earlier wakeup replaces a
  later marker" never happens; a pending start is one of this instant
  (`FreshStart`), for then no time can pass (`TimeStands`), a synchronization
  changes no credit of a waiting class, and the candidate stays one
  (`EligibleKept`); and credits are synchronized at no later time than the clock's.
  With the stream's release pending at its period (`ReleaseInTime`) this is
  `EngineInv`. `SchedulerKeepsPort` proves it for the port of the handler,
  `PortUntouched` for all others, `StepKeepsEngine` puts them together.
- *Work conservation* follows from `EngineInv` and `NoLostWakeup`: the clock moves
  no further than the earliest event (`ClockMovesToNext`); a pending start is at
  this instant, a pending wakeup no later than the first recovery.
- *Frames are in one place.* Counting places is not inductive; `FrameInv` says which
  one it is. A frame passes five stages per hop: on its way to the port, queued, on
  the wire, leaving, delivered. `Placed(f)` says that it is at exactly one of them
  (`At`), on the link of its hop and in the queue of its class, that exactly one
  event moves it, and that this event is the one its hop calls for; queues repeat
  nothing and hold only released frames. Each handler moves one frame one stage on
  and disturbs no other. Then no handler but the release can raise.
- *Order.* `NoOvertaking` speaks of finished hops and queues; what keeps it is the
  order of the *events* of two frames at one instant. `Ahead(f, g)` adds the stage
  within a hop and the sequence numbers of the pending events of one kind;
  `MovesAreNow` (an event that moves a frame is due at this instant) and
  `PushedBefore` (sequence numbers grow) carry it through the queue of events.
- *Releases.* `HyperperiodMeaning`: what `Hyperperiod` computes is the horizon that
  `ReleasesOnSchedule` states without it (a set of numbers that is not empty has a
  least one). `ReleaseInv`: the pending release of a stream is one that the limits
  allow, or its first; a stream without one has been through all of them.
- *Ends.* `EndInv` adds to `FrameInv` and `NoLostWakeup` that the counters are
  cardinalities (`CountInv`), that the only reason set while the loop runs is the
  delivery target, and that it stays true (`StopInv`), and that the clock has not
  passed the time limit. With no event left, `FrameInv` leaves a frame nowhere to be
  but queued, and `NoLostWakeup` and `PortsMatchEvents` exclude that.
- *Credits.* The bounds are not inductive while the wire is busy, for the next
  synchronization may be as late as its end. `CreditInv` therefore bounds the credit
  *at the end of the transmission on the wire* (`EndsInTime`). A class starts at a
  credit of at least zero and spends at most its longest frame; its credit rises
  above zero only while a best-effort frame is on the wire, which starts only when no
  shaped frame is eligible. `PositiveCreditIsOwed` is part of it, since an idle class is reset.
- *Reservations.* `ReservationInv` is the ledger of each class: credit plus what was
  spent, frames in flight included (`InFlight`), is never more than what its idle
  slope has paid since the start (`Earned`). With the lower bound of the credit this
  is `ReservationRespected`. The airtime used is a sum over a set of frames; that
  such a sum exists and grows by one term when a frame is added (`SumsExist`,
  `TotalGrows`) is proved for all finite sets by looking at a least counterexample.

- *The network.* `SimulatorForwardsFrames` needs one invariant more, `TurnInv`: queues
  are sorted by the time of arrival, and nobody in them came after now. The rest is a
  translation: the stage of a frame says how many links it has crossed and since when
  it is where it is (`StagesTell`), a wire in use carries its frame until its one
  pending end (`WiresAreTold`), and a frame that a handler leaves in its stage, or a
  port whose wire it leaves alone, looks the same as before (`SameToNetwork`,
  `SameWires`). Between two stages the frame is moved at once (`MovingStands`), so
  that `HandleEnqueue`, `HandleForward` and `HandleDelivery` change nothing that the
  network sees. A release is `Send`, a start `Transmit`, an end `Cross`. For a start,
  `HeadGoesBefore`: whoever else waits for the
  link is behind the head in its queue (`TurnInv`), or arrives just now; and an
  earlier frame of the same stream would be ahead (`OrderInv`). That no end and no
  best-effort frame is passed by (`TimePasses`) is the clock moving to the earliest
  event and `WorkConservingStep`.

### The argument for the analysis

The theorem compares two programs: the formulas, which know no time, and the
simulator, which knows no bound. `Analysable`, a hypothesis of the property, turns
out not to be needed for it.

- *The formulas are numbers.* In the units of `Scale` every quotient of the formulas
  is whole (`LowIs`, `HighIs`), for a stream alone in its class the bound of a link
  is the frame, `Low` and `High` (`LinkBoundIs`), and the sum over the route is the
  same whichever way it is added up (`WcrtIs`): `Allowed(case, s, h)` is what the
  formulas allow for the first `h` hops, and one hop adds one link (`AllowedGrows`).
- *The first frame meets none of its class.* By the order of frames none of its
  stream is ahead of it, and other streams of the class keep off its links
  (`FirstIsAlone`). So its class has used no airtime where it waits; a class that owes credit has
  sent (`SpentInv`); hence the frame is eligible, and while the wire is free
  `NoLostWakeup` lets no time pass (`FirstIsNotHeldUp`). A start takes it unless
  class A goes before it (`FirstGoesFirst`).
- *Waiting.* `Waits(f, l)` is the busy period. At most one lower frame is on the wire
  when the frame arrives. For class A that is all. Class B may
  also wait for class A, which sends as long as its credit lasts. The ledger is
  `send * (waited - Low) + Scale * credit <= idle * Low`, at every synchronization:
  credit earned behind the lower frame pays for every later unit of airtime. When
  the credit is below zero class A is done, so its last frame starts within
  `Low * idle / send` after the lower frame, and the sum is `High` (`BurstEnds`).
  `CreditInv` and `ReservationInv` bound what a frame met on the wire has left to
  send and what class A can have saved before (`WireIsFreedInTime`).
- *Hop by hop.* `OnTime(f)` dates the frame at each of its stages by `Allowed` for
  the hops behind it. `FirstInv` says so of all such frames; with the invariants it
  cites it is `BoundInv`, and `BoundStep` follows the frame through every handler.

### The argument for the runs on disk

`todo` is a script, so most properties are about what comes before what. The lemmas
on scripts prove, of every script that `Steps` can make, the order of its steps
(`InOrder`, by a rank), the pairs whose second follows at once, and the steps that
come from one other only (`Joined`); all three survive taking a step.

- `CoreInv` is types, `ScriptInv` (what is left is an end of a script; an opened file
  is the one about to be completed) and `LoadInv` (results are read before they are
  compared).
- `DiskInv` adds `FileInv`, from a file to the job that wrote it (it has come that
  far, and has recorded what it names), and `RecordInv`, from a record to the file
  (it exists, and is whole or somebody else's). Neither is inductive alone: a
  manifest names what its job has recorded.
- `LinkInv` follows the three steps of the replacement: a job that nobody overlaps
  with finds no link where it puts its own, and a missing link has somebody to blame.
- `OwnInv` and `InputInv` say whose results a job has in memory at each step;
  `MetadataInv` what the index and both manifests say once the index is written
  (`Indexed`), which the second pair of manifests then repeats.

### The argument for the batch

- *Cases are numbered apart.* A case's number is the cardinality of the set of
  cases up to it; two of these sets are nested and differ (`IndexGrows`), so the run
  ids and diagnostics of two cases of a batch differ whatever their names are
  (`NumberedApart`). Hence what one case writes leaves the rows of the others true
  (`OthersUntouched`, `CaseStep`).
- *Files belong to rounds.* `CatalogsAgree` is not inductive: it speaks of any two
  files of one batch, while the code writes them one at a time over those of
  earlier batches. `FilesOfTheBatch` says where the files of the present round are:
  nowhere before its writing has begun, in the order of the writes as far as it has
  come, and listing the present rows. Writing one file preserves it
  (`WriteStep`, for a file opened and for one completed).
- `RowsNamed` and `Turns` tie rows to cases and phases; together with types,
  `RowsTellTheRuns` and `CatalogsAgree` this is `BatchInv`.
- *The promise.* With `BatchInv` each action maps to one of `CaseOutcomes`: where no
  batch is at its cases, to `Begin` with nothing due (`NotRunning`), discovery to
  `Begin`, a row to `Decide` (`RowDecides`), the return to `GiveVerdict`
  (`ReturnTells`), the writing of files to a stutter.

### The argument for readiness

`ReadyInv` says that the case is what the stage made of the external one
(`CaseInv`), that the labels are the verdicts on *that* case, and that an answer of
an engine is about it (`AnswerInv`). The rest is about the pure functions.

- A ready analysis: no issue of the precondition means that each AVB stream's route
  is found under its id and has links, that contexts are made along the same links
  (`AnalysedAlongItsRoute`), and that the share that the precondition adds up is the
  one the engine adds up (`AnalysisIssuesCoverTheAnalysis`).
- Default routes: slugging and path derivation keep places, so that each stream and
  each route of the normalized case comes from a row of the payload (`PreparedCase`);
  a route carries the id that its stream's route id became (`DefaultRoutesArePaired`);
  and a "last row of a key" is the same row by either key (`RouteFound`).

- The line assumption: `AcceptedMeansLine`, `AcceptedMeansDirectedLine` and
  `LinedUpInALine`, `LinedUpInOneDirection` for the two directions, about any finite
  set of arcs. *Accepted is a line:* take a longest walk that visits no node twice
  (`LongestWalkExists`, as such a walk has no more steps than nodes, `WalksAreShort`);
  its ends have no neighbour outside it (`LongestEndsInside`), an inner node has its
  two neighbours on it (`TwoNeighbours`), so it is closed under neighbours and, since
  the widening of the validator reaches every node (`ConnectedNodesAreAll`), it is all
  nodes (`WalkOfAllNodes`). A link between its two ends would be one link too many for
  the cardinality check (`NoCycle`, from `StepsBothWays`). With single direction, the
  walk starts at the one source that the endpoint check found. *A line is accepted:*
  along an order of the nodes the widening spreads by a step a round (`RoundsSpread`),
  and the degrees are those of a path (`LinedUpDegrees`). The case itself adds that
  each link a route uses is `LinkBetween` its two ends (`UsedLinks`), so two arcs of
  a normalized case never run in parallel, which the counters could not tell.

`RouteLinks` (the links of the hops that have one) is a recursive function over the
hops in the model: what a filter on sequences returns is recursive in the library
and opaque to the provers, while a recursive function unfolds (`KeptLinksAreLists`).

### The argument for the comparison

`ResultInv` says that the result files are typed and that a comparison is the
comparison of those two files; the rest unfolds `Compared`. A table has its rows at
the places of its streams (`AnalysisTable`, `SimulationTable`), so an id repeated in
the rows is one that two streams share (`TableOfStreams`), and the row that counts is
the only one otherwise. The verdict is "ok" when no id has a flag
(`VerdictIsFlags`), and for a pair of rows that means one class, one path and a bound
that holds (`PairIsFine`): the worst response time exceeds the bound exactly when
some response time does (`ExceedsIsUnbounded`). For the counts, "as many matched as
listed" is an equality of finite sets, and the overrun that is told is the least of
the negative margins, which exists because no response time is above the greatest
one (`LeastInteger`). `RowsOf` keeps each row at the place of its stream instead of
closing the gaps; nothing downstream looks at positions but the first-row rule.

Two faults of the *model* came out of these proofs and were corrected: the hop count
of an analysis row was multiplied by the best-effort streams of the same id too,
which `link_model.py:147` skips; and the overrun was looked for among the values that
occur, negated, rather than among all negative margins.

### Only model-checked

- *Liveness* (`EveryFrameIsDelivered`, `SoundJobsEndWell`, `BatchEnds`) is out of the
  prover's reach.
- The same-priority term of the formulas: the theorem is about streams without
  competitors of their class, and with them the bound is false (section 6).

## 6 Five disagreements found

`credit_before_arrival`: `enqueue_frame` (`simulation/services/enqueue_service.py:19`)
appends the frame to its queue and only then has the port's credits
synchronized. `synchronize_port_credits` judges the whole interval since the last
synchronization by the queue as it is now, so a shaped class whose queue was
*empty* while a best-effort frame was on the wire is given, at its first arrival,
the credit of the time before. `tests/unit/test_simulation_cbs.py:211` says
"Positive idle credit must reset to zero once the queue is empty." and line 241
that "A *queued* AVB class should accumulate uncapped credit while BE is
transmitting." In TLC's trace a
best-effort frame starts at 2 with no other frame left; at 3 the next class A
frame arrives, and class A has at once the unit of credit that a waiting frame
would have earned since 2. The credit
stays within the bounds and the reservation of section 4, so it shortens the
waiting of the class rather than breaking another's guarantee.

`run_case_without_json`: `execute` of `pipeline_run_case.py` computes both results in
memory and then passes the *paths* of the two result files to `execute_compare`
(line 201), whether or not `write_json` let the bundles write them. With
`write_json` off the comparison fails for want of a file, or, in a directory used
before, compares the results of the earlier run, and run-case reports success.
Line 155 promises "Run preparation, analysis, simulation, and comparison in one run
directory."

`batch_broken_manifest`: `_discover_case_directories` (`batch_manager.py:35`) reads
the manifest of every directory below the root before the loop that guards each
case. One manifest that cannot be read ends the batch before its first case,
without a catalog. `README.md:304`: "Batch execution continues after per-case
failures and writes aggregate catalogs plus per-failure diagnostics."

`readiness_shared_route`: `validation/simulation_preconditions.py:24` finds the route
of a stream by the stream's `route_id`; `release_frame` finds the path by the
`stream_id` that the route names. Two streams naming one route pass every check
and are declared ready for simulation; the simulation raises at the first release
of the second. (The analysis, which looks up as the preconditions do, runs.)

`analysis_bound`: `analysis/engine.py:16` says "Compute analytical AVB WCRT bounds
from the normalized case model." With two class A streams of period 4 and size 1 and
a class B stream of period 6 and size 3, each class within its half of the link,
the simulator delivers a class A frame after 7 units, and its bound is 6. The
formulas count one queued frame of each competitor and none of the stream itself; in
the simulator a class earns no credit above zero while the other shaped class holds
the port (`simulation/policies/cbs.py`), so frames queue up over the periods. With one
release per stream, the default, the bound holds for a stream that is alone in its
class on its links (`FirstFrameIsBounded`). For streams that share a class it need
not hold even then: where a first class A frame leaves the credit negative, a
best-effort frame gets in before the second, which thus waits for a class B frame
*and* a best-effort frame, while its bound counts only the longer of the two.

## 7 What is not covered

- *Reporting* is formatting. Of the *command line*, argument parsing and console
  output; of the *adapters*, the exporters and file formats; of the *infrastructure*,
  logging and file helpers beyond "a file may be missing or half written".
- Of the *simulation outputs*, the traces and the summaries that nothing reads back;
  of the *analysis*, the trace rows.
- Floating point: rounding, and the tolerances of 1e-9 off the grid (a hazard
  without a property).
- A batch whose root another process changes while it runs; two batches at once.
- Two streams with one id inside the simulator: the readiness properties are stated
  for distinct ids (a hazard without a property).
- Slopes that are not a share of the link's speed: normalization always derives
  them so.
- Negative link speeds, which normalization refuses, and the errors of
  the external schema other than an empty list of hops and a missing class.
- An environment without symbolic links: `run_layout.py:87-91` swallows the failure
  of the last step and leaves no link, so that `LatestLeadsToTheLastRun` speaks of
  systems where a link can be made.

## 8 The plan

Done, in this order: the simulator, because the rest is measured by it and it has
the behaviour that tests reach least; the run pipeline and the batch, with its
refinement; readiness; the analysis against the simulator; the comparison; the
store-and-forward network that the simulator implements; and the proofs of all of
these.

Left:

1. *The shaper, abstractly.* `StoreAndForward` leaves open when a shaped frame is held
   up. `PortService` would say it: one port as a non-preemptive server that sends the
   head of the eligible class of highest priority as soon as there is one, without
   events or markers; `WorkConserving`, `CreditWithinBounds` and `ReservationRespected`
   say parts of it.
2. *A corrected bound.* The weakest condition under which the formulas of the
   analysis bound every frame, as a property of the composed model.
