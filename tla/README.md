# A verification project for the power-grid data factory

This directory holds TLA+ models of the parts of `power-grid-data-factory` that
have to survive concurrency, kills and restarts, the TLC runs that check them
and the TLAPS proofs of what holds for every instance. It is meant to be read
beside the code: each module names the functions it translates, and
`PROJECT.json` maps each definition to its lines.

## 1. The system

The factory produces AC-OPF, SCOPF and power-flow data sets. A *campaign* is a
list of *rounds*. In a round, candidates (grid case, topology, operating point,
contingency) are generated, screened and selected, the selection is split into
*shards*, Slurm workers solve the shards with a Julia solver, and a reduce step
publishes the round's marker. Campaigns take many walltime windows, so
everything is built to be killed and resumed.

| Part | State it keeps | Operations | What is hard | What makes it correct |
|---|---|---|---|---|
| Attempt directories (`storage/layout.py`, `preservation/checksums.py`) | `.attempt_i.in_progress` and `attempt_i` directories of one solver configuration | scan, claim by `mkdir`, re-check, fill, checksum, mark, rename, verify | jobs interleave between any two system calls; killed jobs leave markers | attempt numbers are exclusive, a finalized attempt is whole and never changes |
| Shard map task (`run_campaign_ac_opf_round.py`, `SampleSink`) | `samples.jsonl`, shard ledgers, execution report, manifest, done marker; a write buffer in memory | solve, append, flush, skip, signals, close, append ledgers, report | buffered writes, kills inside a record, resume from what is readable | done means sampled, nothing is solved twice, bounded loss per kill |
| Shard split and queue (`shard_selected_candidates.py`, map/reduce `.sbatch`) | shard files, queue file, next index, `mkdir` lock, done markers | split, build queue, take a shard, mark it | workers race for shards; jobs die holding the lock; a resumed job rebuilds the queue | no shard is taken twice, an ok round covers the selection |
| Reduce (`reduce_campaign_shards.py`) | checkpoint `round_NNN_reduce_state.json`, marker `..._reduce_report.json` | walk the reports, checkpoint, publish, force | crash between any two writes; reports change between runs | each shard is counted once; ok only when all reports are ok |
| Campaign driver and supervisors (`drive_campaign.py`, `*_supervisor.sbatch`) | none of their own: they read the markers | find the furthest incomplete round, submit, chain | chains that spin or stop; duplicated rounds | every round is driven to an ok marker, none is skipped |
| SCOPF campaign (`scopf_campaign.py`) | manifest, claims, attempts, done and failed markers | claim by `mkdir`, solve, release, reclaim stale | check-then-claim races, dead claim holders | a task is solved by one worker at a time, at most `max_attempts` failures |
| Solver session (`powermodels_adapter.py`, `julia/run_opf.jl`) | one Julia process and its pipes | start, request, wait, fall back, close | late or unframed output, timeouts, process death | an answer belongs to the request that waits for it |
| Selection (`acquisition/`, `campaigns/campaign_round.py`) | ranked queues, quotas, portfolio counters | build queues, allocate, deduplicate, backfill | several paths that should agree | budget, quotas and portfolio limits hold |
| PF campaign (`pf/`, `run_campaign_pf_round.py`, `reduce_pf_campaign_shards.py`) | like the AC map task, plus one file per outcome class | as above, with solver fallbacks | a record is appended to two files and flushed from two buffers | outcome files agree with the sample file, but for what a signal between the two appends costs |
| Registries (`storage/registry.py`, `storage/attempt_io.py`) | JSONL and Parquet registries | locked append, rewrite | non-atomic rewrite | no record is lost |
| Operating points, topologies, contingencies (`scenarios/`, `topology/`, `contingencies/`) | none: pure functions of a seed | stratified sampling, switching, expansion, enumeration, filters | the filters judge the base case, the solver sees a changed one; chunks in parallel processes | connectivity, every stratum once, no outage lost or repeated |
| Planning, adaptive campaign (`campaigns/planning.py`, `scheduler.py`) | files of the parts above | budgets, stopping rule, choice of path | rounding, minimum shares | budgets add up |
| Repair of campaigns (`repair_failed_campaign_cases.py`, cost backfill, rebuild of reports) | sample files, ledgers and reports of finished shards, repair candidates | prepare in parts, split, retry, merge, rebuild | several files of one shard replaced one after another | no candidate missed, merged once, reports agree with the samples |
| Tools on stored samples (orphan PV audit, label upgrade, warm starts) | sample files and an overlay | scan, mirror, extract, read back | two readers of the same text (jq and Python) that should agree | every sample counted once, labels agree |
| ExaGO shard (`run_campaign_exago_ac_opf_round.py`) | one temporary directory per candidate | ladder of GPU, IPOPT, Cartesian and polar runs | time limits, stale checkpoints | the label says what was run |
| Source downloads (`scripts/download_sources.py`, `sources/download.py`, `sources/validation.py`) | archives, extracted trees, manifest, report | hash, resume, extract, validate | interrupted and replaced downloads | what is extracted is what was expected |
| Screening scores, diversity, boundaries, parsers, archives, reports | files they read or write | numerical scores, parsing, copies | mostly sequential | see section 7 |

How they interact: the driver (or a supervisor, or `AUTO_ROUND`) reads the round
markers and submits a round job with `RESUME=1`; the job splits the selection or
reuses existing shard files, rebuilds the queue and starts workers; a worker
takes shards one by one and runs a map task on each; when every worker ends
with status 0 the job runs the reducer, which reads the shard reports and
publishes the marker. All of this communicates only through files on a shared
file system, with `mkdir` and `rename` as the only atomic steps.

## 2. Modules

| Module | Models | Extends / composes |
|---|---|---|
| `AttemptLedger` | the abstract promise of the allocator: exclusive slots, published once | |
| `AttemptAllocation` | `create_next_attempt_directory`, the writers, `finalize_attempt_directory`, `verify_checksums` | refines `AttemptLedger` |
| `SampleFile` | `samples.jsonl` as lines and an open end: append, kill, read back | |
| `ShardRunner` | the sessions of one AC shard, the worker that launches and marks it | `SampleFile` |
| `RoundMarker` | the abstract promise of the reduce step | |
| `ShardReducer` | the checkpointed reducer | refines `RoundMarker` |
| `ShardPool` | the abstract promise of lock, index file and queue: positions handed out once | |
| `MapReduceRound` | one round over a chain of jobs: split, queue, workers, done markers, reduce | refines `ShardPool`; stands on what `ShardRunner` and `ShardReducer` promise |
| `ScopfCampaign` | workers, claims, attempts and supervisors of `scopf_campaign.py` | |
| `SolverSession` | the persistent Julia server and the one-shot script runs | `Outcomes` |
| `Outcomes` | statuses of a solver run, what counts as feasible or as a software error, the classes of the power flow | |
| `PfShard` | the sessions of one power-flow shard with its outcome copies | `SampleFile`, `Outcomes` |
| `PfReduce` | the end of a power-flow round: shards, replays, reducer | |
| `CampaignDriver` | jobs that submit jobs until every round has its marker | stands on what `MapReduceRound`, `PfShard`, `PfReduce` promise |
| `CampaignRepair` | cost backfill, repair campaign and rebuild of the reports | |
| `SourceDownload` | fetching, extracting and validating the archives of a source | |
| `*Proofs` | proofs: `RoundProofs` about `MapReduceRound` and `ShardReducer`, `PfProofs` about `PfShard` and `PfReduce`, `StoreProofs` about `SourceDownload` and `CampaignRepair`, `CampaignProofs` about `ScopfCampaign` and `CampaignDriver`, `SampleFileProofs` lemmas for both shard modules, the others about the module they are named after | the modules, TLAPS |
| `PythonLists`, `DataCall` | Python's `max`, `sum`, `round`, `sorted`; a single call with its result | |
| `Selection`, `Sharding` with `SelectionData` | queues, limits, backfill, screening, budgets, stopping; coverage, deal, benchmark tiers | `PythonLists` |
| `Topology` with `TopologyData` | components, bridges, variants, reinforcement, expansion | `PythonLists` |
| `OperatingPoints`, `Contingencies` with `ScenarioData` | stratified sampling, regimes, scaling, snapshots; outage rows, filters, parallel enumeration, static set | `Topology` |
| `PfCandidates` with `PfData` | quotas, anchors, schedules, redispatch, outage response, labels of the power flow | |
| `ExagoLadder` | the ladder of ExaGO runs of a candidate | `Outcomes` |
| `SampleTools` with `SampleToolsData` | the tools that go over stored samples | `Contingencies`, `Outcomes` |
| `CaseData` | all the calls on values in one specification | the `*Data` modules, `ExagoLadder` |
| `MC_*` | constants for TLC | the module they are named after |

An operator named after another with a suffix, as `TakeFrom_Passed` beside
`TakeFrom`, and marked "Variant with a bug", is the same step with a plausible
mistake. No specification uses it: it stands for the change of the code that the
property listed with it in `PROJECT.json` ("mutants") is there to catch.

### AttemptAllocation

One process per execution of a solver script (`Jobs`). The shared state is the
directory tree: `marker` and `final` hold the numbers with an in-progress and a
finalized directory, `tmp` and `kept` the files in them together with the job
that wrote each (so that a mixture of two jobs' files would show). Each system
call is one action: the listing (`ScanBegin`, `ScanEnd`, not atomic: it may miss
what is renamed meanwhile), the two existence checks, the exclusive `mkdir`, the
re-check, the clean-up, each file, the checksum list, the terminal marker, the
rename and the verification. `Crash` stops a job anywhere and leaves its files.

### SampleFile and ShardRunner

A record is a candidate and whether its status asks for a retry. The text of a
record matters only where a kill cuts it, so the file is a sequence of lines,
each a record or `Junk`, and a flag that says that the last line has no newline.
`Appended` is what a write does behind such a line; `AfterKill` gives every file
a kill may leave: a prefix of the buffered records and perhaps a part of the
next one. `ShardRunner` has one action per step of `main` (skip, execute, flush,
close, each ledger, truncation and text of the report, manifest), the done
marker of the worker, SIGTERM and SIGKILL. The outcome of an execution is chosen
from `Outcomes[c]`; it may differ from session to session.

### ShardReducer and RoundMarker

The reducer's four sums and ledger lists are functions of the sequence of
reports it merged, so that sequence is what the model keeps. `Start`, `Load`,
`Stop` (missing or failed report), `Choke` (a report that does not parse),
`Merge`, `Publish` and `Clean` are its steps, `Report` is a map task. No reducer
runs while map tasks do, as in the job scripts. `RoundMarker` is the same
component with a reduce run as a single step.

### MapReduceRound and ShardPool

The chain of jobs that works on one round: `Submit` (AUTO_ROUND resumes a round
whose marker is missing or not ok, `RESUMING` is decided by the shard files),
`OpenShards`, `FillShards` or `CutShards` (the streaming split, whose output
reaches the files only when its buffers do: a killed one may leave files that are
short, and files that end in half a line, `broken`), `RejectSplit` (the coverage is
enforced and not met: the split exits after the files were written),
`BuildQueue` (lists the non-empty shard files below the job's own shard count,
removes the stale lock, resets the index), the worker's steps `Lock`, `Read`,
`Bump`, `Unlock`, `Pick`, `Sample`, `MapOk`, `MapFails`, `Touch`, then
`MapStageEnds` and `ReduceStage`. `Kill` ends the job, `Death` one worker, with
whatever they hold. The map task and the reducer are reduced to what
`ShardRunner` and `ShardReducer` establish. A task sets out to solve the
candidates of its shard that are enabled and have no record (`todo`). It ends ok
if at most `max_failure_fraction` of those (`MaxNum / MaxDen`) were left without
a record, not ok otherwise, and it raises over a shard file that ends in half a
line. So an ok shard may miss records: those that its tasks were allowed to fail
and those of the candidates the execution policy disables. `ShardPool` is the
round's queue with an atomic take; the refinement maps lock and index file to it.

### ScopfCampaign

A worker's claim is four steps as in `_claim`: the done file (`Look`), the number
of failure files (`Count`), the exclusive `mkdir` (`Claim`) and `owner.json`
(`Own`). `RunTask` ends final or crashed, `Raise` is a report that does not
parse; `RecordDone`, `RecordFailed` and `Release` are the rest of `run`. The
supervisor's `StartClear`, `NoteStale`, `ClearStale` and `Choke` are
`clear_stale_claims`, `Status` the look at the pending tasks with the submission
of the next job. `Kill` ends job or supervisor anywhere and may leave the file
that was being written torn (`Torn`). A claim directory holds nothing but
`owner.json`, and releasing it is one step.

### SolverSession and Outcomes

Between the server and the session lie two places where a line can wait: the
pipe, which `select` sees, and the buffer of the text stream, which only
`readline` sees. `Take`, `BeginLine`, `EndLine`, `Chatter` (a line that is no
answer) and `Die` are the server's; `Call`, `Reuse`, `Start`, `Send`, `Select`,
`TimeOut`, `Fill`, `ReadNoise`, `ReadAnswer`, `ReadFails` and `Close` those of
`PersistentPowerModelsSession`, with the fallback to the next linear solver in
`Settle`. A time-out may come at any moment of a wait. It cannot come during `Send`:
the request is written and flushed before the deadline is set
(`powermodels_adapter.py:198`), so a server that does not read may hold the caller
there for ever. `batch` keeps the lines that one `readline` took from the pipe. `ScriptCall` to `RunScript`
are `_run_julia_script` with its preflight and its three temporary files. A result
is known by the number of the request it answers and its status; what the labels
make of a status is in `Outcomes`, which the other modules share.

### PfShard and PfReduce

`PfShard` is `ShardRunner`'s counterpart for `run_campaign_pf_round.py`: each
record goes through two buffers into two files (`main`, `copies`) in two steps,
`Execute` and `Copy`, with a signal possible between them; the handling of a
candidate may fail before the write, at the open of its outcome file or after the
count (`Fates`). The files are closed one after the other, first `samples.jsonl`
(`CloseMain`), then each copy (`CloseCopy`), and only then the session goes on
(`Leave`) to coverage ledger, manifest, report and exit status. `Warn` is the
signal before the walltime; `Terminate` is SIGTERM, whose handler flushes and
closes what is buffered at that point: between the two steps that is a record
without its copy (`cut`), and inside the close the copies still buffered are lost
(`TerminateClose`). `Kill` is SIGKILL.

`PfReduce` is the end of a round. The source shards are run by a chain of jobs
(`chain`): the map job, in which shards begin and end (`Begin`, `End`, `MarkDone`),
ends at any time (`MapEnds`); the finalizer that depends on it reduces with force
(`Finalize`); the supervisor that depends on the finalizer submits the next map job
unless the summary is complete (`Supervise`). Beside them replays are staged over
the source or another replay, of the shards asked for or of those with errors,
possibly none (`Stage`), merged (`Merge`) or given up, and their own job starts the
reducer for them; nothing follows that reduction. The reducer reads reports,
ledgers and sample files one after the other while all of this goes on, and may be
killed (`Die`). At most one reducer runs at a time.

### CampaignDriver

A job is a record in the order of submission, with what it waits for, its state
and where its script is. `Launch` and `ShellSubmit` are the four launchers
(`drive_campaign.py --chain`, `launch_ultrascale_campaign.py --auto-round`, the
supervisor of the ExaGO campaign, the power-flow chain supervisor, prepare, map,
finalizer), `SupStops` to `SupFollows` a supervisor, `Generate` to `EndPrep` the
preparation, `Select` to `Reduce` a round's job. Of a round the model keeps which
files are there, for what budget and after which earlier samples the candidates
were selected, and its marker. `KillJob` stops a job, `Requeue` puts it back under
its id, `Refuse` is a failing `sbatch`. The history variable `exposed` notes that
the job that was stopped was all that held the chain; in that case, and only
then, the scripts themselves leave nothing behind to continue.

### CampaignRepair

Three kinds of jobs, one at a time, of several tasks each: the cost backfill,
the repair (prepare in parts, deal, solve, index the retries, apply them source
by source, finalize) and the rebuild of the reports. Files are replaced by
renaming, so `KillJob` leaves each as before or after, but the sample file, report
and manifest of one source are replaced one after the other (`at[p].step`). Only the
split is streamed: killed there, a job leaves each shard file with a prefix of its
lines and perhaps half of the next one (`CutSplit`, `lost`, `broken`); no later job
deals again, and one that reads half a line raises (`Unreadable`). The
number of tasks may differ between submissions; parts remember theirs. Rows are
known by candidate and run id, which a candidate sampled again shares with its
first row, so the same key may stand at several places of a file, and a list of
retries may hold it more than once.

### SourceDownload

The content of an archive is the sequence of its chunks, each named by the
version it comes from; the hash is the content. A run goes over the archives:
`Check` (hash, decide), `Fetch` or `FetchFails` (curl with `--continue-at -` appends
what is offered now behind what is there), `Extract`, then `WriteManifest` and
`Report`. Kills during a download leave any prefix, during an extraction a
directory that is there and not whole, while the manifest is written an empty or
a torn one (`WrittenTo`). An empty manifest is read as none; over a torn one
(`TornManifest`) every later run raises before it does anything. `Publish` replaces
an archive upstream.

### CaseData and the data modules

Pure functions are translated as operators (`Selection`, `Sharding`, `Topology`,
`OperatingPoints`, `Contingencies`, `PfCandidates`, `ExagoLadder`,
`SampleTools`); their `*Data` modules call them on all small inputs. A state is one
call with its arguments and result (`DataCall`), and each property compares the
result with a definition that says what it is for, not how it is computed:
bridges with the components of the network without the branch, filters with what
the solver will see, the streaming with the in-memory selection. Shuffles, hashes
and draws are inputs that take every value. Iterations of the code in which the
state grows (topology attempts, expansion steps) are actions of their own
(`Attempt`, `Expand`).

## 3. Runs

Most runs have one invariant that joins the module's type invariant with named
parts, so that a run asks one question.

| Run | Properties and their parts | Bounds and why they are enough |
|---|---|---|
| `attempt_allocation` | `AttemptsSound`: `TypeOK`, `ExclusiveOwner`, `RenameReady`, `PublishedWhole`; `FinalizedImmutable`, `EveryJobPublishes`, `ImplementsLedger` | two jobs give a holder and a rival at every step (the proofs cover any number); two left-over numbers, finalized or half-written; two files; `MaxTries` = 4 exceeds the numbers in use |
| `solver_session` | `SessionSound`: `TypeOK`, `AnswerBelongs`, `QuietWhenIdle`, `FallbackInOrder`, `LabelsHonest`, `TempFilesGone`; `DeliveredMeansReturned`, `CallsReturn` | two solvers (one fallback) and three calls: an answer can be late for the next attempt and for the next call; two lines of noise, so that one can precede and one follow an answer; two deaths; 94,326 states |
| `shard_runner` | `SamplesSound`: `TypeOK`, `NoSecondRecord`, `AtMostTwoLost`, `ReportAccounts`, `DoneMeansSampled`, `LedgerRowsOnce`; `LossBounded`, `ShardCompletes` | four candidates, each with its way to go wrong, one disabled; a buffer of two makes flushed and unflushed records coexist; four sessions, files torn in any way |
| `shard_reducer` | `ReduceSound`: `TypeOK`, `CountedOnce`, `MarkerHonest`; `MarkerFollowsReports`, `RoundIsReduced` | three shards with a checkpoint every two: crashes fall before, on and after a checkpoint; lists of two or three shards; two contents per report; two crashes |
| `map_reduce_round` | `RoundSound`: `RoundTypes`, `TakenOnce`, `DoneMeansReported`, `EndMeansDone`, `NoDoneShardRuns`, `OkMeansListedRun`; `OkMeansCovered`, `RoundCompletes`, `ImplementsPool` | four candidates, one of them disabled, over two or three shards, half of a shard tolerated as failed (the default), so that a shard of two may end ok with one record; two workers, three faults: a cut split, a resumed job and a death with the lock in one behaviour; 1,003,337 states |
| `scopf_campaign` | `CampaignSound`: `TypeOK`, `RunsAlone`, `JobLeavesNoClaim`, `CompleteMeansFinal`; `AttemptsNearlyBounded`, `WholeCampaignEnds` | two tasks and two workers; two attempts, so that the last one can race with a claim; two kills, one unreadable report |
| `pf_shard` | `RecordsSound`: `ShardTypes`, `NoSecondRecord`, `CopiesSplitMain`, `DoneMeansSampled`, `CoverageSound`, `VerdictAboutFiles`; `ShardCompletes` | three candidates of different classes and fates, a buffer of two, three sessions, a failure fraction of one third: a signal falls between each pair of appends and of closes, and the next session meets what it left; 318,518 states |
| `pf_reduce` | `ReplaysSound`: `TypeOK`, `MergedInPlace`, `NeverRaised`, `SameShards`; `LedgersFit`, `RoundGetsReduced` | two shards, of which one may end with software errors, and two replays, the second of the source or of the first, of shard 2 or of the shards with errors (none, if there are none); two reducers besides the finalizer's, so that a replay can be reduced after the round was; 376,706 states |
| `campaign_repair` | `RowsSound`: `RepairTypes`, `CandidatesComplete`, `NeverMixed`, `MergedExactly`; `ReportsSound`: `ReportNotBehind`, `ScaledOnce`, `NoLegacyLeft`, `ReportsRebuilt`; `RepairedOnce`, `RepairEnds` | three sources (a candidate sampled twice under one run id with a torn line between, linear costs, two rows to repair) over three shards, one or two tasks per submission so that parts of both counts meet, one kill at any step, in the split at any line of each file; 167,472 states |
| `campaign_driver` | `RoundsSound`: `DriverTypes`, `OneWriter`, `NotStranded`, `CompleteMeansSampled`, `NoPartialReduce`, `PriorKnown`, `BudgetPlanned`; `SelectionKept`, `ChainRunsDown` | two rounds of two shards under each launcher, `afterok` only for the driver that offers it; two launches, two faults (one for the longer power-flow chain), three cycles |
| `source_download` | `ArchivesSound`: `TypeOK`, `ReportHonest`, `ExtractedExpected`, `ValidatorAgrees`; `ResumeCompletes` | a zip with an expected checksum and a tar without; two chunks and two versions, so that a prefix of one can be followed by the other; two kills or failures, one replacement; 463,174 states |
| `case_data` | see below | all inputs up to the constants of `CaseData.cfg`: networks of up to four buses and branches, up to seven rows, points or ranks |

The properties of `case_data`:

* `SelectionRight`: `SelectionFills`, `QueuesGetTheirShare`, `StreamingAgrees`,
  `ScreeningAudits`, `ShardsPartition`, `CoverageMet`, `BudgetsAddUp`,
  `OrderDoesNotMatter`.
* `NetworksStayWhole`: `BridgesExact`, `VariantsKeepNetwork`, `ReinforcedSurvives`,
  `ExpansionKeepsComponents`, `PlanReplays`.
* `ScenariosRight`: `OperatingPointsRight` (`StrataHitOnce`, `RegimesBalanced`,
  `CostsPermuted`, `LimitsStayOrdered`, `SnapshotTakesOver`) and
  `ContingenciesRight` (`PrefilterAgrees`, `OutagesHonest`, `ChunksLoseNothing`,
  `StaticSetKeepsNetwork`).
* `PfCampaignRight`: `QuotaRule`, `ReservoirFair`, `GenerationPairs`, `QuotasMet`,
  `SplitsApart`, `RedispatchBalances`, `ResponseMakesUp`, `OutageRule`, `LabelsAgree`.
* `LadderHonest`: label, time and fallback of a candidate's ladder are what ran.
* `SampleToolsRight`: `OrphansExact`, `AuditCountsOnce`, `LabelsMirror`,
  `ExtractedOnce`, `WarmStartOwn`.

`MaxLaunches`, `MaxCrashes`, `MaxFaults`, `MaxKills`, `MaxDeaths`, `MaxNews` and
`MaxRaises` bound only faults, so that the liveness properties ask about a system
that is eventually left alone; `MaxCalls` and `MaxReduces` bound what callers ask
for. Deadlock checking is off where the system really stops: jobs that have
published, a shard that is done, a session that is closed, a round or a campaign
that is complete, a download whose manifest is torn. `OkMeansCovered` is about splits
that were written to the end and are listed in full by the job that reduces, and it
allows an ok shard the share of missing records that its tasks were allowed
(`FewMissing`); `SameShards` is about replays of the source or of such a replay (all of
them, with the two of the run), `CopiesSplitMain` about runs without SIGKILL, failed
opens and a close broken off by a signal, `MergedExactly` about an index and
`NoLegacyLeft` and `ReportsRebuilt` about a rebuild whose parts are of one task count, `VerdictAboutFiles` about
sessions that had all of the shard to do: section 5 says what happens otherwise.

Every property of a run has a mutant in `PROJECT.json` under which TLC finds it
violated; the mutants of a composite break one of its parts.

## 4. Fairness

* Jobs, sessions, workers, tasks and a download run: the operating system
  schedules a live process, so weak fairness on its steps.
* Launching a session, a job or a reduce run: AUTO_ROUND chains and supervisors
  resubmit the round as long as its marker is not ok, the SCOPF supervisor as
  long as tasks are pending. A reduce run competes with map tasks that may write
  a report first, so the reducer's restart and the reports have strong fairness.
* When a worker died holding the queue's lock, the others spin and only the
  walltime ends the job: Slurm's kill at the walltime is weakly fair then.
* `SolverSession`: the caller's steps and the time-out are weakly fair; the server
  may compute for ever, but a line it began to print is ended (`EndLine`): the
  server writes and flushes it without computing in between, and the `readline`
  that waits for its end has no time-out of its own. `Send` is not fair, because the
  write may block; `CallsReturn` leaves out a call that stays there.
* `PfReduce`: a job of the chain ends and the next one starts (`afterany`
  dependencies and the supervisor), a running reducer goes on and one that raised
  ends. The steps of the source's shards have strong fairness, since each map job
  may be cut short and the supervisor submits another. Replays and their
  reductions have none.
* `CampaignRepair`: the tasks of a job, and strong fairness of submitting the
  repair with each task count: the sbatch script says to resubmit it until it is
  merged, and another kind of job may be in the queue meanwhile. A retry that
  raises over half a line ends its job like a failed task.
* `CampaignDriver`: the launching shell goes on, Slurm starts what is released,
  a running job goes on. Nothing is assumed of the operator: a second launch is
  possible, never certain.
* `SourceDownload`: strong fairness of a run with download and extraction as long
  as the last report is not ok.
* Nothing else is assumed about kills but their bound. `MAX_CYCLES` (500) and the
  length of a chain are taken as large enough except in `CampaignDriver`; in
  `PfReduce` the supervisor does not fail either.

## 5. Disagreements and limits met while modelling

The models follow the code; where a document or a comment says otherwise, or the
code has a limit a user may not expect, the properties are stated for what the
code does and the difference is listed here.

Shards and rounds

* A line torn by a kill swallows the next session's first record, which counts
  as solved (`round_runner.py:547`, `:565`): the shard may be done without it. That
  is the second of the two records `AtMostTwoLost` allows for.
* Resuming shrinks the denominator of the failure fraction
  (`run_campaign_ac_opf_round.py:353`), so a shard that would pass in one session
  can fail in every resumed one; `docs/resumable_campaigns.md:130` says that resuming
  never inflates the failure rate.
* A job resumed with fewer tasks lists only the shards below its own count, and
  the round becomes ok without the others (the AC sbatch script, line 285;
  `resumable_campaigns.md:156`).
* A job killed while the shards are written leaves a shorter split that every
  later job takes for the whole selection (line 202; `resumable_campaigns.md:150`);
  so does a split rejected for its coverage, whose files are already written
  (`shard_selected_candidates.py:202`). A kill that leaves all files empty stops
  the chain for good (line 303: the queue is empty), and so does one that leaves a
  file ending in half a line: each task over it raises (`round_runner.py:32`).
* An ok round has not solved every candidate. A task is ok with up to
  `max_failure_fraction` of what it had to solve failed and without a record
  (`run_campaign_ac_opf_round.py:331`, 0.5 by default), disabled candidates are
  skipped (219), and with resumed sessions the tolerated shares are of what was
  left each time. `OkMeansCovered` says what remains true.
* "the output is identical to the in-memory path" (`docs/resumable_campaigns.md:427`)
  is not what the split does. In memory the rows are sorted by id before they
  are dealt, the backfill takes the pool row with the largest gain, and the coverage
  is checked before anything is written; the streaming split deals in the order
  of the file, takes pool rows in theirs, and writes before it checks
  (`SplitInMemory`, `SplitStreaming`). What both keep is in `ShardsPartition` and
  `CoverageMet`.
* The ledger rows of a killed session are lost, and the portfolio rows of a
  session are appended once per session that ends. Without `--continue-on-error`
  the loop ends at the first failure and the shard may still be ok.
* A reduce checkpoint outlives reports it counted when a shard runs again
  (`ReRuns`, off in the run), and one over another list of shards blocks all plain
  runs.

SCOPF campaign

* A torn `owner.json` makes every later clean-up raise, and the chain ends with
  tasks pending (`scopf_campaign.py:177`, against `docs/setup.md:237`).
* A task can be claimed again after it is final, and once more than
  `max_attempts_per_task`, because `Look` and `Count` precede `Claim` and are not
  repeated: `AttemptsNearlyBounded` is the bound that holds.

Solver runs

* ExaGO: the comment that a total failure costs at most about 1.5 times `timeout_s`
  holds for no mode with a GPU run before IPOPT: it is up to 2.75 times, and more
  below the floors (`LadderHonest`). With `PGDF_EXAGO_VERBOSE` a time-out raises a
  `TypeError` while the log is written and the candidate fails.
* A timeout of the Julia session may lose an answer that came together with other
  output: `readline` takes both, and `select` sees only the pipe
  (`DeliveredMeansReturned`).
* Writing the request has no deadline (`powermodels_adapter.py:198`), and neither has
  the `readline` of a line once begun: `timeout_s` does not bound a call.

Power flow

* A SIGTERM between the two appends of a record (`round_runner.py:611`, `:618`) leaves
  it in `samples.jsonl` without its copy in the outcome file, and no resumed session
  writes the copy again: one record per terminated session at most. A SIGTERM
  during the close loses what the copies not yet closed have buffered.
* A partial summary that a replay's early reduction leaves when the chain has ended
  stays for good: the finalizer depends on the chain's map jobs only
  (`riker_pf_mapreduce.sbatch:68`). `RoundGetsReduced` names that case.

* A replay's reduction that is started early replaces a complete summary
  (`riker_pf_replay_reduce.sbatch:28`), and the replay job passes no `--resume`
  (`riker_pf_replay_shards.sbatch:70`).
* A replay's reduction names one prior replay (`riker_pf_replay_reduce.sbatch:20`,
  `:36`), although `prepare_pf_shard_replay.py` extends the list of a replay that
  extends another's. After a chain of three the files of the first replay are not
  counted and its shards' original files are, while reports and ledgers follow the
  merged list. The run's two replays cannot show it; the attempt to prove
  `SameShards` for any number of replays did, and the property now says which lists
  it is about.
* The strata of outages rank components that are out of service too. Anchor index,
  registry and manifest are replaced one after another.

Selection, generation, split

* The comment at `selector.py:70`, that the streaming path is equivalent to the
  full one, is true of distinct ids only; the backfill ignores the portfolio
  limits in both. `run_adaptive_campaign_round.py` counts newlines, so a file
  without a final one is one candidate short.
* The signature of an expansion plan contains ids made from its index, so the set
  of seen plans rejects none. Topologies and expansions cycle with the same
  index, so not every pair occurs.
* With one worker the enumeration draws from one generator, with more from one
  per row: the same seed gives different contingencies (`ChunksLoseNothing`).
* `feasibility.py:23` promises to drop only what is provably infeasible. A unit id
  that the network does not know is read as an index into the units in service
  (`feasibility.py:268`), while ids count the rows of the case file, of which the
  parser drops those out of service (`parsers/matpower.py:236`): the outage of a
  unit that is out of service may be charged to another one and the candidate
  dropped. `PrefilterAgrees` is stated for that rule (`PlaceOfUnit`), `UnitsWithGap`
  has such a network.
* The feasibility filters judge base loads and units; with snapshots, expansions
  or regional scaling the solver sees another case, and `PrefilterAgrees` is
  stated without them.
* Registering snapshots again renumbers them, and an unknown snapshot id is
  silently solved with base loads. A negative `pmax` may end below `pmin`.

Tools, repair, sources

* Of a line that holds two records jq reads both and Python none; the jq path does
  not filter by the kind of sample; such a line in a file the overlay names aborts
  the audit. Byte pointers of warm starts go stale when a file is rewritten; the
  loader checks the candidate, not the run. The label upgrade takes no lock.
* `repair_failed_campaign_cases.py` has a `def` line missing near line 731: what
  follows is modelled as the body of that function. Retries finished after a merge
  cannot be merged into the same file. The cost backfill replaces samples before
  the report, the repair the report before the samples. Index, backfill and
  rebuild parts are not compared by task count; a backup cut short is never
  retaken.
* A repair job killed while it deals leaves shard files that no later job deals again
  (`riker_repair_activsg2000_case300.sbatch:177`). The candidates that are not in
  them are never retried and the repair is complete without them; a file that ends
  in half a line makes every retry raise, and the merge is deferred for good
  although the script says to resubmit (`RepairEnds` names that case).
* A rebuild finalized with fewer tasks than its parts were made with sums its own
  number of parts only (`rebuild_round_shard_summaries.py:320`) and may call itself
  complete with legacy rows left in the others. The proof attempt showed it:
  `NoLegacyLeft` and `ReportsRebuilt` now speak of a rebuild whose parts are of the
  task count it was finalized with (`SummedUniform`).
* A candidate sampled again has the run id of its first row, because the id has no
  attempt number (`round_runner.py:608`). Where code looks rows up by candidate and
  run, the last one wins: `ReportNotBehind` and `Right` are stated for that.
* The two `_update_report` functions differ: the repair's refreshes the status and
  sets the cost convention only if the retry has one
  (`repair_failed_campaign_cases.py:424`); the backfill's sets objective and
  convention and leaves the status (`backfill_cost_scaling.py:195`).
* A manifest torn by a kill within its YAML makes every later run raise
  (`download.py`, `load_existing_manifest`) until somebody removes it.
* Without `expected_sha256` (ten entries of `configs/sources.yaml`) the hash of a
  partial file enters the manifest and the next run reports it as ok; a zip cut
  short is an unsupported archive and no error; a wrong file of full length is
  never repaired by `--continue-at -`; extraction without download extracts a
  wrong checksum and reports ok. `ReportHonest` and `ExtractedExpected` therefore
  speak of archives with a checksum and of runs that download.

Driver

* A supervisor requeued between `sbatch` and the note of the id it got submits a
  second successor, and two chains run (`Doubling`, off in the run: with it
  `OneWriter` fails).
* An AUTO_ROUND job applies the budget of its own place in the chain to whatever
  round it finds. `--chain` submits jobs for later rounds that are complete
  already. With `start_round` above 0 the seeds of a launch and of AUTO_ROUND
  differ. `docs/riker_pf_campaign.md` says "missing or not `ok`" where the driver
  asks for `complete`.

## 6. Proofs

`AttemptAllocationProofs` proves for any sets of jobs and files, any left-over
attempts and any number of tries that types are kept (`TypeCorrect`), numbers
are exclusive (`Exclusive`), the rename cannot fail (`RenameNeverFails`), a
published attempt is whole (`PublishedIsWhole`), together `AttemptsAreSound`, that
finalized attempts never change (`FinalizedNeverChanges`) and that the allocator
refines `AttemptLedger` (`AllocatorImplementsLedger`). The inductive invariant says
of each job that holds a number (between `mkdir` and rename) that the marker is
there and no other holder has the same number, that owners have re-checked the
finalized name, and which files they wrote so far. Exclusiveness alone is not
inductive: a job that looked up a free name and has not yet tried the `mkdir` is
only harmless because of what the holder guarantees.

`RoundProofs` proves of `ShardReducer` `ReducerIsSound` (`ReducerTypes`, `ShardsCountedOnce`,
`MarkersAreHonest`) and `OkMarkerNeverLeaves` for any number of shards, lists,
checkpoint interval and crashes, and under `ReRuns = FALSE` that the reducer
refines `RoundMarker` (`ReducerImplementsRoundMarker`). The inductive invariant
says that a dictionary, live or saved, has merged as many reports as its index
says and blames at most the next shard; for the refinement it adds that what was
merged is what the reports say now, which is stable because reported shards are
not run again.

`RoundProofs` proves of `MapReduceRound` for any selection, shard counts, set of
workers and faults, cut and rejected splits included, `RoundIsSound`: types
(`RoundKeepsTypes`), no shard is handed out twice (`ShardsTakenOnce`), done markers tell the truth
(`DoneMarkersTrue`), done shards rest (`DoneShardsRest`), the reduce stage starts
only when every queued shard is done (`ReduceAfterAll`), an ok round has run all its
listed shards to an ok report and misses at most the tolerated share of each
(`OkRoundRun`); `OkRoundCovers` says the same of the selection, and
`QueueImplementsPool` that the queue refines `ShardPool`. How much an ok shard may
miss does not depend on the number of tasks that ran it: what lacks a record at the
end was taken up by the task that reported ok, and a share that is small enough of
what that task took up is small enough of the shard (`TolerationMonotone`). The
inductive invariant says that whoever is between `mkdir` and `rmdir` is alone
there and holds the lock, that whoever read the index read its present value,
that positions in hand are below the index and distinct, and that a position
below the index is in hand, done, or lost with a worker that died, in which case
the map stage cannot end well.

`CampaignProofs` proves of `ScopfCampaign` for any tasks, workers, attempts and kills, torn
files included, `CampaignIsSound`: types (`CampaignTypes`), no two workers run one
task (`TasksRunAlone`), the claims of a running job belong to its workers
(`ClaimsAreReleased`), the supervisor stops only when each task is done or
exhausted (`CompleteIsFinal`). What has to be added is who runs when: nobody
works while the supervisor clears, its list is exactly the claims that are left,
and there is none when it looks at the status; otherwise a claim it never saw
would keep a task out of the pending ones.

`StoreProofs` proves of `SourceDownload` for any archives, checksums, chunks, kills
and replacements that a good report is honest (`ReportsAreHonest`), that what was
extracted is what was expected (`ExtractedIsExpected`), and with the types and the
validator's verdict `ArchivesAreSound`. A report is a fact about the past, so the
argument is about stability: an archive that is the expected one is never fetched
again, because `curl` is asked only for what is missing or does not match
(`KeptStays`, `FilledStays`). `Progress` says of a run that is still ok that every
archive it has behind it is the expected one and, if it extracts, filled; at the
end all archives are behind it, and the report inherits what `Progress` says.
The directory needs the condition `~killed`: a later extraction that is killed
leaves one half filled although the last report was good.

`SolverSessionProofs` proves for any solvers, calls, noise, deaths and answers
`SessionIsSound`: types (`SessionTypes`), answers that belong to their requests
(`AnswersBelong`), nothing under way in a session that is kept (`SessionIsQuiet`),
fallbacks in order (`FallbacksInOrder`), labels that agree (`LabelsAreHonest`), no
temporary file left (`TempFilesAreGone`); and `DeliveredIsReturned` of the time-outs.
`AnswerBelongs` alone says nothing of what may come next. What is inductive is where
a request can be (`OneRequest`): on stdin, with the server, or as a line in one of
the two places, never in two, always the one sent last, and nowhere once the
caller has given up, because every path that gives up closes the process. For the
lost answer the invariant says of the lines that the last `readline` of the call
took (`batch`) that those not returned yet are its end and those returned were noise:
an answer that is still there stands behind one of them.

`ShardRunnerProofs` proves for any candidates, outcomes, buffer size, number of
sessions and ways to tear a file that no candidate is recorded again
(`RecordedOnce`), that its ledger rows are not doubled (`RowsOnce`), that a session
takes away no more than its buffer and one line (`LossIsBounded`), and, under
`ContinueOnError`, all of `SamplesSound` (`SamplesAreSound`). The flag is a
constant of the model and the launcher's default
(`launch_ultrascale_campaign.py:53`); without it a session may end before its
candidates do and the shard be marked all the same. The inductive invariant
(`ShardInvariant`) joins what is loaded, what the file says and what the buffer
continues it with: a final record is of a candidate that was loaded or that this
session has passed (`Recording`), only the last line of the file at the start of a
session and the first one behind it can be lost, and only if a line that is no
record stays to show it (`Losing`), and a row in a ledger means that the record is
in the file (`OneRow`), which the next session therefore loads. What an append or a
kill makes of a file is stated once, in `SampleFileProofs`, for any set of records
(`AppendedFollows`, `KillFollows`): each line that is read later was read before or
was in the buffer. The power-flow shard rests on the same lemmas.

`PfProofs` proves of `PfShard`, for any candidates, results, exceptions, flush
interval, sessions and kills, all of `RecordsSound` (`RecordsAreSound`): types
(`PfShardTypes`), no candidate twice in file and buffer (`ShardRecordsOnce`), outcome
files that split `samples.jsonl`, but for one record per session, as long as no
SIGKILL, failed open or broken close came between them (`CopiesFollow`), and coverage rows, done markers and verdicts that agree with
what is on disk (`ShardJudgedByFiles`). The invariant `ShardIInv` adds where the
session is (`Progress`: a candidate has met its fate exactly if the loop has passed
it, and it is skipped exactly if it was loaded), that what is recorded is not to be
solved in this session (`Known`), that a whole file holds what was loaded and what
this session wrote, of the class the session saw (`Kept`), and that a session that
may still append coverage rows has loaded the candidates of the rows that are
there (`Covered`). `DoneMeansSampled` is inductive only together with the account of the
report (`Reported`), which counts the same fates. `CopiesSplitMain` is stated by
places (each outcome file has the records of its class, in the order of
`samples.jsonl`), so that an append or a flush disturbs it at one place only; while
the copy of a record is still to come, or was cut off, the record is excepted
(`Uncopied`), and as the candidate counts as recorded it never comes back.

`PfProofs` proves of `PfReduce` for any number of shards, replays and reductions
`ReplaysAreSound`: types (`PfReduceTypes`), merged lists in place
(`MergedListsInPlace`), a reducer that never meets a shard twice in its roots
(`ReducerNeverRaises`), and files counted in the shards listed; and `LedgersAreFit`.
The reducer reads reports, ledgers and sample files one after the other while
sessions and preparations go on, so `ReduceInvariant` is about what does not
change: a list that was merged, the queues it was made of, a report that was there,
a file that was begun. From `Chained` follows that a replay and its base never
stage the same shard (`NotTwice`), which the preparation's check of the base list
achieves and the reducer's own check, later, relies on; from `Working`, `Reading`
and `Writing` that at the end found reports, ledgers and counted files are about
one list (`FilesOfTheList`).

`StoreProofs` proves of `CampaignRepair`, for any stored rows and reports, sources,
shards, task counts, verdicts and kills, `RowsAreSound`, `ReportsAreSound` and
`RepairsAreFinal` (no row is replaced twice). The argument is again one of stability.
Once every part of the index is there nothing is retried any more, so what there is
to replace in a source is fixed; a source with nothing left to replace (`Settled`)
is never written again, and every step of a merge makes its source settled at once.
`RepairIInv` therefore says of each row that has been repaired that its source is
settled and the row shows the last retry that counts (`FixedRight`), of each source
a task has passed, a part has applied or the manifest covers that it is settled
(`MergeKept`), and of a source between its two writes that the report already has
the rows to come (`Swapping`), which a rerun after a kill writes again unchanged.
`ListKept` ties candidates, retries and rows: as long as there is no index the list
is what the files would give, and what is on it waits in its source or the source
is settled. That is why a merge never meets half of a source's retries
(`NeverMixed`): the retries that count belong to rows that still wait, all of them.
`RebuildKept` says that a report rebuilt stays right, because the rebuild follows
the merge, and what may still run after it finds every source settled. `CandidatesComplete` is about a list that
is the concatenation of the parts, and the last retry of a row about a maximum over
a finite set: such facts need an induction over numbers, which the proofs make by
taking a least counterexample (`WFMin` and `NatLessThanWellFounded` of the library,
which have no operator parameter). TLC checked every part of `RepairIInv` on the
instance of the run before it was proved.

`CampaignProofs` proves of `CampaignDriver`, for any number of rounds, shards, cycles
and launches, any budgets and dependencies and any bound on the faults of each
launcher, `DriverRoundsSound` and `DriverSelectionKept`, both from `DriverInvariant`
and under `Doubling = FALSE`: no job is requeued between the submission of its
successor and its note of it. That is a real condition on what Slurm does, not one
the scripts ensure; without it two chains run and `OneWriter` is false (section 5).
`DriverIInv` makes of the jobs a line. A job waits for nothing or for the one
submitted just before it, only the last has a successor still to submit (`Line`), and
a job that waits for nothing or was started has no live worker before it (`Ordered`),
so of two jobs that would write one round the earlier is a prepare job; that one, run
again behind its successor, finds candidates and queue and only reads (`Prepared`),
hence `OneWriter`. With one writer, what a job found before its step is still there
at the step (`Found`, `FoundKept`): a marker is written only by a job whose listed
shards are done, and a selection only into a round none of whose shards was dealt,
hence none done, which is `SelectionKept`. `Planned` and `Chained` say that a started
job has complete rounds behind it, under `afterok` because the job before it in the
chain ended well and had the round before, so a selection finds all earlier rounds
sampled. `Held` names the job the chain hangs on (`Holder`): every step that ends it
has submitted another, completes the campaign, or sets `exposed`. TLC checked the
parts of `DriverIInv` on the instance of the run and on one of three rounds before
they were proved.

`AttemptsAreBounded` of `CampaignProofs` counts: what `AttemptsCounted` bounds
is the failures recorded together with those that are still to come, from the
workers that have passed the count of the failure files (`Armed`) or from a claim
that the supervisor has not noted yet.

The assumptions are the named ones of the modules, which TLC evaluates in the
runs: bounds are numbers, intervals and fractions have denominators that are not
zero (`FractionAssumption`), outcomes and verdicts are among those named
(`VerdictsAssumption`), the names of replays are neither the source's nor "none"
(`ReplayNames`), the workers of a SCOPF job are finitely many (`WorkersAssumption`).
`ExecutionsAssumption` says of what a power-flow candidate may meet that it is
among the results and fates of the module; `StoredAssumption` of the rows stored
before a repair that none is repaired yet, that a row stored with its cost
convention is in those costs, and that a shard samples and reports candidates it
was dealt; `VerdictsAreKnown` that a retry ends in one of the four ways the merge
tells apart. `DriverBounds` only says that the ways to launch
are known ones and the bounds numbers. The theorems are about `Spec` (`RoundSpec`,
`ShardSpec`, `RepairSpec`, `DriverSpec`),
which the fair specifications of the runs imply.

Model-checked only are liveness, which needs fairness (`EveryJobPublishes`,
`CallsReturn`, `ShardCompletes`, `RoundIsReduced`, `RoundCompletes`,
`WholeCampaignEnds`, `RoundGetsReduced`, `RepairEnds`, `ChainRunsDown`,
`ResumeCompletes`), and the properties of `CaseData`, whose folds and recursive
functions over lists and graphs would each need an induction of its own.

## 7. Not modelled

* Numerical work: the solvers, margins, scores, diversity distances, boundary
  search and reading of solutions; sizes and ratings of new equipment; impedance
  and rating perturbations; the search for controls at a given distance.
* Parsers of source formats, archives by tar, monitoring, report and one-off
  scripts, command-line wrappers: sequential text and file work without state
  that later runs depend on.
* Registries: one locked append at a time and a Parquet copy made from the JSONL
  file; the adapters that read the copy do not run beside a writer. The ledgers'
  Parquet file is rewritten in place, which a kill can damage.
* Two jobs or two reducers on one round, a second SCOPF job with
  `CLEAR_STALE_CLAIMS=1` (`docs/setup.md:253` asks for 0), a round started afresh
  (`RESUME=0`) over old done markers: no code prevents them.
* The preparation of the SCOPF campaign, its tier filters, the bootstrap of a
  round job; `ROUND_SELF_CONTINUE=0` and a fixed chain without `RESUME` in the
  driver, whose look at the markers and `sbatch` are one step in the model; the
  serial prepare, spooled merge and backups of the repair; manual registration and
  repository checkouts of sources; progress files, logging and descriptors.
* Inputs that the data runs leave out: power-flow cases whose load is zero or negative
  in total, outage classes without a candidate row; several sample files of one
  campaign, and so the removal of duplicates across files by the overlay of the
  tools; a reduction whose runs list different shards in `RoundIsReduced` (the
  safety properties of that run do have them).
* Lustre is taken as a POSIX file system.

## 8. Plan

1. Lemmas about the folds of `Selection` and `Sharding`, by the
   least-counterexample argument of `StoreProofs`.
2. Two jobs on one round, as a variant of `MapReduceRound`, to show exactly which
   properties depend on there being one.
3. The ledger store with its Parquet file and JSONL fallback, and the registries.
4. The preparation of the SCOPF campaign and the anchor index of the power flow.
