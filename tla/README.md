# FastFlowTransform: verification project

FastFlowTransform (`fft`) builds a project of SQL and Python models in a
database: it selects models, orders them along their dependencies, skips the
ones whose fingerprint has not changed, runs the others on worker threads,
keeps a record of each run, and tests what it built. This directory holds TLA+
models of the parts whose correctness depends on order, interleaving, failure or
history, the TLC runs that check them on small instances, and TLAPS proofs of
what matters most for every instance. Paths below are relative to
`src/fastflowtransform/` unless they begin with `docs/`.

Contents: 1 the system · 2 modules and code · 3 runs, bounds, fairness ·
4 proofs · 5 where code and documentation differ · 6 what is not modelled ·
7 what remains · 8 how to run.

## 1. The system

`fft run` is one process. The main thread settles the context (`.env` files,
profile, packages), loads the project into the global `REGISTRY`, plans, hands
levels of models to `run_executor.schedule`, and ends the run. Worker threads of
a pool run `_RunEngine.run_node`, which asks the cache, runs hooks, calls an
executor and records statistics. `fft test`, `fft utest`, `fft seed`,
`fft snapshot run`, `fft source freshness` and `fft deps` load the same project
and do one thing with it. Everything that outlives the process is in the engine
(relations, history tables, `_ff_meta`, artifact rows) or in files
(`.fastflowtransform/`: fingerprints, artifacts, HTTP cache, clones of packages;
`packages.lock.yml`). No lock protects any of it.

| Component | State it keeps | Operations | Hard behaviour | What makes it correct |
|---|---|---|---|---|
| Level scheduler `run_executor.py` | futures, `per_node`, `failed`, `level_had_error` | `schedule`, `_run_level`, `_group_task`, `_resolve_jobs`, `_partition_groups` | cancellation racing a worker, failure inside a batch | no level before the last one succeeded; an empty failure map means everything was built; it returns |
| Graph algorithms `dag.py` | none | `levels`, `topo_sort` | cycles, missing names | earliest levels; a cycle is never planned |
| Selection and planning `cli/run.py`, `cli/selectors.py`, `ci/changed_since.py` | wanted names, explicit targets, forced names | the steps of `run()` before the levels | combinations of options | plan closed under dependencies; exclusion holds |
| Build cache `cache.py`, `fingerprint.py`, `cli/run.py` | cache file, `computed_fps` | `can_skip_node`, fingerprints, `persist_on_success` | failed runs, crashes, edits, four cache modes | a skipped relation is what a build would make |
| Run lifecycle, hooks, artifacts, budgets `cli/run.py`, `artifacts/*`, `hooks/*` | `query_stats`, `budget_error`, exit code, files, rows | hooks, `run_node`, budgets, `emit_run_artifacts` | order of the end of a run, death anywhere, a shared buffer | exit code, record and saved fingerprints agree; a model's numbers are its own |
| Executors `executors/*`, contracts, meta table | relations, `_ff_meta` | `run_sql`, `run_python`, views, casts, verification, cost guard | several statements that commit one by one | a relation is old or new; the meta row is not ahead of it |
| Incremental models `incremental.py`, `executors/*` | target relation, staging table, shared Jinja globals | exists, render, append, merge, fallback, schema sync | a statement fails between delete and insert; shared globals | no row lost for good, each key once |
| Snapshots `snapshots/*`, `cli/snapshot_cmd.py` | history table | first run, close, insert, prune | two statements, two transactions; the source moves | one current version per key; history only grows |
| HTTP client `api/*` | cache files, token bucket, telemetry | request, retry, paginate | rate limit, offline mode, half-written entries | offline replays what was fetched; the rate is kept; calls end |
| Registry, configuration, packages `core.py`, `config/*`, `packages.py`, `settings.py` | nodes, macros, sources, clone, lock file | resolve, check out, load, layer | name clashes, edits, moved branches, dead clones | every name has its nearest definition; the lock tells what runs |
| Seeds `seeding.py` | tables | `seed_project` | two files for one table, drop before load | no loaded seed is lost |
| Data tests, source freshness `cli/test_cmd.py`, `testing/*`, `source_freshness.py` | registry of kinds, results | register, collect, filter, run, report | SQL's unknown, exit codes, aborts | a check passes iff the column is as it says; 0 means all passed |
| Unit tests `utest.py` | relations, cache of fingerprints | load inputs, skip, execute, compare, clean up | what one case leaves for the next | a case's verdict is its own |
| CI checks, documentation and lineage, start-up, logging, SQL library | none that outlives a call | | | not modelled |

How they interact: the planner's levels are the scheduler's input; the
scheduler calls `run_node`, which is the lifecycle's; the lifecycle asks the
build cache and the executor and feeds the artifacts; the executor reads
contracts and budgets that the registry's configuration produced; Python models
call the HTTP client; unit tests call the executor without a plan. The hazards
this leads to, each at its line and with the properties that watch it, are
`hazards` in `PROJECT.json`.

## 2. Modules and code

Definitions that stand before another and are called "Altered ..." are what a
plausible mistake would make of it; no specification uses them.

**Scheduler** (`Scheduler`, `DagRun`, `Partition`, `Dag`; `MCScheduler`).
`plan.batches[l][g]` is what `_partition_groups` makes of level `l`. The main
thread is `Enter` (submit a level), `Collect` (one future out of `as_completed`,
with the fail-fast cancellation), `EndLevel`, `EndRun`; a worker is `PickUp`,
`StartNode`, `NodeOk`, `NodeFails`, `FinishEmpty`. `DagRun` is what a run promises
without levels, batches or policies: a model starts once, after what it depends
on; `Scheduler` implements it. `MCScheduler` composes `Dag`, `Partition` and
`Scheduler`, so the plans it runs are those the code would make.

**Planning** (`Planning`, `Dag`, `Batching`, `Partition`; `MCPlanning`). One
action per step of `run()`: `SelectRaw`, `Subgraph`, `ChangedSince`, `Targets`,
`Levels`. `Batching` is what `_run_level` does with a level before it runs:
`Resolve` (`_resolve_jobs`) and `Deal` (`_partition_groups`); its `dur`, `workers` and
`batches` are `durations_s`, `max_workers` and `groups` (durations are whole units;
what floats round is left out). `Loops` has the one operator
the loops of `Dag` and `Partition` are written with. Tokens of `--select` are
abstracted to the set they match; the aliases `get_node` accepts are kept, since
`_explicit_targets` treats them differently from names. `Changes` may name what is no
node: `FF_CI_CHANGED_MODELS` is taken as it is (`ci/changed_since.py:36`).

**Build cache** (`BuildCache`; `MCBuildCache`). Relations and fingerprints are
symbolic trees `[ver, deps]`, so "the cache describes the relation" is equality
(SHA-256 taken as injective). `Edit`, `Drop`, `LoseCache` are the world between
runs; `StartRun`, `Skip`, `Build`, `Finalize`, `FailBuild`, `FailHook`, `Persist`,
`Abandon` are a run. Auxiliary: `trusted` (no run has replaced relations without
saving, or built from inputs it had not settled), `sound` (its value when the run
began).

**Run lifecycle** (`RunLifecycle`; `MCRunLifecycle`). `Start`, per thread `Take`,
`Skip`, `BeforeHooks`, `Model`, `Collect`, `AfterHooks`, `Finalize`, `Fail`; on the
main thread `EndNodes`, `Budgets`, the writes of `emit_run_artifacts` in order
(`OpenFile` truncates, `FillFile` completes, `WriteRow`), `Errors`, `EndHooks`,
`Verdict`, `Save`, `Report`; `Die` at any of them. `buf` is
`_ff_query_stats_buffer`: an append can be lost and a drain repeated when two
threads share it.

**Executors** (`Materialize`; `MCMaterialize`). A run of one model is a program, a
sequence of statements (`St`) that commit one by one. `Program` is what `run_sql`
and `run_python` send for an engine (DuckDB, Postgres, Snowflake, BigQuery, Spark
with and without a storage path), a materialisation (table, view, DDL,
incremental, ephemeral, snapshot, Python table, view and incremental, seed) and a
contract (off, verify, cast). `Execute` does the next statement (`Applied`: what the
database makes of it, Postgres' CASCADE included), `VerifyPasses`/`VerifyFails` are
the runtime contract, `Enforce` the cost guard, `StatementFails` and `Crash` happen
anywhere (`undo` is what a `finally` still drops), `OnNodeBuilt` upserts `_ff_meta`.
`gen` numbers the run a relation's rows come from.

**Incremental models** (`Incremental`; `MCIncremental`). A row is a pair of key and
update time, a target is a bag. `StartRun`, `CheckExists`, `Render`,
`RenderFallback`, `Sync` are `run_or_dispatch`; each engine's merge, append and
refresh is its own sequence of statements (`DuckMerge`, `PostgresMerge`, `SparkMerge`,
`PythonMerge`, ...); `FallBack` is the full refresh after an error; `OtherRenders` is
another model writing the shared Jinja globals.

**Snapshots** (`SnapshotTable`; `MCSnapshotTable`). `FirstRun`, `Stage`, `Close`,
`Insert` are the statements of the two-statement engines, `Rewrite` Spark's
overwrite, `Break` a failure or death between statements, `Prune` the retention.
`engine` says how a run reads its source: from a copy (Postgres), once per
statement (DuckDB, Snowflake, BigQuery) or once. Auxiliary: `torn`, keys whose
source row moved between two statements that both read it; `orphaned`, keys a
broken run closed.

**HTTP client** (`HttpClient`, `TokenBucket`; `MCHttpClient`). A key of the cache is
one page; `meta` and `body` are its two files. `ReadMeta`, `Miss`, `Hit`, `Respond`,
`Transient`, `BackedOff`, `Reject`, `WriteMeta`, `TruncateBody`, `WriteBody` are the
steps of `_request`, each of which another thread or process can interrupt; `Die`,
`Publish` (the API's content changes) and `Tick` are the world. `TokenBucket` is
`rate_limit.py` in integer units: time in ticks, a token `Rate` units per tick.

**Project** (`Project`, `Config`; `MCProject`). An invocation is `Start`,
`PrepareContext`, then the packages (`Clone`, `CloneFails`, `Fetch`, `Checkout`,
`ReadManifests`, `WriteLock`), the registry (`LoadMacros`, `LoadFiles`, `Discover`,
`ValidateDependencies`), `ReadSettings`, and for `fft seed` `LoadSeed`; `Push`,
`MoveTag`, `Edit` happen at any time, `Dies` too. `Config` holds the pure layering
of `sources.yml`, headers and overlays, contracts, budgets, seed targets and
profiles.

**Quality** (`UnitTests`, `DataTests`, `Quality`, `Config`; `MCQuality`). `UnitTests`
is `fft utest`: `OpenSpec`, `OpenCase`, `LoadInput`, `SkipCase`, `ResetTarget`,
`Execute`, `ReadAndAssert`, `CleanUp`, `Finalize`, `Report`; code and fixtures are
edited between invocations; `cold` is the status a case would have on an empty
database. `DataTests` is `fft test` (`Register`, `Collect`, `RunBuiltin`, `RunCustom`,
`Finish`) with each built-in check as what its query counts over the rows, which are
places in the column (`Offends`), and
`fft source freshness` (`CheckSource`, `ReportSources`). `Quality` composes them.

## 3. Runs, bounds, fairness

| Run | Question | Bounds | Result |
|---|---|---|---|
| `scheduler` | Do levels, batches, futures and both policies keep the order of the DAG, lose nothing silently, and return? | every DAG of 4 nodes, 1 to 3 jobs, with and without durations | holds |
| `planning` | Are selection, exclusion, levels, worker counts and batches right? | all 512 graphs on 3 nodes, cycles and self-references included, with every selection and exclusion; every mix of options on the acyclic ones; levels of up to 5 nodes with every duration up to 3, every kind of `--jobs` | holds |
| `build_cache` | Does the cache describe the relations, in every history? | 2 tables, the second reads the first, 2 code versions, all modes, any number of runs | holds |
| `build_cache_stale` | Is every skip fresh? | as above | refuted |
| `lifecycle` | Do exit code, record, fingerprints and statistics agree? | 2 models, 2 threads, 2 invocations, six kinds of option | holds |
| `materialize` | Are contracts kept, is the relation there, is the meta row not ahead? | every engine, materialisation and contract mode, 6 outputs, 2 runs, failures and deaths at each statement | holds |
| `incremental` | Does a run keep keys unique, lose nothing, append once? | 2 keys, 3 update times, 5 kinds of engine, late rows, a new column, failures at each statement | holds |
| `incremental_leak` | Does a model render with its own `is_incremental()`? | 1 other model that renders | refuted |
| `snapshot` | Is there one current version per key, is the history kept? | 2 keys, 2 values, 9 events | holds |
| `http` | Do offline calls replay, is telemetry true, is the rate kept, do calls end? | 2 clients, 2 pages, 2 versions of the API, capacity 2, five configurations | holds |
| `project` | Does a name have its nearest definition, does the lock tell what runs, are selectors honoured? | 194 layouts of files, packages, headers, sources, profiles and seeds; 3 commits, up to 3 invocations | holds |
| `quality` | Is a case's verdict its own, do checks mean what they say, do exit codes tell? | three suites of unit tests, all cache modes, 2 invocations; every column of up to 3 rows, null included, against every check | holds |

What the properties say, where the name is a conjunction: `ResultTellsWhatRan` is
completeness of the result, a synthetic failure key only after a real failure,
and that `keep_going` skips only what lies behind a failure in the same batch.
`SelectionIsExact` is closure under dependencies, exclusion, and that a dependency
can be missing only with `--changed-since`. `PlanIsInOrder` is earliest levels,
rejected cycles and the agreement of `levels` and `topo_sort`. `LevelIsDealtOut` says
that batches partition a level and that the greedy deal is within the (4k-1)/3k of
the best one. `VersionsLineUp` is that a key keeps a current version and that
versions of a `check` snapshot do not overlap. `LockTellsTruth` is that the lock is
what runs, that its versions fit together, and that a caret admits only compatible
ones. `NearestDefinitionWins` is about models, macros and the fields of a source.
`ContractsAreKept` is that a built model has its contract's columns and that a cast
settles what the verification demands. `RunLeavesItsRelation` is that success
leaves the relation and no scratch table. `ExitCodesTellTheTruth` is about all three
testing commands.

The invariants are stated with the exceptions the code needs, and each
exception is named where it is defined: keys whose source row moved between two
statements (`torn`), late rows (`disorder`), a leaked flag (`leaked`), overlapping
clients (`contended`), a case whose inputs could not be loaded (`tidy`), a cache
that no longer follows the relations (`trusted`). Each of them is a limit of the
code that section 5 describes.

Why the bounds are enough. Scheduling errors need two batches, one behind a
failure, and a later level: four nodes and three jobs contain every such shape.
The cache's argument is about a model and what it reads; a second level of
dependence repeats it (the proof has no bound). Snapshot properties relate two
versions of a key: close, break, close again and insert, with the source moving
in between, takes seven events; two keys show that the join does not mix them.
Two invocations are needed for a second one to overwrite what the first
recorded, and two runs of a model for the second one to find the first one's
relation, backing table or half-finished swap. Incremental runs need three
update times: one in the target, one on the watermark, one that arrives late.
With two pages a half-written entry can be followed by a whole one; two clients
show every race on one entry. Each layout of `project` isolates one rule and its
neighbours, since rules about macros, sources and seeds do not read each other's
state. A column of three rows has every combination of null, double, value inside
and outside that a check can tell apart.

Deadlock is checked except where the system stops: the clock of the snapshot
model, the last invocation of `lifecycle`, `materialize`, `project` and `quality`.

Fairness. `scheduler` (`Returns`) assumes weak fairness of the main thread and of
the pool: Python keeps running threads that can run, `as_completed` is woken by
every completed or notified future, and that a node returns or raises is an
assumption about the engine. `http` (`CallsEnd`) assumes weak fairness of time and
of each client's own steps: `requests` returns or raises within its timeout, a
sleep ends. Nothing is assumed about the server (it may fail every attempt), about
the limiter (a call waits for it before it begins; see `WaitEnds` below) or about the
order in which threads are served. No liveness is claimed of runs that a user may
never start.

Each property has an altered definition under which the same run refutes it
(`mutants`).

## 4. Proofs

All for every value of the constants, checked by TLAPS.

* `SchedulerProofs`, from `PlansWellFormed`: `TypeCorrect`, `Barrier`,
  `DependenciesFirst`, `SuccessIsComplete`, `FinalOutcomes`, `ResultIsTrue`, and
  `ImplementsDagRun`, for any number of levels, batches and nodes (the last for
  plans that are `Layered`). That a level succeeded is seen by the main thread only
  through futures, so the invariant adds how far a batch is (`BatchProgress`), that
  futures seen without an error were successes (`SeenWithoutError`), that a
  cancellation has a culprit (`ErrorsHaveCulprit`), and that nothing runs between
  levels (`QuietBetweenLevels`). For the result (`ResultInv`) it adds that a node that
  runs or has failed is where its batch stands (`Whereabouts`), that `perNode` and
  `failed` follow from it (`Keys`), and what a level with an error leaves (`Halted`).
* `SchedulerProofs`, second part (planning), from `RegistryAssumption` (a finite
  registry without dangling references, which is what `Registry._validate_dependencies`
  leaves): `SelectionExact`, `PlanInOrder`, for any graph, cyclic ones included, and
  any mix of options. The loops of `dag.py` and of the selectors are functions of
  their turns (`Turns`); `Invariantly` is the rule for a loop's invariant, on induction over a set
  of naturals, which follows from their well-foundedness. `WorklistCloses` says that
  a worklist computes the least set closed under what it serves; `KahnLevelsCorrect`
  that a node's counter of in-degrees is the number of its dependencies no level
  has yet, so a level is exactly what is ready; `KahnOrderCorrect` the same of the
  heap. `CycleExists` (a set without a ready node contains a cycle: take one with the fewest
  ancestors) turns what is left over into the error. `PlanningInv` carries from
  step to step what the selection has, lacks and is closed under.
* `SchedulerProofs`, third part (batching), from `BatchingAssumption`: `LevelDealt`, for
  levels of any size, whole durations of any length, any `--jobs` and any number of
  processors. An amount of work is a number of units, `Cardinality` of the pairs of a
  name and a unit of its time, so sums need no fold: `AmountAdds` and
  `AmountOfShares` follow from the theorems on finite sets. `Ranks` makes the stable
  sort a bijection. The invariant of both loops is `Dealt` (the first names of the list are
  each in one place); round robin adds how many more than others the first groups
  have, greedy that `loads` is the work of each group and that each load is within
  (4k - 1) / 3k of whatever bound any deal into k batches can meet. The step is
  `LongestFirst`: the name x goes to the least load L, none before it was shorter, and a
  deal of all names fits C. If x takes at most a third of C, counting
  the units (kL + x <= kC) is enough. Otherwise no batch of that deal has three
  of the names up to x, and L + x <= C: weigh a name 2 if x does not fit beside it
  and 1 otherwise; a batch that fits weighs at most 2 (`FitsTwo`), one that leaves
  no room for x at least 2 (`FillsTwo`), and the k batches and x would weigh 2k + 1.
* `CacheProofs` (the build cache and the HTTP client, one half each), from `NodesAssumption` (numbers follow the topological
  order): `CacheIsExact`, `SkipsAreFresh` and `OnlySuccessWrites` for any acyclic set
  of tables. The invariant adds `RunOrder` (what a node reads has settled) and `RunTrust` (rebuilt
  nodes carry the fingerprint of what they hold, others still agree with the
  file); a fingerprint equals the content because both are built from the settled
  ones below (`FingerprintIsContent`), so no induction over the graph is needed.
* `SnapshotTableProofs`: `WellFormed`, `OneCurrent`, and on them `VersionsInLine`,
  `RunsRecord`, `HistoryStays`, for all keys, values and times. The first invariant
  adds `NothingLeftToClose`: after `Close` no open version differs from its source
  row unless the key is torn, hence `Insert` adds a version only where none is open.
  The second says that everything in table, source and copy
  happened before now; that under `timestamp` a source row is never behind a version
  of its key and ahead of the closed ones (`StampsOf`), so versions never tie and the
  current one is the newest (`NewestOf`), which is what pruning by rank relies on;
  that under `check` one version ends before the other begins (`InLineOf`); and that
  a key without a current version is about to get one (`HasCurrent`). `Closing` and
  `Adding` show what the two statements do to it, and both engine shapes reuse them.
* `RunLifecycleProofs`, from `OptionsAssumption`: `WellTyped`, `SavedRuns`,
  `ExitCodes`, `StatsAreOwn` for any number of models, threads, options and invocations. The
  invariant says, for each place of the main thread, which artifacts of this run
  are already complete, that the payload agrees with the models, and that a saved
  run is on record. `StatsAreOwn` rests on what the buffer of a worker's executor holds
  while no executor is shared (`OwnBuffer`).
* `MaterializeProofs`, from `ConfigsAssumption` and `OutsAssumption`: `RowIsNotAhead`
  and `ModelStays` for every engine, materialisation, contract and output, and any
  number of runs. The first half shows, engine by engine, that every program is
  made of statements of its engine (on the three that replace atomically none drops
  the model, not even an undo) and has one that makes the model. The invariant then
  says that a run that has not made the model yet still has such a statement to
  execute (`StillToMake`), hence that a built relation is this run's (`BuiltIsNew`) and
  the row of `_ff_meta` is not ahead of it. The second half proves `ContractsKept`,
  `RunLeaves` and `ProgramsDeliver`, which both follow from. Each engine's program has a
  shape (`Shapes`): it makes the model once and for all, verifies what is under
  contract after casting it, and its last statement drops its scratch relation. The
  second invariant then says, at each place of a run, what the statements still to
  come make, verify and drop and what the catalog holds already (`Delivers`,
  `Verified`, `Settled`, `Tidied`), that a scratch relation a broken run left behind
  is filled again by the next (`Strays`), and that on engines with a finally clause
  no scratch relation outlives a failure (`Guarded`).
* `IncrementalProofs`, from `BoundsAssumption` and `ConfigsAssumption`: `KeysUnique`,
  `NothingLost`, `SuccessCurrent`, `AppendOnce` for every engine, model, number of
  rows, versions and threads. The invariant says, for keys whose rows arrive in
  order, that between DELETE and INSERT the latest row is in the table or the next
  delta selects it (`Traceable`), that what INSERT will select has been deleted
  (`Deleted`) or waits in the staging table (`StagedDelta`), that a frame about to be
  written is what the table shall be (`Frame`), and that the table has nothing newer
  than the source where the last duplicate wins (`NoneNewer`).
  Which SQL a run executes is read from a flag that threads share (`OwnText`);
  `SerialFlag` proves that with one thread it is always the model's own, so the
  violation `incremental_leak` shows takes a second thread.
* `CacheProofs`, second half: `RateIsKept`, `TelemetryIsKept`, `OfflineIsKept`, for any number of
  clients, pages, versions and tokens. The cache's invariant says that without
  contention the two files of an entry agree except where the one client is
  writing (`EntriesWhole`), that what a client was given so far is what the disk
  has (`PagesOnDisk`), and that while a promise stands nobody writes
  (`LastOnDisk`, `PromiseOnDisk`).
* `ProjectProofs`, from `MaxCommitAssumption` and `ScenariosAssumption` (the shape of
  a layout: owners, selectors, at most one macro file per owner): `SelectorHonoured`,
  `LockTrue`, `NearestWins`, `UtestsStayAtHome`, `SeedsArrive`, for any layout and any
  number of commits and invocations. Each part of the invariant is what a stage
  has established. For the packages: what was fetched is origin's branch
  (`OriginIsFetched`), what is checked out is the selector's (`AtSelector`), its needs are met
  before the lock is written (`FitTogether`); that a caret is compatible is arithmetic
  on versions. For the registry (`RegistryInv`): after k of the six turns of `Discover` a
  name stands for a file of the last turn that has one, and the project has one
  file at most (`Found`); an owner's turns come after those of the owner before, which
  is the whole reason why the last owner wins (`LaterTurnLaterOwner`). The attempt to
  prove it corrected `MacroOfLastOwner`: the property had counted the names written
  in an owner's file, but the turn of an owner brings the names of the template that
  is found, which is another owner's if an earlier root has a file of that path.
  For the seeds: what was loaded stays until a later file is sent to its table
  (`SeedsPlaced`).
* `QualityProofs`, from `UtestScenariosAssumption` (a suite names only relations that
  can exist): `Isolation`, `NoFixtureLeaks`, `HitsAreHonest`, `UtestExit`, for any suite
  and any number of invocations. Isolation is not inductive as it stands: whatever
  other cases left is in the database while a case is prepared. The invariant says
  which part of it the case can see: while inputs are loaded, those loaded so far
  are what an empty database would hold (`Loading`); when the target has been reset,
  so are all inputs and the target (`Executing`); after the execution the compared
  relation is (`Asserting`), provided the case has an input for each dependency. For the
  cache it adds that entries name the subject that was executed (`EntriesTrue`), for the leak that
  fixtures are those of the open case (`FixturesAtHome`), for the exit code that the
  counter and the recorded statuses are zero together (`Counted`).

* `QualityProofs`, second half, from `TestScenariosAssumption` (columns hold integers, and
  what a project lists is lists): `ExitCodes`, `ChecksMean`, `OwnContract`, for any project, any
  list of tests and sources and any column. The invariant says what a verdict says of
  its test (`Judged`: of which kind it is, whether it asked for what it needs, whether
  its query finds a row), how far the command has come (`Judging`: the tests are those
  that were gathered, a verdict for each of the first ones), and that the errors among
  the statuses are those of the sources passed (`Aging`). `OffendsMeans` then compares
  each query with its promise, NULL by NULL, and `OwnTest` follows a field of a contract
  through the defaults, the kinds in their order and the list of all tests to the
  verdict it gets. That a message never has the unit the limits are parsed from
  (`StatusIsError`) is why a source that is too old is an error and never a warning.
  A list is filtered by the ranks of the places it keeps (`Sublist`), which needs
  cardinalities and no induction.

Model-checked only: liveness (`Returns`, `CallsEnd`) and everything about fairness.
Every other property of a run that holds is a theorem. What a sum over a column adds
up to (`non_negative_sum` and the reconciliations of a sum) is a fold: of these checks
it is proved that the verdict is the query's, not what the query means.

## 5. Where the code and what is said of it differ

Shown by a run of its own (`findings`): a skip over a relation that a failed, `off`
or `ro` run has replaced (`build_cache_stale`); another model's `is_incremental()` in
a rendered SELECT (`incremental_leak`).

Stated in a module and refuted by TLC. To see it, put the property in place of
those of the named configuration:

| Property | Configuration | What the code does |
|---|---|---|
| `DependenciesNeverViolated` (`Planning`) | `MCPlanning` | explicit targets share one level with their dependencies (`cli/run.py:1635`; `docs/Cache_and_Parallelism.md:26`) |
| `AffectedCoversDependents` (`Planning`) | `MCPlanning` with `MCNodes == 1..4`, `ChangesSome == {{1, 3}}`, without `SelectionInit` | the downward walk stops at a model the upward walk found, so its other dependents are missed (`ci/changed_since.py:150`, docstring at 116) |
| `ModifiedMeansChanged` (`BuildCache`) | `MCBuildCache` | `state:modified` compares digests of another form and selects every model (`cache.py:172`; `docs/State_Selection.md:8`) |
| `PointInTimeIsUnique` (`SnapshotTable`) | `MCSnapshotTable` | under `timestamp` a version begins at `updated_at` and the one before it ends when the run sees it (`snapshots/runtime/base.py:119`; `docs/Snapshots.md:206`) |
| `ModelQueriesAreReported` (`RunLifecycle`) | `MCRunLifecycle` | statistics of an `after_model` hook replace the model's (`cli/run.py:560`; `docs/Cost_Monitoring.md:160`) |
| `OverLimitNeverRuns` (`Materialize`) | `MCMaterialize` | no executor defines the attribute the cost guard looks for, so it never stops a query (`executors/budget/core.py:113`; `docs/Cost_Monitoring.md:73`) |
| `CastNeedsTypes` (`Materialize`) | `MCMaterialize` | a cast contract without types is a plain CREATE TABLE AS (`docs/Contracts.md:565`) |
| `WaitEnds` (`TokenBucket`) | `MCHttpClient` | `wait` forgets what has accumulated and sleeps for the whole cost; threads can take each other's tokens for ever (`api/rate_limit.py:42`) |
| `UtestIsIsolated` (`Project`) | `MCProject` | `_assert_utest_isolated` (`settings.py:531`) is never called; unit tests may replace the tables of the base profile |
| `SkippedCaseIsCompared` (`UnitTests`) | `MCQuality` | one fingerprint per model, one relation for all its cases: a skipped case is compared with another case's rows (`utest.py:641`; `docs/Unit_Tests.md:16`) |

Exceptions that the properties have to make, or met while reading:

* Runs and planning. Under `keep_going` the nodes behind a failed one in the same
  batch are dropped without a record (`docs/Cache_and_Parallelism.md:35`).
  `--changed-since` with `--select` can lack a dependency, and `levels()` raises
  (`docs/CI_Check.md:178`). A snapshot model can be planned by `fft run` as a
  dependency (`docs/Snapshots.md:31`). `--rebuild-only` drops an alias that
  normalisation accepted; `--rebuild` with `--select` does not apply `--exclude`
  (`cli/options.py:187`, `:108`). `on_run_end` hooks do not run when a model failed
  (`docs/Hooks.md:35`). With a shared executor statistics of threads mix
  (`executors/base.py:632`). Durations of earlier runs are never found in files mode
  (`artifacts/files.py:374`).
* Snapshots. Engines that read the source twice can leave two current versions of
  a key whose row moved in between.
* Executors. A failing verification leaves the new relation in place, and a later
  run may skip over it. DuckDB's cast has no `finally` and leaves
  `__ff_contract_tmp`; Spark with a path can leave its temporary directory and is
  without a table between drop and create. Postgres' `DROP ... CASCADE` takes
  dependent views along, and a Python view on it fails every second run. BigQuery's
  Python models, incremental models and Python views are verified but never cast;
  DuckDB and BigQuery compare the spelling of types. `meta.relation_exists` looks
  only at DuckDB's own catalogs and Postgres' current schema, and answers yes when
  its query fails. DuckDB's `clone()` drops the cost limit.
* HTTP. `off` still writes the cache (`docs/Api_Models.md:165` says it does not);
  `FF_HTTP_RATE_LIMIT_RPS` has no effect; `content_hash` is never compared, so a torn
  entry is served; pages of different ages are mixed; pagination has no bound;
  `get_json` does not check allowed domains.
* Project. With a macro file of the same path in two packages the first one's
  template is taken (`core.py:918`; `docs/Packages.md:495` "Last one wins").
  `git clone --no-tags` lets the first run of a `tag:` selector fail; a moved tag is
  never followed; a clone cut short never heals; without a selector HEAD stays where
  it is. `models_dir` of a manifest is never used; two models of one name in one
  package end in a warning (`docs/Packages.md:488` says an error). `users` and
  `users.ff` are two nodes with one relation. `schema_sync` in `project.yml` is
  rejected by the model schema. Column rules of contracts fill what is unset (the
  docstring says later ones override); `mode: off` is YAML's false and drops all
  contracts; contract settings that cannot be read are ignored. A table's own
  `schema` in `sources.yml` is dropped, and a group's override for an engine beats a
  table's base field. Limits of zero or less become no limit. Two seeds of one stem
  go to one table.
* Tests. `fft test` never builds models (`--skip-build` has no negative form). A
  `tag:` token filters no tests. `accepted_values` applies `where` only to its
  samples (`testing/base.py:62`). A mistyped built-in kind in `project.yml` is taken
  for a custom test. Bad parameters of a custom SQL test, and database errors of
  the checks that are not wrapped, end the command without a report. A failing
  source is always "error": the warning threshold cannot be told from the message
  (`source_freshness.py:115`). Unit tests: timestamps are compared by date; a case
  whose input cannot be loaded leaves the inputs that could be; inputs not listed
  are read from whatever earlier specs left.

## 6. Not modelled, and why

`components` in `PROJECT.json` gives the state of each. Documentation and lineage,
CI reports, log lines, the SQL library and project scaffolding produce text from a
loaded project: no state outlives a call. Within modelled parts:

* views, ephemeral and incremental models in the build cache; a plan that lists a
  node twice (`-R a -R a` puts it twice into one level); two `fft` processes on one
  project (no lock exists anywhere, so everything could happen);
* custom `incremental.sql`, pruning by partition, `streaming.py` (no run calls it);
* Postgres' temporary tables across pooled connections; the atomicity of one
  commit of a table format, which is the format's;
* how Jinja finds `ref` in a text, how tokens match names, how a CSV becomes a frame,
  the options of the row comparison, `get_df`;
* warning limits, the retention of artifact rows, the catalog's queries.

External parts (the database, git, the API server, the operating system's threads)
are modelled by what the code relies on and marked `external` in `map`.

## 7. What remains

Candidates for further work, the most useful first: `BuildCache` extended to views
and incremental models and composed with `Incremental`, so that a skip over a
half-merged relation is covered by one model; two processes on one project,
starting with the cache file and the clone; the environment part of a
fingerprint.

## 8. How to run

    tlc -workers 2 -config MCScheduler.cfg MCScheduler
    tlapm SchedulerProofs.tla

and in the same way for the other configurations and proof modules; the stale
and the leak run use `MCBuildCacheStale.cfg` and `MCIncrementalLeak.cfg` with
`MCBuildCache` and `MCIncremental`. `PROJECT.json` lists every run with its
properties, the code each definition models (`map`), the mutants, hazards,
findings and theorems.
