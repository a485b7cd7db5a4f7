---------------------------- MODULE RunLifecycle ----------------------------
(***************************************************************************)
(* One invocation of `fft run` after the other, from the on_run_start      *)
(* hooks to the exit code: cli/run.py and the artifact emitter, around the *)
(* models that worker threads run.                                         *)
(*                                                                         *)
(* The scheduler is abstracted to what Scheduler shows of it: while no     *)
(* model has failed every selected one is run, after a failure any model   *)
(* that has not been started may be dropped.  A query is known by the      *)
(* model and the part of its run that issued it and costs one unit of a    *)
(* budget.                                                                 *)
(***************************************************************************)
EXTENDS Integers, Sequences, FiniteSetsExt

CONSTANTS
    Nodes,      \* the models of the project
    Workers,    \* threads of the pool
    Options,    \* command lines and configurations of an invocation
    MaxRuns     \* bound: invocations of a behaviour

\* selected: the plan; reads, saves: what the cache mode allows; shared: all
\* threads use one executor (every engine but DuckDB on a file); sqlHooks: the
\* hooks are SQL; mode: artifacts_mode; catalog: an executor for the catalog
\* could be made; limit: error limit on the total, 0 for none.
OptionRecords ==
    [selected : SUBSET Nodes, reads : BOOLEAN, saves : BOOLEAN, shared : BOOLEAN,
     sqlHooks : BOOLEAN, mode : {"files", "db", "both"}, catalog : BOOLEAN, limit : Nat]

ASSUME OptionsAssumption == Options \subseteq OptionRecords /\ MaxRuns \in Nat

Queries == Nodes \X {"before", "model", "after"}
Kinds == {"manifest", "results", "catalog"}
Artifacts == {"file", "db"} \X Kinds
Unwritten == [run |-> 0, whole |-> TRUE]
NoPayload == [ok |-> {}, failed |-> {}, over |-> FALSE]

VARIABLES
    run,        \* number of the invocation
    opts,       \* its options
    pc,         \* main thread
    status,     \* what happened to every model
    on, step,   \* the model a worker runs, and the next part of run_node
    buf,        \* _ff_query_stats_buffer of every executor
    stats,      \* query_stats; a missing entry and one of zeroes are {}
    over,       \* budget_error
    next,       \* position in the list of artifacts to write
    disk,       \* the run whose artifact is stored; whole: not half written
    payload,    \* what the run_results of every run list
    saved,      \* the run that last saved its fingerprints
    told,       \* run_status the on_run_end hooks were given
    exit        \* exit code

main == <<run, opts, pc>>
threads == <<status, on, step, buf, stats>>
stored == <<disk, payload, saved>>
vars == <<main, threads, over, next, stored, told, exit>>

Idle == "idle"
Executors == Workers \union {"shared"}

\* _get_runner: a clone of the executor for every thread, or the one of the run.
\* Altered Runner: the executor is never cloned.
RunnerShared(w) == "shared"
Runner(w) == IF opts.shared THEN "shared" ELSE w

Init ==
    /\ run = 0 /\ opts \in Options /\ pc = "exited"
    /\ status = [n \in Nodes |-> Idle]
    /\ on = [w \in Workers |-> Idle] /\ step = [w \in Workers |-> Idle]
    /\ buf = [e \in Executors |-> {}] /\ stats = [n \in Nodes |-> {}]
    /\ over = FALSE /\ next = 1
    /\ disk = [a \in Artifacts |-> Unwritten]
    /\ payload = [r \in 1..MaxRuns |-> NoPayload]
    /\ saved = 0 /\ told = "nothing" /\ exit = "none"

\* A new process: nothing of the last one is left but what it stored.
Invoke(o) ==
    /\ pc = "exited" /\ run < MaxRuns
    /\ run' = run + 1 /\ opts' = o /\ pc' = "start"
    /\ status' = [n \in Nodes |-> Idle]
    /\ on' = [w \in Workers |-> Idle] /\ step' = [w \in Workers |-> Idle]
    /\ buf' = [e \in Executors |-> {}] /\ stats' = [n \in Nodes |-> {}]
    /\ over' = FALSE /\ next' = 1 /\ told' = "nothing" /\ exit' = "none"
    /\ UNCHANGED stored

Leave(code) == pc' = "exited" /\ exit' = code /\ UNCHANGED <<run, opts>>
Goto(place) == pc' = place /\ UNCHANGED <<run, opts, exit>>

\* An exception nobody catches (a hook, a file, the engine) or a kill.
Die ==
    /\ pc # "exited"
    /\ Leave("broken")
    /\ UNCHANGED <<threads, over, next, stored, told>>

\* The on_run_start hooks, then the selection: an empty one ends the run.  What
\* the hooks record is reset before the first model reads the buffer.
Start ==
    /\ pc = "start"
    /\ IF opts.selected = {} THEN Leave("0") ELSE Goto("nodes")
    /\ UNCHANGED <<threads, over, next, stored, told>>

-----------------------------------------------------------------------------
(* Worker threads: run_node                                                *)

Busy(w) == pc = "nodes" /\ on[w] # Idle
At(w, s) == Busy(w) /\ step[w] = s
InThread == UNCHANGED <<main, over, next, stored, told, exit>>
Advance(w, s) == step' = [step EXCEPT ![w] = s] /\ UNCHANGED <<on, status>>
Free(w, result) ==
    /\ status' = [status EXCEPT ![on[w]] = result]
    /\ on' = [on EXCEPT ![w] = Idle]
    /\ step' = [step EXCEPT ![w] = Idle]

\* Another thread is using the same buffer.
Contended(w) == opts.shared /\ \E v \in Workers \ {w} : Busy(v)

\* A thread picks up a model and resets the stats of its executor.
Take(w, n) ==
    /\ pc = "nodes" /\ on[w] = Idle
    /\ n \in opts.selected /\ status[n] = Idle
    /\ status' = [status EXCEPT ![n] = "running"]
    /\ on' = [on EXCEPT ![w] = n]
    /\ step' = [step EXCEPT ![w] = "before"]
    /\ buf' = [buf EXCEPT ![Runner(w)] = {}]
    /\ UNCHANGED stats /\ InThread

\* can_skip_node agrees (BuildCache says when): zero stats, no hooks.
Skip(w) ==
    /\ At(w, "before") /\ opts.reads /\ saved > 0
    /\ stats' = [stats EXCEPT ![on[w]] = {}]
    /\ Free(w, "skipped")
    /\ UNCHANGED buf /\ InThread

\* _record_query_stats reads the attribute and appends to the list it found: an
\* append to a list that another thread has replaced in between is lost.
Record(w, part) ==
    /\ \/ buf' = [buf EXCEPT ![Runner(w)] = @ \union {<<on[w], part>>}]
       \/ Contended(w) /\ UNCHANGED buf
    /\ UNCHANGED stats

BeforeHooks(w) ==
    /\ At(w, "before")
    /\ IF opts.sqlHooks THEN Record(w, "before") ELSE UNCHANGED <<buf, stats>>
    /\ Advance(w, "model") /\ InThread

Model(w) ==
    /\ At(w, "model")
    /\ Record(w, "model")
    /\ Advance(w, "collect") /\ InThread

\* get_node_stats drains the buffer (two threads that drain at once may both
\* get its content); the result replaces the entry of the model unless empty.
Capture(w) ==
    LET found == buf[Runner(w)]
    IN  /\ stats' = IF found = {} THEN stats ELSE [stats EXCEPT ![on[w]] = found]
        /\ \/ buf' = [buf EXCEPT ![Runner(w)] = {}]
           \/ Contended(w) /\ UNCHANGED buf

\* _collect_model_stats_for_hooks, so that after_model hooks see the stats.
Collect(w) ==
    /\ At(w, "collect")
    /\ Capture(w)
    /\ Advance(w, "after") /\ InThread

AfterHooks(w) ==
    /\ At(w, "after")
    /\ IF opts.sqlHooks THEN Record(w, "after") ELSE UNCHANGED <<buf, stats>>
    /\ Advance(w, "final") /\ InThread

\* _finalize_node_run: _capture_final_stats, after the fingerprint.
Finalize(w) ==
    /\ At(w, "final")
    /\ Capture(w)
    /\ Free(w, "ok") /\ InThread

\* A hook or the model raises; a model may have run some of its statements.
Fail(w) ==
    /\ Busy(w) /\ step[w] \in {"before", "model", "after"}
    /\ Record(w, step[w]) \/ UNCHANGED <<buf, stats>>
    /\ Free(w, "failed") /\ InThread

Failed == {n \in Nodes : status[n] = "failed"}
Succeeded == {n \in Nodes : status[n] \in {"ok", "skipped"}}

\* schedule() returns.
EndNodes ==
    /\ pc = "nodes" /\ \A w \in Workers : on[w] = Idle
    /\ Failed # {} \/ Succeeded = opts.selected
    /\ Goto("budgets")
    /\ UNCHANGED <<threads, over, next, stored, told>>

-----------------------------------------------------------------------------
(* Main thread, after the models                                           *)

SumOver(f) == MapThenSumSet(LAMBDA x : f[x], DOMAIN f)
Total == SumOver([n \in Nodes |-> Cardinality(stats[n])])

\* _eval_metric on the total; model and tag budgets compare in the same way.
OverLimit == opts.limit # 0 /\ Total > opts.limit

\* _evaluate_budgets, then the payload of run_results.  A failed model that
\* never reached a statistic is listed, a model that never started is not.
Budgets ==
    /\ pc = "budgets"
    /\ over' = OverLimit
    /\ payload' = [payload EXCEPT ![run] =
                      [ok |-> Succeeded, failed |-> Failed, over |-> OverLimit]]
    /\ Goto("artifacts")
    /\ UNCHANGED <<threads, next, disk, saved, told>>

\* budgets.yml appeared after the context was built and cannot be parsed.
BudgetsUnreadable ==
    /\ pc = "budgets" /\ opts.limit = 0
    /\ Leave("1")
    /\ UNCHANGED <<threads, over, next, stored, told>>

\* emit_run_artifacts: the order of the writes, and which of them are made.
Order == << <<"file", "manifest">>, <<"file", "results">>, <<"file", "catalog">>,
            <<"db", "manifest">>, <<"db", "results">>, <<"db", "catalog">> >>
Wanted(a) ==
    /\ a[1] = "file" => opts.mode \in {"files", "both"}
    /\ a[1] = "db" => opts.mode \in {"db", "both"}
    /\ a[2] = "catalog" => opts.catalog

Writing == pc = "artifacts" /\ next <= 6 /\ Wanted(Order[next])
Store(whole) == disk' = [disk EXCEPT ![Order[next]] = [run |-> run, whole |-> whole]]

LeaveOut ==
    /\ pc = "artifacts" /\ next <= 6 /\ ~Wanted(Order[next])
    /\ next' = next + 1
    /\ UNCHANGED <<main, threads, over, stored, told, exit>>

\* write_text truncates the file before it writes.
OpenFile ==
    /\ Writing /\ Order[next][1] = "file" /\ disk[Order[next]].run # run
    /\ Store(FALSE)
    /\ UNCHANGED <<main, threads, over, next, payload, saved, told, exit>>

FillFile ==
    /\ Writing /\ Order[next][1] = "file" /\ disk[Order[next]].run = run
    /\ Store(TRUE)
    /\ next' = next + 1
    /\ UNCHANGED <<main, threads, over, payload, saved, told, exit>>

\* write_artifact: the row with the payload is one statement.
WriteRow ==
    /\ Writing /\ Order[next][1] = "db"
    /\ Store(TRUE)
    /\ next' = next + 1
    /\ UNCHANGED <<main, threads, over, payload, saved, told, exit>>

\* Altered ArtifactsWritten: the errors are reported right after the manifest
\* and the run_results in files.
ArtifactsWrittenEarly ==
    /\ pc = "artifacts" /\ next >= 3
    /\ Goto("errors")
    /\ UNCHANGED <<threads, over, next, stored, told>>

ArtifactsWritten ==
    /\ pc = "artifacts" /\ next > 6
    /\ Goto("errors")
    /\ UNCHANGED <<threads, over, next, stored, told>>

\* _emit_logs_and_errors: on_error raises Exit(1) for the first failed model.
Errors ==
    /\ pc = "errors"
    /\ IF Failed # {} THEN Leave("1") ELSE Goto("end_hooks")
    /\ UNCHANGED <<threads, over, next, stored, told>>

EndHooks ==
    /\ pc = "end_hooks"
    /\ told' = IF Failed # {} \/ over THEN "error" ELSE "success"
    /\ Goto("verdict")
    /\ UNCHANGED <<threads, over, next, stored>>

\* Altered Verdict: exceeding a budget does not stop the run.
VerdictFailuresOnly ==
    /\ pc = "verdict"
    /\ IF Failed # {} THEN Leave("1") ELSE Goto("save")
    /\ UNCHANGED <<threads, over, next, stored, told>>

Verdict ==
    /\ pc = "verdict"
    /\ IF Failed # {} \/ over THEN Leave("1") ELSE Goto("save")
    /\ UNCHANGED <<threads, over, next, stored, told>>

\* persist_on_success: the cache file is replaced atomically.
Save ==
    /\ pc = "save"
    /\ saved' = IF opts.saves /\ Failed = {} THEN run ELSE saved
    /\ Goto("report")
    /\ UNCHANGED <<threads, over, next, disk, payload, told>>

Report ==
    /\ pc = "report"
    /\ Leave("0")
    /\ UNCHANGED <<threads, over, next, stored, told>>

-----------------------------------------------------------------------------
RunNode(w) ==
    \/ \E n \in Nodes : Take(w, n)
    \/ Skip(w) \/ BeforeHooks(w) \/ Model(w) \/ Collect(w)
    \/ AfterHooks(w) \/ Finalize(w) \/ Fail(w)

MainThread ==
    \/ \E o \in Options : Invoke(o)
    \/ Start \/ EndNodes \/ Budgets \/ BudgetsUnreadable
    \/ LeaveOut \/ OpenFile \/ FillFile \/ WriteRow \/ ArtifactsWritten
    \/ Errors \/ EndHooks \/ Verdict \/ Save \/ Report \/ Die

Next == MainThread \/ \E w \in Workers : RunNode(w)

Spec == Init /\ [][Next]_vars

-----------------------------------------------------------------------------
Places == {"start", "nodes", "budgets", "artifacts", "errors", "end_hooks",
           "verdict", "save", "report", "exited"}

TypeOK ==
    /\ run \in 0..MaxRuns /\ opts \in Options /\ pc \in Places
    /\ pc # "exited" => run > 0
    /\ status \in [Nodes -> {Idle, "running", "ok", "skipped", "failed"}]
    /\ on \in [Workers -> Nodes \union {Idle}]
    /\ step \in [Workers -> {Idle, "before", "model", "collect", "after", "final"}]
    /\ buf \in [Executors -> SUBSET Queries]
    /\ stats \in [Nodes -> SUBSET Queries]
    /\ over \in BOOLEAN /\ next \in 1..7
    /\ disk \in [Artifacts -> [run : 0..MaxRuns, whole : BOOLEAN]]
    /\ payload \in [1..MaxRuns ->
                      [ok : SUBSET Nodes, failed : SUBSET Nodes, over : BOOLEAN]]
    /\ saved \in 0..MaxRuns
    /\ told \in {"nothing", "success", "error"}
    /\ exit \in {"none", "0", "1", "broken"}

OnRecord(place, r) ==
    LET results == disk[<<place, "results">>]
    IN  results.run > r \/ (results.run = r /\ results.whole)

\* Fingerprints that make later runs skip models come from a run that failed
\* nowhere, stayed inside its budgets and whose run_results are complete on
\* record (or replaced by those of a later run), wherever processes died.
SavedRunIsOnRecord ==
    saved # 0 =>
        /\ payload[saved].failed = {} /\ ~payload[saved].over
        /\ \E place \in {"file", "db"} : OnRecord(place, saved)

Recorded(a) == disk[a] = [run |-> run, whole |-> TRUE]

\* The exit code and the record agree.  With 0 every selected model was built or
\* skipped, the budget held, every artifact of this run is complete, the hooks
\* were told of a success and the fingerprints are saved if the cache mode says
\* so.  With 1 no fingerprint is saved, and unless budgets.yml could not be read
\* the results on record name the failed models or the exceeded budget.
ExitCodeMatchesRecord ==
    /\ (exit = "0" /\ opts.selected # {}) =>
         /\ Succeeded = opts.selected /\ payload[run].ok = opts.selected
         /\ ~OverLimit
         /\ \A a \in Artifacts : Wanted(a) => Recorded(a)
         /\ told = "success"
         /\ opts.saves => saved = run
    /\ exit = "1" =>
         /\ saved # run
         /\ \/ /\ \A a \in Artifacts : Wanted(a) => Recorded(a)
               /\ payload[run].failed = Failed /\ payload[run].over = over
               /\ Failed # {} \/ over
            \/ opts.limit = 0 /\ payload[run] = NoPayload

\* With an executor per thread the numbers of a model hold no other model's
\* queries, however the threads interleave and whatever ran on the same thread
\* before; without SQL hooks they are exactly its own.
StatsBelongToNode ==
    ~opts.shared =>
        \A n \in Nodes :
          /\ \A q \in stats[n] : q[1] = n
          /\ (status[n] = "ok" /\ ~opts.sqlHooks) => stats[n] = {<<n, "model">>}

\* "All SQL executed by FFT for a model contributes to these stats."
\* (docs/Cost_Monitoring.md): what the model itself ran is in its numbers.
ModelQueriesAreReported ==
    \A n \in Nodes : status[n] = "ok" => <<n, "model">> \in stats[n]
=============================================================================
