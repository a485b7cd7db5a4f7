---------------------------- MODULE Materialize ----------------------------
(***************************************************************************)
(* How one model becomes a relation: run_sql and run_python of             *)
(* executors/base.py, the runtime contracts of the five engines, the       *)
(* statements each engine executes, the cost guard in front of a query and *)
(* the row written to _ff_meta afterwards.                                 *)
(*                                                                         *)
(* A run is a sequence of statements.  Each commits on its own, each may   *)
(* fail, and the process may die between two of them.  What the database   *)
(* does with a statement is external; which statements the code sends, in  *)
(* which order and what it undoes is the code's.                           *)
(***************************************************************************)
EXTENDS Naturals, Sequences, FiniteSets

CONSTANTS Configs,  \* the models and engines to consider
          Outs,     \* what the SELECT or the function may yield
          MaxRuns   \* bound: runs of the model

ASSUME MaxRunsAssumption == MaxRuns \in Nat \ {0}

(* A configuration is a record
     engine, kind  the engine; how the model is materialised
     mode          "off", "verify" or "cast", as the contract files resolve
     expected      the contract gives types for this engine
     extraOk       allow_extra_columns
     alias         the contract spells its types by a synonym (int, text)
     limit         a limit of bytes per query that the query exceeds
   and an output [col, extra]: its contract column is "declared" (has the
   type), "castable", "uncastable" or "missing"; it has other columns.       *)

Engines == {"duckdb", "postgres", "snowflake", "bigquery", "spark", "sparkPath"}
Kinds == {"table", "view", "ddl", "incremental", "ephemeral", "snapshot", "seed",
          "pyTable", "pyView", "pyIncremental"}
ASSUME ConfigsAssumption ==
  Configs \subseteq [engine : Engines, kind : Kinds, mode : {"off", "verify", "cast"},
                     expected : BOOLEAN, extraOk : BOOLEAN, alias : BOOLEAN, limit : BOOLEAN]
Spark == {"spark", "sparkPath"}
Rels == {"model", "backing", "scratch", "frame", "dependent"}
Absent == [kind |-> "none", col |-> "none", extra |-> FALSE, gen |-> 0, over |-> "none"]

Columns == {"declared", "castable", "uncastable", "missing"}
ASSUME OutsAssumption == Outs \subseteq [col : Columns, extra : BOOLEAN]

-----------------------------------------------------------------------------
(* Statements.  "undo" lists what a finally clause drops if it fails, and    *)
(* "asked" tells whether the statement goes through the budget runtime.      *)

St(op, rel, how) == [op |-> op, rel |-> rel, how |-> how, undo |-> {}, asked |-> FALSE]
Drop(rel) == St("drop", rel, "none")      \* on Postgres: ... CASCADE
Tidy(rel) == St("tidy", rel, "none")      \* a drop whose error is suppressed
Create(rel, how) == St("create", rel, how)
Put(rel, how) == St("put", rel, how)      \* CREATE OR REPLACE, overwrite
Swap(rel) == St("swap", rel, "raw")       \* pandas to_sql(if_exists="replace")
View(over) == St("view", "model", over)
Verify == St("verify", "model", "none")
Refuse == St("refuse", "model", "none")
Query(how) == St("query", "model", how)   \* Spark plans a frame, cast or not

Asked(p) == [i \in DOMAIN p |-> [p[i] EXCEPT !.asked = TRUE]]
Try(p, rel) == [i \in DOMAIN p |-> [p[i] EXCEPT !.undo = @ \union {rel}]]

\* Spark, managed: overwrite drops the table and writes it anew.
SparkSave(rel, how) == <<Drop(rel), Create(rel, how)>>
\* Altered SparkPath: the files are in place, the table is not made.
SparkPathUnregistered(rel, how) == <<Put("scratch", how), Drop(rel), St("rename", rel, how)>>
\* Spark, storage.path: the files are written aside, the table is dropped, the
\* old files are removed, the new ones renamed, and a table is made of them.
SparkPath(rel, how) ==
  Try(<<Put("scratch", how)>>, "scratch") \o <<Drop(rel)>>
    \o Try(<<St("rename", rel, how)>>, "scratch") \o <<Create(rel, how)>>
Save(e, rel, how) ==
  IF e = "sparkPath" THEN SparkPath(rel, how) ELSE SparkSave(rel, how)

PostgresCtas(rel, how) == Asked(<<Drop(rel), Create(rel, how)>>)
\* Altered Ctas: every engine drops the table first.
CtasDropsFirst(e, rel, how) == Asked(<<Drop(rel), Create(rel, how)>>)
\* CREATE TABLE AS <body>, in the words of each engine.
Ctas(e, rel, how) == CASE e \in Spark -> Save(e, rel, how)
                       [] e = "postgres" -> PostgresCtas(rel, how)
                       [] OTHER -> Asked(<<Put(rel, how)>>)

-----------------------------------------------------------------------------
(* Contracts. *)

Enforced(c) == c.mode \in {"verify", "cast"} /\ c.expected
\* Altered VerifyAfter: cast mode is taken to need no verification.
VerifyAfterInVerifyMode(c) == IF Enforced(c) /\ c.mode = "verify" THEN <<Verify>> ELSE <<>>
VerifyAfter(c) == IF Enforced(c) THEN <<Verify>> ELSE <<>>

\* To keep the other columns, their names are looked up in a scratch table.
DuckCast == Asked(<<Put("scratch", "raw"), Put("model", "cast"), Drop("scratch")>>)
PostgresCast ==
  Asked(<<Drop("scratch"), Create("scratch", "raw")>>)
    \o Try(PostgresCtas("model", "cast"), "scratch") \o <<Tidy("scratch")>>
SnowflakeCast ==
  <<Put("scratch", "raw")>> \o Try(Asked(<<Put("model", "cast")>>), "scratch")
    \o <<Tidy("scratch")>>
\* Spark casts the frame before it writes it.
SparkCast(c) == <<Query("cast")>> \o Save(c.engine, "model", "cast")
\* BigQuery has src.* EXCEPT, and no scratch table.
BigQueryCast == Ctas("bigquery", "model", "cast")
Copying == {"duckdb", "postgres", "snowflake"}
Cast(c) == CASE c.engine \in Spark -> SparkCast(c)
             [] c.engine = "bigquery" -> BigQueryCast
             [] c.engine \in Copying /\ ~c.extraOk -> Ctas(c.engine, "model", "cast")
             [] c.engine = "duckdb" /\ c.extraOk -> DuckCast
             [] c.engine = "postgres" /\ c.extraOk -> PostgresCast
             [] c.engine = "snowflake" /\ c.extraOk -> SnowflakeCast

\* Without types a cast is a plain CREATE.
Contract(c) == (IF Enforced(c) /\ c.mode = "cast" THEN Cast(c)
                ELSE Ctas(c.engine, "model", "raw")) \o VerifyAfter(c)

-----------------------------------------------------------------------------
(* SQL models. *)

\* apply_sql_contracts
SqlTable(c) == (IF c.engine \in Spark THEN Asked(<<Query("raw")>>) ELSE <<>>) \o Contract(c)

PostgresView(over) == <<Drop("model"), View(over)>>
SqlView(c) == CASE c.engine = "postgres" -> PostgresView("select")
                [] c.engine = "duckdb" -> Asked(<<View("select")>>)
                [] OTHER -> <<View("select")>>

\* A model that is a CREATE statement goes to the connection as it is, where
\* the executor has one; elsewhere its SELECT is taken out.
DirectDdl(c) == IF c.engine = "duckdb" THEN <<Put("model", "raw")>> ELSE SqlTable(c)

\* The statements of an incremental model are those of module Incremental;
\* here it is created or extended, and verified, never cast.
SqlIncremental(c, exists) ==
  (IF exists THEN Asked(<<St("insert", "model", "raw")>>) ELSE Ctas(c.engine, "model", "raw"))
    \o VerifyAfter(c)

-----------------------------------------------------------------------------
(* Python models and seeds. *)

\* _materialize_relation
Frame(e, rel) == CASE e = "postgres" -> <<Swap(rel)>>
                   [] e = "duckdb" -> Asked(<<Put(rel, "raw")>>)
                   [] e \in Spark -> Save(e, rel, "raw")
                   [] OTHER -> <<Put(rel, "raw")>>

\* _create_or_replace_view_from_table; on Postgres drop and create in one
\* transaction.
PyView(c) == Frame(c.engine, "backing") \o <<View("backing")>> \o VerifyAfter(c)

\* materialize_python, where the engine has one: the frame becomes a relation
\* to select from.
PostgresPython(c) ==
  <<Tidy("frame"), Swap("frame")>> \o Try(Contract(c), "frame") \o <<Tidy("frame")>>
SnowflakePython(c) ==
  IF c.mode = "verify" THEN <<Put("model", "raw")>> \o VerifyAfter(c)
  ELSE <<Put("frame", "raw")>> \o Try(Contract(c), "frame") \o <<Tidy("frame")>>
TakenOver(c) == CASE c.engine = "postgres" -> PostgresPython(c)
                  [] c.engine = "snowflake" -> SnowflakePython(c)
                  [] OTHER -> Contract(c)
PyTable(c) ==
  IF c.mode = "off" \/ c.engine = "bigquery"
  THEN Frame(c.engine, "model") \o VerifyAfter(c)
  ELSE IF c.mode = "cast" /\ ~c.expected THEN <<Refuse>>
  ELSE TakenOver(c) \o VerifyAfter(c)

PyIncremental(c) == Frame(c.engine, "model") \o VerifyAfter(c)

PostgresSeed == <<Drop("model"), Swap("model")>>
SnowflakeSeed == <<Put("model", "raw")>>
DuckSeed == <<Put("model", "raw")>>
BigQuerySeed == <<Put("model", "raw")>>
SparkSeed(e) == Save(e, "model", "raw")
LoadSeed(c) == CASE c.engine = "postgres" -> PostgresSeed
                 [] c.engine = "snowflake" -> SnowflakeSeed
                 [] c.engine = "duckdb" -> DuckSeed
                 [] c.engine = "bigquery" -> BigQuerySeed
                 [] OTHER -> SparkSeed(c.engine)

Program(c, exists) ==
  CASE c.kind = "table" -> SqlTable(c)
    [] c.kind = "view" -> SqlView(c)
    [] c.kind = "ddl" -> DirectDdl(c)
    [] c.kind = "incremental" -> SqlIncremental(c, exists)
    [] c.kind = "ephemeral" -> <<>>
    [] c.kind = "snapshot" -> <<Refuse>>
    [] c.kind = "pyTable" -> PyTable(c)
    [] c.kind = "pyView" -> PyView(c)
    [] c.kind = "pyIncremental" -> PyIncremental(c)
    [] c.kind = "seed" -> LoadSeed(c)

-----------------------------------------------------------------------------
VARIABLES cfg,
          cat,    \* the catalog: Rels -> relation
          out,    \* what the model yields in this run
          run,    \* number of the run
          prog,   \* statements still to come
          pc,     \* "idle", "run", "built", "done", "failed", "crashed"
          why,    \* "verify", "guard", "statement" or "none": what a failure was
          meta,   \* run whose fingerprint _ff_meta holds, 0 if none
          good,   \* auxiliary: the runs that were built
          bytes,  \* bytes of some query of this run are recorded
          overran,\* auxiliary: a query ran although its estimate is over the limit
          died    \* auxiliary: the process died in some run

result == <<why, meta, good>>
stats == <<bytes, overran, died>>
vars == <<cfg, cat, out, run, prog, pc, result, stats>>

Init == /\ cfg \in Configs /\ cat = [r \in Rels |-> Absent]
        /\ out = [col |-> "declared", extra |-> FALSE]
        /\ run = 0 /\ prog = <<>> /\ pc = "idle" /\ why = "none"
        /\ meta = 0 /\ good = {} /\ bytes = FALSE /\ overran = FALSE /\ died = FALSE

Ended == pc \in {"idle", "done", "failed", "crashed"}

-----------------------------------------------------------------------------
(* What a statement does to the catalog. *)

Over(rel) == {v \in Rels : cat[v].kind = "view" /\ cat[v].over = rel}
\* Postgres drops what depends on a relation with it.
Gone(rels) == rels \union (IF cfg.engine = "postgres" THEN UNION {Over(r) : r \in rels} ELSE {})
Without(rels) == [r \in Rels |-> IF r \in rels THEN Absent ELSE cat[r]]

\* Column type and other columns of what is selected.
Table(how) == [kind |-> "table", gen |-> run, over |-> "none",
               col |-> IF how = "cast" THEN "declared" ELSE out.col,
               extra |-> out.extra /\ (how = "cast" => cfg.extraOk)]
ViewOver(rel) == [kind |-> "view", gen |-> run, over |-> rel, col |-> out.col,
                  extra |-> out.extra]

\* Spark casts what cannot be cast to NULL unless ANSI mode is on.
Casts == out.col \in {"declared", "castable"} \/ (out.col = "uncastable" /\ cfg.engine \in Spark)
Possible(s) == /\ s.op # "refuse"
               /\ s.op = "create" => cat[s.rel].kind = "none"
               /\ s.op = "swap" => Over(s.rel) = {}
               /\ s.how = "cast" => Casts

Applied(s) ==
  CASE s.op \in {"drop", "tidy"} -> Without(Gone({s.rel}))
    [] s.op \in {"create", "put", "swap"} -> [cat EXCEPT ![s.rel] = Table(s.how)]
    [] s.op = "insert" -> [cat EXCEPT ![s.rel].gen = run]
    [] s.op = "rename" -> Without({"scratch"})
    [] s.op = "view" -> [Without(Gone({s.rel})) EXCEPT ![s.rel] = ViewOver(s.how)]
    [] OTHER -> cat

-----------------------------------------------------------------------------
(* The cost guard (executors/budget): before a query it asks the executor    *)
(* for an estimate, by the name of a method.                                 *)

EstimatorAttr == IF cfg.engine \in {"duckdb", "postgres"} THEN "_estimate_query_bytes"
                 ELSE "runtime_budget_estimate_query_bytes"
\* The budget methods BaseExecutor and its subclasses have.
ExecutorAttrs == {"configure_query_budget_limit", "_configured_query_limit",
                  "_set_query_budget_estimate", "_consume_query_budget_estimate",
                  "_apply_budget_guard", "_is_budget_guard_active"}
Enforce(s) == s.asked /\ cfg.limit /\ EstimatorAttr \in ExecutorAttrs

\* estimate_query_bytes, by EXPLAIN, plan statistics or a dry run: a statement
\* without a SELECT has no estimate.
Selects(s) == s.how # "none"
DuckEstimates(s) == Selects(s)
SnowflakeEstimates(s) == Selects(s)
SparkEstimates(s) == Selects(s)
BigQueryEstimates(s) == Selects(s)
\* Postgres looks at the result when its connection is closed: no estimate.
PostgresEstimates == FALSE
Estimates(s) == s.asked /\ CASE cfg.engine = "duckdb" -> DuckEstimates(s)
                             [] cfg.engine = "snowflake" -> SnowflakeEstimates(s)
                             [] cfg.engine = "bigquery" -> BigQueryEstimates(s)
                             [] cfg.engine = "postgres" -> PostgresEstimates
                             [] OTHER -> SparkEstimates(s)
\* run_sql makes an estimate of its own for the statistics, but not while a
\* guard is active.
Record(s) == bytes' = (bytes \/ (Estimates(s) /\ ~cfg.limit))

-----------------------------------------------------------------------------
(* Actions. *)

\* run_sql, run_python, load_seed: the model is rendered, or its function called.
StartRun(o) ==
  /\ Ended /\ run < MaxRuns
  /\ run' = run + 1 /\ out' = o
  /\ prog' = Program(cfg, cat["model"].kind # "none")
  /\ pc' = "run" /\ why' = "none" /\ bytes' = FALSE
  /\ UNCHANGED <<cfg, cat, meta, good, overran, died>>

Execute ==
  /\ pc = "run" /\ prog # <<>>
  /\ LET s == Head(prog) IN
       /\ s.op # "verify" /\ Possible(s) /\ ~Enforce(s)
       /\ cat' = Applied(s) /\ Record(s)
       /\ overran' = (overran \/ (Estimates(s) /\ cfg.limit))
  /\ prog' = Tail(prog)
  /\ UNCHANGED <<cfg, out, run, pc, result, died>>

\* DuckDB and BigQuery compare the spelling of types; Postgres asks the server
\* for the canonical name, Snowflake and Spark map synonyms.
SpelledAlike == cfg.alias => cfg.engine \notin {"duckdb", "bigquery"}
Accepts(r) == /\ r.col = "declared" /\ SpelledAlike
              /\ cfg.extraOk \/ ~r.extra

\* _verify
VerifyPasses ==
  /\ pc = "run" /\ prog # <<>> /\ Head(prog).op = "verify"
  /\ Accepts(cat["model"])
  /\ prog' = Tail(prog)
  /\ UNCHANGED <<cfg, cat, out, run, pc, result, stats>>

\* An exception: the finally clauses run, their own errors are suppressed.
Fail(reason) ==
  /\ cat' = Without(Gone(Head(prog).undo))
  /\ prog' = <<>> /\ pc' = "failed" /\ why' = reason
  /\ UNCHANGED <<cfg, out, run, meta, good, stats>>

VerifyFails ==
  /\ pc = "run" /\ prog # <<>> /\ Head(prog).op = "verify"
  /\ ~Accepts(cat["model"])
  /\ Fail("verify")

\* The guard aborts the query, or the database refuses it.
StatementFails ==
  /\ pc = "run" /\ prog # <<>> /\ Head(prog).op # "tidy"
  /\ Fail(IF Enforce(Head(prog)) THEN "guard" ELSE "statement")

Crash ==
  /\ pc \in {"run", "built"}
  /\ prog' = <<>> /\ pc' = "crashed" /\ died' = TRUE
  /\ UNCHANGED <<cfg, cat, out, run, result, bytes, overran>>

Finish ==
  /\ pc = "run" /\ prog = <<>>
  /\ pc' = "built" /\ good' = good \union {run}
  /\ UNCHANGED <<cfg, cat, out, run, prog, why, meta, stats>>

\* on_node_built: errors are suppressed.  DuckDB and Snowflake delete the row
\* and insert it, the others write it in one statement.  Seeds have none.
Upserted == {meta, run} \union (IF cfg.engine \in {"duckdb", "snowflake"} THEN {0} ELSE {})
\* Altered OnNodeBuilt: the row is written for a failed run too.
OnNodeBuiltAnyway ==
  /\ pc \in {"built", "failed"} /\ pc' = "done"
  /\ meta' \in (IF cfg.kind = "seed" THEN {meta} ELSE Upserted)
  /\ UNCHANGED <<cfg, cat, out, run, prog, why, good, stats>>
OnNodeBuilt ==
  /\ pc = "built" /\ pc' = "done"
  /\ meta' \in (IF cfg.kind = "seed" THEN {meta} ELSE Upserted)
  /\ UNCHANGED <<cfg, cat, out, run, prog, why, good, stats>>

\* Another model, a view over this one, is built or built again.
BuildDependent ==
  /\ Ended /\ cat["model"].kind # "none" /\ cat["dependent"].kind = "none"
  /\ cat' = [cat EXCEPT !["dependent"] =
               [kind |-> "view", col |-> "declared", extra |-> FALSE, gen |-> 0, over |-> "model"]]
  /\ UNCHANGED <<cfg, out, run, prog, pc, result, stats>>

Next == \/ \E o \in Outs : StartRun(o)
        \/ Execute \/ VerifyPasses \/ VerifyFails \/ StatementFails \/ Crash
        \/ Finish \/ OnNodeBuilt \/ BuildDependent

Spec == Init /\ [][Next]_vars

-----------------------------------------------------------------------------
Relations == [kind : {"none", "table", "view"}, gen : 0..MaxRuns,
              col : Columns \union {"none"},
              extra : BOOLEAN, over : {"none", "select", "backing", "model"}]
\* Types of the variables.
TypeOK == /\ cat \in [Rels -> Relations] /\ run \in 0..MaxRuns /\ meta \in 0..MaxRuns
          /\ pc \in {"idle", "run", "built", "done", "failed", "crashed"}
          /\ why \in {"none", "verify", "guard", "statement"} /\ good \subseteq 1..MaxRuns

\* A model that counts as built has the columns of its contract, whichever of
\* the ways through run_sql, run_python and run_or_dispatch it took.  SQL views,
\* and CREATE statements on DuckDB, are not under contract.
UnderContract == /\ Enforced(cfg) /\ cfg.kind \notin {"view", "ephemeral", "snapshot", "seed"}
                 /\ ~(cfg.kind = "ddl" /\ cfg.engine = "duckdb")
ContractHolds ==
  pc \in {"built", "done"} /\ UnderContract =>
    cat["model"].col = "declared" /\ (cfg.extraOk \/ ~cat["model"].extra)

\* What the casts leave is what the verification that follows them demands: in
\* cast mode it never fails, provided the contract spells the types as the
\* engine does.  Incremental models and Python views, and Python models on
\* BigQuery, are verified but never cast.
CastMode == cfg.mode = "cast" /\ cfg.kind \in {"table", "ddl", "pyTable"}
           /\ ~(cfg.kind = "pyTable" /\ cfg.engine = "bigquery")
CastSettlesTypes == pc = "failed" /\ why = "verify" => ~CastMode \/ ~SpelledAlike

\* What the two contract modes promise: verified columns are there, cast ones pass.
ContractsAreKept == ContractHolds /\ CastSettlesTypes

\* After a run counts as built the relation is there, made by this run, of the
\* kind the model asks for; so is the table behind a Python view.
Kind == IF cfg.kind \in {"view", "pyView"} THEN "view" ELSE "table"
SuccessIsThere ==
  pc \in {"built", "done"} /\ cfg.kind # "ephemeral" =>
    /\ cat["model"].kind = Kind /\ cat["model"].gen = run
    /\ cfg.kind = "pyView" => cat["backing"].gen = run

\* No scratch relation outlives a run, unless the process dies.  Not so when a
\* run fails on DuckDB, whose cast has no finally, or on Spark with a path, when
\* the old table cannot be dropped.
LeavesNoScratch ==
  pc \in {"built", "done"} \/ (pc = "failed" /\ ~died /\ cfg.engine \notin {"duckdb", "sparkPath"}) =>
    cat["scratch"] = Absent /\ cat["frame"] = Absent

\* A run leaves what it was asked for and nothing else.
RunLeavesItsRelation == SuccessIsThere /\ LeavesNoScratch

\* On DuckDB, Snowflake and BigQuery readers never find the model missing once
\* it has been built, whatever fails or dies in between.
NeverVanishes ==
  [][cfg.engine \in {"duckdb", "snowflake", "bigquery"} /\ cat["model"] # Absent
       => cat'["model"] # Absent]_vars

\* The row of _ff_meta is never ahead of the relation: what it names was built,
\* and the relation, where it is, holds that run's rows or a later run's.
RowNotAhead ==
  meta # 0 => /\ meta \in good
              /\ cat["model"] # Absent => meta <= cat["model"].gen

\* docs/Cost_Monitoring.md: "If the estimate is > limit, FFT raises a
\* RuntimeError before the query is submitted".
OverLimitNeverRuns == ~overran

\* docs/Contracts.md: "if a contract has no physical types for the current
\* engine, cast mode cannot enforce and will fail with a clear error".
CastNeedsTypes == cfg.mode = "cast" /\ ~cfg.expected /\ cfg.kind = "table" => pc # "built"
=============================================================================
