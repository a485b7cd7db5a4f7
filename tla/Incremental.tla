---------------------------- MODULE Incremental ----------------------------
(***************************************************************************)
(* An incremental model: incremental.py decides between a full refresh, an *)
(* append and a merge and renders the SELECT; each executor turns the      *)
(* decision into statements of its engine, which commit one by one; Python *)
(* models merge frames (executors/base.py).                                *)
(*                                                                         *)
(* A row is a pair <<key, upd>>; the source has one row per key, the       *)
(* target is a table, hence a bag of rows.  The model is the one the docs  *)
(* recommend: under is_incremental() it selects the source rows newer than *)
(* max(upd) of {{ this }}, otherwise all rows.                             *)
(***************************************************************************)
EXTENDS Naturals, Sequences

CONSTANTS Keys, MaxUpd,  \* keys; bound: timestamps of the source
          Copies,        \* bound: copies of a row that are told apart
          Configs        \* the models and engines to consider

ASSUME BoundsAssumption == MaxUpd \in Nat \ {0} /\ Copies \in Nat \ {0}
ASSUME ConfigsAssumption ==
  Configs \subseteq
    [engine : {"duckdb", "snowflake", "bigquery", "postgres", "delta", "iceberg", "hudi",
               "spark", "python"},
     keyed : BOOLEAN, watermark : BOOLEAN, drift : BOOLEAN, sync : BOOLEAN, cte : BOOLEAN,
     parallel : BOOLEAN]

Rows == Keys \X (1..MaxUpd)
NoRows == [r \in Rows |-> 0]
BagOf(S) == [r \in Rows |-> IF r \in S THEN 1 ELSE 0]
\* INSERT INTO t of the rows S.
Inserted(t, S) ==
  [r \in Rows |-> IF r \in S /\ t[r] < Copies THEN t[r] + 1 ELSE t[r]]
\* Rows of t whose key is not among those of S: DELETE, or an anti-join.
Without(t, S) == [r \in Rows |-> IF \E s \in S : s[1] = r[1] THEN 0 ELSE t[r]]
\* u > max(upd) of the table t.
Above(u, t) == \A r \in Rows : t[r] > 0 => r[2] < u

-----------------------------------------------------------------------------
(* What each engine executes, as a sequence of statements.  Snowflake and   *)
(* BigQuery execute the statements of DuckDB, Iceberg and Hudi one MERGE.   *)

DuckMerge == <<"delete", "insert">>
SnowflakeMerge == <<"delete", "insert">>
BigQueryMerge == <<"delete", "insert">>
PostgresMerge == <<"stage", "deleteStaged", "insertStaged">>
DeltaMerge == <<"merge">>
IcebergMerge == <<"merge">>
HudiMerge == <<"merge">>
\* No native MERGE: read both sides, then replace the table with the union.
SparkMerge == <<"readBoth", "drop", "write">>
PythonMerge == <<"readOld", "write">>

\* A full refresh.  Delta overwrites its files in one commit, but drops the
\* table first when it cannot find out where they are.
GenericRefresh == {<<"replace">>}
SnowflakeRefresh == {<<"replace">>}
PostgresRefresh == {<<"drop", "create">>}
DeltaSave == {<<"replace">>, <<"drop", "create">>}
IcebergSave == {<<"replace">>}
HudiSave == {<<"replace">>}
DefaultSave == {<<"drop", "create">>}

Merge(e) == CASE e = "duckdb" -> DuckMerge [] e = "snowflake" -> SnowflakeMerge
              [] e = "bigquery" -> BigQueryMerge [] e = "postgres" -> PostgresMerge
              [] e = "delta" -> DeltaMerge [] e = "iceberg" -> IcebergMerge
              [] e = "hudi" -> HudiMerge [] e = "spark" -> SparkMerge
              [] e = "python" -> PythonMerge
Refresh(e) == CASE e = "postgres" -> PostgresRefresh
                [] e = "snowflake" -> SnowflakeRefresh
                [] e = "delta" -> DeltaSave [] e = "iceberg" -> IcebergSave
                [] e = "hudi" -> HudiSave [] e = "spark" -> DefaultSave
                [] OTHER -> GenericRefresh

\* Engines whose alter_table_sync_schema adds the missing columns.  Postgres
\* reads the column names from the rows of a query that returns none.
SyncAdds(e) == e # "postgres"

\* A format handler only inserts bodies that begin with SELECT.
InsertsBody(c) == ~(c.cte /\ c.engine \in {"delta", "iceberg", "hudi", "spark"})

-----------------------------------------------------------------------------
VARIABLES cfg,       \* [engine, keyed, watermark, drift, sync, cte, parallel]
          src,       \* key -> upd of its row in the source, 0 if none
          wide,      \* the SELECT yields a column the first version had not
          tgt, exists, twide,  \* the target: rows, presence, has the new column
          todo,      \* statements of the run that are still to come
          pc,        \* "idle", "exists", "render", "fallback", "sync", "run", "done"
          seen,      \* what _safe_exists said
          glob,      \* is_incremental() in the globals all threads share
          sql, fallback,  \* rendered_sql, fallback_sql: "full" or "delta"
          stage,     \* the staging table, or the frame to be written
          disorder,  \* auxiliary: keys written late, or while a run was reading
          leaked     \* auxiliary: some SQL was rendered with another model's flag

locals == <<seen, sql, fallback>>
run == <<todo, pc, seen, glob, sql, fallback, stage, leaked>>
target == <<tgt, exists, twide>>
source == <<src, wide, disorder>>
vars == <<cfg, source, target, run>>

SrcRows == {<<k, src[k]>> : k \in {j \in Keys : src[j] > 0}}
\* What a SELECT returns when it is evaluated now.
Body(text) == IF text = "delta" /\ cfg.watermark
              THEN {r \in SrcRows : Above(r[2], tgt)} ELSE SrcRows

Init ==
  /\ cfg \in Configs
  /\ src = [k \in Keys |-> 0] /\ wide = FALSE /\ disorder = {}
  /\ tgt = NoRows /\ exists = FALSE /\ twide = FALSE
  /\ todo = <<>> /\ pc = "idle" /\ seen = FALSE /\ glob = FALSE
  /\ sql = "full" /\ fallback = "full" /\ stage = NoRows /\ leaked = FALSE

Forget == seen' = FALSE /\ sql' = "full" /\ fallback' = "full"
Quiet == pc \in {"idle", "done"}

-----------------------------------------------------------------------------
(* The source, and the other worker threads. *)

\* A row is written; out of order if the watermark has already passed it, or if
\* a run is reading.
SourceWrite(k, u) ==
  /\ u > src[k]
  /\ src' = [src EXCEPT ![k] = u]
  /\ disorder' = IF Quiet /\ Above(u, tgt) THEN disorder ELSE disorder \union {k}
  /\ pc' = IF Quiet THEN "idle" ELSE pc
  /\ UNCHANGED <<cfg, wide, target, todo, seen, glob, sql, fallback, stage, leaked>>

\* The source keeps only a part of its rows.
SourceDelete(k) ==
  /\ src[k] > 0
  /\ src' = [src EXCEPT ![k] = 0]
  /\ disorder' = IF Quiet THEN disorder ELSE disorder \union {k}
  /\ UNCHANGED <<cfg, wide, target, run>>

\* Someone adds a column to the SELECT.
Widen ==
  /\ cfg.drift /\ Quiet /\ ~wide
  /\ wide' = TRUE /\ pc' = "idle"
  /\ UNCHANGED <<cfg, src, disorder, target, todo, seen, glob, sql, fallback, stage, leaked>>

\* Another incremental model sets the global while it renders: its overlay
\* shares the dictionary of the environment it was made from.
OtherRenders ==
  /\ cfg.parallel /\ ~Quiet
  /\ glob' \in BOOLEAN
  /\ UNCHANGED <<cfg, source, target, todo, pc, seen, sql, fallback, stage, leaked>>

-----------------------------------------------------------------------------
(* run_or_dispatch, up to the first statement. *)

StartRun ==
  /\ Quiet
  /\ pc' = "exists"
  /\ UNCHANGED <<cfg, source, target, todo, seen, glob, sql, fallback, stage, leaked>>

\* _safe_exists: an error counts as "does not exist".  Then
\* _env_with_incremental puts the answer into the globals.
CheckExists ==
  /\ pc = "exists"
  /\ \E ok \in BOOLEAN : seen' = (exists /\ ok)
  /\ glob' = seen'
  /\ IF cfg.engine = "python"
     THEN /\ pc' = "run"
          /\ todo' = IF seen' THEN PythonMerge ELSE <<"readNew", "write">>
     ELSE pc' = "render" /\ todo' = todo
  /\ UNCHANGED <<cfg, source, target, sql, fallback, stage, leaked>>

Text == IF glob THEN "delta" ELSE "full"
Leaks(expected) == leaked \/ glob # expected

\* The first rendering; without a relation it is the text of the full refresh.
Render ==
  /\ pc = "render"
  /\ sql' = Text /\ leaked' = Leaks(seen)
  /\ fallback' = Text
  /\ glob' = FALSE
  /\ IF seen THEN pc' = "fallback" /\ todo' = todo
             ELSE pc' = "run" /\ todo' \in Refresh(cfg.engine)
  /\ UNCHANGED <<cfg, source, target, seen, stage>>

\* The second rendering, for a full refresh should one be needed.
RenderFallback ==
  /\ pc = "fallback"
  /\ fallback' = Text /\ leaked' = Leaks(FALSE)
  /\ pc' = "sync"
  /\ UNCHANGED <<cfg, source, target, todo, seen, glob, sql, stage>>

\* _maybe_schema_sync, then merge or append.
Sync ==
  /\ pc = "sync"
  /\ twide' = (twide \/ (cfg.sync /\ wide /\ SyncAdds(cfg.engine)))
  /\ todo' = IF cfg.keyed THEN Merge(cfg.engine) ELSE <<"append">>
  /\ pc' = "run"
  /\ UNCHANGED <<cfg, source, tgt, exists, seen, glob, sql, fallback, stage, leaked>>

-----------------------------------------------------------------------------
(* The statements. *)

Doing(s) == pc = "run" /\ todo # <<>> /\ Head(todo) = s
\* The next statement, or the return: the locals are gone.
Next1 ==
  /\ todo' = Tail(todo)
  /\ IF Tail(todo) = <<>> THEN pc' = "done" /\ Forget
                          ELSE pc' = "run" /\ UNCHANGED locals
Elsewhere == UNCHANGED <<cfg, source, glob, leaked>>
\* INSERT needs a column for each one of the SELECT.
Fits == wide => twide

\* Altered Delete: only rows that come again unchanged are removed.
DeleteSameRows ==
  /\ Doing("delete") /\ exists
  /\ tgt' = [r \in Rows |-> IF r \in Body(sql) THEN 0 ELSE tgt[r]]
  /\ Next1 /\ Elsewhere /\ UNCHANGED <<exists, twide, stage>>

Delete ==
  /\ Doing("delete") /\ exists
  /\ tgt' = Without(tgt, Body(sql))
  /\ Next1 /\ Elsewhere /\ UNCHANGED <<exists, twide, stage>>

\* The SELECT is evaluated again, on what DELETE has left.
Insert ==
  /\ Doing("insert") /\ exists /\ Fits
  /\ tgt' = Inserted(tgt, Body(sql))
  /\ Next1 /\ Elsewhere /\ UNCHANGED <<exists, twide, stage>>

Stage ==
  /\ Doing("stage") /\ exists
  /\ stage' = BagOf(Body(sql))
  /\ Next1 /\ Elsewhere /\ UNCHANGED target

Staged == {r \in Rows : stage[r] > 0}

DeleteStaged ==
  /\ Doing("deleteStaged") /\ exists
  /\ tgt' = Without(tgt, Staged)
  /\ Next1 /\ Elsewhere /\ UNCHANGED <<exists, twide, stage>>

InsertStaged ==
  /\ Doing("insertStaged") /\ exists /\ Fits
  /\ tgt' = Inserted(tgt, Staged) /\ stage' = NoRows
  /\ Next1 /\ Elsewhere /\ UNCHANGED <<exists, twide>>

\* Altered MergeInto: without WHEN NOT MATCHED.
MergeMatchedOnly ==
  /\ Doing("merge") /\ exists
  /\ LET known == {r \in Body(sql) : \E s \in Rows : s[1] = r[1] /\ tgt[s] > 0}
     IN  tgt' = Inserted(Without(tgt, known), known)
  /\ Next1 /\ Elsewhere /\ UNCHANGED <<exists, twide, stage>>

\* WHEN MATCHED UPDATE, WHEN NOT MATCHED INSERT: one transaction of the format.
MergeInto ==
  /\ Doing("merge") /\ exists
  /\ tgt' = Inserted(Without(tgt, Body(sql)), Body(sql))
  /\ Next1 /\ Elsewhere /\ UNCHANGED <<exists, twide, stage>>

\* Both sides are materialised before the table is overwritten.
ReadBoth ==
  /\ Doing("readBoth") /\ exists
  /\ stage' = Inserted(Without(tgt, Body(sql)), Body(sql))
  /\ Next1 /\ Elsewhere /\ UNCHANGED target

Append1 ==
  /\ Doing("append") /\ exists /\ Fits /\ InsertsBody(cfg)
  /\ tgt' = Inserted(tgt, Body(sql))
  /\ Next1 /\ Elsewhere /\ UNCHANGED <<exists, twide, stage>>

\* Any failure of an append, and a MERGE the table does not support, turn into
\* a full refresh with the other text.
FallBack ==
  /\ Doing("append") \/ Doing("merge")
  /\ todo' \in Refresh(cfg.engine)
  /\ UNCHANGED <<cfg, source, target, pc, seen, glob, sql, fallback, stage, leaked>>

\* Altered Replace: the rows are inserted into the table that is there.
ReplaceInserts ==
  /\ Doing("replace") /\ (fallback = "delta" => exists)
  /\ tgt' = Inserted(tgt, Body(fallback)) /\ exists' = TRUE /\ twide' = wide
  /\ Next1 /\ Elsewhere /\ UNCHANGED stage

\* create or replace, overwrite: the SELECT may read the table it replaces.
Replace ==
  /\ Doing("replace") /\ (fallback = "delta" => exists)
  /\ tgt' = BagOf(Body(fallback)) /\ exists' = TRUE /\ twide' = wide
  /\ Next1 /\ Elsewhere /\ UNCHANGED stage

Drop ==
  /\ Doing("drop")
  /\ tgt' = NoRows /\ exists' = FALSE /\ twide' = FALSE
  /\ Next1 /\ Elsewhere /\ UNCHANGED stage

Create ==
  /\ Doing("create") /\ ~exists /\ fallback = "full"
  /\ tgt' = BagOf(Body(fallback)) /\ exists' = TRUE /\ twide' = wide
  /\ Next1 /\ Elsewhere /\ UNCHANGED stage

-----------------------------------------------------------------------------
(* Python models: the function sees its inputs, not the target. *)

\* _python_incremental_merge_default: the last row of a key in the order of
\* the update columns; without keys the distinct rows.
\* Altered Newest: keep = "first".
Oldest(S) == {r \in S : \A s \in S : s[1] = r[1] => s[2] >= r[2]}
Newest(S) == {r \in S : \A s \in S : s[1] = r[1] => s[2] <= r[2]}
MergeFrames(old, new) ==
  LET all == {r \in Rows : old[r] > 0} \union new
  IN  BagOf(IF cfg.keyed THEN Newest(all) ELSE all)

\* A target that cannot be read is taken for one that is not there.
ReadOld ==
  /\ Doing("readOld")
  /\ \E ok \in BOOLEAN : stage' = IF ok /\ exists THEN MergeFrames(tgt, SrcRows)
                                                  ELSE BagOf(SrcRows)
  /\ Next1 /\ Elsewhere /\ UNCHANGED target

ReadNew ==
  /\ Doing("readNew")
  /\ stage' = BagOf(SrcRows)
  /\ Next1 /\ Elsewhere /\ UNCHANGED target

\* _materialize_relation, or the overwrite of the merged frame.
Write ==
  /\ Doing("write")
  /\ tgt' = stage /\ exists' = TRUE /\ twide' = wide /\ stage' = NoRows
  /\ Next1 /\ Elsewhere

-----------------------------------------------------------------------------
\* A statement raises or the process dies: what is committed stays.
Break ==
  /\ ~Quiet
  /\ pc' = "idle" /\ todo' = <<>> /\ stage' = NoRows /\ Forget
  /\ UNCHANGED <<cfg, source, target, glob, leaked>>

World ==
  \/ \E k \in Keys, u \in 1..MaxUpd : SourceWrite(k, u)
  \/ \E k \in Keys : SourceDelete(k)
  \/ Widen \/ OtherRenders \/ Break

Prepare == StartRun \/ CheckExists \/ Render \/ RenderFallback \/ Sync

Statement ==
  \/ Delete \/ Insert \/ Stage \/ DeleteStaged \/ InsertStaged
  \/ MergeInto \/ ReadBoth \/ Append1 \/ FallBack
  \/ Replace \/ Drop \/ Create \/ ReadOld \/ ReadNew \/ Write

Next == World \/ Prepare \/ Statement

Spec == Init /\ [][Next]_vars

-----------------------------------------------------------------------------
(* Properties *)

TypeOK ==
  /\ src \in [Keys -> 0..MaxUpd] /\ wide \in BOOLEAN /\ disorder \subseteq Keys
  /\ tgt \in [Rows -> 0..Copies] /\ stage \in [Rows -> 0..Copies]
  /\ exists \in BOOLEAN /\ twide \in BOOLEAN /\ seen \in BOOLEAN
  /\ glob \in BOOLEAN /\ leaked \in BOOLEAN
  /\ sql \in {"full", "delta"} /\ fallback \in {"full", "delta"}
  /\ pc \in {"idle", "exists", "render", "fallback", "sync", "run", "done"}

\* Engines that evaluate the SELECT of a merge once for DELETE, once for INSERT.
TwoStatements == {"duckdb", "snowflake", "bigquery"}

\* docs/Incremental.md, "unique_key ... uniquely identify a row in the target":
\* under a merge every key has one row, whatever breaks, falls back or is
\* rendered concurrently; on engines that evaluate the SELECT twice except for
\* keys that were written late or during a run.
KeysStayUnique ==
  cfg.keyed => \A k \in Keys :
    (cfg.engine \in TwoStatements => k \notin disorder) =>
      \A r, s \in Rows : r[1] = k /\ s[1] = k /\ tgt[r] > 0 /\ tgt[s] > 0
                         => r = s /\ tgt[r] = 1

\* A source row that came in order is in the target, or the next run selects
\* it: no failure between two statements loses it for good.
NothingLostForGood ==
  ~leaked => \A k \in Keys \ disorder :
    src[k] > 0 => tgt[<<k, src[k]>>] > 0 \/ <<k, src[k]>> \in Body("delta")

\* After a run that reports success the target has every source row that came
\* in order, and under a merge no other version of it ("you want the target
\* table to always reflect the latest version per unique_key").
SuccessIsCurrent ==
  pc = "done" /\ ~leaked => \A k \in Keys \ disorder : src[k] > 0 =>
    /\ exists /\ tgt[<<k, src[k]>>] > 0
    /\ cfg.keyed => \A r \in Rows : r[1] = k /\ r[2] # src[k] => tgt[r] = 0

\* Appending behind a watermark adds a row once, also when a run is repeated
\* after a failure.
AppendsOnce ==
  ~cfg.keyed /\ cfg.watermark /\ ~leaked =>
    \A k \in Keys \ disorder : \A r \in Rows : r[1] = k => tgt[r] <= 1

\* executors/base.py: is_incremental() is "True iff meta marks the model as
\* incremental AND the target relation exists" - refuted: another thread's
\* model answers for this one.
OwnFlagIsRendered == ~leaked
=============================================================================
