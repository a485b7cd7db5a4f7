--------------------------- MODULE SnapshotTable ---------------------------
(***************************************************************************)
(* `fft snapshot run` and the history table it keeps for one snapshot      *)
(* model: snapshots/runtime/base.py (engines that run two SQL statements), *)
(* snapshots/runtime/databricks_spark.py (one overwrite) and the retention *)
(* of cli/snapshot_cmd.py.                                                 *)
(*                                                                         *)
(* Source and history are relations, sets of records.  A history row is    *)
(* one version of a key: the checked columns (val, whose hash identifies   *)
(* them), _ff_updated_at (upd), _ff_valid_from, _ff_valid_to (0 for NULL)  *)
(* and _ff_is_current.  Each statement is atomic and takes its timestamp   *)
(* when it runs; a run may die between two statements, and the source may  *)
(* change at any time.                                                     *)
(***************************************************************************)
EXTENDS Naturals, FiniteSets

CONSTANTS Keys,      \* values of the unique_key
          Values,    \* values of the checked columns
          MaxTime,   \* bound: events per behaviour
          KeepLasts  \* values of --keep-last

ASSUME SnapshotAssumption == MaxTime \in Nat /\ KeepLasts \subseteq Nat \ {0}

\* How an engine reads the source of one run: from a temporary table (Postgres),
\* once per statement (a temporary view or a subquery: DuckDB, Snowflake,
\* BigQuery), or in the one job that rewrites the table (Spark).
Engines == {"staged", "inline", "rewrite"}
Strategies == {"timestamp", "check"}

VARIABLES strategy, engine,  \* configuration of the model
          src,       \* rows of the snapshot's SELECT, one per key
          rows,      \* the history table
          created,   \* exists_relation
          staged,    \* the temporary table
          pc,        \* the run: "idle", "staged", "closed", "done"
          now,       \* the clock
          torn,      \* auxiliary: keys whose source row moved between the statements of a run
          orphaned   \* auxiliary: keys a broken run closed and no run has reopened

config == <<strategy, engine>>
vars == <<config, src, rows, created, staged, pc, now, torn, orphaned>>

Init ==
  /\ strategy \in Strategies /\ engine \in Engines
  /\ src = {} /\ rows = {} /\ created = FALSE /\ staged = {}
  /\ pc = "idle" /\ now = 1
  /\ torn = {} /\ orphaned = {}

\* Every statement and every change of the source has a time of its own.
Tick == now < MaxTime /\ now' = now + 1

-----------------------------------------------------------------------------
(* The source: written by others, at any time. *)

\* What the statements still to come will not see as the earlier ones did.
Tear(k) == torn' = IF pc = "closed" /\ engine = "inline" THEN torn \union {k} ELSE torn

\* A row appears or is updated; its updated_at is the time, or, when that
\* column is coarse, the value it already had.
SourceWrite(k, v) ==
  /\ Tick
  /\ \E u \in {now} \union {s.upd : s \in {r \in src : r.key = k}} :
       src' = {s \in src : s.key # k} \union {[key |-> k, val |-> v, upd |-> u]}
  /\ Tear(k)
  /\ UNCHANGED <<config, rows, created, staged, pc, orphaned>>

SourceDelete(k) ==
  /\ \E s \in src : s.key = k
  /\ src' = {s \in src : s.key # k}
  /\ Tear(k)
  /\ UNCHANGED <<config, rows, created, staged, pc, now, orphaned>>

-----------------------------------------------------------------------------
(* The SQL statements, as what they make of the table. *)

\* change_condition: s.updated_at > t._ff_updated_at, or another hash.
Changed(s, t) == IF strategy = "timestamp" THEN s.upd > t.upd ELSE s.val # t.val

\* The current versions of the table h that the join on unique_key finds for s.
Matches(s, h) == {t \in h : t.cur /\ t.key = s.key}

\* A new version: valid from updated_at (timestamp) or from now (check).
Version(s) ==
  [key |-> s.key, val |-> s.val,
   upd  |-> IF strategy = "timestamp" THEN s.upd ELSE now,
   from |-> IF strategy = "timestamp" THEN s.upd ELSE now,
   to |-> 0, cur |-> TRUE]

\* UPDATE ... FROM source: every current version whose source row has changed.
CloseRows(S, h) ==
  {IF t.cur /\ \E s \in S : s.key = t.key /\ Changed(s, t)
     THEN [t EXCEPT !.to = now, !.cur = FALSE] ELSE t : t \in h}

\* Altered Missing: the join also finds versions that are not current.
MissingAnyVersion(S, h) ==
  LET found(s) == {t \in h : t.key = s.key}
  IN {s \in S : found(s) = {} \/ \E t \in found(s) : Changed(s, t)}

\* Altered Missing: only keys that are new.
MissingNewKeys(S, h) == {s \in S : \A t \in h : t.key # s.key}

\* INSERT ... FROM source LEFT JOIN the current versions: the source rows that
\* have none, or one they differ from.
Missing(S, h) == {s \in S : Matches(s, h) = {} \/ \E t \in Matches(s, h) : Changed(s, t)}

\* DELETE of the versions with rn > keep, joined back on key and valid_from: of
\* versions that tie, all go as soon as one does.
Pruned(h, keep) ==
  {t \in h : Cardinality({r \in h : r.key = t.key /\ r.from >= t.from}) > keep}

\* What the statements of this run read.
Source == IF engine = "staged" THEN staged ELSE src

KeysOf(S) == {s.key : s \in S}

-----------------------------------------------------------------------------
(* The run. *)

\* CREATE TABLE AS: there is no history yet.
FirstRun ==
  /\ pc = "idle" /\ ~created
  /\ Tick
  /\ rows' = {Version(s) : s \in src}
  /\ created' = TRUE
  /\ pc' = "done"
  /\ UNCHANGED <<config, src, staged, torn, orphaned>>

\* _snapshot_source_ref: a copy of the source, or a name for it.
Stage ==
  /\ pc = "idle" /\ created /\ engine # "rewrite"
  /\ staged' = IF engine = "staged" THEN src ELSE {}
  /\ pc' = "staged"
  /\ UNCHANGED <<config, src, rows, created, now, torn, orphaned>>

Close ==
  /\ pc = "staged"
  /\ Tick
  /\ rows' = CloseRows(Source, rows)
  /\ pc' = "closed"
  /\ UNCHANGED <<config, src, created, staged, torn, orphaned>>

\* The new versions; then the cleanup of the staged source.
Insert ==
  /\ pc = "closed"
  /\ Tick
  /\ rows' = rows \union {Version(s) : s \in Missing(Source, rows)}
  /\ orphaned' = orphaned \ KeysOf(Missing(Source, rows))
  /\ staged' = {}
  /\ pc' = "done"
  /\ UNCHANGED <<config, src, created, torn>>

\* Spark: both in one overwrite of the table.
Rewrite ==
  /\ pc = "idle" /\ created /\ engine = "rewrite"
  /\ Tick
  /\ rows' = CloseRows(src, rows) \union {Version(s) : s \in Missing(src, rows)}
  /\ pc' = "done"
  /\ UNCHANGED <<config, src, created, staged, torn, orphaned>>

\* A statement raises or the process dies: the statements before it stay.
Break ==
  /\ pc \in {"staged", "closed"}
  /\ staged' = {}
  /\ pc' = "idle"
  /\ orphaned' = orphaned \union {k \in KeysOf(rows) : \A t \in rows : t.key = k => ~t.cur}
  /\ UNCHANGED <<config, src, rows, created, now, torn>>

\* Altered Prune: versions are ranked from the oldest.
PruneNewest ==
  /\ pc = "done"
  /\ \E keep \in KeepLasts :
       rows' = rows \ {t \in rows : Cardinality({r \in rows : r.key = t.key /\ r.from <= t.from}) > keep}
  /\ pc' = "idle"
  /\ UNCHANGED <<config, src, created, staged, now, torn, orphaned>>

\* --prune --keep-last, after a successful run only.
Prune ==
  /\ pc = "done"
  /\ \E keep \in KeepLasts : rows' = rows \ Pruned(rows, keep)
  /\ pc' = "idle"
  /\ UNCHANGED <<config, src, created, staged, now, torn, orphaned>>

\* Without --prune, with --dry-run, or a prune that fails.
Finish ==
  /\ pc = "done"
  /\ pc' = "idle"
  /\ UNCHANGED <<config, src, rows, created, staged, now, torn, orphaned>>

Next ==
  \/ \E k \in Keys : (\E v \in Values : SourceWrite(k, v)) \/ SourceDelete(k)
  \/ FirstRun \/ Stage \/ Close \/ Insert \/ Rewrite \/ Break \/ Prune \/ Finish

Spec == Init /\ [][Next]_vars

-----------------------------------------------------------------------------
(* Properties *)

SourceRow == [key : Keys, val : Values, upd : Nat]
Row == [key : Keys, val : Values, upd : Nat, from : Nat, to : Nat, cur : BOOLEAN]

OneRowPerKey(S) == \A s1, s2 \in S : s1.key = s2.key => s1 = s2

\* Types; a version is current exactly when its end is NULL, and the source and
\* its copy have one row per key.
TypeOK ==
  /\ strategy \in Strategies /\ engine \in Engines
  /\ src \subseteq SourceRow /\ OneRowPerKey(src)
  /\ staged \subseteq SourceRow /\ OneRowPerKey(staged)
  /\ rows \subseteq Row
  /\ \A t \in rows : t.cur <=> t.to = 0
  /\ created \in BOOLEAN
  /\ pc \in {"idle", "staged", "closed", "done"}
  /\ now \in Nat \ {0}
  /\ torn \subseteq Keys /\ orphaned \subseteq Keys

\* The docs: _ff_is_current is TRUE exactly for the current version.  A key has
\* at most one current version, at every moment of every run and after runs that
\* broke, as long as its source row never moved between the two statements of a
\* run that reads the source twice.
OneCurrentPerKey ==
  \A t1, t2 \in rows :
    t1.cur /\ t2.cur /\ t1.key = t2.key /\ t1.key \notin torn => t1 = t2

\* Between the statements: an open version is not one the source has changed.
NothingLeftToClose ==
  pc = "closed" =>
    \A s \in Source, t \in rows :
      t.cur /\ s.key = t.key /\ t.key \notin torn => ~Changed(s, t)

\* Only engines that run two statements are between them.
TwoStatements == pc \in {"staged", "closed"} => engine # "rewrite"

\* The inductive invariant behind OneCurrentPerKey.
IInv == TypeOK /\ TwoStatements /\ OneCurrentPerKey /\ NothingLeftToClose

\* A run that ends well has recorded what it read: each source row has a current
\* version it does not differ from, also when earlier runs broke half-way.
RunRecordsSource ==
  [][pc # "done" /\ pc' = "done" =>
       \A s \in Source : s.key \notin torn =>
         \E t \in rows' : t.key = s.key /\ t.cur /\ ~Changed(s, t)]_vars

\* A row that leaves the source is no change, its last version stays current
\* (docs, "Deletes").  Only a run that broke between its statements takes a
\* key's current version away, and the next run that sees the row restores it.
LastVersionStaysCurrent ==
  pc # "closed" =>
    \A k \in KeysOf(rows) \ (torn \union orphaned) : \E t \in rows : t.key = k /\ t.cur

\* History is only added to.  A step other than a prune keeps every version, at
\* most closing one that is current; a prune leaves each key its newest version,
\* and its current one (snapshot_prune's docstring).
HistoryIsKept ==
  [][IF pc = "done"
       THEN \A t \in rows : t.key \notin torn /\ (t.cur \/ \A r \in rows : r.key = t.key => r.from <= t.from)
              => t \in rows'
       ELSE \A t \in rows : t \in rows' \/ (t.cur /\ \E r \in rows' :
              r = [t EXCEPT !.cur = FALSE, !.to = r.to])]_vars

Overlap(t1, t2) ==
  /\ t1.key = t2.key /\ t1 # t2
  /\ \E d \in 1 .. now : \A t \in {t1, t2} : t.from <= d /\ (t.to = 0 \/ d < t.to)

\* With strategy='check' the point-in-time query of the docs finds at most one
\* version of a key at any time.
CheckVersionsDisjoint ==
  strategy = "check" =>
    \A t1, t2 \in rows : t1.key \notin torn => ~Overlap(t1, t2)

\* At every time a key has the one version it had then, and it never loses its last.
VersionsLineUp == LastVersionStaysCurrent /\ CheckVersionsDisjoint

\* The same for every strategy.  Fails: with strategy='timestamp' the old version
\* ends when the run closes it and the new one begins at the updated_at before it.
PointInTimeIsUnique ==
  \A t1, t2 \in rows : t1.key \notin torn => ~Overlap(t1, t2)
=============================================================================
