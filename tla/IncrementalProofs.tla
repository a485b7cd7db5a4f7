------------------------- MODULE IncrementalProofs -------------------------
(***************************************************************************)
(* Theorems about Incremental for every engine and every model, any number *)
(* of keys, timestamps and runs, any interleaving with the source and with *)
(* other threads: keys stay unique, no source row is lost for good, success *)
(* means current, and an append adds a row once.                           *)
(***************************************************************************)
EXTENDS Incremental, TLAPS

EngineNames == {"duckdb", "snowflake", "bigquery", "postgres", "delta", "iceberg", "hudi",
                "spark", "python"}
Config == [engine : EngineNames, keyed : BOOLEAN, watermark : BOOLEAN, drift : BOOLEAN,
           sync : BOOLEAN, cte : BOOLEAN, parallel : BOOLEAN]

(* Vocabulary: rows of a key in a table, the row of a key in the source.     *)

Has(t, k) == \E r \in Rows : r[1] = k /\ t[r] > 0
Single(t, k) ==
  \A r, s \in Rows : r[1] = k /\ s[1] = k /\ t[r] > 0 /\ t[s] > 0 => r = s /\ t[r] = 1
OnePerKey(S) == \A r, s \in S : r[1] = s[1] => r = s
Latest(k) == <<k, src[k]>>
\* Keys in the source whose row came in order.
Orderly == {k \in Keys \ disorder : src[k] > 0}

-----------------------------------------------------------------------------
(* The invariant.                                                          *)

\* What can be left of a program of statements.
MergeTails(e) ==
  CASE e \in TwoStatements -> {<<"delete", "insert">>, <<"insert">>}
    [] e = "postgres" -> {<<"stage", "deleteStaged", "insertStaged">>,
                          <<"deleteStaged", "insertStaged">>, <<"insertStaged">>}
    [] e \in {"delta", "iceberg", "hudi"} -> {<<"merge">>}
    [] e = "spark" -> {<<"readBoth", "drop", "write">>, <<"drop", "write">>, <<"write">>}
    [] e = "python" -> {<<"readOld", "write">>, <<"readNew", "write">>, <<"write">>}
RefreshTails(e) ==
  {<<"replace">>} \union (IF e \in TwoStatements \union {"python"} THEN {}
                          ELSE {<<"drop", "create">>, <<"create">>})
Tails(c) == RefreshTails(c.engine) \union
              (IF c.keyed \/ c.engine = "python" THEN MergeTails(c.engine) ELSE {<<"append">>})

Typed == /\ TypeOK /\ cfg \in Config
         /\ IF pc = "run" THEN todo \in Tails(cfg) ELSE todo = <<>>
         /\ pc \in {"render", "fallback", "sync"} => cfg.engine # "python"

\* Unless another model's flag got in, a merge or an append has the delta and a
\* full refresh has everything.
UsesSql == {"delete", "insert", "stage", "merge", "readBoth", "append"}
OwnText ==
  ~leaked => /\ pc # "fallback" => fallback = "full"
             /\ pc \in {"fallback", "sync"} => sql = "delta"
             /\ pc = "run" /\ Head(todo) \in UsesSql => sql = "delta"

\* DELETE and INSERT: a key that has rows has its latest, or the next delta has it;
\* and what INSERT will select has been deleted.
Traceable ==
  cfg.engine \in TwoStatements =>
    \A k \in Orderly : Has(tgt, k) => tgt[Latest(k)] > 0 \/ Above(src[k], tgt)
Deleted ==
  todo = <<"insert">> => \A k \in Orderly : Latest(k) \in Body(sql) => ~Has(tgt, k)

\* The staging table of Postgres has one row per key and everything new, and what
\* it has of orderly keys would be selected again should the run break.
StagedDelta ==
  todo \in {<<"deleteStaged", "insertStaged">>, <<"insertStaged">>} =>
    /\ OnePerKey(Staged)
    /\ ~leaked =>
         /\ \A r \in Staged : r[1] \notin disorder => r \in Body("delta")
         /\ \A k \in Orderly : Latest(k) \in Staged \/ tgt[Latest(k)] > 0
    /\ todo = <<"insertStaged">> => \A r \in Staged : ~Has(tgt, r[1])

\* The frame Spark and Python are about to write is what the table shall be.
Frame ==
  todo \in {<<"drop", "write">>, <<"write">>} =>
    /\ IF cfg.keyed THEN \A k \in Keys : Single(stage, k) ELSE \A r \in Rows : stage[r] <= 1
    /\ ~leaked => \A k \in Orderly : stage[Latest(k)] > 0
    /\ cfg.engine = "python" => \A r \in Rows : stage[r] > 0 /\ r[1] \in Orderly => r[2] <= src[r[1]]

\* keep="last" finds the row of the source.
NoneNewer ==
  cfg.engine = "python" => \A r \in Rows : tgt[r] > 0 /\ r[1] \in Orderly => r[2] <= src[r[1]]

IInv ==
  /\ Typed /\ OwnText /\ Traceable /\ Deleted /\ StagedDelta /\ Frame /\ NoneNewer
  /\ KeysStayUnique /\ NothingLostForGood /\ SuccessIsCurrent /\ AppendsOnce

-----------------------------------------------------------------------------
(* Tables as bags of rows.                                                 *)

Tables == [Rows -> 0..Copies]

LEMMA RowParts ==
  /\ \A r \in Rows : r[1] \in Keys /\ r[2] \in 1..MaxUpd /\ r = <<r[1], r[2]>>
  /\ \A k \in Keys, u \in 1..MaxUpd : <<k, u>> \in Rows
BY DEF Rows

LEMMA TableTypes ==
  ASSUME NEW t \in Tables, NEW S
  PROVE  /\ Inserted(t, S) \in Tables /\ Without(t, S) \in Tables
         /\ BagOf(S) \in Tables /\ NoRows \in Tables
BY BoundsAssumption DEF Tables, Inserted, Without, BagOf, NoRows

\* DELETE takes whole keys away and leaves the others alone.
LEMMA Deleting ==
  ASSUME NEW t \in Tables, NEW S
  PROVE  /\ \A r \in Rows : (\A s \in S : s[1] # r[1]) => Without(t, S)[r] = t[r]
         /\ \A r \in Rows : Without(t, S)[r] > 0 => t[r] > 0
         /\ \A r \in Rows : (\E s \in S : s[1] = r[1]) => Without(t, S)[r] = 0
         /\ \A u \in Nat : Above(u, t) => Above(u, Without(t, S))
         /\ \A k : Has(Without(t, S), k) => Has(t, k) /\ \A s \in S : s[1] # k
         /\ \A k : Single(t, k) => Single(Without(t, S), k)
  <1>1. \A r \in Rows : Without(t, S)[r] = IF \E s \in S : s[1] = r[1] THEN 0 ELSE t[r]
    BY DEF Without
  <1>2. \A r \in Rows : Without(t, S)[r] > 0 => t[r] > 0 /\ Without(t, S)[r] = t[r]
    BY <1>1
  <1>3. \A u \in Nat : Above(u, t) => Above(u, Without(t, S))
    BY <1>2 DEF Above
  <1>4. \A k : Has(Without(t, S), k) => Has(t, k) /\ \A s \in S : s[1] # k
    BY <1>1, <1>2 DEF Has
  <1>5. \A k : Single(t, k) => Single(Without(t, S), k)
    BY <1>2 DEF Single
  <1> QED BY <1>1, <1>2, <1>3, <1>4, <1>5

\* INSERT of one row per key, into a table without rows of these keys.
LEMMA Inserting ==
  ASSUME NEW t \in Tables, NEW S
  PROVE  /\ \A r \in Rows : Inserted(t, S)[r] > 0 <=> t[r] > 0 \/ r \in S
         /\ \A r \in Rows : r \notin S => Inserted(t, S)[r] = t[r]
         /\ \A r \in Rows : r \in S /\ t[r] = 0 => Inserted(t, S)[r] = 1
         /\ \A k : OnePerKey(S) /\ Single(t, k) /\ (\A s \in S : s[1] = k => ~Has(t, k))
                     => Single(Inserted(t, S), k)
  <1>1. \A r \in Rows : Inserted(t, S)[r] = IF r \in S /\ t[r] < Copies THEN t[r] + 1 ELSE t[r]
    BY DEF Inserted
  <1>2. \A r \in Rows : t[r] \in 0..Copies
    BY DEF Tables
  <1>3. \A r \in Rows : Inserted(t, S)[r] > 0 <=> t[r] > 0 \/ r \in S
    BY <1>1, <1>2, BoundsAssumption
  <1>4. \A r \in Rows : r \in S /\ t[r] = 0 => Inserted(t, S)[r] = 1
    BY <1>1, <1>2, BoundsAssumption
  <1>5. ASSUME NEW k, OnePerKey(S), Single(t, k), \A s \in S : s[1] = k => ~Has(t, k)
        PROVE  Single(Inserted(t, S), k)
    <2> SUFFICES ASSUME NEW r \in Rows, NEW s \in Rows, r[1] = k, s[1] = k,
                        Inserted(t, S)[r] > 0, Inserted(t, S)[s] > 0
                 PROVE  r = s /\ Inserted(t, S)[r] = 1
      BY DEF Single
    <2>1. CASE \E q \in S : q[1] = k
      <3>1. t[r] = 0 /\ t[s] = 0
        BY <1>2, <1>5, <2>1 DEF Has
      <3>2. r \in S /\ s \in S
        BY <1>3, <3>1
      <3> QED BY <1>4, <1>5, <3>1, <3>2 DEF OnePerKey
    <2>2. CASE \A q \in S : q[1] # k
      BY <1>1, <1>3, <1>5, <2>2 DEF Single
    <2> QED BY <2>1, <2>2
  <1> QED BY <1>1, <1>3, <1>4, <1>5

\* MERGE, and the join of both sides: replace the rows of the keys that come.
LEMMA Merging ==
  ASSUME NEW t \in Tables, NEW S, OnePerKey(S)
  PROVE  LET u == Inserted(Without(t, S), S)
         IN  /\ u \in Tables
             /\ \A k : Single(t, k) => Single(u, k)
             /\ \A r \in Rows : r \in S \/ (t[r] > 0 /\ \A s \in S : s[1] # r[1]) => u[r] > 0
  <1> DEFINE w == Without(t, S)
  <1>1. w \in Tables
    BY TableTypes
  <1>2. /\ \A r \in Rows : (\A s \in S : s[1] # r[1]) => w[r] = t[r]
        /\ \A k : Has(w, k) => \A s \in S : s[1] # k
        /\ \A k : Single(t, k) => Single(w, k)
    BY Deleting
  <1> HIDE DEF w
  <1>3. /\ Inserted(w, S) \in Tables
        /\ \A k : Single(t, k) => Single(Inserted(w, S), k)
        /\ \A r \in Rows : Inserted(w, S)[r] > 0 <=> w[r] > 0 \/ r \in S
    BY <1>1, <1>2, Inserting, TableTypes
  <1> QED BY <1>2, <1>3 DEF w

\* A table made of one row per key.
LEMMA Replacing ==
  ASSUME NEW S
  PROVE  /\ OnePerKey(S) => \A k : Single(BagOf(S), k)
         /\ \A r \in Rows : (BagOf(S)[r] > 0 <=> r \in S) /\ BagOf(S)[r] <= 1
         /\ \A r \in Rows : NoRows[r] = 0
BY DEF OnePerKey, Single, BagOf, NoRows

-----------------------------------------------------------------------------
(* What a SELECT returns on the table t.                                   *)

Selected(text, t) ==
  IF text = "delta" /\ cfg.watermark THEN {r \in SrcRows : Above(r[2], t)} ELSE SrcRows

LEMMA SourceRows ==
  ASSUME Typed
  PROVE  /\ SrcRows \subseteq Rows /\ OnePerKey(SrcRows)
         /\ \A r \in SrcRows : r[1] \in Keys /\ src[r[1]] > 0 /\ r = Latest(r[1]) /\ r[2] = src[r[1]]
         /\ \A k \in Orderly : /\ k \in Keys /\ k \notin disorder /\ src[k] \in 1..MaxUpd
                               /\ Latest(k) \in Rows /\ Latest(k) \in SrcRows
                               /\ Latest(k)[1] = k /\ Latest(k)[2] = src[k]
  <1>1. \A k \in Keys : src[k] \in 0..MaxUpd
    BY DEF Typed, TypeOK
  <1>2. \A r : r \in SrcRows <=> \E k \in Keys : src[k] > 0 /\ r = Latest(k)
    BY DEF SrcRows, Latest
  <1>3. \A k \in Keys : Latest(k)[1] = k /\ Latest(k)[2] = src[k]
    BY DEF Latest
  <1>4. \A k \in Keys : src[k] > 0 => src[k] \in 1..MaxUpd
    BY <1>1, BoundsAssumption
  <1>5. \A k \in Keys : src[k] > 0 => Latest(k) \in Rows
    BY <1>4, RowParts DEF Latest
  <1> QED BY <1>2, <1>3, <1>4, <1>5 DEF OnePerKey, Orderly

LEMMA Selecting ==
  ASSUME Typed, NEW text, NEW t \in Tables
  PROVE  /\ Body(text) = Selected(text, tgt)
         /\ Selected(text, t) \subseteq Rows /\ OnePerKey(Selected(text, t))
         /\ \A r \in Selected(text, t) :
              r[1] \in Keys /\ src[r[1]] > 0 /\ r = Latest(r[1]) /\ r[2] = src[r[1]]
         /\ \A k \in Orderly :
              \/ Latest(k) \in Selected(text, t)
              \/ text = "delta" /\ cfg.watermark /\ ~Above(src[k], t)
         /\ \A r \in Rows : r \in Selected("delta", t) /\ cfg.watermark => t[r] = 0
         /\ \A k \in Orderly : t[Latest(k)] > 0 => ~Above(src[k], t)
         /\ \A S : Selected("delta", t) \subseteq Selected("delta", Without(t, S))
  <1>1. Body(text) = Selected(text, tgt)
    BY DEF Body, Selected
  <1>2. Selected(text, t) \subseteq SrcRows
    BY DEF Selected
  <1>3. \A k \in Orderly : \/ Latest(k) \in Selected(text, t)
                           \/ text = "delta" /\ cfg.watermark /\ ~Above(src[k], t)
    BY SourceRows DEF Selected
  <1>4. \A r \in Rows : t[r] > 0 => ~Above(r[2], t)
    BY RowParts DEF Above
  <1>5. \A r \in Rows : r \in Selected("delta", t) /\ cfg.watermark => t[r] = 0
    BY <1>4 DEF Selected, Tables
  <1>6. \A k \in Orderly : t[Latest(k)] > 0 => ~Above(src[k], t)
    BY <1>4, SourceRows
  <1>7. \A S : Selected("delta", t) \subseteq Selected("delta", Without(t, S))
    <2>1. \A r \in SrcRows : r[2] \in Nat
      BY SourceRows, RowParts
    <2> QED BY <2>1, Deleting DEF Selected
  <1>8. OnePerKey(Selected(text, t)) /\ Selected(text, t) \subseteq Rows
    BY <1>2, SourceRows DEF OnePerKey
  <1>9. \A r \in Selected(text, t) :
           r[1] \in Keys /\ src[r[1]] > 0 /\ r = Latest(r[1]) /\ r[2] = src[r[1]]
    BY <1>2, SourceRows
  <1> QED BY <1>1, <1>3, <1>5, <1>6, <1>7, <1>8, <1>9
-----------------------------------------------------------------------------
(* Programs: which statement is next tells what else is left to do.          *)

LEMMA Literals ==
  /\ \A a : <<a>> # <<>> /\ Head(<<a>>) = a /\ Tail(<<a>>) = <<>>
  /\ \A a, b : <<a, b>> # <<>> /\ Head(<<a, b>>) = a /\ Tail(<<a, b>>) = <<b>>
  /\ \A a, b, c : <<a, b, c>> # <<>> /\ Head(<<a, b, c>>) = a /\ Tail(<<a, b, c>>) = <<b, c>>
OBVIOUS

LEMMA WhatIsLeft ==
  ASSUME Typed, pc = "run"
  PROVE  \/ /\ cfg.keyed /\ cfg.engine \in TwoStatements
            /\ todo \in {<<"delete", "insert">>, <<"insert">>}
         \/ /\ cfg.keyed /\ cfg.engine = "postgres"
            /\ todo \in {<<"stage", "deleteStaged", "insertStaged">>,
                         <<"deleteStaged", "insertStaged">>, <<"insertStaged">>}
         \/ cfg.keyed /\ cfg.engine \in {"delta", "iceberg", "hudi"} /\ todo = <<"merge">>
         \/ /\ cfg.keyed /\ cfg.engine = "spark"
            /\ todo \in {<<"readBoth", "drop", "write">>, <<"drop", "write">>, <<"write">>}
         \/ /\ cfg.engine = "python"
            /\ todo \in {<<"readOld", "write">>, <<"readNew", "write">>, <<"write">>}
         \/ ~cfg.keyed /\ cfg.engine # "python" /\ todo = <<"append">>
         \/ todo = <<"replace">>
         \/ /\ cfg.engine \notin TwoStatements \union {"python"}
            /\ todo \in {<<"drop", "create">>, <<"create">>}
BY DEF Typed, Tails, RefreshTails, MergeTails, Config, EngineNames, TwoStatements

LEMMA Doings ==
  ASSUME Typed
  PROVE  /\ Doing("delete") => /\ cfg.keyed /\ cfg.engine \in TwoStatements
                               /\ todo = <<"delete", "insert">> /\ Tail(todo) = <<"insert">>
         /\ Doing("insert") => /\ cfg.keyed /\ cfg.engine \in TwoStatements
                               /\ todo = <<"insert">> /\ Tail(todo) = <<>>
         /\ Doing("stage") => /\ cfg.keyed /\ cfg.engine = "postgres"
                              /\ Tail(todo) = <<"deleteStaged", "insertStaged">>
         /\ Doing("deleteStaged") => /\ cfg.keyed /\ cfg.engine = "postgres"
                                     /\ todo = <<"deleteStaged", "insertStaged">>
                                     /\ Tail(todo) = <<"insertStaged">>
         /\ Doing("insertStaged") => /\ cfg.keyed /\ cfg.engine = "postgres"
                                     /\ todo = <<"insertStaged">> /\ Tail(todo) = <<>>
         /\ Doing("merge") => /\ cfg.keyed /\ cfg.engine \in {"delta", "iceberg", "hudi"}
                              /\ Tail(todo) = <<>>
         /\ Doing("readBoth") => /\ cfg.keyed /\ cfg.engine = "spark"
                                 /\ Tail(todo) = <<"drop", "write">>
         /\ Doing("append") => ~cfg.keyed /\ cfg.engine # "python" /\ Tail(todo) = <<>>
         /\ Doing("replace") => todo = <<"replace">> /\ Tail(todo) = <<>>
         /\ Doing("drop") =>
               \/ /\ todo = <<"drop", "write">> /\ Tail(todo) = <<"write">>
                  /\ cfg.keyed /\ cfg.engine = "spark"
               \/ /\ todo = <<"drop", "create">> /\ Tail(todo) = <<"create">>
                  /\ cfg.engine \notin TwoStatements \union {"python"}
         /\ Doing("create") => cfg.engine # "python" /\ Tail(todo) = <<>>
         /\ Doing("readOld") \/ Doing("readNew") => cfg.engine = "python" /\ Tail(todo) = <<"write">>
         /\ Doing("write") => /\ cfg.engine \notin TwoStatements
                              /\ todo = <<"write">> /\ Tail(todo) = <<>>
  <1>1. /\ Head(<<"delete", "insert">>) = "delete" /\ Tail(<<"delete", "insert">>) = <<"insert">>
        /\ Head(<<"insert">>) = "insert" /\ Tail(<<"insert">>) = <<>>
        /\ Head(<<"stage", "deleteStaged", "insertStaged">>) = "stage" /\ Tail(<<"stage", "deleteStaged", "insertStaged">>) = <<"deleteStaged", "insertStaged">>
        /\ Head(<<"deleteStaged", "insertStaged">>) = "deleteStaged" /\ Tail(<<"deleteStaged", "insertStaged">>) = <<"insertStaged">>
        /\ Head(<<"insertStaged">>) = "insertStaged" /\ Tail(<<"insertStaged">>) = <<>>
        /\ Head(<<"merge">>) = "merge" /\ Tail(<<"merge">>) = <<>>
        /\ Head(<<"readBoth", "drop", "write">>) = "readBoth" /\ Tail(<<"readBoth", "drop", "write">>) = <<"drop", "write">>
        /\ Head(<<"drop", "write">>) = "drop" /\ Tail(<<"drop", "write">>) = <<"write">>
        /\ Head(<<"write">>) = "write" /\ Tail(<<"write">>) = <<>>
        /\ Head(<<"readOld", "write">>) = "readOld" /\ Tail(<<"readOld", "write">>) = <<"write">>
        /\ Head(<<"readNew", "write">>) = "readNew" /\ Tail(<<"readNew", "write">>) = <<"write">>
        /\ Head(<<"append">>) = "append" /\ Tail(<<"append">>) = <<>>
        /\ Head(<<"replace">>) = "replace" /\ Tail(<<"replace">>) = <<>>
        /\ Head(<<"drop", "create">>) = "drop" /\ Tail(<<"drop", "create">>) = <<"create">>
        /\ Head(<<"create">>) = "create" /\ Tail(<<"create">>) = <<>>
    BY Literals
  <1>2. Doing("delete") => /\ cfg.keyed /\ cfg.engine \in TwoStatements
                             /\ todo = <<"delete", "insert">> /\ Tail(todo) = <<"insert">>
    BY <1>1, WhatIsLeft DEF Doing, TwoStatements
  <1>3. Doing("insert") => /\ cfg.keyed /\ cfg.engine \in TwoStatements
                             /\ todo = <<"insert">> /\ Tail(todo) = <<>>
    BY <1>1, WhatIsLeft DEF Doing, TwoStatements
  <1>4. Doing("stage") => /\ cfg.keyed /\ cfg.engine = "postgres"
                            /\ Tail(todo) = <<"deleteStaged", "insertStaged">>
    BY <1>1, WhatIsLeft DEF Doing, TwoStatements
  <1>5. Doing("deleteStaged") => /\ cfg.keyed /\ cfg.engine = "postgres"
                                   /\ todo = <<"deleteStaged", "insertStaged">>
                                   /\ Tail(todo) = <<"insertStaged">>
    BY <1>1, WhatIsLeft DEF Doing, TwoStatements
  <1>6. Doing("insertStaged") => /\ cfg.keyed /\ cfg.engine = "postgres"
                                   /\ todo = <<"insertStaged">> /\ Tail(todo) = <<>>
    BY <1>1, WhatIsLeft DEF Doing, TwoStatements
  <1>7. Doing("merge") => /\ cfg.keyed /\ cfg.engine \in {"delta", "iceberg", "hudi"}
                            /\ Tail(todo) = <<>>
    BY <1>1, WhatIsLeft DEF Doing, TwoStatements
  <1>8. Doing("readBoth") => /\ cfg.keyed /\ cfg.engine = "spark"
                               /\ Tail(todo) = <<"drop", "write">>
    BY <1>1, WhatIsLeft DEF Doing, TwoStatements
  <1>9. Doing("append") => ~cfg.keyed /\ cfg.engine # "python" /\ Tail(todo) = <<>>
    BY <1>1, WhatIsLeft DEF Doing, TwoStatements
  <1>10. Doing("replace") => todo = <<"replace">> /\ Tail(todo) = <<>>
    BY <1>1, WhatIsLeft DEF Doing, TwoStatements
  <1>11. Doing("drop") =>
               \/ /\ todo = <<"drop", "write">> /\ Tail(todo) = <<"write">>
                  /\ cfg.keyed /\ cfg.engine = "spark"
               \/ /\ todo = <<"drop", "create">> /\ Tail(todo) = <<"create">>
                  /\ cfg.engine \notin TwoStatements \union {"python"}
    BY <1>1, WhatIsLeft DEF Doing, TwoStatements
  <1>12. Doing("create") => cfg.engine # "python" /\ Tail(todo) = <<>>
    BY <1>1, WhatIsLeft DEF Doing, TwoStatements
  <1>13. Doing("readOld") \/ Doing("readNew") => cfg.engine = "python" /\ Tail(todo) = <<"write">>
    BY <1>1, WhatIsLeft DEF Doing, TwoStatements
  <1>14. Doing("write") => /\ cfg.engine \notin TwoStatements
                            /\ todo = <<"write">> /\ Tail(todo) = <<>>
    BY <1>1, WhatIsLeft DEF Doing, TwoStatements
  <1> QED BY <1>2, <1>3, <1>4, <1>5, <1>6, <1>7, <1>8, <1>9, <1>10, <1>11, <1>12, <1>13, <1>14

LEMMA TailsStay ==
  ASSUME Typed, pc = "run"
  PROVE  /\ todo # <<>>
         /\ Tail(todo) # <<>> => /\ Tail(todo) \in Tails(cfg)
                                 /\ Head(Tail(todo)) \in UsesSql => Head(todo) \in UsesSql
  <1>1. todo # <<>>
        /\ Head(todo) \in {"delete", "insert", "stage", "deleteStaged", "insertStaged", "merge",
                           "readBoth", "drop", "write", "readOld", "readNew", "append", "replace",
                           "create"}
    BY WhatIsLeft, Literals
  <1>2. \/ Doing("delete") \/ Doing("insert") \/ Doing("stage") \/ Doing("deleteStaged")
        \/ Doing("insertStaged") \/ Doing("merge") \/ Doing("readBoth") \/ Doing("drop")
        \/ Doing("write") \/ Doing("readOld") \/ Doing("readNew") \/ Doing("append")
        \/ Doing("replace") \/ Doing("create")
    BY <1>1 DEF Doing
  <1>3. /\ Head(<<"deleteStaged", "insertStaged">>) = "deleteStaged"
        /\ Head(<<"insertStaged">>) = "insertStaged" /\ Head(<<"drop", "write">>) = "drop"
        /\ Head(<<"write">>) = "write" /\ Head(<<"create">>) = "create"
    BY Literals
  <1>9. CASE Doing("delete")
    <2>1. cfg.engine \in TwoStatements /\ cfg.keyed /\ Tail(todo) = <<"insert">>
      BY <1>9, Doings
    <2>2. <<"insert">> \in MergeTails(cfg.engine)
      BY <2>1 DEF MergeTails, TwoStatements
    <2>3. Head(todo) \in UsesSql
      BY <1>9 DEF Doing, UsesSql
    <2>4. Tail(todo) \in Tails(cfg)
      BY <2>1, <2>2 DEF Tails
    <2> QED BY <1>1, <2>3, <2>4
  <1>4. CASE Doing("stage") \/ Doing("deleteStaged")
    <2>1. /\ cfg.engine = "postgres" /\ cfg.keyed
          /\ \/ Tail(todo) = <<"deleteStaged", "insertStaged">>
             \/ Tail(todo) = <<"insertStaged">>
      BY <1>4, Doings
    <2>2. Head(Tail(todo)) \notin UsesSql
      BY <1>3, <2>1 DEF UsesSql
    <2> QED BY <1>1, <2>1, <2>2 DEF Tails, MergeTails, TwoStatements
  <1>5. CASE Doing("readBoth") \/ (Doing("drop") /\ Tail(todo) = <<"write">>)
    <2>1. cfg.keyed /\ cfg.engine = "spark" /\ Tail(todo) \in {<<"drop", "write">>, <<"write">>}
      BY <1>5, Doings
    <2>2. Head(Tail(todo)) \notin UsesSql
      BY <1>3, <2>1 DEF UsesSql
    <2> QED BY <1>1, <2>1, <2>2 DEF Tails, MergeTails, TwoStatements
  <1>6. CASE Doing("readOld") \/ Doing("readNew")
    <2>1. cfg.engine = "python" /\ Tail(todo) = <<"write">>
      BY <1>6, Doings
    <2>2. Head(Tail(todo)) \notin UsesSql
      BY <1>3, <2>1 DEF UsesSql
    <2> QED BY <1>1, <2>1, <2>2 DEF Tails, MergeTails, TwoStatements
  <1>7. CASE Doing("drop") /\ Tail(todo) = <<"create">>
    <2>1. cfg.engine \notin TwoStatements \union {"python"}
      BY <1>7, Doings
    <2>2. Head(Tail(todo)) \notin UsesSql
      BY <1>3, <1>7 DEF UsesSql
    <2> QED BY <1>1, <1>7, <2>1, <2>2 DEF Tails, RefreshTails
  <1>8. CASE \/ Doing("insert") \/ Doing("insertStaged") \/ Doing("merge") \/ Doing("write")
             \/ Doing("append") \/ Doing("replace") \/ Doing("create")
    BY <1>1, <1>8, Doings
  <1> QED BY <1>2, <1>4, <1>5, <1>6, <1>7, <1>8, <1>9, Doings

LEMMA Advancing ==
  ASSUME Typed, OwnText, NEW s, Doing(s), Next1, Elsewhere,
         tgt' \in Tables, stage' \in Tables, exists' \in BOOLEAN, twide' \in BOOLEAN
  PROVE  Typed' /\ OwnText' /\ (pc' = "done" => Tail(todo) = <<>>)
  <1>1. /\ pc = "run" /\ todo # <<>> /\ todo' = Tail(todo)
        /\ UNCHANGED <<cfg, src, wide, disorder, glob, leaked>>
    BY DEF Doing, Next1, Elsewhere, source
  <1>2. CASE Tail(todo) = <<>>
    BY <1>1, <1>2 DEF Next1, Forget, Typed, TypeOK, Tables, OwnText
  <1>3. CASE Tail(todo) # <<>>
    <2>1. pc' = "run" /\ UNCHANGED <<seen, sql, fallback>>
      BY <1>3 DEF Next1, locals
    <2>2. Typed'
      BY <1>1, <1>3, <2>1, TailsStay DEF Typed, TypeOK, Tables
    <2>3. OwnText'
      BY <1>1, <1>3, <2>1, TailsStay DEF OwnText
    <2> QED BY <1>3, <2>1, <2>2, <2>3 DEF Next1
  <1> QED BY <1>2, <1>3

-----------------------------------------------------------------------------
(* What the invariant asks of a table t as the target.                     *)

Unique(t) == cfg.keyed => \A k \in Keys :
               (cfg.engine \in TwoStatements => k \notin disorder) => Single(t, k)
Known(t) == \A k \in Orderly : t[Latest(k)] > 0 \/ Latest(k) \in Selected("delta", t)
Traced(t) == \A k \in Orderly : Has(t, k) => t[Latest(k)] > 0 \/ Above(src[k], t)
Once(t) == ~cfg.keyed /\ cfg.watermark =>
             \A k \in Keys \ disorder : \A r \in Rows : r[1] = k => t[r] <= 1
Complete(t) == \A k \in Orderly : t[Latest(k)] > 0

LEMMA AsTables ==
  ASSUME IInv
  PROVE  /\ Typed /\ tgt \in Tables /\ stage \in Tables
         /\ Unique(tgt) /\ (~leaked => Known(tgt) /\ Once(tgt))
         /\ cfg.engine \in TwoStatements => Traced(tgt)
  <1>1. Typed /\ tgt \in Tables /\ stage \in Tables
    BY DEF IInv, Typed, TypeOK, Tables
  <1>2. Unique(tgt)
    BY DEF IInv, KeysStayUnique, Unique, Single
  <1>3. ~leaked => Known(tgt)
    <2>1. Body("delta") = Selected("delta", tgt)
      BY DEF Body, Selected
    <2> QED BY <2>1 DEF IInv, NothingLostForGood, Known, Orderly, Latest
  <1>4. ~leaked => Once(tgt)
    BY DEF IInv, AppendsOnce, Once
  <1>5. cfg.engine \in TwoStatements => Traced(tgt)
    BY DEF IInv, Traceable, Traced
  <1> QED BY <1>1, <1>2, <1>3, <1>4, <1>5

\* A step that leaves the source alone and makes tgt' of the target.
LEMMA TargetStep ==
  ASSUME IInv, UNCHANGED <<cfg, src, disorder, leaked>>, Typed', OwnText',
         Unique(tgt'), ~leaked => Known(tgt') /\ Once(tgt'),
         cfg.engine \in TwoStatements => Traced(tgt'),
         pc' = "done" /\ ~leaked => exists' /\ Complete(tgt'),
         Deleted', StagedDelta', Frame', NoneNewer'
  PROVE  IInv'
  <1>1. Orderly' = Orderly /\ \A k : Latest(k)' = Latest(k)
    BY DEF Orderly, Latest
  <1>2. SrcRows' = SrcRows
    BY DEF SrcRows
  <1>3. KeysStayUnique'
    BY DEF Unique, Single, KeysStayUnique
  <1>4. NothingLostForGood'
    <2>1. Body("delta")' = Selected("delta", tgt')
      BY <1>2 DEF Body, Selected
    <2> QED BY <2>1 DEF Known, NothingLostForGood, Orderly, Latest
  <1>5. SuccessIsCurrent'
    <2> SUFFICES ASSUME pc' = "done", ~leaked, NEW k \in Keys \ disorder, src[k] > 0
                 PROVE  /\ exists' /\ tgt'[<<k, src[k]>>] > 0
                        /\ cfg.keyed => \A r \in Rows : r[1] = k /\ r[2] # src[k] => tgt'[r] = 0
      BY DEF SuccessIsCurrent
    <2>1. exists' /\ tgt'[<<k, src[k]>>] > 0
      BY DEF Complete, Orderly, Latest
    <2>2. ASSUME cfg.keyed, NEW r \in Rows, r[1] = k, r[2] # src[k]
          PROVE  tgt'[r] = 0
      <3>1. Single(tgt', k)
        BY <2>2 DEF Unique
      <3>2. Latest(k) \in Rows /\ Latest(k)[1] = k /\ Latest(k)[2] = src[k]
        BY SourceRows DEF IInv, Orderly
      <3>3. ~(tgt'[r] > 0)
        BY <2>1, <2>2, <3>1, <3>2 DEF Single, Latest
      <3>4. tgt'[r] \in 0..Copies
        BY DEF Typed, TypeOK
      <3> QED BY <3>3, <3>4, BoundsAssumption
    <2> QED BY <2>1, <2>2
  <1>6. AppendsOnce'
    BY DEF Once, AppendsOnce
  <1>7. Traceable'
    BY <1>1 DEF Traced, Traceable, Has, Above
  <1> QED BY <1>3, <1>4, <1>5, <1>6, <1>7 DEF IInv

\* A statement: TargetStep with what Advancing establishes.
LEMMA StatementStep ==
  ASSUME IInv, NEW s, Doing(s), Next1, Elsewhere, exists' \in BOOLEAN, twide' \in BOOLEAN,
         tgt' \in Tables, stage' \in Tables,
         Unique(tgt'), ~leaked => Known(tgt') /\ Once(tgt'),
         cfg.engine \in TwoStatements => Traced(tgt'),
         Tail(todo) = <<>> /\ ~leaked => exists' /\ Complete(tgt'),
         Deleted', StagedDelta', Frame', NoneNewer'
  PROVE  IInv'
BY Advancing, TargetStep DEF IInv, Elsewhere, source

\* What is left does not concern the invariants of INSERT, stage and frame.
LEMMA Unconcerned ==
  /\ todo' # <<"insert">> => Deleted'
  /\ todo' \notin {<<"deleteStaged", "insertStaged">>, <<"insertStaged">>} => StagedDelta'
  /\ todo' \notin {<<"drop", "write">>, <<"write">>} => Frame'
  /\ cfg' = cfg /\ cfg.engine # "python" => NoneNewer'
BY DEF Deleted, StagedDelta, Frame, NoneNewer

LEMMA Apart ==
  /\ <<>> \notin {<<"insert">>, <<"deleteStaged", "insertStaged">>, <<"insertStaged">>,
                  <<"drop", "write">>, <<"write">>}
  /\ <<"insert">> \notin {<<"deleteStaged", "insertStaged">>, <<"insertStaged">>,
                          <<"drop", "write">>, <<"write">>}
  /\ \A t \in {<<"deleteStaged", "insertStaged">>, <<"insertStaged">>} :
       t \notin {<<"insert">>, <<"drop", "write">>, <<"write">>}
  /\ \A t \in {<<"drop", "write">>, <<"write">>} :
       t \notin {<<"insert">>, <<"deleteStaged", "insertStaged">>, <<"insertStaged">>}
  /\ <<"create">> \notin {<<"insert">>, <<"deleteStaged", "insertStaged">>, <<"insertStaged">>,
                          <<"drop", "write">>, <<"write">>}
  /\ <<"insertStaged">> # <<"deleteStaged", "insertStaged">>
OBVIOUS

\* Deleting the keys of what the SELECT yields.
LEMMA DeleteStep == ASSUME IInv, Delete PROVE IInv'
  <1> DEFINE S == Selected(sql, tgt)
             u == Without(tgt, S)
  <1>0. /\ Doing("delete") /\ Next1 /\ Elsewhere /\ tgt' = u
        /\ UNCHANGED <<exists, twide, stage>> /\ exists \in BOOLEAN /\ twide \in BOOLEAN
        /\ cfg' = cfg /\ src' = src /\ disorder' = disorder /\ todo' = Tail(todo)
    BY Selecting, AsTables DEF Delete, IInv, Typed, TypeOK, Elsewhere, source, Next1
  <1>1. cfg.keyed /\ cfg.engine \in TwoStatements /\ todo' = <<"insert">> /\ todo' # <<>> /\ sql' = sql
        /\ (~leaked => sql = "delta")
    <2>1. cfg.keyed /\ cfg.engine \in TwoStatements /\ Tail(todo) = <<"insert">>
      BY <1>0, AsTables, Doings
    <2>2. Tail(todo) # <<>>
      BY <2>1, Apart
    <2> QED BY <1>0, <2>1, <2>2 DEF Next1, locals, Doing, IInv, OwnText, UsesSql
  <1>2. u \in Tables /\ tgt \in Tables /\ Typed
    BY AsTables, TableTypes
  <1>3. /\ \A k \in Orderly : Latest(k) \in Rows /\ Latest(k)[1] = k /\ k \in Keys /\ k \notin disorder
        /\ \A r \in S : r = Latest(r[1])
    BY <1>2, SourceRows, Selecting
  <1>4. Unique(u)
    BY AsTables, Deleting DEF Unique
  <1>5. ASSUME NEW k \in Orderly, Latest(k) \notin S
        PROVE  u[Latest(k)] = tgt[Latest(k)]
    BY <1>2, <1>3, <1>5, Deleting
  <1>6. Traced(u)
    <2> SUFFICES ASSUME NEW k \in Orderly, Has(u, k) PROVE u[Latest(k)] > 0 \/ Above(src[k], u)
      BY DEF Traced
    <2>1. Has(tgt, k) /\ Latest(k) \notin S
      BY <1>2, <1>3, Deleting
    <2>2. src[k] \in Nat
      BY <1>2, SourceRows
    <2> QED BY <1>1, <1>2, <1>5, <2>1, <2>2, AsTables, Deleting DEF Traced
  <1>7. ~leaked => Known(u)
    <2> SUFFICES ASSUME ~leaked, NEW k \in Orderly
                 PROVE  u[Latest(k)] > 0 \/ Latest(k) \in Selected("delta", u)
      BY DEF Known
    <2>1. S \subseteq Selected("delta", u)
      BY <1>1, <1>2, Selecting
    <2> QED BY <1>1, <1>5, <2>1, AsTables DEF Known
  <1>8. Deleted'
    <2> SUFFICES ASSUME NEW k \in Orderly, Latest(k) \in Selected(sql, u), Has(u, k)
                 PROVE  FALSE
      <3>1. Orderly' = Orderly /\ \A k : Latest(k)' = Latest(k)
        BY <1>0 DEF Orderly, Latest
      <3>2. Body(sql)' = Selected(sql, u)
        BY <1>0, <1>1 DEF Body, Selected, SrcRows
      <3>3. \A k : Has(tgt, k)' <=> Has(u, k)
        BY <1>0 DEF Has
      <3> QED BY <3>1, <3>2, <3>3 DEF Deleted
    <2>1. Has(tgt, k) /\ Latest(k) \notin S
      BY <1>2, <1>3, Deleting
    <2>2. sql = "delta" /\ cfg.watermark /\ ~Above(src[k], tgt)
      BY <1>2, <2>1, Selecting
    <2>3. tgt[Latest(k)] > 0
      BY <1>1, <2>1, <2>2, AsTables DEF Traced
    <2>4. u[Latest(k)] > 0
      BY <1>5, <2>1, <2>3
    <2>5. ~Above(src[k], u)
      BY <1>2, <2>4, Selecting
    <2>6. Above(src[k], u)
      BY <1>2, <1>3, <2>2, SourceRows DEF Selected
    <2> QED BY <2>5, <2>6
  <1>9. StagedDelta' /\ Frame' /\ NoneNewer'
    BY <1>0, <1>1, Apart, Unconcerned DEF TwoStatements
  <1> HIDE DEF u
  <1> QED BY <1>0, <1>1, <1>2, <1>4, <1>6, <1>7, <1>8, <1>9, AsTables, StatementStep DEF Once

\* Inserting what the SELECT yields where it cannot meet older rows.
LEMMA InsertStep == ASSUME IInv, Insert \/ Append1 PROVE IInv'
  <1> DEFINE S == Selected(sql, tgt)
             u == Inserted(tgt, S)
  <1>0. /\ Doing("insert") \/ Doing("append")
        /\ Next1 /\ Elsewhere /\ tgt' = u /\ exists
        /\ UNCHANGED <<exists, twide, stage>> /\ exists \in BOOLEAN /\ twide \in BOOLEAN
        /\ cfg' = cfg /\ todo' = Tail(todo)
    BY Selecting, AsTables DEF Insert, Append1, IInv, Typed, TypeOK, Elsewhere, Next1
  <1>1. /\ todo' = <<>> /\ cfg.engine # "python"
        /\ ~leaked => sql = "delta"
        /\ Doing("insert") => cfg.keyed /\ cfg.engine \in TwoStatements /\ todo = <<"insert">>
        /\ Doing("append") => ~cfg.keyed
    BY <1>0, AsTables, Doings DEF TwoStatements, Doing, IInv, OwnText, UsesSql
  <1>2. u \in Tables /\ tgt \in Tables /\ Typed
    BY AsTables, TableTypes
  <1>3. /\ \A k \in Orderly : Latest(k) \in Rows /\ Latest(k)[1] = k /\ k \in Keys /\ k \notin disorder
        /\ \A r \in S : r = Latest(r[1]) /\ r[1] \in Keys /\ src[r[1]] > 0
        /\ S \subseteq Rows /\ OnePerKey(S)
    BY <1>2, SourceRows, Selecting
  <1>4. \A r \in Rows : u[r] > 0 <=> tgt[r] > 0 \/ r \in S
    BY <1>2, Inserting
  <1>5. Unique(u)
    <2> SUFFICES ASSUME cfg.keyed, NEW k \in Keys, k \notin disorder
                 PROVE  Single(u, k)
      BY <1>0, <1>1 DEF Unique
    <2>1. Single(tgt, k)
      BY AsTables DEF Unique
    <2>2. ASSUME NEW s \in S, s[1] = k PROVE ~Has(tgt, k)
      <3>1. k \in Orderly /\ Latest(k) \in Body(sql)
        BY <1>2, <1>3, <2>2, Selecting DEF Orderly
      <3> QED BY <1>0, <1>1, <3>1 DEF IInv, Deleted
    <2> QED BY <1>2, <1>3, <2>1, <2>2, Inserting
  <1>6. Traced(u) \/ cfg.engine \notin TwoStatements
    <2> SUFFICES ASSUME NEW k \in Orderly, Has(u, k), cfg.engine \in TwoStatements
                 PROVE  u[Latest(k)] > 0 \/ Above(src[k], u)
      BY DEF Traced
    <2>1. CASE Latest(k) \in S
      BY <1>3, <1>4, <2>1
    <2>2. CASE Latest(k) \notin S
      <3>1. Has(tgt, k)
        <4>1. \A s \in S : s[1] # k
          BY <1>3, <2>2
        <4> QED BY <1>4, <4>1 DEF Has
      <3>2. ~Above(src[k], tgt)
        BY <1>2, <2>2, Selecting
      <3> QED BY <1>3, <1>4, <3>1, <3>2, AsTables DEF Traced
    <2> QED BY <2>1, <2>2
  <1>7. ~leaked => Complete(u)
    BY <1>1, <1>3, <1>4, AsTables DEF Known, Complete
  <1>8. ~leaked => Once(u)
    <2> SUFFICES ASSUME ~leaked, ~cfg.keyed, cfg.watermark, NEW r \in Rows, r[1] \notin disorder
                 PROVE  u[r] <= 1
      BY RowParts DEF Once
    <2>1. tgt[r] <= 1
      BY RowParts, AsTables DEF Once
    <2>2. r \in S => tgt[r] = 0
      BY <1>1, <1>2, Selecting
    <2> QED BY <1>2, <2>1, <2>2, Inserting
  <1>9. Deleted' /\ StagedDelta' /\ Frame' /\ NoneNewer'
    BY <1>0, <1>1, Apart, Unconcerned
  <1> HIDE DEF u
  <1>10. ~leaked => Known(u)
    BY <1>7 DEF Known, Complete
  <1>11. Doing("insert") \/ Doing("append")
    BY <1>0
  <1> QED BY <1>0, <1>2, <1>5, <1>6, <1>7, <1>8, <1>9, <1>10, <1>11, AsTables, StatementStep

LEMMA MergeStep == ASSUME IInv, MergeInto PROVE IInv'
  <1> DEFINE S == Selected(sql, tgt)
             u == Inserted(Without(tgt, S), S)
  <1>0. /\ Doing("merge") /\ Next1 /\ Elsewhere /\ tgt' = u /\ exists
        /\ UNCHANGED <<exists, twide, stage>> /\ exists \in BOOLEAN /\ twide \in BOOLEAN
        /\ cfg' = cfg /\ todo' = Tail(todo)
    BY Selecting, AsTables DEF MergeInto, IInv, Typed, TypeOK, Elsewhere, Next1
  <1>1. /\ todo' = <<>> /\ cfg.keyed /\ cfg.engine \notin TwoStatements /\ cfg.engine # "python"
        /\ ~leaked => sql = "delta"
    BY <1>0, AsTables, Doings DEF TwoStatements, Doing, IInv, OwnText, UsesSql
  <1>2. tgt \in Tables /\ Typed /\ OnePerKey(S)
    BY AsTables, Selecting
  <1>3. /\ u \in Tables /\ \A k : Single(tgt, k) => Single(u, k)
        /\ \A r \in Rows : r \in S \/ (tgt[r] > 0 /\ \A s \in S : s[1] # r[1]) => u[r] > 0
    BY <1>2, Merging
  <1>4. /\ \A k \in Orderly : Latest(k) \in Rows /\ Latest(k)[1] = k
        /\ \A r \in S : r = Latest(r[1])
    BY <1>2, SourceRows, Selecting
  <1>5. Unique(u)
    BY <1>3, AsTables DEF Unique
  <1>6. ~leaked => Complete(u)
    BY <1>1, <1>3, <1>4, AsTables DEF Known, Complete
  <1>7. Deleted' /\ StagedDelta' /\ Frame' /\ NoneNewer'
    BY <1>0, <1>1, Apart, Unconcerned
  <1> HIDE DEF u
  <1>8. (~leaked => Known(u)) /\ Once(u)
    BY <1>1, <1>6 DEF Known, Complete, Once
  <1> QED BY <1>0, <1>1, <1>3, <1>5, <1>6, <1>7, <1>8, AsTables, StatementStep

\* The join of both sides is what Spark is about to write.
LEMMA ReadBothStep == ASSUME IInv, ReadBoth PROVE IInv'
  <1> DEFINE S == Selected(sql, tgt)
             u == Inserted(Without(tgt, S), S)
  <1>0. /\ Doing("readBoth") /\ Next1 /\ Elsewhere /\ stage' = u
        /\ UNCHANGED <<tgt, exists, twide>> /\ exists \in BOOLEAN /\ twide \in BOOLEAN
        /\ cfg' = cfg /\ src' = src /\ disorder' = disorder /\ leaked' = leaked /\ todo' = Tail(todo)
    BY Selecting, AsTables DEF ReadBoth, target, IInv, Typed, TypeOK, Elsewhere, source, Next1
  <1>1. /\ todo' = <<"drop", "write">> /\ Tail(todo) # <<>> /\ cfg.keyed /\ cfg.engine = "spark"
        /\ cfg.engine \notin TwoStatements
        /\ ~leaked => sql = "delta"
    <2>1. cfg.keyed /\ cfg.engine = "spark" /\ Tail(todo) = <<"drop", "write">>
      BY <1>0, AsTables, Doings
    <2> QED BY <1>0, <2>1, Apart DEF TwoStatements, Doing, IInv, OwnText, UsesSql
  <1>2. tgt \in Tables /\ Typed /\ OnePerKey(S)
    BY AsTables, Selecting
  <1>3. /\ u \in Tables /\ \A k : Single(tgt, k) => Single(u, k)
        /\ \A r \in Rows : r \in S \/ (tgt[r] > 0 /\ \A s \in S : s[1] # r[1]) => u[r] > 0
    BY <1>2, Merging
  <1>4. /\ \A k \in Orderly : Latest(k) \in Rows /\ Latest(k)[1] = k
        /\ \A r \in S : r = Latest(r[1])
    BY <1>2, SourceRows, Selecting
  <1>5. ~leaked => Complete(u)
    BY <1>1, <1>3, <1>4, AsTables DEF Known, Complete
  <1>6. \A k \in Keys : Single(u, k)
    BY <1>1, <1>3, AsTables DEF Unique
  <1> HIDE DEF u
  <1>7. Frame'
    <2>1. Orderly' = Orderly /\ \A k : Latest(k)' = Latest(k)
      BY <1>0 DEF Orderly, Latest
    <2>2. \A k : Single(stage, k)' <=> Single(u, k)
      BY <1>0 DEF Single
    <2> QED BY <1>0, <1>1, <1>5, <1>6, <2>1, <2>2 DEF Frame, Complete
  <1>8. Deleted' /\ StagedDelta' /\ NoneNewer'
    BY <1>0, <1>1, Apart, Unconcerned
  <1> QED BY <1>0, <1>1, <1>3, <1>7, <1>8, AsTables, StatementStep

\* Postgres: stage, delete the staged keys, insert the staged rows.
LEMMA StageStep == ASSUME IInv, Stage PROVE IInv'
  <1> DEFINE S == Selected(sql, tgt)
  <1>0. /\ Doing("stage") /\ Next1 /\ Elsewhere /\ stage' = BagOf(S)
        /\ UNCHANGED <<tgt, exists, twide>> /\ exists \in BOOLEAN /\ twide \in BOOLEAN
        /\ cfg' = cfg /\ src' = src /\ disorder' = disorder /\ leaked' = leaked /\ todo' = Tail(todo)
    BY Selecting, AsTables DEF Stage, target, IInv, Typed, TypeOK, Elsewhere, source, Next1
  <1>1. /\ todo' = <<"deleteStaged", "insertStaged">> /\ Tail(todo) # <<>>
        /\ cfg.engine = "postgres" /\ (~leaked => sql = "delta")
    <2>1. cfg.engine = "postgres" /\ Tail(todo) = <<"deleteStaged", "insertStaged">>
      BY <1>0, AsTables, Doings
    <2> QED BY <1>0, <2>1, Apart DEF Doing, IInv, OwnText, UsesSql
  <1>2. tgt \in Tables /\ Typed /\ OnePerKey(S) /\ S \subseteq Rows /\ BagOf(S) \in Tables
    BY AsTables, Selecting, TableTypes
  <1>3. Staged' = S
    <2>1. \A r \in Rows : stage'[r] > 0 <=> r \in S
      BY <1>0, Replacing
    <2> QED BY <1>2, <2>1 DEF Staged
  <1>4. StagedDelta'
    <2>1. Orderly' = Orderly /\ \A k : Latest(k)' = Latest(k)
      BY <1>0 DEF Orderly, Latest
    <2>2. Body("delta")' = Selected("delta", tgt)
      BY <1>0 DEF Body, Selected, SrcRows
    <2>3. ~leaked => \A k \in Orderly : Latest(k) \in S \/ tgt[Latest(k)] > 0
      BY <1>1, AsTables DEF Known
    <2>4. todo' # <<"insertStaged">>
      BY <1>1, Apart
    <2> QED BY <1>0, <1>1, <1>2, <1>3, <2>1, <2>2, <2>3, <2>4 DEF StagedDelta
  <1>5. Deleted' /\ Frame' /\ NoneNewer'
    BY <1>0, <1>1, Apart, Unconcerned
  <1> QED BY <1>0, <1>1, <1>2, <1>4, <1>5, AsTables, StatementStep

LEMMA DeleteStagedStep == ASSUME IInv, DeleteStaged PROVE IInv'
  <1> DEFINE u == Without(tgt, Staged)
  <1>0. /\ Doing("deleteStaged") /\ Next1 /\ Elsewhere /\ tgt' = u
        /\ UNCHANGED <<exists, twide, stage>> /\ exists \in BOOLEAN /\ twide \in BOOLEAN
        /\ cfg' = cfg /\ src' = src /\ disorder' = disorder /\ leaked' = leaked /\ todo' = Tail(todo)
    BY DEF DeleteStaged, IInv, Typed, TypeOK, Elsewhere, source, Next1
  <1>1. /\ todo = <<"deleteStaged", "insertStaged">> /\ todo' = <<"insertStaged">> /\ Tail(todo) # <<>>
        /\ cfg.engine = "postgres" /\ cfg.keyed
    <2>1. /\ cfg.engine = "postgres" /\ cfg.keyed /\ Tail(todo) = <<"insertStaged">>
          /\ todo = <<"deleteStaged", "insertStaged">>
      BY <1>0, AsTables, Doings
    <2> QED BY <1>0, <2>1, Apart
  <1>2. u \in Tables /\ tgt \in Tables /\ Typed
    BY AsTables, TableTypes
  <1>3. \A k \in Orderly : Latest(k) \in Rows /\ Latest(k)[1] = k /\ k \in Keys /\ k \notin disorder
    BY <1>2, SourceRows
  <1>4. /\ OnePerKey(Staged)
        /\ ~leaked =>
             /\ \A r \in Staged : r[1] \notin disorder => r \in Selected("delta", tgt)
             /\ \A k \in Orderly : Latest(k) \in Staged \/ tgt[Latest(k)] > 0
    BY <1>1, <1>2, Selecting DEF IInv, StagedDelta
  <1>5. Selected("delta", tgt) \subseteq Selected("delta", u)
    BY <1>2, Selecting
  <1>6. ~leaked => \A k \in Orderly : Latest(k) \in Staged \/ u[Latest(k)] > 0
    <2> SUFFICES ASSUME ~leaked, NEW k \in Orderly, Latest(k) \notin Staged
                 PROVE  u[Latest(k)] > 0
      OBVIOUS
    <2>1. \A s \in Staged : s[1] # k
      BY <1>2, <1>3, <1>4, Selecting
    <2> QED BY <1>2, <1>3, <1>4, <2>1, Deleting
  <1>7. Unique(u)
    BY <1>2, AsTables, Deleting DEF Unique
  <1>8. ~leaked => Known(u)
    BY <1>3, <1>4, <1>5, <1>6 DEF Known
  <1>9. StagedDelta'
    <2>1. Orderly' = Orderly /\ \A k : Latest(k)' = Latest(k)
      BY <1>0 DEF Orderly, Latest
    <2>2. Body("delta")' = Selected("delta", u)
      BY <1>0 DEF Body, Selected, SrcRows
    <2>3. Staged' = Staged
      BY <1>0 DEF Staged
    <2>4. \A r \in Staged : ~Has(u, r[1])
      BY <1>2, Deleting
    <2>5. \A r \in Staged : ~Has(tgt, r[1])'
      BY <1>0, <2>4 DEF Has
    <2> QED BY <1>0, <1>4, <1>5, <1>6, <2>1, <2>2, <2>3, <2>5 DEF StagedDelta
  <1>10. Deleted' /\ Frame' /\ NoneNewer'
    BY <1>0, <1>1, Apart, Unconcerned
  <1>11. Once(u) /\ cfg.engine \notin TwoStatements
    BY <1>1 DEF Once, TwoStatements
  <1> HIDE DEF u
  <1> QED BY <1>0, <1>1, <1>2, <1>7, <1>8, <1>9, <1>10, <1>11, AsTables, StatementStep

LEMMA InsertStagedStep == ASSUME IInv, InsertStaged PROVE IInv'
  <1> DEFINE u == Inserted(tgt, Staged)
  <1>0. /\ Doing("insertStaged") /\ Next1 /\ Elsewhere /\ tgt' = u /\ stage' = NoRows /\ exists
        /\ UNCHANGED <<exists, twide>> /\ exists \in BOOLEAN /\ twide \in BOOLEAN
        /\ cfg' = cfg /\ todo' = Tail(todo)
    BY DEF InsertStaged, IInv, Typed, TypeOK, Elsewhere, Next1
  <1>1. /\ todo = <<"insertStaged">> /\ todo' = <<>> /\ cfg.engine = "postgres" /\ cfg.keyed
    BY <1>0, AsTables, Doings
  <1>2. u \in Tables /\ tgt \in Tables /\ Typed /\ NoRows \in Tables
    BY AsTables, TableTypes
  <1>3. /\ OnePerKey(Staged) /\ \A r \in Staged : ~Has(tgt, r[1])
        /\ ~leaked => \A k \in Orderly : Latest(k) \in Staged \/ tgt[Latest(k)] > 0
    BY <1>1 DEF IInv, StagedDelta
  <1>4. Unique(u)
    BY <1>2, <1>3, AsTables, Inserting DEF Unique
  <1>5. ~leaked => Complete(u)
    BY <1>2, <1>3, SourceRows, Inserting DEF Complete
  <1>6. Deleted' /\ StagedDelta' /\ Frame' /\ NoneNewer'
    BY <1>0, <1>1, Apart, Unconcerned
  <1>7. Once(u) /\ cfg.engine \notin TwoStatements
    BY <1>1 DEF Once, TwoStatements
  <1> HIDE DEF u
  <1>8. ~leaked => Known(u)
    BY <1>5 DEF Known, Complete
  <1> QED BY <1>0, <1>2, <1>4, <1>5, <1>6, <1>7, <1>8, AsTables, StatementStep
\* The table a full refresh makes.
LEMMA Refreshing ==
  ASSUME IInv, NEW text, NEW u, u = BagOf(Selected(text, tgt))
  PROVE  /\ u \in Tables /\ (\A k : Single(u, k)) /\ Once(u) /\ Traced(u)
         /\ \A r \in Rows : u[r] > 0 => r[2] = src[r[1]]
         /\ \A r \in Rows : u[r] <= 1
         /\ text = "full" => Complete(u) /\ Known(u)
  <1> DEFINE S == Selected(text, tgt)
  <1>1. /\ u \in Tables /\ OnePerKey(S) /\ Typed
        /\ \A r \in S : r = Latest(r[1]) /\ r[2] = src[r[1]]
    BY AsTables, TableTypes, Selecting
  <1>2. /\ \A k : Single(u, k)
        /\ \A r \in Rows : (u[r] > 0 <=> r \in S) /\ u[r] <= 1
    BY <1>1, Replacing
  <1>3. \A k \in Orderly : Latest(k) \in Rows /\ Latest(k) \in SrcRows
    BY <1>1, SourceRows
  <1>4. Traced(u)
    BY <1>1, <1>2, <1>3 DEF Traced, Has
  <1>5. text = "full" => Complete(u) /\ Known(u)
    BY <1>2, <1>3 DEF Complete, Known, Selected
  <1>6. Once(u)
    BY <1>2 DEF Once
  <1>7. \A r \in Rows : u[r] > 0 => r[2] = src[r[1]]
    BY <1>1, <1>2
  <1> HIDE DEF S
  <1> QED BY <1>1, <1>2, <1>4, <1>5, <1>6, <1>7

\* CREATE OR REPLACE and CREATE TABLE AS.
LEMMA ReplaceStep == ASSUME IInv, Replace \/ Create PROVE IInv'
  <1> DEFINE u == BagOf(Selected(fallback, tgt))
  <1>0. /\ Doing("replace") \/ Doing("create")
        /\ Next1 /\ Elsewhere /\ tgt' = u /\ exists' = TRUE
        /\ UNCHANGED stage /\ twide' \in BOOLEAN
        /\ cfg' = cfg /\ src' = src /\ disorder' = disorder /\ todo' = Tail(todo)
    BY Selecting, AsTables DEF Replace, Create, IInv, Typed, TypeOK, Elsewhere, source, Next1
  <1>1. todo' = <<>> /\ pc = "run"
    BY <1>0, AsTables, Doings DEF Doing
  <1>2. ~leaked => fallback = "full"
    BY <1>1 DEF IInv, OwnText
  <1>3. /\ u \in Tables /\ stage \in Tables /\ (\A k : Single(u, k)) /\ Once(u) /\ Traced(u)
        /\ \A r \in Rows : u[r] > 0 => r[2] = src[r[1]]
        /\ ~leaked => Complete(u) /\ Known(u)
    BY <1>2, AsTables, Refreshing
  <1> HIDE DEF u
  <1>4. Unique(u)
    BY <1>3 DEF Unique
  <1>5. NoneNewer'
    <2>1. \A r \in Rows : r[1] \in Orderly => src[r[1]] \in Nat
      BY AsTables, SourceRows
    <2>2. Orderly' = Orderly
      BY <1>0 DEF Orderly
    <2> QED BY <1>0, <1>3, <2>1, <2>2 DEF NoneNewer
  <1>6. Deleted' /\ StagedDelta' /\ Frame'
    BY <1>1, Apart, Unconcerned
  <1> QED BY <1>0, <1>3, <1>4, <1>5, <1>6, StatementStep

\* DROP leaves an empty target that nobody counts on.
LEMMA DropStep == ASSUME IInv, Drop PROVE IInv'
  <1>0. /\ Doing("drop") /\ Next1 /\ Elsewhere /\ tgt' = NoRows /\ exists' = FALSE /\ twide' = FALSE
        /\ UNCHANGED stage /\ cfg' = cfg /\ src' = src /\ disorder' = disorder /\ leaked' = leaked
        /\ todo' = Tail(todo)
    BY DEF Drop, Elsewhere, source, Next1
  <1>1. /\ cfg.engine \notin TwoStatements /\ cfg.engine # "python"
        /\ todo' # <<>>
        /\ \/ todo = <<"drop", "write">> /\ todo' = <<"write">>
           \/ todo' = <<"create">>
    <2>1. /\ cfg.engine \notin TwoStatements /\ cfg.engine # "python"
          /\ \/ todo = <<"drop", "write">> /\ todo' = <<"write">>
             \/ todo' = <<"create">>
      BY <1>0, AsTables, Doings DEF TwoStatements
    <2> QED BY <2>1, Literals
  <1>2. /\ NoRows \in Tables /\ stage \in Tables /\ Typed /\ tgt \in Tables
        /\ \A r \in Rows : NoRows[r] = 0
    BY AsTables, TableTypes, Replacing
  <1>3. Unique(NoRows) /\ Once(NoRows)
    BY <1>2 DEF Unique, Single, Once
  <1>4. Known(NoRows)
    <2>1. \A u : Above(u, NoRows)
      BY <1>2 DEF Above
    <2> QED BY <1>2, <2>1, SourceRows DEF Known, Selected
  <1>5. Deleted' /\ StagedDelta' /\ NoneNewer'
    <2>1. todo' # <<"insert">> /\ todo' \notin {<<"deleteStaged", "insertStaged">>, <<"insertStaged">>}
      BY <1>1, Apart
    <2> QED BY <1>0, <1>1, <2>1, Unconcerned
  <1>6. Frame'
    <2>1. CASE todo' = <<"create">>
      BY <2>1, Apart, Unconcerned
    <2>2. CASE todo = <<"drop", "write">>
      <3>1. Orderly' = Orderly /\ \A k : Latest(k)' = Latest(k)
        BY <1>0 DEF Orderly, Latest
      <3>2. \A k : Single(stage, k)' <=> Single(stage, k)
        BY <1>0 DEF Single
      <3> QED BY <1>0, <2>2, <3>1, <3>2 DEF IInv, Frame
    <2> QED BY <1>1, <2>1, <2>2
  <1> QED BY <1>0, <1>1, <1>2, <1>3, <1>4, <1>5, <1>6, StatementStep

\* The frame becomes the target.
LEMMA WriteStep == ASSUME IInv, Write PROVE IInv'
  <1>0. /\ Doing("write") /\ Next1 /\ Elsewhere /\ tgt' = stage /\ exists' = TRUE /\ stage' = NoRows
        /\ twide' \in BOOLEAN /\ cfg' = cfg /\ src' = src /\ disorder' = disorder /\ todo' = Tail(todo)
    BY DEF Write, Elsewhere, source, Next1, IInv, Typed, TypeOK
  <1>1. cfg.engine \notin TwoStatements /\ todo = <<"write">> /\ todo' = <<>>
    BY <1>0, AsTables, Doings
  <1>2. NoRows \in Tables /\ stage \in Tables
    BY AsTables, TableTypes
  <1>3. /\ IF cfg.keyed THEN \A k \in Keys : Single(stage, k) ELSE \A r \in Rows : stage[r] <= 1
        /\ ~leaked => \A k \in Orderly : stage[Latest(k)] > 0
        /\ cfg.engine = "python" =>
             \A r \in Rows : stage[r] > 0 /\ r[1] \in Orderly => r[2] <= src[r[1]]
    BY <1>1 DEF IInv, Frame
  <1>4. Unique(stage) /\ Once(stage) /\ (~leaked => Complete(stage) /\ Known(stage))
    BY <1>3 DEF Unique, Once, Complete, Known
  <1>5. NoneNewer'
    <2>1. Orderly' = Orderly
      BY <1>0 DEF Orderly
    <2> QED BY <1>0, <1>3, <2>1 DEF NoneNewer
  <1>6. Deleted' /\ StagedDelta' /\ Frame'
    BY <1>1, Apart, Unconcerned
  <1> QED BY <1>0, <1>1, <1>2, <1>4, <1>5, <1>6, StatementStep
\* Python: keep="last" finds one row per key, and for an orderly key that of the source.
LEMMA MergingFrames ==
  ASSUME IInv, cfg.engine = "python", NEW u, u = MergeFrames(tgt, SrcRows)
  PROVE  /\ u \in Tables /\ Complete(u) /\ \A r \in Rows : u[r] <= 1
         /\ cfg.keyed => \A k : Single(u, k)
         /\ \A r \in Rows : u[r] > 0 /\ r[1] \in Orderly => r[2] <= src[r[1]]
  <1> DEFINE all == {r \in Rows : tgt[r] > 0} \union SrcRows
             S == IF cfg.keyed THEN Newest(all) ELSE all
  <1>1. Typed /\ SrcRows \subseteq Rows /\ all \subseteq Rows
    BY AsTables, SourceRows
  <1>2. u = BagOf(S) /\ u \in Tables
    BY AsTables, TableTypes DEF MergeFrames
  <1>3. \A r \in all : r[1] \in Orderly => r[2] <= src[r[1]]
    <2>1. \A r \in Rows : tgt[r] > 0 /\ r[1] \in Orderly => r[2] <= src[r[1]]
      BY DEF IInv, NoneNewer
    <2>2. \A r \in SrcRows : r[2] = src[r[1]] /\ r[2] \in Nat
      BY <1>1, SourceRows, RowParts
    <2> QED BY <2>1, <2>2
  <1>4. \A k \in Orderly : Latest(k) \in S
    <2> SUFFICES ASSUME NEW k \in Orderly, cfg.keyed PROVE Latest(k) \in Newest(all)
      BY <1>1, SourceRows
    <2>1. Latest(k) \in all /\ Latest(k)[1] = k /\ Latest(k)[2] = src[k]
      BY <1>1, SourceRows
    <2> QED BY <1>3, <2>1 DEF Newest
  <1>5. S \subseteq all
    BY DEF Newest
  <1>6. ASSUME cfg.keyed PROVE OnePerKey(S)
    <2> SUFFICES ASSUME NEW r \in Newest(all), NEW s \in Newest(all), r[1] = s[1]
                 PROVE  r = s
      BY <1>6 DEF OnePerKey
    <2>1. r \in Rows /\ s \in Rows /\ r[2] <= s[2] /\ s[2] <= r[2]
      BY <1>1 DEF Newest
    <2> QED BY <2>1, RowParts
  <1> HIDE DEF S, all
  <1>7. \A r \in Rows : (u[r] > 0 <=> r \in S) /\ u[r] <= 1
    BY <1>2, Replacing
  <1>8. cfg.keyed => \A k : Single(u, k)
    BY <1>2, <1>6, Replacing
  <1>9. Complete(u)
    BY <1>1, <1>4, <1>7, SourceRows DEF Complete
  <1> QED BY <1>2, <1>3, <1>5, <1>7, <1>8, <1>9

\* The frame of a Python model, merged with the target or not.
LEMMA ReadStep == ASSUME IInv, ReadOld \/ ReadNew PROVE IInv'
  <1>0. /\ Doing("readOld") \/ Doing("readNew")
        /\ Next1 /\ Elsewhere
        /\ stage' \in {MergeFrames(tgt, SrcRows), BagOf(SrcRows)}
        /\ UNCHANGED <<tgt, exists, twide>> /\ exists \in BOOLEAN /\ twide \in BOOLEAN
        /\ cfg' = cfg /\ src' = src /\ disorder' = disorder /\ leaked' = leaked /\ todo' = Tail(todo)
    BY DEF ReadOld, ReadNew, target, IInv, Typed, TypeOK, Elsewhere, source, Next1
  <1>1. /\ todo' = <<"write">> /\ todo' # <<>> /\ cfg.engine = "python"
        /\ cfg.engine \notin TwoStatements
    <2>1. cfg.engine = "python" /\ Tail(todo) = <<"write">>
      BY <1>0, AsTables, Doings
    <2> QED BY <1>0, <2>1, Literals DEF TwoStatements
  <1>2. /\ stage' \in Tables /\ Complete(stage') /\ \A r \in Rows : stage'[r] <= 1
        /\ cfg.keyed => \A k : Single(stage', k)
        /\ \A r \in Rows : stage'[r] > 0 /\ r[1] \in Orderly => r[2] <= src[r[1]]
    <2>1. CASE stage' = MergeFrames(tgt, SrcRows)
      BY <1>1, <2>1, MergingFrames
    <2>2. CASE stage' = BagOf(SrcRows)
      <3>1. stage' = BagOf(Selected("full", tgt))
        BY <2>2 DEF Selected
      <3>2. /\ stage' \in Tables /\ Complete(stage') /\ \A r \in Rows : stage'[r] <= 1
            /\ \A k : Single(stage', k)
            /\ \A r \in Rows : stage'[r] > 0 => r[2] = src[r[1]]
        BY <3>1, Refreshing
      <3>3. \A r \in Rows : r[1] \in Orderly => src[r[1]] \in Nat
        BY AsTables, SourceRows
      <3> QED BY <3>2, <3>3
    <2> QED BY <1>0, <2>1, <2>2
  <1>3. Orderly' = Orderly /\ \A k : Latest(k)' = Latest(k)
    BY <1>0 DEF Orderly, Latest
  <1>4. Frame'
    <2>1. \A k : Single(stage, k)' <=> Single(stage', k)
      BY DEF Single
    <2> QED BY <1>0, <1>1, <1>2, <1>3, <2>1 DEF Frame, Complete
  <1>5. Deleted' /\ StagedDelta'
    BY <1>1, Apart, Unconcerned
  <1>6. NoneNewer'
    BY <1>0, <1>3 DEF IInv, NoneNewer
  <1>7. Doing("readOld") \/ Doing("readNew")
    BY <1>0
  <1> QED BY <1>0, <1>1, <1>2, <1>4, <1>5, <1>6, <1>7, AsTables, StatementStep

-----------------------------------------------------------------------------
(* Steps that leave source and target alone.                               *)

\* Programs that rest on what an earlier statement has done.
Pending == {<<"insert">>, <<"deleteStaged", "insertStaged">>, <<"insertStaged">>,
            <<"drop", "write">>, <<"write">>}

LEMMA Programs ==
  ASSUME NEW e \in EngineNames
  PROVE  /\ Merge(e) \in MergeTails(e) \ Pending
         /\ \A t \in Refresh(e) : t \in RefreshTails(e) /\ t \notin Pending /\ Head(t) \notin UsesSql
         /\ <<"append">> \notin Pending /\ <<>> \notin Pending
         /\ \A t \in {PythonMerge, <<"readNew", "write">>} :
              t \in MergeTails("python") /\ t \notin Pending /\ Head(t) \notin UsesSql
  <1>1. Merge(e) \in MergeTails(e) \ Pending
    BY DEF EngineNames, Merge, MergeTails, TwoStatements, Pending, DuckMerge, SnowflakeMerge,
           BigQueryMerge, PostgresMerge, DeltaMerge, IcebergMerge, HudiMerge, SparkMerge, PythonMerge
  <1>2. \A t \in Refresh(e) : t \in {<<"replace">>} \/ /\ t = <<"drop", "create">>
                                                       /\ e \notin TwoStatements \union {"python"}
    BY DEF EngineNames, Refresh, TwoStatements, GenericRefresh, SnowflakeRefresh, PostgresRefresh,
           DeltaSave, IcebergSave, HudiSave, DefaultSave
  <1>3. Head(<<"replace">>) = "replace" /\ Head(<<"drop", "create">>) = "drop"
        /\ Head(<<"readOld", "write">>) = "readOld" /\ Head(<<"readNew", "write">>) = "readNew"
    BY Literals
  <1>4. <<"replace">> \notin Pending /\ <<"drop", "create">> \notin Pending
        /\ <<"append">> \notin Pending /\ <<>> \notin Pending
        /\ <<"readOld", "write">> \notin Pending /\ <<"readNew", "write">> \notin Pending
    BY DEF Pending
  <1>5. \A t \in Refresh(e) : t \in RefreshTails(e) /\ t \notin Pending /\ Head(t) \notin UsesSql
    BY <1>2, <1>3, <1>4 DEF RefreshTails, UsesSql
  <1>6. \A t \in {PythonMerge, <<"readNew", "write">>} :
          t \in MergeTails("python") /\ t \notin Pending /\ Head(t) \notin UsesSql
    BY <1>3, <1>4 DEF MergeTails, UsesSql, PythonMerge, TwoStatements
  <1> QED BY <1>1, <1>4, <1>5, <1>6

LEMMA TablesAlone ==
  ASSUME IInv, UNCHANGED <<cfg, src, disorder, tgt, exists>>, leaked => leaked', Typed', OwnText',
         pc' = "done" => pc = "done",
         UNCHANGED <<todo, stage, sql>> \/ todo' \notin Pending
  PROVE  IInv'
  <1>1. SrcRows' = SrcRows /\ Orderly' = Orderly /\ \A k : Latest(k)' = Latest(k)
    BY DEF SrcRows, Orderly, Latest
  <1>2. \A text : Body(text)' = Body(text)
    BY <1>1 DEF Body
  <1>3. KeysStayUnique' /\ SuccessIsCurrent' /\ AppendsOnce'
    BY DEF IInv, KeysStayUnique, SuccessIsCurrent, AppendsOnce
  <1>4. NothingLostForGood'
    BY <1>2 DEF IInv, NothingLostForGood
  <1>5. Traceable' /\ NoneNewer'
    BY <1>1 DEF IInv, Traceable, NoneNewer, Has, Above
  <1>6. Deleted' /\ StagedDelta' /\ Frame'
    <2>1. CASE UNCHANGED <<todo, stage, sql>>
      <3>1. Staged' = Staged /\ \A k : /\ Has(tgt, k)' <=> Has(tgt, k)
                                       /\ Single(stage, k)' <=> Single(stage, k)
        BY <2>1 DEF Staged, Has, Single
      <3>2. Deleted'
        BY <1>1, <1>2, <2>1, <3>1 DEF IInv, Deleted
      <3>3. StagedDelta'
        BY <1>1, <1>2, <2>1, <3>1 DEF IInv, StagedDelta
      <3>4. Frame'
        BY <1>1, <1>2, <2>1, <3>1 DEF IInv, Frame
      <3> QED BY <3>2, <3>3, <3>4
    <2>2. CASE todo' \notin Pending
      BY <2>2, Unconcerned DEF Pending
    <2> QED BY <2>1, <2>2
  <1> QED BY <1>3, <1>4, <1>5, <1>6 DEF IInv

LEMMA FallBackStep == ASSUME IInv, FallBack PROVE IInv'
  <1>1. /\ pc = "run" /\ todo # <<>> /\ todo' \in Refresh(cfg.engine) /\ cfg.engine \in EngineNames
        /\ UNCHANGED <<cfg, src, wide, disorder, tgt, exists, twide, pc, seen, glob, sql, fallback,
                       stage, leaked>>
    BY DEF FallBack, Doing, source, target, IInv, Typed, Config
  <1>2. todo' \in RefreshTails(cfg.engine) /\ todo' \notin Pending /\ Head(todo') \notin UsesSql
    BY <1>1, Programs
  <1>3. Typed'
    BY <1>1, <1>2 DEF IInv, Typed, TypeOK, Tails
  <1>4. OwnText'
    BY <1>1, <1>2 DEF IInv, OwnText
  <1> QED BY <1>1, <1>2, <1>3, <1>4, TablesAlone

\* run_or_dispatch before its first statement; the flag decides about both texts.
LEMMA PrepareStep == ASSUME IInv, Prepare PROVE IInv'
  <1>0. /\ Typed /\ OwnText /\ cfg \in Config /\ cfg.engine \in EngineNames /\ TypeOK
        /\ IF pc = "run" THEN todo \in Tails(cfg) ELSE todo = <<>>
    BY DEF IInv, Typed, Config
  <1>1. CASE StartRun
    <2>1. /\ pc \in {"idle", "done"} /\ pc' = "exists" /\ todo = <<>> /\ todo' = <<>>
          /\ UNCHANGED <<cfg, src, wide, disorder, tgt, exists, twide, seen, glob, sql,
                         fallback, stage, leaked>>
      BY <1>0, <1>1 DEF StartRun, Quiet, source, target
    <2>2. Typed' /\ OwnText'
      BY <1>0, <2>1 DEF Typed, TypeOK, OwnText
    <2> QED BY <2>1, <2>2, TablesAlone
  <1>2. CASE CheckExists
    <2>1. /\ pc = "exists" /\ todo = <<>> /\ seen' \in BOOLEAN /\ glob' \in BOOLEAN
          /\ UNCHANGED <<cfg, src, wide, disorder, tgt, exists, twide, sql, fallback, stage, leaked>>
          /\ IF cfg.engine = "python"
             THEN pc' = "run" /\ todo' \in {PythonMerge, <<"readNew", "write">>}
             ELSE pc' = "render" /\ todo' = <<>>
      <3>1. seen' \in BOOLEAN
        BY <1>0, <1>2 DEF CheckExists, TypeOK
      <3> QED BY <1>0, <1>2, <3>1 DEF CheckExists, source, target
    <2>2. CASE cfg.engine = "python"
      <3>1. /\ todo' \in MergeTails("python") /\ todo' \notin Pending
            /\ Head(todo') \notin UsesSql
        BY <1>0, <2>1, <2>2, Programs
      <3>2. Typed'
        BY <1>0, <2>1, <2>2, <3>1 DEF Typed, TypeOK, Tails
      <3>3. OwnText'
        BY <1>0, <2>1, <2>2, <3>1 DEF OwnText
      <3> QED BY <2>1, <2>2, <3>1, <3>2, <3>3, TablesAlone
    <2>3. CASE cfg.engine # "python"
      <3>1. Typed' /\ OwnText'
        BY <1>0, <2>1, <2>3 DEF Typed, TypeOK, OwnText
      <3> QED BY <2>1, <2>3, <3>1, TablesAlone
    <2> QED BY <2>2, <2>3
  <1>3. CASE Render
    <2>1. /\ pc = "render" /\ todo = <<>> /\ sql' = Text /\ fallback' = Text
          /\ leaked' = Leaks(seen) /\ glob' = FALSE
          /\ UNCHANGED <<cfg, src, wide, disorder, tgt, exists, twide, seen, stage>>
          /\ IF seen THEN pc' = "fallback" /\ todo' = <<>>
                     ELSE pc' = "run" /\ todo' \in Refresh(cfg.engine)
          /\ Text \in {"full", "delta"} /\ cfg.engine # "python" /\ leaked' \in BOOLEAN
      BY <1>0, <1>3 DEF Render, source, target, Text, Leaks, Typed, TypeOK
    <2>2. ~leaked' => ~leaked /\ Text = IF seen THEN "delta" ELSE "full"
      BY <1>0, <2>1 DEF Leaks, Text, TypeOK
    <2>3. CASE seen
      <3>1. Typed'
        BY <1>0, <2>1, <2>3 DEF Typed, TypeOK
      <3>2. OwnText'
        BY <1>0, <2>1, <2>2, <2>3 DEF OwnText
      <3> QED BY <2>1, <2>2, <2>3, <3>1, <3>2, TablesAlone, <1>0, Programs
    <2>4. CASE ~seen
      <3>1. /\ todo' \in RefreshTails(cfg.engine) /\ todo' \notin Pending
            /\ Head(todo') \notin UsesSql
        BY <1>0, <2>1, <2>4, Programs
      <3>2. Typed'
        BY <1>0, <2>1, <2>4, <3>1 DEF Typed, TypeOK, Tails
      <3>3. OwnText'
        BY <1>0, <2>1, <2>2, <2>4, <3>1 DEF OwnText
      <3> QED BY <2>1, <2>2, <2>4, <3>1, <3>2, <3>3, TablesAlone
    <2> QED BY <2>3, <2>4
  <1>4. CASE RenderFallback
    <2>1. /\ pc = "fallback" /\ todo = <<>> /\ todo' = <<>> /\ fallback' = Text /\ pc' = "sync"
          /\ leaked' = Leaks(FALSE)
          /\ UNCHANGED <<cfg, src, wide, disorder, tgt, exists, twide, seen, glob, sql, stage>>
          /\ Text \in {"full", "delta"} /\ cfg.engine # "python" /\ leaked' \in BOOLEAN
      BY <1>0, <1>4 DEF RenderFallback, source, target, Text, Leaks, Typed, TypeOK
    <2>2. ~leaked' => ~leaked /\ Text = "full"
      BY <1>0, <2>1 DEF Leaks, Text, TypeOK
    <2>3. Typed'
      BY <1>0, <2>1 DEF Typed, TypeOK
    <2>4. OwnText'
      BY <1>0, <2>1, <2>2 DEF OwnText
    <2> QED BY <2>1, <2>2, <2>3, <2>4, TablesAlone
  <1>5. CASE Sync
    <2>1. /\ pc = "sync" /\ pc' = "run" /\ cfg.engine # "python" /\ twide' \in BOOLEAN
          /\ todo' = IF cfg.keyed THEN Merge(cfg.engine) ELSE <<"append">>
          /\ UNCHANGED <<cfg, src, wide, disorder, tgt, exists, seen, glob, sql, fallback, stage,
                         leaked>>
      BY <1>0, <1>5 DEF Sync, source, Typed, TypeOK
    <2>2. todo' \in Tails(cfg) /\ todo' \notin Pending
      BY <1>0, <2>1, Programs DEF Tails
    <2>3. Typed'
      BY <1>0, <2>1, <2>2 DEF Typed, TypeOK
    <2>4. OwnText'
      BY <1>0, <2>1 DEF OwnText
    <2> QED BY <2>1, <2>2, <2>3, <2>4, TablesAlone
  <1> QED BY <1>1, <1>2, <1>3, <1>4, <1>5 DEF Prepare

\* A new column, another model's rendering, a failure: nothing of the data moves.
LEMMA AsideStep == ASSUME IInv, Widen \/ OtherRenders \/ Break PROVE IInv'
  <1>0. /\ Typed /\ OwnText /\ cfg \in Config /\ TypeOK /\ cfg.engine \in EngineNames
        /\ IF pc = "run" THEN todo \in Tails(cfg) ELSE todo = <<>>
    BY DEF IInv, Typed, Config
  <1>1. CASE Widen
    <2>1. /\ pc \in {"idle", "done"} /\ pc' = "idle" /\ wide' = TRUE
          /\ UNCHANGED <<cfg, src, disorder, tgt, exists, twide, todo, seen, glob, sql,
                         fallback, stage, leaked>>
      BY <1>1 DEF Widen, Quiet, target
    <2>2. Typed'
      BY <1>0, <2>1 DEF Typed, TypeOK
    <2>3. OwnText'
      BY <1>0, <2>1 DEF OwnText
    <2> QED BY <2>1, <2>2, <2>3, TablesAlone
  <1>2. CASE OtherRenders
    <2>1. /\ glob' \in BOOLEAN
          /\ UNCHANGED <<cfg, src, wide, disorder, tgt, exists, twide, todo, pc, seen, sql,
                         fallback, stage, leaked>>
      BY <1>2 DEF OtherRenders, source, target
    <2>2. Typed'
      BY <1>0, <2>1 DEF Typed, TypeOK
    <2>3. OwnText'
      BY <1>0, <2>1 DEF OwnText
    <2> QED BY <2>1, <2>2, <2>3, TablesAlone
  <1>3. CASE Break
    <2>1. /\ pc' = "idle" /\ todo' = <<>> /\ stage' = NoRows
          /\ seen' = FALSE /\ sql' = "full" /\ fallback' = "full"
          /\ UNCHANGED <<cfg, src, wide, disorder, tgt, exists, twide, glob, leaked>>
      BY <1>3 DEF Break, Forget, source, target
    <2>2. NoRows \in Tables
      BY <1>0, TableTypes DEF TypeOK, Tables
    <2>3. Typed'
      BY <1>0, <2>1, <2>2 DEF Typed, TypeOK, Tables
    <2>4. OwnText'
      BY <1>0, <2>1 DEF OwnText
    <2>5. todo' \notin Pending
      BY <1>0, <2>1, Programs
    <2> QED BY <2>1, <2>3, <2>4, <2>5, TablesAlone
  <1> QED BY <1>1, <1>2, <1>3

-----------------------------------------------------------------------------
(* The source.                                                             *)

\* One key changes: late or during a run it is disorderly from now on, in order it
\* is above everything in the target; the other keys do not notice.
LEMMA SourceStep ==
  ASSUME IInv, NEW k \in Keys, NEW v \in 0..MaxUpd, src' = [src EXCEPT ![k] = v],
         disorder' \in {disorder, disorder \union {k}}, ~Quiet => k \in disorder',
         v > 0 /\ k \notin disorder' => Above(v, tgt),
         UNCHANGED <<cfg, wide, tgt, exists, twide, todo, seen, glob, sql, fallback, stage, leaked>>,
         pc' = pc \/ (Quiet /\ pc' = "idle"), pc' = "done" => v = 0
  PROVE  IInv'
  <1>1. /\ Typed /\ TypeOK /\ OwnText /\ src \in [Keys -> 0..MaxUpd] /\ Typed' /\ OwnText'
    BY DEF IInv, Typed, TypeOK, OwnText, Quiet
  <1>2. /\ src'[k] = v /\ \A j \in Keys \ {k} : src'[j] = src[j]
        /\ disorder \subseteq disorder'
    BY <1>1
  <1>3. /\ \A j \in Orderly' \ {k} : j \in Orderly /\ Latest(j)' = Latest(j) /\ src'[j] = src[j]
        /\ k \in Orderly' => Quiet /\ Above(v, tgt) /\ v > 0 /\ k \notin disorder'
    BY <1>2 DEF Orderly, Latest
  <1>4. todo # <<>> => k \notin Orderly' /\ k \in disorder'
    BY <1>1, <1>3 DEF Typed, Quiet
  <1>5. \A r : r[1] # k => (r \in SrcRows' <=> r \in SrcRows)
    BY <1>2, <1>1 DEF SrcRows
  <1>6. \A text, r : r[1] # k => (r \in Body(text)' <=> r \in Body(text))
    BY <1>5 DEF Body, Above
  <1>7. KeysStayUnique' /\ AppendsOnce'
    BY <1>2 DEF IInv, KeysStayUnique, AppendsOnce
  <1>8. SuccessIsCurrent'
    <2> SUFFICES ASSUME pc' = "done", ~leaked, NEW j \in Keys \ disorder', src'[j] > 0
                 PROVE  /\ exists /\ tgt[<<j, src'[j]>>] > 0
                        /\ cfg.keyed => \A r \in Rows : r[1] = j /\ r[2] # src'[j] => tgt[r] = 0
      BY DEF SuccessIsCurrent
    <2>1. j # k /\ pc = "done" /\ src'[j] = src[j] /\ j \in Keys \ disorder
      BY <1>2
    <2> QED BY <2>1 DEF IInv, SuccessIsCurrent
  <1>9. NothingLostForGood'
    <2> SUFFICES ASSUME ~leaked, NEW j \in Orderly'
                 PROVE  tgt[Latest(j)'] > 0 \/ Latest(j)' \in Body("delta")'
      BY DEF NothingLostForGood, Orderly, Latest
    <2>1. CASE j = k
      <3>1. Latest(k)' = <<k, v>> /\ <<k, v>> \in SrcRows'
        BY <1>2, <1>3, <2>1 DEF Latest, SrcRows
      <3>2. Above(<<k, v>>[2], tgt)'
        BY <1>3, <2>1 DEF Above
      <3> QED BY <2>1, <3>1, <3>2 DEF Body
    <2>2. CASE j # k
      <3>1. j \in Orderly /\ Latest(j)' = Latest(j) /\ Latest(j)[1] = j
        BY <1>3, <2>2 DEF Latest
      <3>2. tgt[Latest(j)] > 0 \/ Latest(j) \in Body("delta")
        BY <3>1 DEF IInv, NothingLostForGood, Orderly, Latest
      <3> QED BY <1>6, <2>2, <3>1, <3>2
    <2> QED BY <2>1, <2>2
  <1>10. Traceable'
    <2> SUFFICES ASSUME cfg.engine \in TwoStatements, NEW j \in Orderly', Has(tgt, j)
                 PROVE  tgt[Latest(j)'] > 0 \/ Above(src'[j], tgt)
      BY DEF Traceable, Has, Above
    <2> QED BY <1>2, <1>3 DEF IInv, Traceable
  <1>11. Deleted'
    <2> SUFFICES ASSUME todo = <<"insert">>, NEW j \in Orderly', Latest(j)' \in Body(sql)', Has(tgt, j)
                 PROVE  FALSE
      BY DEF Deleted, Has
    <2>1. j # k
      BY <1>4
    <2>2. j \in Orderly /\ Latest(j)' = Latest(j) /\ Latest(j)[1] = j
      BY <1>3, <2>1 DEF Latest
    <2>3. Latest(j) \in Body(sql)
      <3>1. Latest(j) \in Body(sql)' => Latest(j) \in Body(sql)
        BY <1>5, <2>1, <2>2 DEF Body, Above
      <3> QED BY <2>2, <3>1
    <2> QED BY <2>2, <2>3 DEF IInv, Deleted
  <1>12. StagedDelta'
    <2> SUFFICES ASSUME todo \in {<<"deleteStaged", "insertStaged">>, <<"insertStaged">>}
                 PROVE  /\ OnePerKey(Staged)
                        /\ ~leaked =>
                             /\ \A r \in Staged : r[1] \notin disorder' => r \in Body("delta")'
                             /\ \A j \in Orderly' : Latest(j)' \in Staged \/ tgt[Latest(j)'] > 0
                        /\ todo = <<"insertStaged">> => \A r \in Staged : ~Has(tgt, r[1])
      <3>1. Staged' = Staged /\ \A j : Has(tgt, j)' <=> Has(tgt, j)
        BY DEF Staged, Has
      <3> QED BY <3>1 DEF StagedDelta
    <2>1. k \in disorder' /\ k \notin Orderly'
      BY <1>4
    <2> QED BY <1>2, <1>3, <1>6, <2>1 DEF IInv, StagedDelta
  <1>13. Frame'
    <2> SUFFICES ASSUME todo \in {<<"drop", "write">>, <<"write">>}
                 PROVE  Frame'
      BY DEF Frame
    <2>1. k \notin Orderly'
      BY <1>4
    <2>2. \A j : Single(stage, j)' <=> Single(stage, j)
      BY DEF Single
    <2> QED BY <1>3, <2>1, <2>2 DEF IInv, Frame
  <1>14. NoneNewer'
    <2> SUFFICES ASSUME cfg.engine = "python", NEW r \in Rows, tgt[r] > 0, r[1] \in Orderly'
                 PROVE  r[2] <= src'[r[1]]
      BY DEF NoneNewer
    <2>1. CASE r[1] = k
      BY <1>2, <1>3, <2>1, RowParts DEF Above
    <2>2. CASE r[1] # k
      BY <1>3, <2>2 DEF IInv, NoneNewer
    <2> QED BY <2>1, <2>2
  <1> QED BY <1>1, <1>7, <1>8, <1>9, <1>10, <1>11, <1>12, <1>13, <1>14 DEF IInv

LEMMA WorldStep == ASSUME IInv, World PROVE IInv'
  <1>1. TypeOK /\ pc \in {"idle", "exists", "render", "fallback", "sync", "run", "done"}
    BY DEF IInv, Typed, TypeOK
  <1>2. ASSUME NEW k \in Keys, NEW u \in 1..MaxUpd, SourceWrite(k, u) PROVE IInv'
    <2>1. u \in 0..MaxUpd /\ src' = [src EXCEPT ![k] = u]
      BY <1>2, BoundsAssumption DEF SourceWrite
    <2>2. /\ disorder' \in {disorder, disorder \union {k}} /\ (~Quiet => k \in disorder')
          /\ k \notin disorder' => Above(u, tgt)
          /\ UNCHANGED <<cfg, wide, tgt, exists, twide, todo, seen, glob, sql, fallback, stage, leaked>>
          /\ pc' = pc \/ (Quiet /\ pc' = "idle")
          /\ pc' # "done"
      BY <1>2 DEF SourceWrite, target, Quiet
    <2> QED BY <2>1, <2>2, SourceStep
  <1>3. ASSUME NEW k \in Keys, SourceDelete(k) PROVE IInv'
    <2>1. 0 \in 0..MaxUpd /\ src' = [src EXCEPT ![k] = 0]
      BY <1>3, BoundsAssumption DEF SourceDelete
    <2>2. /\ disorder' \in {disorder, disorder \union {k}} /\ (~Quiet => k \in disorder')
          /\ UNCHANGED <<cfg, wide, tgt, exists, twide, todo, seen, glob, sql, fallback, stage, leaked>>
          /\ pc' = pc
      BY <1>3 DEF SourceDelete, target, run
    <2>3. ~(0 > 0)
      OBVIOUS
    <2> QED BY <2>1, <2>2, <2>3, SourceStep
  <1> QED BY <1>2, <1>3, AsideStep DEF World

-----------------------------------------------------------------------------
(* The theorems.                                                           *)

LEMMA InitInv == ASSUME Init PROVE IInv
  <1>0. /\ cfg \in Config /\ src = [k \in Keys |-> 0] /\ wide = FALSE /\ disorder = {}
        /\ tgt = NoRows /\ exists = FALSE /\ twide = FALSE /\ todo = <<>> /\ pc = "idle"
        /\ seen = FALSE /\ glob = FALSE /\ sql = "full" /\ fallback = "full" /\ stage = NoRows
        /\ leaked = FALSE
    BY ConfigsAssumption DEF Init, Config, EngineNames
  <1>1. NoRows \in [Rows -> 0..Copies] /\ \A r \in Rows : NoRows[r] = 0
    BY BoundsAssumption DEF NoRows
  <1>2. Typed
    <2>1. src \in [Keys -> 0..MaxUpd]
      BY <1>0, BoundsAssumption
    <2>2. tgt \in [Rows -> 0..Copies] /\ stage \in [Rows -> 0..Copies]
      BY <1>0, <1>1
    <2>3. TypeOK
      BY <1>0, <2>1, <2>2 DEF TypeOK
    <2> QED BY <1>0, <2>3 DEF Typed
  <1>3. Orderly = {} /\ \A k \in Keys : ~(src[k] > 0)
    BY <1>0 DEF Orderly
  <1>4. OwnText
    BY <1>0 DEF OwnText
  <1>5. Deleted /\ StagedDelta /\ Frame
    BY <1>0, Apart DEF Deleted, StagedDelta, Frame
  <1>6. Traceable /\ NoneNewer /\ NothingLostForGood /\ SuccessIsCurrent
    BY <1>0, <1>3 DEF Traceable, NoneNewer, NothingLostForGood, SuccessIsCurrent
  <1>7. KeysStayUnique /\ AppendsOnce
    BY <1>0, <1>1 DEF KeysStayUnique, AppendsOnce
  <1> QED BY <1>2, <1>4, <1>5, <1>6, <1>7 DEF IInv

LEMMA NextStep == ASSUME IInv, Next PROVE IInv'
  <1>1. CASE World
    BY <1>1, WorldStep
  <1>2. CASE Prepare
    BY <1>2, PrepareStep
  <1>3. CASE Statement
    BY <1>3, DeleteStep, InsertStep, StageStep, DeleteStagedStep, InsertStagedStep, MergeStep,
       ReadBothStep, FallBackStep, ReplaceStep, DropStep, ReadStep, WriteStep DEF Statement
  <1> QED BY <1>1, <1>2, <1>3 DEF Next

LEMMA StutterStep == ASSUME IInv, UNCHANGED vars PROVE IInv'
  <1>1. UNCHANGED <<cfg, src, wide, disorder, tgt, exists, twide, todo, pc, seen, glob, sql,
                    fallback, stage, leaked>>
    BY DEF vars, source, target, run
  <1>2. Typed' /\ OwnText'
    BY <1>1 DEF IInv, Typed, TypeOK, OwnText
  <1> QED BY <1>1, <1>2, TablesAlone

\* Every reachable state satisfies the inductive invariant, whatever the engine, the
\* model, the source and the other threads do, and wherever a run breaks.
THEOREM IncrementalInvariance == Spec => []IInv
  <1>1. Init => IInv
    BY InitInv
  <1>2. IInv /\ [Next]_vars => IInv'
    BY NextStep, StutterStep
  <1> QED BY <1>1, <1>2, PTL DEF Spec

\* The variables keep their types and a run always has a program of its engine to
\* finish (run_or_dispatch and the executors' merge and refresh).
THEOREM IncrementalTypes == Spec => []TypeOK
  <1>1. IInv => TypeOK
    BY DEF IInv, Typed
  <1> QED BY <1>1, IncrementalInvariance, PTL

\* Under a merge the unique key stays unique in the target: on engines that evaluate
\* the SELECT twice for every key that came in order, on the others for every key.
THEOREM KeysUnique == Spec => []KeysStayUnique
  <1>1. IInv => KeysStayUnique
    BY DEF IInv
  <1> QED BY <1>1, IncrementalInvariance, PTL

\* Wherever a run breaks, a source row that came in order is in the target or the next
\* incremental run selects it.
THEOREM NothingLost == Spec => []NothingLostForGood
  <1>1. IInv => NothingLostForGood
    BY DEF IInv
  <1> QED BY <1>1, IncrementalInvariance, PTL

\* A run that returns leaves a target that has the latest version of every row that
\* came in order and, under a merge, no other version of it.
THEOREM SuccessCurrent == Spec => []SuccessIsCurrent
  <1>1. IInv => SuccessIsCurrent
    BY DEF IInv
  <1> QED BY <1>1, IncrementalInvariance, PTL

\* An append behind a watermark adds no row twice, however often runs break.
THEOREM AppendOnce == Spec => []AppendsOnce
  <1>1. IInv => AppendsOnce
    BY DEF IInv
  <1> QED BY <1>1, IncrementalInvariance, PTL

\* From CheckExists to Render, and at RenderFallback, the global is the model's own.
OwnFlag ==
  ~cfg.parallel => /\ ~leaked
                   /\ pc = "render" => glob = seen
                   /\ pc = "fallback" => glob = FALSE

\* Without other threads no flag but its own gets into a model's SQL: the guarantee
\* "True iff ... the target relation exists" of executors/base.py, which other
\* threads break, and with it the premise ~leaked of the properties above.
THEOREM SerialFlag == Spec => [](~cfg.parallel => OwnFlagIsRendered)
  <1>1. Init => OwnFlag
    BY DEF Init, OwnFlag
  <1>2. OwnFlag /\ [Next]_vars => OwnFlag'
    <2> SUFFICES ASSUME OwnFlag, [Next]_vars PROVE OwnFlag'
      OBVIOUS
    <2>1. CASE World
      BY <2>1 DEF World, SourceWrite, SourceDelete, Widen, OtherRenders, Break, OwnFlag, Quiet,
                  run, target, source
    <2>2. CASE Prepare
      BY <2>2 DEF Prepare, StartRun, CheckExists, Render, RenderFallback, Sync, OwnFlag, Leaks,
                  run, target, source
    <2>3. CASE Statement
      <3>1. /\ pc = "run" /\ UNCHANGED <<cfg, leaked>> /\ pc' \in {"run", "done"}
        BY <2>3 DEF Statement, Delete, Insert, Stage, DeleteStaged, InsertStaged, MergeInto,
                    ReadBoth, Append1, FallBack, Replace, Drop, Create, ReadOld, ReadNew, Write,
                    Doing, Next1, Elsewhere
      <3> QED BY <3>1 DEF OwnFlag
    <2>4. CASE UNCHANGED vars
      BY <2>4 DEF vars, run, OwnFlag
    <2> QED BY <2>1, <2>2, <2>3, <2>4 DEF Next
  <1>3. OwnFlag => (~cfg.parallel => OwnFlagIsRendered)
    BY DEF OwnFlag, OwnFlagIsRendered
  <1> QED BY <1>1, <1>2, <1>3, PTL DEF Spec
=============================================================================
