-------------------------- MODULE MaterializeProofs --------------------------
(***************************************************************************)
(* Theorems about Materialize for every engine, materialisation, contract  *)
(* and output, and for any number of runs: what the programs of statements *)
(* have in common, that the row of _ff_meta is never ahead of the relation,*)
(* that on three engines a model never goes missing, that contracts are    *)
(* kept, and what a run leaves of the model and its scratch relations.     *)
(***************************************************************************)
EXTENDS Materialize, TLAPS

Atomic == {"duckdb", "snowflake", "bigquery"}
Ops == {"drop", "tidy", "create", "put", "swap", "view", "insert", "rename", "verify",
        "refuse", "query"}
Hows == {"none", "raw", "cast", "select", "backing"}

\* The statements engine e may be sent: on an atomic engine none that drops the model.
Statements(e) ==
  {s \in [op : Ops, rel : Rels, how : Hows, undo : SUBSET Rels, asked : BOOLEAN] :
     /\ s.op = "view" => s.rel = "model" /\ s.how \in {"select", "backing"}
     /\ e \in Atomic => /\ s.op \in {"drop", "tidy"} => s.rel # "model"
                        /\ "model" \notin s.undo}
Programs(e) == Seq(Statements(e))

\* What makes the model, or cannot be executed.
Makes(s) == \/ s.rel = "model" /\ s.op \in {"create", "put", "swap", "view", "insert"}
            \/ s.op = "refuse"
MakesModel(p) == \E i \in DOMAIN p : Makes(p[i])

-----------------------------------------------------------------------------
(* Programs.                                                               *)

LEMMA SingleStatements ==
  ASSUME NEW e, NEW rel \in Rels, NEW how \in Hows
  PROVE  /\ rel # "model" \/ e \notin Atomic =>
              Drop(rel) \in Statements(e) /\ Tidy(rel) \in Statements(e)
         /\ Create(rel, how) \in Statements(e) /\ Put(rel, how) \in Statements(e)
         /\ Swap(rel) \in Statements(e)
         /\ how \in {"select", "backing"} => View(how) \in Statements(e)
         /\ Query(how) \in Statements(e) /\ Verify \in Statements(e) /\ Refuse \in Statements(e)
         /\ St("rename", rel, how) \in Statements(e) /\ St("insert", rel, how) \in Statements(e)
         /\ Makes(View(how)) /\ Makes(Refuse)
         /\ rel = "model" => /\ Makes(Create(rel, how)) /\ Makes(Put(rel, how)) /\ Makes(Swap(rel))
                             /\ Makes(St("insert", rel, how))
  <1>1. ASSUME NEW op \in Ops, NEW r \in Rels, NEW h \in Hows,
               op \in {"drop", "tidy"} => r # "model" \/ e \notin Atomic,
               op = "view" => r = "model" /\ h \in {"select", "backing"}
        PROVE  St(op, r, h) \in Statements(e)
    BY <1>1 DEF St, Statements
  <1>2. /\ "none" \in Hows /\ "raw" \in Hows /\ "model" \in Rels
        /\ \A op \in {"drop", "tidy", "create", "put", "swap", "view", "insert", "rename",
                       "verify", "refuse", "query"} : op \in Ops
    BY DEF Rels, Ops, Hows
  <1>3. rel # "model" \/ e \notin Atomic => Drop(rel) \in Statements(e) /\ Tidy(rel) \in Statements(e)
    BY <1>1, <1>2 DEF Drop, Tidy
  <1>4. /\ Create(rel, how) \in Statements(e) /\ Put(rel, how) \in Statements(e)
        /\ Swap(rel) \in Statements(e)
        /\ how \in {"select", "backing"} => View(how) \in Statements(e)
    BY <1>1, <1>2 DEF Create, Put, Swap, View
  <1>5. /\ Query(how) \in Statements(e) /\ Verify \in Statements(e) /\ Refuse \in Statements(e)
        /\ St("rename", rel, how) \in Statements(e) /\ St("insert", rel, how) \in Statements(e)
    BY <1>1, <1>2 DEF Query, Verify, Refuse
  <1>6. /\ Makes(View(how)) /\ Makes(Refuse)
        /\ rel = "model" => /\ Makes(Create(rel, how)) /\ Makes(Put(rel, how)) /\ Makes(Swap(rel))
                            /\ Makes(St("insert", rel, how))
    BY DEF Create, Put, Swap, View, Refuse, St, Makes
  <1> QED BY <1>3, <1>4, <1>5, <1>6

LEMMA Concatenation ==
  ASSUME NEW e, NEW p \in Programs(e), NEW q \in Programs(e)
  PROVE  /\ p \o q \in Programs(e)
         /\ MakesModel(p) \/ MakesModel(q) => MakesModel(p \o q)
  <1>1. p \o q \in Programs(e)
    BY DEF Programs
  <1>2. ASSUME NEW i \in DOMAIN p, Makes(p[i])
        PROVE  MakesModel(p \o q)
    <2>1. i \in DOMAIN (p \o q) /\ (p \o q)[i] = p[i]
      BY DEF Programs
    <2> QED BY <1>2, <2>1 DEF MakesModel
  <1>3. ASSUME NEW i \in DOMAIN q, Makes(q[i])
        PROVE  MakesModel(p \o q)
    <2>1. Len(p) + i \in DOMAIN (p \o q) /\ (p \o q)[Len(p) + i] = q[i]
      BY DEF Programs
    <2> QED BY <1>3, <2>1 DEF MakesModel
  <1> QED BY <1>1, <1>2, <1>3 DEF MakesModel

LEMMA AskedProgram ==
  ASSUME NEW e, NEW p \in Programs(e)
  PROVE  Asked(p) \in Programs(e) /\ (MakesModel(p) => MakesModel(Asked(p)))
  <1>1. ASSUME NEW s \in Statements(e)
        PROVE  /\ [s EXCEPT !.asked = TRUE] \in Statements(e)
               /\ Makes(s) => Makes([s EXCEPT !.asked = TRUE])
    BY DEF Statements, Makes
  <1>2. DOMAIN Asked(p) = DOMAIN p /\ \A i \in DOMAIN p : Asked(p)[i] = [p[i] EXCEPT !.asked = TRUE]
    BY DEF Asked
  <1>3. \A i \in DOMAIN p : p[i] \in Statements(e)
    BY DEF Programs
  <1>4. Asked(p) \in Programs(e)
    <2>1. Asked(p) = [i \in 1..Len(p) |-> [p[i] EXCEPT !.asked = TRUE]]
      BY DEF Asked, Programs
    <2>2. \A i \in 1..Len(p) : [p[i] EXCEPT !.asked = TRUE] \in Statements(e)
      BY <1>1 DEF Programs
    <2> QED BY <2>1, <2>2 DEF Programs
  <1> QED BY <1>1, <1>2, <1>3, <1>4 DEF MakesModel

LEMMA TriedProgram ==
  ASSUME NEW e, NEW p \in Programs(e), NEW rel \in Rels \ {"model"}
  PROVE  Try(p, rel) \in Programs(e) /\ (MakesModel(p) => MakesModel(Try(p, rel)))
  <1>1. ASSUME NEW s \in Statements(e)
        PROVE  /\ [s EXCEPT !.undo = @ \union {rel}] \in Statements(e)
               /\ Makes(s) => Makes([s EXCEPT !.undo = @ \union {rel}])
    BY DEF Statements, Makes
  <1>2. DOMAIN Try(p, rel) = DOMAIN p
        /\ \A i \in DOMAIN p : Try(p, rel)[i] = [p[i] EXCEPT !.undo = @ \union {rel}]
    BY DEF Try
  <1>3. \A i \in DOMAIN p : p[i] \in Statements(e)
    BY DEF Programs
  <1>4. Try(p, rel) \in Programs(e)
    <2>1. Try(p, rel) = [i \in 1..Len(p) |-> [p[i] EXCEPT !.undo = @ \union {rel}]]
      BY DEF Try, Programs
    <2>2. \A i \in 1..Len(p) : [p[i] EXCEPT !.undo = @ \union {rel}] \in Statements(e)
      BY <1>1 DEF Programs
    <2> QED BY <2>1, <2>2 DEF Programs
  <1> QED BY <1>1, <1>2, <1>3, <1>4 DEF MakesModel

LEMMA ShortPrograms ==
  ASSUME NEW e, NEW a \in Statements(e), NEW b \in Statements(e), NEW c \in Statements(e)
  PROVE  /\ <<>> \in Programs(e) /\ <<a>> \in Programs(e) /\ <<a, b>> \in Programs(e)
         /\ <<a, b, c>> \in Programs(e)
         /\ Makes(a) => MakesModel(<<a>>)
         /\ Makes(a) \/ Makes(b) => MakesModel(<<a, b>>)
         /\ Makes(a) \/ Makes(b) \/ Makes(c) => MakesModel(<<a, b, c>>)
  <1>1. /\ <<>> \in Programs(e) /\ <<a>> \in Programs(e) /\ <<a, b>> \in Programs(e)
        /\ <<a, b, c>> \in Programs(e)
    BY DEF Programs
  <1>2. /\ 1 \in DOMAIN <<a>> /\ <<a>>[1] = a
        /\ 1 \in DOMAIN <<a, b>> /\ 2 \in DOMAIN <<a, b>> /\ <<a, b>>[1] = a /\ <<a, b>>[2] = b
        /\ 1 \in DOMAIN <<a, b, c>> /\ 2 \in DOMAIN <<a, b, c>> /\ 3 \in DOMAIN <<a, b, c>>
        /\ <<a, b, c>>[1] = a /\ <<a, b, c>>[2] = b /\ <<a, b, c>>[3] = c
    OBVIOUS
  <1>3. Makes(a) => MakesModel(<<a>>)
    BY <1>2 DEF MakesModel
  <1>4. Makes(a) \/ Makes(b) => MakesModel(<<a, b>>)
    BY <1>2 DEF MakesModel
  <1>5. Makes(a) \/ Makes(b) \/ Makes(c) => MakesModel(<<a, b, c>>)
    BY <1>2 DEF MakesModel
  <1> QED BY <1>1, <1>3, <1>4, <1>5

\* Saving a frame on Spark.
LEMMA SavePrograms ==
  ASSUME NEW e \in Spark, NEW rel \in Rels, NEW how \in Hows
  PROVE  Save(e, rel, how) \in Programs(e) /\ (rel = "model" => MakesModel(Save(e, rel, how)))
  <1>0. e \notin Atomic /\ "scratch" \in Rels \ {"model"}
    BY DEF Spark, Atomic, Rels
  <1>1. /\ Drop(rel) \in Statements(e) /\ Create(rel, how) \in Statements(e)
        /\ Put("scratch", how) \in Statements(e) /\ St("rename", rel, how) \in Statements(e)
        /\ rel = "model" => Makes(Create(rel, how))
    BY <1>0, SingleStatements
  <1>2. SparkSave(rel, how) \in Programs(e) /\ (rel = "model" => MakesModel(SparkSave(rel, how)))
    BY <1>1, ShortPrograms DEF SparkSave
  <1>3. SparkPath(rel, how) \in Programs(e) /\ (rel = "model" => MakesModel(SparkPath(rel, how)))
    <2>1. /\ <<Put("scratch", how)>> \in Programs(e) /\ <<Drop(rel)>> \in Programs(e)
          /\ <<St("rename", rel, how)>> \in Programs(e) /\ <<Create(rel, how)>> \in Programs(e)
          /\ rel = "model" => MakesModel(<<Create(rel, how)>>)
      BY <1>1, ShortPrograms
    <2>2. /\ Try(<<Put("scratch", how)>>, "scratch") \in Programs(e)
          /\ Try(<<St("rename", rel, how)>>, "scratch") \in Programs(e)
      BY <1>0, <2>1, TriedProgram
    <2>3. Try(<<Put("scratch", how)>>, "scratch") \o <<Drop(rel)>> \in Programs(e)
      BY <2>1, <2>2, Concatenation
    <2>4. Try(<<Put("scratch", how)>>, "scratch") \o <<Drop(rel)>>
            \o Try(<<St("rename", rel, how)>>, "scratch") \in Programs(e)
      BY <2>2, <2>3, Concatenation
    <2> QED BY <2>1, <2>4, Concatenation DEF SparkPath
  <1> QED BY <1>2, <1>3 DEF Save

LEMMA CtasPrograms ==
  ASSUME NEW e \in Engines, NEW how \in Hows
  PROVE  Ctas(e, "model", how) \in Programs(e) /\ MakesModel(Ctas(e, "model", how))
  <1>0. "model" \in Rels
    BY DEF Rels
  <1>1. CASE e \in Spark
    BY <1>0, <1>1, SavePrograms DEF Ctas, Spark
  <1>2. CASE e = "postgres"
    <2>1. Drop("model") \in Statements(e) /\ Create("model", how) \in Statements(e) /\ Makes(Create("model", how))
      BY <1>0, <1>2, SingleStatements DEF Atomic
    <2>2. <<Drop("model"), Create("model", how)>> \in Programs(e) /\ MakesModel(<<Drop("model"), Create("model", how)>>)
      BY <2>1, ShortPrograms
    <2>3. Ctas(e, "model", how) = Asked(<<Drop("model"), Create("model", how)>>)
      BY <1>2 DEF Ctas, Spark, PostgresCtas
    <2> QED BY <2>2, <2>3, AskedProgram
  <1>3. CASE e \notin Spark /\ e # "postgres"
    <2>1. Put("model", how) \in Statements(e) /\ Makes(Put("model", how))
      BY <1>0, SingleStatements
    <2>2. <<Put("model", how)>> \in Programs(e) /\ MakesModel(<<Put("model", how)>>)
      BY <2>1, ShortPrograms
    <2>3. Ctas(e, "model", how) = Asked(<<Put("model", how)>>)
      BY <1>3 DEF Ctas
    <2> QED BY <2>2, <2>3, AskedProgram
  <1> QED BY <1>1, <1>2, <1>3

\* Contracts, for a configuration c.
Config == [engine : Engines, kind : Kinds, mode : {"off", "verify", "cast"},
           expected : BOOLEAN, extraOk : BOOLEAN, alias : BOOLEAN, limit : BOOLEAN]

LEMMA CastPrograms ==
  ASSUME NEW c \in Config
  PROVE  Cast(c) \in Programs(c.engine) /\ MakesModel(Cast(c))
  <1> DEFINE e == c.engine
  <1>0. /\ e \in Engines /\ {"model", "scratch"} \subseteq Rels /\ {"cast", "raw"} \subseteq Hows
        /\ "scratch" \in Rels \ {"model"}
    BY DEF Config, Rels, Hows
  <1> HIDE DEF e
  <1>1. Ctas(e, "model", "cast") \in Programs(e) /\ MakesModel(Ctas(e, "model", "cast"))
    BY <1>0, CtasPrograms
  <1>2. /\ Query("cast") \in Statements(e) /\ Put("scratch", "raw") \in Statements(e)
        /\ Put("model", "cast") \in Statements(e) /\ Makes(Put("model", "cast"))
        /\ Drop("scratch") \in Statements(e) /\ Tidy("scratch") \in Statements(e)
        /\ Create("scratch", "raw") \in Statements(e)
    BY <1>0, SingleStatements
  <1>3. CASE e \in Spark
    <2>1. Save(e, "model", "cast") \in Programs(e) /\ MakesModel(Save(e, "model", "cast"))
      BY <1>0, <1>3, SavePrograms
    <2>2. <<Query("cast")>> \in Programs(e)
      BY <1>2, ShortPrograms
    <2>3. Cast(c) = <<Query("cast")>> \o Save(e, "model", "cast")
      BY <1>3 DEF Cast, SparkCast, e, Spark, Copying
    <2> QED BY <2>1, <2>2, <2>3, Concatenation DEF e
  <1>4. CASE e = "bigquery" \/ (e \notin Spark /\ ~c.extraOk)
    <2>1. Cast(c) = Ctas(e, "model", "cast")
      BY <1>4 DEF Cast, BigQueryCast, e, Spark, Copying, Config, Engines
    <2> QED BY <1>1, <2>1 DEF e
  <1>5. CASE e = "duckdb" /\ c.extraOk
    <2>1. Cast(c) = Asked(<<Put("scratch", "raw"), Put("model", "cast"), Drop("scratch")>>)
      BY <1>5 DEF Cast, DuckCast, e, Spark, Copying
    <2>2. /\ <<Put("scratch", "raw"), Put("model", "cast"), Drop("scratch")>> \in Programs(e)
          /\ MakesModel(<<Put("scratch", "raw"), Put("model", "cast"), Drop("scratch")>>)
      BY <1>2, ShortPrograms
    <2> QED BY <2>1, <2>2, AskedProgram DEF e
  <1>6. CASE e = "postgres" /\ c.extraOk
    <2> DEFINE first == Asked(<<Drop("scratch"), Create("scratch", "raw")>>)
               second == Try(PostgresCtas("model", "cast"), "scratch")
    <2>1. Cast(c) = first \o second \o <<Tidy("scratch")>>
      BY <1>6 DEF Cast, PostgresCast, e, Spark, Copying
    <2>2. first \in Programs(e) /\ <<Tidy("scratch")>> \in Programs(e)
      <3>1. <<Drop("scratch"), Create("scratch", "raw")>> \in Programs(e) /\ <<Tidy("scratch")>> \in Programs(e)
        BY <1>2, ShortPrograms
      <3> QED BY <3>1, AskedProgram
    <2>3. second \in Programs(e) /\ MakesModel(second)
      <3>1. PostgresCtas("model", "cast") = Ctas(e, "model", "cast")
        BY <1>6 DEF Ctas, Spark
      <3> QED BY <1>0, <1>1, <3>1, TriedProgram
    <2> HIDE DEF first, second
    <2>4. first \o second \in Programs(e) /\ MakesModel(first \o second)
      BY <2>2, <2>3, Concatenation
    <2> QED BY <2>1, <2>2, <2>4, Concatenation DEF e
  <1>7. CASE e = "snowflake" /\ c.extraOk
    <2> DEFINE middle == Try(Asked(<<Put("model", "cast")>>), "scratch")
    <2>1. Cast(c) = <<Put("scratch", "raw")>> \o middle \o <<Tidy("scratch")>>
      BY <1>7 DEF Cast, SnowflakeCast, e, Spark, Copying
    <2>2. /\ <<Put("scratch", "raw")>> \in Programs(e) /\ <<Tidy("scratch")>> \in Programs(e)
          /\ <<Put("model", "cast")>> \in Programs(e) /\ MakesModel(<<Put("model", "cast")>>)
      BY <1>2, ShortPrograms
    <2>3. middle \in Programs(e) /\ MakesModel(middle)
      <3>1. Asked(<<Put("model", "cast")>>) \in Programs(e) /\ MakesModel(Asked(<<Put("model", "cast")>>))
        BY <2>2, AskedProgram
      <3> QED BY <1>0, <3>1, TriedProgram
    <2> HIDE DEF middle
    <2>4. <<Put("scratch", "raw")>> \o middle \in Programs(e) /\ MakesModel(<<Put("scratch", "raw")>> \o middle)
      BY <2>2, <2>3, Concatenation
    <2> QED BY <2>1, <2>2, <2>4, Concatenation DEF e
  <1> QED BY <1>0, <1>3, <1>4, <1>5, <1>6, <1>7 DEF Config, Engines, Spark

LEMMA ContractPrograms ==
  ASSUME NEW c \in Config
  PROVE  /\ VerifyAfter(c) \in Programs(c.engine)
         /\ Contract(c) \in Programs(c.engine) /\ MakesModel(Contract(c))
  <1>1. VerifyAfter(c) \in Programs(c.engine)
    <2>1. Verify \in Statements(c.engine)
      BY SingleStatements DEF Rels, Hows
    <2> QED BY <2>1, ShortPrograms DEF VerifyAfter
  <1>2. /\ Ctas(c.engine, "model", "raw") \in Programs(c.engine)
        /\ MakesModel(Ctas(c.engine, "model", "raw"))
    BY CtasPrograms DEF Config, Hows
  <1> QED BY <1>1, <1>2, CastPrograms, Concatenation DEF Contract

LEMMA SqlPrograms ==
  ASSUME NEW c \in Config, NEW exists \in BOOLEAN
  PROVE  /\ SqlTable(c) \in Programs(c.engine) /\ MakesModel(SqlTable(c))
         /\ SqlView(c) \in Programs(c.engine) /\ MakesModel(SqlView(c))
         /\ DirectDdl(c) \in Programs(c.engine) /\ MakesModel(DirectDdl(c))
         /\ SqlIncremental(c, exists) \in Programs(c.engine) /\ MakesModel(SqlIncremental(c, exists))
  <1> DEFINE e == c.engine
  <1>0. e \in Engines /\ "model" \in Rels /\ {"raw", "select"} \subseteq Hows
    BY DEF Config, Rels, Hows
  <1> HIDE DEF e
  <1>1. /\ VerifyAfter(c) \in Programs(e)
        /\ Contract(c) \in Programs(e) /\ MakesModel(Contract(c))
    BY ContractPrograms DEF e
  <1>2. SqlTable(c) \in Programs(e) /\ MakesModel(SqlTable(c))
    <2>1. <<Query("raw")>> \in Programs(e) /\ <<>> \in Programs(e)
      BY <1>0, SingleStatements, ShortPrograms
    <2>2. Asked(<<Query("raw")>>) \in Programs(e)
      BY <2>1, AskedProgram
    <2> QED BY <1>1, <2>1, <2>2, Concatenation DEF SqlTable
  <1>3. SqlView(c) \in Programs(e) /\ MakesModel(SqlView(c))
    <2>1. View("select") \in Statements(e) /\ Makes(View("select"))
      BY <1>0, SingleStatements
    <2>2. <<View("select")>> \in Programs(e) /\ MakesModel(<<View("select")>>)
      BY <2>1, ShortPrograms
    <2>3. Asked(<<View("select")>>) \in Programs(e) /\ MakesModel(Asked(<<View("select")>>))
      BY <2>2, AskedProgram
    <2>4. CASE e = "postgres"
      <3>1. Drop("model") \in Statements(e)
        BY <1>0, <2>4, SingleStatements DEF Atomic
      <3>2. /\ <<Drop("model"), View("select")>> \in Programs(e)
            /\ MakesModel(<<Drop("model"), View("select")>>)
        BY <2>1, <3>1, ShortPrograms
      <3> QED BY <2>4, <3>2 DEF SqlView, PostgresView, e
    <2> QED BY <2>2, <2>3, <2>4 DEF SqlView, e
  <1>4. DirectDdl(c) \in Programs(e) /\ MakesModel(DirectDdl(c))
    <2>1. Put("model", "raw") \in Statements(e) /\ Makes(Put("model", "raw"))
      BY <1>0, SingleStatements
    <2>2. <<Put("model", "raw")>> \in Programs(e) /\ MakesModel(<<Put("model", "raw")>>)
      BY <2>1, ShortPrograms
    <2> QED BY <1>2, <2>2 DEF DirectDdl
  <1>5. SqlIncremental(c, exists) \in Programs(e) /\ MakesModel(SqlIncremental(c, exists))
    <2>1. St("insert", "model", "raw") \in Statements(e) /\ Makes(St("insert", "model", "raw"))
      BY <1>0, SingleStatements
    <2>2. <<St("insert", "model", "raw")>> \in Programs(e) /\ MakesModel(<<St("insert", "model", "raw")>>)
      BY <2>1, ShortPrograms
    <2>3. /\ Asked(<<St("insert", "model", "raw")>>) \in Programs(e)
          /\ MakesModel(Asked(<<St("insert", "model", "raw")>>))
      BY <2>2, AskedProgram
    <2>4. Ctas(e, "model", "raw") \in Programs(e) /\ MakesModel(Ctas(e, "model", "raw"))
      BY <1>0, CtasPrograms
    <2> QED BY <1>1, <2>3, <2>4, Concatenation DEF SqlIncremental, e
  <1> QED BY <1>2, <1>3, <1>4, <1>5 DEF e

LEMMA FramePrograms ==
  ASSUME NEW e \in Engines, NEW rel \in {"model", "backing"}
  PROVE  Frame(e, rel) \in Programs(e) /\ (rel = "model" => MakesModel(Frame(e, rel)))
  <1>0. rel \in Rels /\ "raw" \in Hows
    BY DEF Rels, Hows
  <1>1. /\ Swap(rel) \in Statements(e) /\ Put(rel, "raw") \in Statements(e)
        /\ rel = "model" => Makes(Swap(rel)) /\ Makes(Put(rel, "raw"))
    BY <1>0, SingleStatements
  <1>2. /\ <<Swap(rel)>> \in Programs(e) /\ <<Put(rel, "raw")>> \in Programs(e)
        /\ rel = "model" => MakesModel(<<Swap(rel)>>) /\ MakesModel(<<Put(rel, "raw")>>)
    BY <1>1, ShortPrograms
  <1>3. /\ Asked(<<Put(rel, "raw")>>) \in Programs(e)
        /\ rel = "model" => MakesModel(Asked(<<Put(rel, "raw")>>))
    BY <1>2, AskedProgram
  <1>4. e \in Spark => /\ Save(e, rel, "raw") \in Programs(e)
                       /\ rel = "model" => MakesModel(Save(e, rel, "raw"))
    BY <1>0, SavePrograms
  <1> QED BY <1>2, <1>3, <1>4 DEF Frame, Spark

LEMMA PythonPrograms ==
  ASSUME NEW c \in Config
  PROVE  /\ PyTable(c) \in Programs(c.engine) /\ MakesModel(PyTable(c))
         /\ PyView(c) \in Programs(c.engine) /\ MakesModel(PyView(c))
         /\ PyIncremental(c) \in Programs(c.engine) /\ MakesModel(PyIncremental(c))
         /\ LoadSeed(c) \in Programs(c.engine) /\ MakesModel(LoadSeed(c))
  <1> DEFINE e == c.engine
  <1>0. /\ e \in Engines /\ {"model", "backing", "frame"} \subseteq Rels /\ {"raw", "backing"} \subseteq Hows
        /\ "frame" \in Rels \ {"model"}
    BY DEF Config, Rels, Hows
  <1> HIDE DEF e
  <1>1. /\ VerifyAfter(c) \in Programs(e)
        /\ Contract(c) \in Programs(e) /\ MakesModel(Contract(c))
    BY ContractPrograms DEF e
  <1>2. /\ Frame(e, "model") \in Programs(e) /\ MakesModel(Frame(e, "model"))
        /\ Frame(e, "backing") \in Programs(e)
    BY <1>0, FramePrograms
  <1>3. /\ Tidy("frame") \in Statements(e) /\ Swap("frame") \in Statements(e)
        /\ Put("frame", "raw") \in Statements(e) /\ Put("model", "raw") \in Statements(e)
        /\ Makes(Put("model", "raw")) /\ Refuse \in Statements(e) /\ Makes(Refuse)
        /\ View("backing") \in Statements(e) /\ Makes(View("backing"))
        /\ Swap("model") \in Statements(e) /\ Makes(Swap("model"))
    BY <1>0, SingleStatements
  <1>4. /\ <<Tidy("frame"), Swap("frame")>> \in Programs(e) /\ <<Tidy("frame")>> \in Programs(e)
        /\ <<Put("frame", "raw")>> \in Programs(e)
        /\ <<Put("model", "raw")>> \in Programs(e) /\ MakesModel(<<Put("model", "raw")>>)
        /\ <<Refuse>> \in Programs(e) /\ MakesModel(<<Refuse>>)
        /\ <<View("backing")>> \in Programs(e) /\ MakesModel(<<View("backing")>>)
    BY <1>3, ShortPrograms
  <1>5. Try(Contract(c), "frame") \in Programs(e) /\ MakesModel(Try(Contract(c), "frame"))
    BY <1>0, <1>1, TriedProgram
  <1>6. TakenOver(c) \in Programs(e) /\ MakesModel(TakenOver(c))
    <2>1. PostgresPython(c) \in Programs(e) /\ MakesModel(PostgresPython(c))
      <3> DEFINE most == <<Tidy("frame"), Swap("frame")>> \o Try(Contract(c), "frame")
      <3>1. most \in Programs(e) /\ MakesModel(most)
        BY <1>4, <1>5, Concatenation
      <3>2. PostgresPython(c) = most \o <<Tidy("frame")>>
        BY DEF PostgresPython
      <3> HIDE DEF most
      <3> QED BY <1>4, <3>1, <3>2, Concatenation
    <2>2. SnowflakePython(c) \in Programs(e) /\ MakesModel(SnowflakePython(c))
      <3> DEFINE most == <<Put("frame", "raw")>> \o Try(Contract(c), "frame")
      <3>1. most \in Programs(e) /\ MakesModel(most)
        BY <1>4, <1>5, Concatenation
      <3>2. /\ <<Put("model", "raw")>> \o VerifyAfter(c) \in Programs(e)
            /\ MakesModel(<<Put("model", "raw")>> \o VerifyAfter(c))
        BY <1>1, <1>4, Concatenation
      <3> HIDE DEF most
      <3>3. most \o <<Tidy("frame")>> \in Programs(e) /\ MakesModel(most \o <<Tidy("frame")>>)
        BY <1>4, <3>1, Concatenation
      <3> QED BY <3>2, <3>3 DEF SnowflakePython, most
    <2> QED BY <1>1, <2>1, <2>2 DEF TakenOver
  <1>7. PyTable(c) \in Programs(e) /\ MakesModel(PyTable(c))
    <2>1. /\ Frame(e, "model") \o VerifyAfter(c) \in Programs(e)
          /\ MakesModel(Frame(e, "model") \o VerifyAfter(c))
      BY <1>1, <1>2, Concatenation
    <2>2. /\ TakenOver(c) \o VerifyAfter(c) \in Programs(e)
          /\ MakesModel(TakenOver(c) \o VerifyAfter(c))
      BY <1>1, <1>6, Concatenation
    <2> QED BY <1>4, <2>1, <2>2 DEF PyTable, e
  <1>8. PyView(c) \in Programs(e) /\ MakesModel(PyView(c))
    <2> DEFINE most == Frame(e, "backing") \o <<View("backing")>>
    <2>1. most \in Programs(e) /\ MakesModel(most)
      BY <1>2, <1>4, Concatenation
    <2>2. PyView(c) = most \o VerifyAfter(c)
      BY DEF PyView, e
    <2> HIDE DEF most
    <2> QED BY <1>1, <2>1, <2>2, Concatenation
  <1>9. PyIncremental(c) \in Programs(e) /\ MakesModel(PyIncremental(c))
    BY <1>1, <1>2, Concatenation DEF PyIncremental, e
  <1>10. LoadSeed(c) \in Programs(e) /\ MakesModel(LoadSeed(c))
    <2>1. CASE e = "postgres"
      <3>1. Drop("model") \in Statements(e)
        BY <1>0, <2>1, SingleStatements DEF Atomic
      <3>2. <<Drop("model"), Swap("model")>> \in Programs(e) /\ MakesModel(<<Drop("model"), Swap("model")>>)
        BY <1>3, <3>1, ShortPrograms
      <3> QED BY <2>1, <3>2 DEF LoadSeed, PostgresSeed, e
    <2>2. CASE e \in Spark
      <3>1. Save(e, "model", "raw") \in Programs(e) /\ MakesModel(Save(e, "model", "raw"))
        BY <1>0, <2>2, SavePrograms
      <3> QED BY <2>2, <3>1 DEF LoadSeed, SparkSeed, Spark, e
    <2>3. CASE e \in {"duckdb", "snowflake", "bigquery"}
      BY <1>4, <2>3 DEF LoadSeed, SnowflakeSeed, DuckSeed, BigQuerySeed, e
    <2> QED BY <1>0, <2>1, <2>2, <2>3 DEF Engines, Spark
  <1> QED BY <1>7, <1>8, <1>9, <1>10 DEF e

\* Every program consists of statements of its engine, and makes the model unless
\* the model is ephemeral.
LEMMA ModelPrograms ==
  ASSUME NEW c \in Config, NEW exists \in BOOLEAN
  PROVE  /\ Program(c, exists) \in Programs(c.engine)
         /\ c.kind # "ephemeral" => MakesModel(Program(c, exists))
         /\ c.kind = "ephemeral" => Program(c, exists) = <<>>
  <1>1. /\ <<>> \in Programs(c.engine) /\ <<Refuse>> \in Programs(c.engine)
        /\ MakesModel(<<Refuse>>)
    <2>1. Refuse \in Statements(c.engine) /\ Makes(Refuse)
      BY SingleStatements DEF Rels, Hows
    <2> QED BY <2>1, ShortPrograms
  <1>2. c.kind \in Kinds
    BY DEF Config
  <1> QED BY <1>1, <1>2, SqlPrograms, PythonPrograms DEF Program, Kinds

-----------------------------------------------------------------------------
(* The catalog, statement by statement.                                    *)

Typed == /\ TypeOK /\ cfg \in Config /\ prog \in Programs(cfg.engine)
         /\ out \in [col : Columns, extra : BOOLEAN]
         /\ pc = "run" => run >= 1

LEMMA NextStatement ==
  ASSUME NEW e, NEW p \in Programs(e), p # <<>>
  PROVE  /\ Head(p) \in Statements(e) /\ Tail(p) \in Programs(e)
         /\ MakesModel(p) /\ ~Makes(Head(p)) => MakesModel(Tail(p))
  <1>1. Head(p) \in Statements(e) /\ Tail(p) \in Programs(e) /\ Head(p) = p[1]
    BY DEF Programs
  <1>2. ASSUME NEW i \in DOMAIN p, Makes(p[i]), ~Makes(Head(p))
        PROVE  MakesModel(Tail(p))
    <2>1. i # 1 /\ i \in 1..Len(p)
      BY <1>1, <1>2 DEF Programs
    <2>2. i - 1 \in DOMAIN Tail(p) /\ Tail(p)[i - 1] = p[i]
      BY <2>1 DEF Programs
    <2> QED BY <1>2, <2>2 DEF MakesModel
  <1> QED BY <1>1, <1>2 DEF MakesModel

\* Dropping relations, with the views a Postgres drop takes along.
LEMMA Dropping ==
  ASSUME Typed, NEW rels \in SUBSET Rels
  PROVE  /\ Without(Gone(rels)) \in [Rels -> Relations]
         /\ Without(Gone(rels))["model"] \in {cat["model"], Absent}
         /\ cfg.engine \in Atomic /\ "model" \notin rels =>
              Without(Gone(rels))["model"] = cat["model"]
  <1>1. Absent \in Relations
    BY MaxRunsAssumption DEF Absent, Relations
  <1>2. cat \in [Rels -> Relations] /\ "model" \in Rels
    BY DEF Typed, TypeOK, Rels
  <1>3. cfg.engine \in Atomic => Gone(rels) = rels
    BY DEF Gone, Atomic
  <1> QED BY <1>1, <1>2, <1>3 DEF Without

LEMMA Applying ==
  ASSUME Typed, pc = "run", NEW s \in Statements(cfg.engine), s.op # "refuse"
  PROVE  /\ Applied(s) \in [Rels -> Relations]
         /\ Makes(s) => Applied(s)["model"].gen = run
         /\ ~Makes(s) => Applied(s)["model"] \in {cat["model"], Absent}
         /\ cfg.engine \in Atomic /\ cat["model"] # Absent => Applied(s)["model"] # Absent
  <1>0. /\ cat \in [Rels -> Relations] /\ "model" \in Rels /\ s.rel \in Rels /\ s.op \in Ops
        /\ run \in 0..MaxRuns /\ run >= 1 /\ MaxRuns \in Nat
    BY MaxRunsAssumption DEF Typed, TypeOK, Rels, Statements
  <1>1. CASE s.op \in {"drop", "tidy"}
    <2>1. Applied(s) = Without(Gone({s.rel}))
      BY <1>1 DEF Applied
    <2>2. ~Makes(s) /\ (cfg.engine \in Atomic => s.rel # "model")
      BY <1>1 DEF Makes, Statements
    <2> QED BY <1>0, <2>1, <2>2, Dropping
  <1>2. CASE s.op \in {"create", "put", "swap"}
    <2>1. Table(s.how) \in Relations
      <3>1. (IF s.how = "cast" THEN "declared" ELSE out.col) \in Columns
        BY DEF Typed, Columns
      <3>2. (out.extra /\ (s.how = "cast" => cfg.extraOk)) \in BOOLEAN
        OBVIOUS
      <3> QED BY <1>0, <3>1, <3>2 DEF Table, Relations
    <2>2. Table(s.how).gen = run /\ Table(s.how) # Absent
      BY <1>0 DEF Table, Absent
    <2>3. Applied(s) = [cat EXCEPT ![s.rel] = Table(s.how)]
      BY <1>2 DEF Applied
    <2>4. Makes(s) <=> s.rel = "model"
      BY <1>2 DEF Makes
    <2> QED BY <1>0, <2>1, <2>2, <2>3, <2>4
  <1>3. CASE s.op = "insert"
    <2>1. Applied(s) = [cat EXCEPT ![s.rel] = [cat[s.rel] EXCEPT !.gen = run]]
      BY <1>3 DEF Applied
    <2>2. \A r \in Relations : /\ [r EXCEPT !.gen = run] \in Relations
                               /\ [r EXCEPT !.gen = run].gen = run
      BY <1>0 DEF Relations
    <2>3. \A r \in Relations : [r EXCEPT !.gen = run] # Absent
      BY <1>0, <2>2 DEF Absent
    <2>4. Makes(s) <=> s.rel = "model"
      BY <1>3 DEF Makes
    <2> QED BY <1>0, <2>1, <2>2, <2>3, <2>4
  <1>4. CASE s.op = "rename"
    <2>1. Applied(s) = Without({"scratch"})
      BY <1>4 DEF Applied
    <2>2. Without({"scratch"}) \in [Rels -> Relations]
      BY <1>0 DEF Without, Absent, Relations
    <2> QED BY <1>0, <1>4, <2>1, <2>2 DEF Without, Makes
  <1>5. CASE s.op = "view"
    <2>1. s.rel = "model" /\ s.how \in {"select", "backing"}
      BY <1>5 DEF Statements
    <2>2. ViewOver(s.how) \in Relations
      BY <1>0, <2>1 DEF ViewOver, Relations, Typed
    <2>3. ViewOver(s.how).gen = run /\ ViewOver(s.how) # Absent
      BY <1>0 DEF ViewOver, Absent
    <2>4. Applied(s) = [Without(Gone({"model"})) EXCEPT !["model"] = ViewOver(s.how)]
      BY <1>5, <2>1 DEF Applied
    <2>5. Without(Gone({"model"})) \in [Rels -> Relations]
      BY <1>0, Dropping
    <2> QED BY <1>0, <1>5, <2>1, <2>2, <2>3, <2>4, <2>5 DEF Makes
  <1>6. CASE s.op \in {"verify", "query"}
    BY <1>0, <1>6 DEF Applied, Makes
  <1> QED BY <1>0, <1>1, <1>2, <1>3, <1>4, <1>5, <1>6 DEF Ops

-----------------------------------------------------------------------------
(* The invariant: what the model relation holds at each place of a run.    *)

\* Neither the relation nor the row is newer than the run.
NotNewer == cat["model"].gen <= run /\ meta <= run

\* An ephemeral model has no relation.
NoRelation == cfg.kind = "ephemeral" => cat["model"] = Absent /\ prog = <<>>

\* As long as the relation is an old one the program still has to make it.
StillToMake ==
  pc = "run" /\ cat["model"] # Absent /\ cat["model"].gen # run => MakesModel(prog)

BuiltIsNew == pc = "built" => run \in good /\ (cat["model"] # Absent => cat["model"].gen = run)

IInv == Typed /\ NotNewer /\ NoRelation /\ StillToMake /\ BuiltIsNew /\ RowNotAhead

LEMMA InitInv == Init => IInv
  <1> SUFFICES ASSUME Init PROVE IInv
    OBVIOUS
  <1>1. Absent \in Relations /\ Absent.gen = 0 /\ "model" \in Rels
    BY MaxRunsAssumption DEF Absent, Relations, Rels
  <1>2. Typed
    <2>1. cfg \in Config
      BY ConfigsAssumption DEF Init, Config
    <2>2. prog \in Programs(cfg.engine)
      BY DEF Init, Programs
    <2> QED BY <1>1, <2>1, <2>2, MaxRunsAssumption DEF Init, Typed, TypeOK, Columns
  <1> QED BY <1>1, <1>2 DEF Init, IInv, NotNewer, NoRelation, StillToMake, BuiltIsNew, RowNotAhead

LEMMA StartStep == ASSUME IInv, NEW o \in Outs, StartRun(o) PROVE IInv'
  <1> DEFINE exists == cat["model"].kind # "none"
  <1>0. /\ cfg \in Config /\ exists \in BOOLEAN /\ prog' = Program(cfg, exists) /\ cfg' = cfg
        /\ cat' = cat /\ run' = run + 1 /\ run \in Nat /\ cat \in [Rels -> Relations]
        /\ "model" \in Rels
    BY MaxRunsAssumption DEF StartRun, IInv, Typed, TypeOK, Rels
  <1> HIDE DEF exists
  <1>1. /\ prog' \in Programs(cfg.engine)
        /\ cfg.kind # "ephemeral" => MakesModel(prog)'
        /\ cfg.kind = "ephemeral" => prog' = <<>>
    BY <1>0, ModelPrograms DEF MakesModel
  <1>2. Typed'
    BY <1>0, <1>1, MaxRunsAssumption, OutsAssumption DEF StartRun, IInv, Typed, TypeOK
  <1>3. NotNewer' /\ NoRelation' /\ StillToMake' /\ BuiltIsNew'
    <2>1. cat["model"].gen \in Nat /\ meta \in Nat
      BY <1>0, MaxRunsAssumption DEF Relations, IInv, Typed, TypeOK
    <2> QED BY <1>0, <1>1, <2>1 DEF StartRun, IInv, NotNewer, NoRelation, StillToMake, BuiltIsNew
  <1>4. RowNotAhead'
    BY DEF StartRun, IInv, RowNotAhead
  <1> QED BY <1>2, <1>3, <1>4 DEF IInv

LEMMA ExecuteStep == ASSUME IInv, Execute PROVE IInv'
  <1> DEFINE s == Head(prog)
  <1>0. /\ pc = "run" /\ prog # <<>> /\ cat' = Applied(s) /\ prog' = Tail(prog)
        /\ s.op # "refuse" /\ UNCHANGED <<cfg, out, run, pc, why, meta, good>>
    BY DEF Execute, Possible, result
  <1>1. /\ s \in Statements(cfg.engine) /\ prog' \in Programs(cfg.engine)
        /\ MakesModel(prog) /\ ~Makes(s) => MakesModel(prog)'
    <2>1. prog \in Programs(cfg.engine)
      BY DEF IInv, Typed
    <2> QED BY <1>0, <2>1, NextStatement DEF MakesModel
  <1> HIDE DEF s
  <1>2. /\ cat' \in [Rels -> Relations]
        /\ Makes(s) => cat'["model"].gen = run
        /\ ~Makes(s) => cat'["model"] \in {cat["model"], Absent}
    BY <1>0, <1>1, Applying DEF IInv
  <1>3. Typed'
    BY <1>0, <1>1, <1>2 DEF IInv, Typed, TypeOK
  <1>4. run \in Nat /\ Absent.gen = 0 /\ cfg.kind # "ephemeral" /\ meta \in Nat
    BY <1>0, MaxRunsAssumption DEF IInv, Typed, TypeOK, Absent, NoRelation
  <1>5. NotNewer' /\ NoRelation' /\ BuiltIsNew'
    BY <1>0, <1>2, <1>4 DEF IInv, NotNewer, NoRelation, BuiltIsNew
  <1>6. StillToMake'
    BY <1>0, <1>1, <1>2 DEF IInv, StillToMake
  <1>7. RowNotAhead'
    BY <1>0, <1>2 DEF IInv, RowNotAhead, NotNewer
  <1> QED BY <1>3, <1>5, <1>6, <1>7 DEF IInv

LEMMA VerifyStep == ASSUME IInv, VerifyPasses PROVE IInv'
  <1>0. /\ pc = "run" /\ prog # <<>> /\ Head(prog).op = "verify" /\ prog' = Tail(prog)
        /\ UNCHANGED <<cfg, cat, out, run, pc, why, meta, good, bytes, overran, died>>
    BY DEF VerifyPasses, result, stats
  <1>1. /\ prog' \in Programs(cfg.engine) /\ (MakesModel(prog) => MakesModel(prog)')
    <2>1. prog \in Programs(cfg.engine) /\ ~Makes(Head(prog))
      BY <1>0 DEF IInv, Typed, Makes
    <2> QED BY <1>0, <2>1, NextStatement DEF MakesModel
  <1>2. Typed'
    BY <1>0, <1>1 DEF IInv, Typed, TypeOK
  <1> QED BY <1>0, <1>1, <1>2 DEF IInv, NotNewer, NoRelation, StillToMake, BuiltIsNew, RowNotAhead

LEMMA FailStep ==
  ASSUME IInv, pc = "run", prog # <<>>, NEW reason \in {"verify", "guard", "statement"},
         Fail(reason)
  PROVE  IInv'
  <1>0. /\ cat' = Without(Gone(Head(prog).undo)) /\ prog' = <<>> /\ pc' = "failed"
        /\ why' = reason /\ UNCHANGED <<cfg, out, run, meta, good>>
    BY DEF Fail
  <1>1. Head(prog).undo \in SUBSET Rels
    <2>1. Head(prog) \in Statements(cfg.engine)
      BY NextStatement DEF IInv, Typed
    <2> QED BY <2>1 DEF Statements
  <1>2. cat' \in [Rels -> Relations] /\ cat'["model"] \in {cat["model"], Absent}
    BY <1>0, <1>1, Dropping DEF IInv
  <1>3. Typed'
    <2>1. prog' \in Programs(cfg.engine)
      BY <1>0 DEF Programs
    <2> QED BY <1>0, <1>2, <2>1 DEF IInv, Typed, TypeOK
  <1>4. Absent.gen = 0 /\ run \in Nat
    BY MaxRunsAssumption DEF Absent, IInv, Typed, TypeOK
  <1> QED BY <1>0, <1>2, <1>3, <1>4 DEF IInv, NotNewer, NoRelation, StillToMake, BuiltIsNew, RowNotAhead

LEMMA OtherSteps ==
  ASSUME IInv, Crash \/ Finish \/ OnNodeBuilt \/ BuildDependent \/ UNCHANGED vars
  PROVE  IInv'
  <1> USE DEF IInv, NotNewer, NoRelation, StillToMake, BuiltIsNew, RowNotAhead, result, stats
  <1>0. <<>> \in Programs(cfg.engine) /\ ~MakesModel(<<>>)
    BY DEF Programs, MakesModel
  <1>1. CASE Crash
    <2>1. Typed'
      BY <1>0, <1>1 DEF Crash, Typed, TypeOK
    <2> QED BY <1>1, <2>1 DEF Crash
  <1>2. CASE Finish
    <2>1. Typed'
      BY <1>2, MaxRunsAssumption DEF Finish, Typed, TypeOK
    <2>2. cat["model"] # Absent => cat["model"].gen = run
      BY <1>0, <1>2 DEF Finish
    <2> QED BY <1>2, <2>1, <2>2 DEF Finish
  <1>3. CASE OnNodeBuilt
    <2>1. meta' \in {meta, run, 0} /\ run \in 0..MaxRuns
      BY <1>3 DEF OnNodeBuilt, Upserted, Typed, TypeOK
    <2>2. Typed'
      BY <1>3, <2>1, MaxRunsAssumption DEF OnNodeBuilt, Typed, TypeOK
    <2> QED BY <1>3, <2>1, <2>2, MaxRunsAssumption DEF OnNodeBuilt
  <1>4. CASE BuildDependent
    <2>1. [kind |-> "view", col |-> "declared", extra |-> FALSE, gen |-> 0, over |-> "model"] \in Relations
      BY MaxRunsAssumption DEF Relations, Columns
    <2>2. cat' \in [Rels -> Relations] /\ cat'["model"] = cat["model"]
      BY <1>4, <2>1 DEF BuildDependent, Typed, TypeOK, Rels
    <2>3. Typed'
      BY <1>4, <2>2 DEF BuildDependent, Typed, TypeOK
    <2> QED BY <1>4, <2>2, <2>3 DEF BuildDependent
  <1>5. CASE UNCHANGED vars
    BY <1>5 DEF vars, Typed, TypeOK
  <1> QED BY <1>1, <1>2, <1>3, <1>4, <1>5

\* What a model's relation and its row in _ff_meta hold at each place of a run.
THEOREM MaterializeInvariance == Spec => []IInv
  <1>1. IInv /\ [Next]_vars => IInv'
    <2>1. ASSUME IInv, VerifyFails \/ StatementFails
          PROVE  IInv'
      BY <2>1, FailStep DEF VerifyFails, StatementFails
    <2> QED BY <2>1, StartStep, ExecuteStep, VerifyStep, OtherSteps DEF Next
  <1> QED BY <1>1, InitInv, PTL DEF Spec

\* The variables keep their types, for every set of models, engines and outputs.
THEOREM MaterializeTypes == Spec => []TypeOK
  <1>1. IInv => TypeOK
    BY DEF IInv, Typed
  <1> QED BY <1>1, MaterializeInvariance, PTL

\* on_node_built (meta.py) never runs ahead of run_sql and run_python: the row names a
\* run that was built, and the relation, where it is, is that run's or a later one's.
THEOREM RowIsNotAhead == Spec => []RowNotAhead
  <1>1. IInv => RowNotAhead
    BY DEF IInv
  <1> QED BY <1>1, MaterializeInvariance, PTL

\* On DuckDB, Snowflake and BigQuery no statement, failure or crash takes a model away
\* that has once been built.
THEOREM ModelStays == Spec => NeverVanishes
  <1> DEFINE Stays == cfg.engine \in {"duckdb", "snowflake", "bigquery"} /\ cat["model"] # Absent
                        => cat'["model"] # Absent
  <1>1. ASSUME IInv, [Next]_vars, cfg.engine \in Atomic, cat["model"] # Absent
        PROVE  cat'["model"] # Absent
    <2>1. CASE Execute
      <3>1. Head(prog) \in Statements(cfg.engine)
        BY <1>1, <2>1, NextStatement DEF Execute, IInv, Typed
      <3> QED BY <1>1, <2>1, <3>1, Applying DEF Execute, Possible, IInv
    <2>2. CASE VerifyFails \/ StatementFails
      <3>1. Head(prog) \in Statements(cfg.engine) /\ cat' = Without(Gone(Head(prog).undo))
        BY <1>1, <2>2, NextStatement DEF VerifyFails, StatementFails, Fail, IInv, Typed
      <3>2. Head(prog).undo \in SUBSET Rels /\ "model" \notin Head(prog).undo
        BY <1>1, <3>1 DEF Statements
      <3> QED BY <1>1, <3>1, <3>2, Dropping DEF IInv
    <2>3. CASE BuildDependent
      BY <1>1, <2>3 DEF BuildDependent, IInv, Typed, TypeOK, Rels
    <2>4. CASE cat' = cat
      BY <1>1, <2>4
    <2> QED BY <1>1, <2>1, <2>2, <2>3, <2>4
            DEF Next, StartRun, VerifyPasses, Crash, Finish, OnNodeBuilt, vars
  <1>2. IInv /\ [Next]_vars => [Stays]_vars
    BY <1>1 DEF Atomic
  <1> QED BY <1>2, MaterializeInvariance, PTL DEF Spec, NeverVanishes

-----------------------------------------------------------------------------
(* What a program leaves.  A statement is told by what it does, to what,   *)
(* and how; asking the guard first or undoing it makes no difference here. *)

Triples == Ops \X Rels \X Hows
Is(s) == <<s.op, s.rel, s.how>>

\* One of the program's statements is in B.
AnyOf(p, B) == \E i \in DOMAIN p : Is(p[i]) \in B
\* The program comes to a statement in A, before it to none in V, after it to none in B.
Passes(p, V, A, B) ==
  \E j \in DOMAIN p : /\ Is(p[j]) \in A
                      /\ \A i \in DOMAIN p : /\ i < j => Is(p[i]) \notin V
                                             /\ i > j => Is(p[i]) \notin B

Verifies == {t \in Triples : t[1] = "verify"}
Inserts == {t \in Triples : t[1] = "insert"}
Fills(rel) == {t \in Triples : t[1] \in {"create", "put", "swap", "insert"} /\ t[2] = rel}
Drops(rel) == {t \in Triples : t[1] \in {"drop", "tidy"} /\ t[2] = rel}
Tidies(rel) == {t \in Triples : t[1] = "tidy" /\ t[2] = rel}
Removes(rel) == Drops(rel) \union {t \in Triples : rel = "scratch" /\ t[1] = "rename"}
\* What can change the model, the loss of what a view rests on included.
Touches == {t \in Triples : \/ t[1] \in {"drop", "tidy", "create", "put", "swap", "insert"} /\ t[2] = "model"
                            \/ t[1] = "view"} \union Drops("backing")
\* What makes it a view or a table, or never gets through.
Makers(kind) == {t \in Triples : t[1] = "refuse"} \union
                  (IF kind = "view" THEN {t \in Triples : t[1] = "view"} ELSE Fills("model"))
WrongMakers(kind) == IF kind = "view" THEN Fills("model") ELSE {t \in Triples : t[1] = "view"}
CastMakers == {t \in Triples : t[1] \in {"create", "put"} /\ t[2] = "model" /\ t[3] = "cast"}
Refreshes == Fills("backing") \union Drops("backing")

\* From the next statement on, a failure drops rel, until it is tidied away.
Covered(p, rel) ==
  \E j \in DOMAIN p : Is(p[j]) \in Tidies(rel) /\ \A k \in DOMAIN p : k < j => rel \in p[k].undo
\* So it is after each statement that fills rel.
Safe(p, rel) ==
  \A i \in DOMAIN p : Is(p[i]) \in Fills(rel) =>
    \E j \in DOMAIN p : /\ j > i /\ Is(p[j]) \in Tidies(rel)
                        /\ \A k \in DOMAIN p : k > i /\ k < j => rel \in p[k].undo

Temps == {"scratch", "frame"}
Finally(e) == e \notin {"duckdb", "sparkPath"}
KindOf(c) == IF c.kind \in {"view", "pyView"} THEN "view" ELSE "table"
Contracted(c) == /\ Enforced(c) /\ c.kind \notin {"view", "ephemeral", "snapshot", "seed"}
                 /\ ~(c.kind = "ddl" /\ c.engine = "duckdb")
Settles(c) == c.mode = "cast" /\ c.kind \in {"table", "ddl", "pyTable"}
             /\ ~(c.kind = "pyTable" /\ c.engine = "bigquery")

\* The invariant, on top of IInv.
Accepted == cat["model"].col = "declared" /\ (cfg.extraOk \/ ~cat["model"].extra)

\* Only the model and its dependent are views, and the model is of its kind.
Kindly ==
  /\ \A r \in Rels \ {"model", "dependent"} : cat[r].kind # "view"
  /\ cat["model"].kind \in {"none", Kind}
  /\ pc = "run" => ~AnyOf(prog, WrongMakers(Kind))

\* The model is going to be made, or it is and stays so.
Delivers ==
  /\ pc = "run" /\ cfg.kind # "ephemeral" =>
       \/ Passes(prog, {}, Makers(Kind), Touches)
       \/ ~AnyOf(prog, Touches) /\ cat["model"].kind = Kind /\ cat["model"].gen = run
  /\ pc = "run" /\ AnyOf(prog, Inserts) =>
       Is(Head(prog)) \in Inserts /\ ~AnyOf(Tail(prog), Inserts) /\ cat["model"].kind # "none"
  /\ pc = "run" /\ cfg.kind = "pyView" =>
       \/ Passes(prog, {}, Fills("backing"), Refreshes)
       \/ ~AnyOf(prog, Refreshes) /\ cat["backing"].gen = run

\* The contract is going to be verified, or it has been.
Verified ==
  pc = "run" /\ UnderContract =>
    Passes(prog, {}, Verifies, Triples) \/ (prog = <<>> /\ Accepted)

\* What is going to be verified is cast first, or it has been.
Settled ==
  pc = "run" /\ CastMode =>
    \/ ~AnyOf(prog, Verifies)
    \/ Passes(prog, Verifies, CastMakers, Touches)
    \/ ~AnyOf(prog, Touches) /\ Accepted

\* What a run fills for itself it removes again, or has removed.
Tidied ==
  pc = "run" => \A rel \in Temps :
    \/ Passes(prog, {}, Removes(rel), Fills(rel))
    \/ ~AnyOf(prog, Fills(rel)) /\ cat[rel] = Absent

\* What a broken run left is filled again by the next; an incremental model whose
\* files were left aside has no table, so that the next run makes it anew.
Strays ==
  \A rel \in Temps :
    cat[rel] # Absent \/ (pc = "run" /\ AnyOf(prog, Fills(rel))) =>
      /\ AnyOf(Program(cfg, FALSE), Fills(rel))
      /\ cfg.kind = "incremental" =>
           /\ cat["model"].kind = "none"
           /\ pc = "run" => Passes(prog, Fills("model"), Removes(rel), Fills(rel))

\* Where there is a finally clause, nothing outlives a failure.
Guarded ==
  ~died /\ Finally(cfg.engine) =>
    /\ pc # "crashed"
    /\ \A rel \in Temps :
         IF pc = "run" THEN Safe(prog, rel) /\ (cat[rel] # Absent => Covered(prog, rel))
                       ELSE cat[rel] = Absent

JInv == /\ Kindly /\ Delivers /\ Verified /\ Settled /\ Tidied /\ Strays /\ Guarded
        /\ ContractHolds /\ CastSettlesTypes /\ SuccessIsThere /\ LeavesNoScratch

-----------------------------------------------------------------------------
(* How these predicates go through the makings of programs.                *)

\* A sequence is its length and its elements.
LEMMA SameSequence ==
  ASSUME NEW T, NEW a \in Seq(T), NEW b \in Seq(T), Len(a) = Len(b), \A i \in 1..Len(b) : a[i] = b[i]
  PROVE  a = b
OBVIOUS

LEMMA Positions ==
  ASSUME NEW e, NEW p \in Programs(e), NEW q \in Programs(e)
  PROVE  /\ DOMAIN p = 1..Len(p) /\ DOMAIN q = 1..Len(q) /\ Len(p) \in Nat /\ Len(q) \in Nat
         /\ DOMAIN (p \o q) = 1..(Len(p) + Len(q))
         /\ \A i \in DOMAIN p : i \in DOMAIN (p \o q) /\ (p \o q)[i] = p[i]
         /\ \A i \in DOMAIN q : Len(p) + i \in DOMAIN (p \o q) /\ (p \o q)[Len(p) + i] = q[i]
         /\ \A i \in DOMAIN (p \o q) :
              \/ i \in DOMAIN p
              \/ i > Len(p) /\ i - Len(p) \in DOMAIN q /\ (p \o q)[i] = q[i - Len(p)]
BY DEF Programs

LEMMA Joining ==
  ASSUME NEW e, NEW p \in Programs(e), NEW q \in Programs(e)
  PROVE  /\ \A B : ~AnyOf(p, B) /\ ~AnyOf(q, B) => ~AnyOf(p \o q, B)
         /\ \A V, A, B : Passes(q, V, A, B) /\ ~AnyOf(p, V) => Passes(p \o q, V, A, B)
         /\ \A V, A, B : Passes(p, V, A, B) /\ ~AnyOf(q, B) => Passes(p \o q, V, A, B)
         /\ \A rel : Safe(p, rel) /\ Safe(q, rel) => Safe(p \o q, rel)
  <1> DEFINE pq == p \o q
  <1>0. /\ DOMAIN p = 1..Len(p) /\ DOMAIN q = 1..Len(q) /\ Len(p) \in Nat /\ Len(q) \in Nat
        /\ DOMAIN pq = 1..(Len(p) + Len(q))
        /\ \A i \in DOMAIN p : i \in DOMAIN pq /\ pq[i] = p[i]
        /\ \A i \in DOMAIN q : Len(p) + i \in DOMAIN pq /\ pq[Len(p) + i] = q[i]
        /\ \A i \in DOMAIN pq : \/ i \in DOMAIN p
                                \/ i > Len(p) /\ i - Len(p) \in DOMAIN q /\ pq[i] = q[i - Len(p)]
    BY Positions
  <1> HIDE DEF pq
  <1>1. ASSUME NEW B, ~AnyOf(p, B), ~AnyOf(q, B) PROVE ~AnyOf(pq, B)
    BY <1>0, <1>1 DEF AnyOf
  <1>2. ASSUME NEW V, NEW A, NEW B, Passes(q, V, A, B), ~AnyOf(p, V) PROVE Passes(pq, V, A, B)
    <2>1. PICK j \in DOMAIN q : /\ Is(q[j]) \in A
                                /\ \A i \in DOMAIN q : /\ i < j => Is(q[i]) \notin V
                                                       /\ i > j => Is(q[i]) \notin B
      BY <1>2 DEF Passes
    <2>2. Len(p) + j \in DOMAIN pq /\ Is(pq[Len(p) + j]) \in A
      BY <1>0, <2>1
    <2>3. ASSUME NEW i \in DOMAIN pq
          PROVE  /\ i < Len(p) + j => Is(pq[i]) \notin V
                 /\ i > Len(p) + j => Is(pq[i]) \notin B
      <3>1. CASE i \in DOMAIN p
        BY <1>0, <1>2, <2>1, <3>1 DEF AnyOf
      <3>2. CASE i > Len(p) /\ i - Len(p) \in DOMAIN q /\ pq[i] = q[i - Len(p)]
        <4>1. /\ i < Len(p) + j => i - Len(p) < j
              /\ i > Len(p) + j => i - Len(p) > j
          BY <1>0, <2>1, <3>2
        <4> QED BY <2>1, <3>2, <4>1
      <3> QED BY <1>0, <3>1, <3>2
    <2> QED BY <2>2, <2>3 DEF Passes
  <1>3. ASSUME NEW V, NEW A, NEW B, Passes(p, V, A, B), ~AnyOf(q, B) PROVE Passes(pq, V, A, B)
    <2>1. PICK j \in DOMAIN p : /\ Is(p[j]) \in A
                                /\ \A i \in DOMAIN p : /\ i < j => Is(p[i]) \notin V
                                                       /\ i > j => Is(p[i]) \notin B
      BY <1>3 DEF Passes
    <2>2. j \in DOMAIN pq /\ Is(pq[j]) \in A
      BY <1>0, <2>1
    <2>3. ASSUME NEW i \in DOMAIN pq
          PROVE  (i < j => Is(pq[i]) \notin V) /\ (i > j => Is(pq[i]) \notin B)
      <3>1. CASE i \in DOMAIN p
        BY <1>0, <2>1, <3>1
      <3>2. CASE i > Len(p) /\ i - Len(p) \in DOMAIN q /\ pq[i] = q[i - Len(p)]
        <4>1. ~(i < j)
          BY <1>0, <2>1, <3>2
        <4> QED BY <1>3, <3>2, <4>1 DEF AnyOf
      <3> QED BY <1>0, <3>1, <3>2
    <2> QED BY <2>2, <2>3 DEF Passes
  <1>4. ASSUME NEW rel, Safe(p, rel), Safe(q, rel) PROVE Safe(pq, rel)
    <2> SUFFICES ASSUME NEW i \in DOMAIN pq, Is(pq[i]) \in Fills(rel)
                 PROVE  \E j \in DOMAIN pq :
                          /\ j > i /\ Is(pq[j]) \in Tidies(rel)
                          /\ \A k \in DOMAIN pq : k > i /\ k < j => rel \in pq[k].undo
      BY DEF Safe
    <2>1. CASE i \in DOMAIN p
      <3>1. PICK j \in DOMAIN p : /\ j > i /\ Is(p[j]) \in Tidies(rel)
                                  /\ \A k \in DOMAIN p : k > i /\ k < j => rel \in p[k].undo
        BY <1>0, <1>4, <2>1 DEF Safe
      <3>2. \A k \in DOMAIN pq : k > i /\ k < j => k \in DOMAIN p
        BY <1>0, <2>1, <3>1
      <3> QED BY <1>0, <3>1, <3>2
    <2>2. CASE i > Len(p) /\ i - Len(p) \in DOMAIN q /\ pq[i] = q[i - Len(p)]
      <3>1. PICK j \in DOMAIN q : /\ j > i - Len(p) /\ Is(q[j]) \in Tidies(rel)
                                  /\ \A k \in DOMAIN q : k > i - Len(p) /\ k < j => rel \in q[k].undo
        BY <1>4, <2>2 DEF Safe
      <3>2. /\ Len(p) + j \in DOMAIN pq /\ Len(p) + j > i /\ Is(pq[Len(p) + j]) \in Tidies(rel)
        BY <1>0, <2>2, <3>1
      <3>3. ASSUME NEW k \in DOMAIN pq, k > i, k < Len(p) + j PROVE rel \in pq[k].undo
        <4>1. k \notin DOMAIN p
          BY <1>0, <2>2, <3>3
        <4>2. k - Len(p) \in DOMAIN q /\ pq[k] = q[k - Len(p)]
          BY <1>0, <4>1
        <4>3. k - Len(p) > i - Len(p) /\ k - Len(p) < j
          BY <1>0, <2>2, <3>1, <3>3
        <4> QED BY <3>1, <4>2, <4>3
      <3> QED BY <3>2, <3>3
    <2> QED BY <1>0, <2>1, <2>2
  <1> QED BY <1>1, <1>2, <1>3, <1>4 DEF pq

\* Asking the guard first and undoing on a failure.
LEMMA Dressing ==
  ASSUME NEW e, NEW p \in Programs(e), NEW q, NEW rel \in Rels,
         q = Asked(p) \/ q = Try(p, rel)
  PROVE  /\ \A B : AnyOf(q, B) <=> AnyOf(p, B)
         /\ \A V, A, B : Passes(p, V, A, B) => Passes(q, V, A, B)
         /\ \A r : Safe(p, r) => Safe(q, r)
  <1>1. ASSUME NEW s \in Statements(e)
        PROVE  /\ Is([s EXCEPT !.asked = TRUE]) = Is(s)
               /\ [s EXCEPT !.asked = TRUE].undo = s.undo
               /\ Is([s EXCEPT !.undo = @ \union {rel}]) = Is(s)
               /\ s.undo \subseteq [s EXCEPT !.undo = @ \union {rel}].undo
    BY DEF Statements, Is
  <1>2. /\ DOMAIN q = DOMAIN p
        /\ \A i \in DOMAIN p : \/ q[i] = [p[i] EXCEPT !.asked = TRUE]
                               \/ q[i] = [p[i] EXCEPT !.undo = @ \union {rel}]
    BY DEF Asked, Try
  <1>3. \A i \in DOMAIN p : p[i] \in Statements(e)
    BY DEF Programs
  <1>4. \A i \in DOMAIN p : Is(q[i]) = Is(p[i]) /\ p[i].undo \subseteq q[i].undo
    BY <1>1, <1>2, <1>3
  <1>5. \A B : AnyOf(q, B) <=> AnyOf(p, B)
    BY <1>2, <1>4 DEF AnyOf
  <1>6. \A V, A, B : Passes(p, V, A, B) => Passes(q, V, A, B)
    BY <1>2, <1>4 DEF Passes
  <1>7. ASSUME NEW r, Safe(p, r) PROVE Safe(q, r)
    <2> SUFFICES ASSUME NEW i \in DOMAIN p, Is(p[i]) \in Fills(r)
                 PROVE  \E j \in DOMAIN p : /\ j > i /\ Is(q[j]) \in Tidies(r)
                                            /\ \A k \in DOMAIN p : k > i /\ k < j => r \in q[k].undo
      BY <1>2, <1>4 DEF Safe
    <2>1. PICK j \in DOMAIN p : /\ j > i /\ Is(p[j]) \in Tidies(r)
                                /\ \A k \in DOMAIN p : k > i /\ k < j => r \in p[k].undo
      BY <1>7 DEF Safe
    <2> QED BY <1>4, <2>1
  <1> QED BY <1>5, <1>6, <1>7

LEMMA Shorts ==
  ASSUME NEW a, NEW b, NEW c
  PROVE  /\ \A B : ~AnyOf(<<>>, B) /\ (AnyOf(<<a>>, B) <=> Is(a) \in B)
                   /\ (AnyOf(<<a, b>>, B) <=> Is(a) \in B \/ Is(b) \in B)
                   /\ (AnyOf(<<a, b, c>>, B) <=> Is(a) \in B \/ Is(b) \in B \/ Is(c) \in B)
         /\ \A V, A, B : /\ Is(a) \in A => Passes(<<a>>, V, A, B)
                         /\ \/ Is(a) \in A /\ Is(b) \notin B
                            \/ Is(b) \in A /\ Is(a) \notin V => Passes(<<a, b>>, V, A, B)
                         /\ \/ Is(b) \in A /\ Is(a) \notin V /\ Is(c) \notin B
                            \/ Is(c) \in A /\ Is(a) \notin V /\ Is(b) \notin V
                            => Passes(<<a, b, c>>, V, A, B)
         /\ \A rel : ~AnyOf(<<>>, Fills(rel))
  <1>1. /\ DOMAIN <<a>> = {1} /\ <<a>>[1] = a /\ DOMAIN <<>> = {}
        /\ DOMAIN <<a, b>> = {1, 2} /\ <<a, b>>[1] = a /\ <<a, b>>[2] = b
        /\ DOMAIN <<a, b, c>> = {1, 2, 3} /\ <<a, b, c>>[1] = a /\ <<a, b, c>>[2] = b /\ <<a, b, c>>[3] = c
    OBVIOUS
  <1>2. \A B : ~AnyOf(<<>>, B) /\ (AnyOf(<<a>>, B) <=> Is(a) \in B)
               /\ (AnyOf(<<a, b>>, B) <=> Is(a) \in B \/ Is(b) \in B)
               /\ (AnyOf(<<a, b, c>>, B) <=> Is(a) \in B \/ Is(b) \in B \/ Is(c) \in B)
    BY <1>1 DEF AnyOf
  <1>3. ASSUME NEW V, NEW A, NEW B, Is(a) \in A PROVE Passes(<<a>>, V, A, B)
    BY <1>1, <1>3 DEF Passes
  <1>4. ASSUME NEW V, NEW A, NEW B,
               (Is(a) \in A /\ Is(b) \notin B) \/ (Is(b) \in A /\ Is(a) \notin V)
        PROVE  Passes(<<a, b>>, V, A, B)
    BY <1>1, <1>4 DEF Passes
  <1>5. ASSUME NEW V, NEW A, NEW B,
               \/ Is(b) \in A /\ Is(a) \notin V /\ Is(c) \notin B
               \/ Is(c) \in A /\ Is(a) \notin V /\ Is(b) \notin V
        PROVE  Passes(<<a, b, c>>, V, A, B)
    BY <1>1, <1>5 DEF Passes
  <1> QED BY <1>2, <1>3, <1>4, <1>5

LEMMA Unfilled ==
  ASSUME NEW p, NEW rel, ~AnyOf(p, Fills(rel))
  PROVE  Safe(p, rel)
BY DEF AnyOf, Safe

\* try: x; finally: drop rel.  What fills rel is the last statement before.
LEMMA Finalising ==
  ASSUME NEW e, NEW a \in Programs(e), NEW x \in Programs(e), NEW rel \in Rels,
         Try(x, rel) \in Programs(e), <<Tidy(rel)>> \in Programs(e),
         \A i \in DOMAIN a : Is(a[i]) \in Fills(rel) => i = Len(a),
         ~AnyOf(x, Fills(rel))
  PROVE  Safe(a \o Try(x, rel) \o <<Tidy(rel)>>, rel)
  <1> DEFINE y == Try(x, rel)
             z == <<Tidy(rel)>>
             ay == a \o y
             p == ay \o z
  <1>1. /\ DOMAIN a = 1..Len(a) /\ DOMAIN y = 1..Len(y) /\ Len(a) \in Nat /\ Len(y) \in Nat
        /\ DOMAIN ay = 1..(Len(a) + Len(y))
        /\ \A i \in DOMAIN a : i \in DOMAIN ay /\ ay[i] = a[i]
        /\ \A i \in DOMAIN y : Len(a) + i \in DOMAIN ay /\ ay[Len(a) + i] = y[i]
    BY Positions
  <1>2. ay \in Programs(e) /\ Len(ay) = Len(a) + Len(y)
    BY DEF Programs
  <1>3. DOMAIN z = {1} /\ z[1] = Tidy(rel) /\ Len(z) = 1
    OBVIOUS
  <1>4. /\ DOMAIN p = 1..(Len(ay) + 1)
        /\ \A i \in DOMAIN ay : i \in DOMAIN p /\ p[i] = ay[i]
        /\ Len(ay) + 1 \in DOMAIN p /\ p[Len(ay) + 1] = Tidy(rel)
    BY <1>2, <1>3, Positions
  <1>5. \A i \in DOMAIN y : rel \in y[i].undo /\ Is(y[i]) \notin Fills(rel)
    <2>1. DOMAIN y = DOMAIN x /\ \A i \in DOMAIN x : y[i] = [x[i] EXCEPT !.undo = @ \union {rel}]
      BY DEF Try
    <2>2. \A i \in DOMAIN x : x[i] \in Statements(e)
      BY DEF Programs
    <2>3. \A s \in Statements(e) : /\ rel \in [s EXCEPT !.undo = @ \union {rel}].undo
                                   /\ Is([s EXCEPT !.undo = @ \union {rel}]) = Is(s)
      BY DEF Statements, Is
    <2> QED BY <2>1, <2>2, <2>3 DEF AnyOf
  <1>6. Is(Tidy(rel)) \in Tidies(rel) /\ Is(Tidy(rel)) \notin Fills(rel)
    BY DEF Is, Tidy, St, Tidies, Fills, Triples, Ops, Hows
  <1> HIDE DEF y, z, ay, p
  <1>7. ASSUME NEW i \in DOMAIN p, Is(p[i]) \in Fills(rel)
        PROVE  i = Len(a)
    <2>1. CASE i \in DOMAIN a
      BY <1>1, <1>2, <1>4, <1>7, <2>1
    <2>2. CASE i \notin DOMAIN a
      <3>1. CASE i = Len(ay) + 1
        BY <1>4, <1>6, <1>7, <3>1
      <3>2. CASE i # Len(ay) + 1
        <4>1. i \in 1..(Len(a) + Len(y)) /\ i > Len(a)
          BY <1>1, <1>2, <1>4, <2>2, <3>2
        <4>2. i - Len(a) \in DOMAIN y /\ Len(a) + (i - Len(a)) = i
          BY <1>1, <4>1
        <4>3. p[i] = y[i - Len(a)]
          BY <1>1, <1>4, <4>2
        <4> QED BY <1>5, <1>7, <4>2, <4>3
      <3> QED BY <3>1, <3>2
    <2> QED BY <2>1, <2>2
  <1>8. ASSUME NEW k \in DOMAIN p, k > Len(a), k < Len(ay) + 1 PROVE rel \in p[k].undo
    <2>1. k - Len(a) \in DOMAIN y /\ Len(a) + (k - Len(a)) = k
      BY <1>1, <1>2, <1>4, <1>8
    <2>2. p[k] = y[k - Len(a)]
      BY <1>1, <1>4, <2>1
    <2> QED BY <1>5, <2>1, <2>2
  <1>9. Len(ay) + 1 > Len(a)
    BY <1>1, <1>2
  <1>10. Safe(p, rel)
    BY <1>4, <1>6, <1>7, <1>8, <1>9 DEF Safe
  <1> QED BY <1>10 DEF p, ay, y, z

\* Which statement is of which sort.
LEMMA Sorts ==
  ASSUME NEW op \in Ops, NEW rel \in Rels, NEW how \in Hows, NEW t, t = Is(St(op, rel, how))
  PROVE  /\ t \in Triples /\ t \notin {}
         /\ t \in Verifies <=> op = "verify"
         /\ t \in Inserts <=> op = "insert"
         /\ \A r : /\ t \in Fills(r) <=> op \in {"create", "put", "swap", "insert"} /\ rel = r
                   /\ t \in Drops(r) <=> op \in {"drop", "tidy"} /\ rel = r
                   /\ t \in Tidies(r) <=> op = "tidy" /\ rel = r
                   /\ t \in Removes(r) <=> \/ op \in {"drop", "tidy"} /\ rel = r
                                           \/ op = "rename" /\ r = "scratch"
         /\ t \in Touches <=> \/ /\ op \in {"drop", "tidy", "create", "put", "swap", "insert"}
                                 /\ rel = "model"
                              \/ op = "view"
                              \/ op \in {"drop", "tidy"} /\ rel = "backing"
         /\ t \in Makers("view") <=> op \in {"refuse", "view"}
         /\ t \in Makers("table") <=>
              op = "refuse" \/ (op \in {"create", "put", "swap", "insert"} /\ rel = "model")
         /\ t \in WrongMakers("view") <=> op \in {"create", "put", "swap", "insert"} /\ rel = "model"
         /\ t \in WrongMakers("table") <=> op = "view"
         /\ t \in CastMakers <=> op \in {"create", "put"} /\ rel = "model" /\ how = "cast"
         /\ t \in Refreshes <=> op \in {"create", "put", "swap", "insert", "drop", "tidy"} /\ rel = "backing"
  <1>1. t = <<op, rel, how>> /\ t[1] = op /\ t[2] = rel /\ t[3] = how
    BY DEF Is, St
  <1>2. t \in Triples
    BY <1>1 DEF Triples
  <1>3. \A r : /\ t \in Fills(r) <=> op \in {"create", "put", "swap", "insert"} /\ rel = r
               /\ t \in Drops(r) <=> op \in {"drop", "tidy"} /\ rel = r
               /\ t \in Tidies(r) <=> op = "tidy" /\ rel = r
    BY <1>1, <1>2 DEF Fills, Drops, Tidies
  <1>4. \A r : t \in Removes(r) <=> \/ op \in {"drop", "tidy"} /\ rel = r
                                    \/ op = "rename" /\ r = "scratch"
    BY <1>1, <1>2, <1>3 DEF Removes
  <1>5. t \in Touches <=> \/ /\ op \in {"drop", "tidy", "create", "put", "swap", "insert"}
                             /\ rel = "model"
                          \/ op = "view"
                          \/ op \in {"drop", "tidy"} /\ rel = "backing"
    BY <1>1, <1>2, <1>3 DEF Touches
  <1>6. /\ t \in Makers("view") <=> op \in {"refuse", "view"}
        /\ t \in Makers("table") <=>
             op = "refuse" \/ (op \in {"create", "put", "swap", "insert"} /\ rel = "model")
        /\ t \in WrongMakers("view") <=> op \in {"create", "put", "swap", "insert"} /\ rel = "model"
        /\ t \in WrongMakers("table") <=> op = "view"
    BY <1>1, <1>2, <1>3 DEF Makers, WrongMakers
  <1>7. /\ t \in Verifies <=> op = "verify"
        /\ t \in Inserts <=> op = "insert"
        /\ t \in CastMakers <=> op \in {"create", "put"} /\ rel = "model" /\ how = "cast"
        /\ t \in Refreshes <=> op \in {"create", "put", "swap", "insert", "drop", "tidy"} /\ rel = "backing"
    BY <1>1, <1>2, <1>3 DEF Verifies, Inserts, CastMakers, Refreshes
  <1> QED BY <1>2, <1>3, <1>4, <1>5, <1>6, <1>7

-----------------------------------------------------------------------------
(* The makings one by one.                                                 *)

\* Temporary relations are removed again, where there is a finally clause also
\* on a failure.
Clean(p, e) ==
  \A rel \in Temps : /\ ~AnyOf(p, Fills(rel)) \/ Passes(p, {}, Removes(rel), Fills(rel))
                     /\ Finally(e) => Safe(p, rel)

LEMMA Cleaning ==
  ASSUME NEW e, NEW p \in Programs(e), NEW q \in Programs(e), Clean(p, e)
  PROVE  /\ Clean(q, e) => Clean(p \o q, e)
         /\ Clean(Asked(p), e) /\ \A r \in Rels : Clean(Try(p, r), e)
         /\ \A a, V, A, B : ~AnyOf(a, {}) /\ (Passes(a, V, A, B) => Passes(a, {}, A, B))
  <1>1. \A a, V, A, B : ~AnyOf(a, {}) /\ (Passes(a, V, A, B) => Passes(a, {}, A, B))
    BY DEF AnyOf, Passes
  <1>2. ASSUME Clean(q, e) PROVE Clean(p \o q, e)
    <2> SUFFICES ASSUME NEW rel \in Temps
                 PROVE  /\ \/ ~AnyOf(p \o q, Fills(rel))
                           \/ Passes(p \o q, {}, Removes(rel), Fills(rel))
                        /\ Finally(e) => Safe(p \o q, rel)
      BY DEF Clean
    <2>1. Finally(e) => Safe(p \o q, rel)
      BY <1>2, Joining DEF Clean
    <2>2. \/ ~AnyOf(p \o q, Fills(rel))
          \/ Passes(p \o q, {}, Removes(rel), Fills(rel))
      BY <1>1, <1>2, Joining DEF Clean
    <2> QED BY <2>1, <2>2
  <1>3. "model" \in Rels
    BY DEF Rels
  <1>4. Clean(Asked(p), e)
    BY <1>3, Dressing DEF Clean
  <1>5. \A r \in Rels : Clean(Try(p, r), e)
    BY Dressing DEF Clean
  <1> QED BY <1>1, <1>2, <1>4, <1>5

\* A program that fills nothing temporary is clean.
LEMMA NothingTemporary ==
  ASSUME NEW p, NEW e, ~AnyOf(p, Fills("scratch")), ~AnyOf(p, Fills("frame"))
  PROVE  Clean(p, e)
BY Unfilled DEF Clean, Temps

\* The sorts of a program that makes no view, verifies nothing, appends nothing.
Plain(p) == /\ ~AnyOf(p, Verifies) /\ ~AnyOf(p, Inserts) /\ ~AnyOf(p, WrongMakers("table"))
            /\ ~AnyOf(p, Fills("frame"))

LEMMA Plainly ==
  ASSUME NEW e, NEW p \in Programs(e), NEW q \in Programs(e), Plain(p)
  PROVE  /\ Plain(q) => Plain(p \o q)
         /\ Plain(Asked(p)) /\ \A r \in Rels : Plain(Try(p, r))
  <1>1. Plain(q) => Plain(p \o q)
    BY Joining DEF Plain
  <1>2. "model" \in Rels
    BY DEF Rels
  <1>3. Plain(Asked(p)) /\ \A r \in Rels : Plain(Try(p, r))
    BY <1>2, Dressing DEF Plain
  <1> QED BY <1>1, <1>3

\* What a single statement amounts to.
LEMMA Singly ==
  ASSUME NEW rel \in Rels, NEW how \in Hows
  PROVE  /\ \A s \in {Drop(rel), Tidy(rel), Query(how), St("rename", rel, how)} :
              /\ Plain(<<s>>) /\ \A r : ~AnyOf(<<s>>, Fills(r))
              /\ rel \notin {"model", "backing"} => ~AnyOf(<<s>>, Touches)
         /\ \A s \in {Create(rel, how), Put(rel, how), Swap(rel)} :
              /\ rel # "frame" => Plain(<<s>>)
              /\ ~AnyOf(<<s>>, Verifies) /\ ~AnyOf(<<s>>, Inserts) /\ ~AnyOf(<<s>>, WrongMakers("table"))
              /\ \A r : AnyOf(<<s>>, Fills(r)) <=> r = rel
              /\ rel # "model" => ~AnyOf(<<s>>, Touches)
              /\ rel = "model" => \A V : Passes(<<s>>, V, Makers("table"), Touches)
              /\ rel = "backing" => \A V : Passes(<<s>>, V, Fills("backing"), Refreshes)
         /\ ~AnyOf(<<Query(how)>>, Touches) /\ ~AnyOf(<<St("rename", rel, how)>>, Touches)
         /\ how = "cast" /\ rel = "model" =>
              \A V : /\ Passes(<<Create(rel, how)>>, V, CastMakers, Touches)
                     /\ Passes(<<Put(rel, how)>>, V, CastMakers, Touches)
         /\ \A V, B : /\ Passes(<<Tidy(rel)>>, V, Removes(rel), B)
                      /\ Passes(<<Drop(rel)>>, V, Removes(rel), B)
                      /\ Passes(<<St("rename", rel, how)>>, V, Removes("scratch"), B)
  <1>0. {"drop", "tidy", "query", "rename", "create", "put", "swap"} \subseteq Ops /\ "none" \in Hows /\ "raw" \in Hows
        /\ "model" \in Rels
    BY DEF Ops, Hows, Rels
  <1>1. ASSUME NEW s \in {Drop(rel), Tidy(rel), Query(how), St("rename", rel, how)}
        PROVE  /\ Plain(<<s>>) /\ \A r : ~AnyOf(<<s>>, Fills(r))
               /\ rel \notin {"model", "backing"} => ~AnyOf(<<s>>, Touches)
    <2>1. PICK op \in {"drop", "tidy", "query", "rename"}, r \in Rels, h \in Hows :
            s = St(op, r, h) /\ (op \in {"drop", "tidy"} => r = rel)
      BY <1>0 DEF Drop, Tidy, Query
    <2>2. /\ Is(s) \notin Verifies /\ Is(s) \notin Inserts /\ Is(s) \notin WrongMakers("table")
          /\ \A q : Is(s) \notin Fills(q)
          /\ rel \notin {"model", "backing"} => Is(s) \notin Touches
      BY <1>0, <2>1, Sorts
    <2> QED BY <2>2, Shorts DEF Plain
  <1>2. ASSUME NEW s \in {Create(rel, how), Put(rel, how), Swap(rel)}
        PROVE  /\ rel # "frame" => Plain(<<s>>)
               /\ ~AnyOf(<<s>>, Verifies) /\ ~AnyOf(<<s>>, Inserts) /\ ~AnyOf(<<s>>, WrongMakers("table"))
               /\ \A r : AnyOf(<<s>>, Fills(r)) <=> r = rel
               /\ rel # "model" => ~AnyOf(<<s>>, Touches)
               /\ rel = "model" => \A V : Passes(<<s>>, V, Makers("table"), Touches)
               /\ rel = "backing" => \A V : Passes(<<s>>, V, Fills("backing"), Refreshes)
    <2>1. PICK op \in {"create", "put", "swap"}, h \in Hows : s = St(op, rel, h)
      BY <1>0 DEF Create, Put, Swap
    <2>2. /\ Is(s) \notin Verifies /\ Is(s) \notin Inserts /\ Is(s) \notin WrongMakers("table")
          /\ \A q : Is(s) \in Fills(q) <=> q = rel
          /\ rel # "model" => Is(s) \notin Touches
          /\ rel = "model" => Is(s) \in Makers("table")
      BY <1>0, <2>1, Sorts
    <2> QED BY <2>2, Shorts DEF Plain
  <1>3. ~AnyOf(<<Query(how)>>, Touches) /\ ~AnyOf(<<St("rename", rel, how)>>, Touches)
    <2>1. Is(Query(how)) \notin Touches /\ Is(St("rename", rel, how)) \notin Touches
      BY <1>0, Sorts DEF Query
    <2> QED BY <2>1, Shorts
  <1>4. how = "cast" /\ rel = "model" =>
              \A V : /\ Passes(<<Create(rel, how)>>, V, CastMakers, Touches)
                     /\ Passes(<<Put(rel, how)>>, V, CastMakers, Touches)
    <2>1. how = "cast" /\ rel = "model" => Is(Create(rel, how)) \in CastMakers /\ Is(Put(rel, how)) \in CastMakers
      BY <1>0, Sorts DEF Create, Put
    <2> QED BY <2>1, Shorts
  <1>5. \A V, B : /\ Passes(<<Tidy(rel)>>, V, Removes(rel), B)
                  /\ Passes(<<Drop(rel)>>, V, Removes(rel), B)
                  /\ Passes(<<St("rename", rel, how)>>, V, Removes("scratch"), B)
    <2>1. /\ Is(Tidy(rel)) \in Removes(rel) /\ Is(Drop(rel)) \in Removes(rel)
          /\ Is(St("rename", rel, how)) \in Removes("scratch")
      BY <1>0, Sorts DEF Drop, Tidy
    <2> QED BY <2>1, Shorts
  <1> QED BY <1>1, <1>2, <1>3, <1>4, <1>5

\* A program that makes a table of the model, and one that casts it.
Tabular(p, e) == Plain(p) /\ Clean(p, e) /\ Passes(p, {}, Makers("table"), Touches)
Casting(p) == Passes(p, Verifies, CastMakers, Touches)
\* While files lie aside there is no table.
Aside(p) == \/ ~AnyOf(p, Fills("scratch"))
            \/ Passes(p, Fills("model"), Removes("scratch"), Fills("scratch"))

LEMMA Saving ==
  ASSUME NEW e \in Spark, NEW rel \in {"model", "backing"}, NEW how \in Hows
  PROVE  LET p == Save(e, rel, how)
         IN  /\ Plain(p) /\ Clean(p, e)
             /\ rel = "model" => /\ Tabular(p, e) /\ Aside(p)
                                 /\ how = "cast" => Casting(p)
             /\ rel = "backing" => /\ Passes(p, {}, Fills("backing"), Refreshes)
                                   /\ ~AnyOf(p, Fills("model"))
  <1>0. /\ rel \in Rels /\ e \notin Atomic /\ "scratch" \in Rels /\ "scratch" # "frame"
        /\ "scratch" \notin {"model", "backing"} /\ rel # "scratch" /\ rel # "frame"
        /\ "scratch" # "model" /\ (rel = "backing" => rel # "model")
        /\ "scratch" \in Rels \ {"model"}
    BY DEF Rels, Spark, Atomic
  <1>1. /\ <<Drop(rel)>> \in Programs(e) /\ <<Create(rel, how)>> \in Programs(e)
        /\ <<Put("scratch", how)>> \in Programs(e) /\ <<St("rename", rel, how)>> \in Programs(e)
    <2>1. /\ Drop(rel) \in Statements(e) /\ Create(rel, how) \in Statements(e)
          /\ Put("scratch", how) \in Statements(e) /\ St("rename", rel, how) \in Statements(e)
      BY <1>0, SingleStatements
    <2> QED BY <2>1, ShortPrograms
  <1> DEFINE d == <<Drop(rel)>>
             c == <<Create(rel, how)>>
             t == Try(<<Put("scratch", how)>>, "scratch")
             m == Try(<<St("rename", rel, how)>>, "scratch")
  <1>2. /\ Plain(d) /\ Plain(c) /\ \A r : ~AnyOf(d, Fills(r))
        /\ \A r : AnyOf(c, Fills(r)) <=> r = rel
        /\ rel = "model" => \A V : Passes(c, V, Makers("table"), Touches)
        /\ rel = "backing" => \A V : Passes(c, V, Fills("backing"), Refreshes)
        /\ how = "cast" /\ rel = "model" => \A V : Passes(c, V, CastMakers, Touches)
    BY <1>0, Singly
  <1>3. /\ Plain(t) /\ Plain(m) /\ \A r : ~AnyOf(m, Fills(r))
        /\ \A r : AnyOf(t, Fills(r)) <=> r = "scratch"
        /\ \A V, B : Passes(m, V, Removes("scratch"), B)
    <2>1. /\ Plain(<<Put("scratch", how)>>) /\ Plain(<<St("rename", rel, how)>>)
          /\ \A r : ~AnyOf(<<St("rename", rel, how)>>, Fills(r))
          /\ \A r : AnyOf(<<Put("scratch", how)>>, Fills(r)) <=> r = "scratch"
          /\ \A V, B : Passes(<<St("rename", rel, how)>>, V, Removes("scratch"), B)
      BY <1>0, Singly
    <2>2. Plain(t) /\ Plain(m)
      BY <1>0, <1>1, <2>1, Plainly
    <2>3. /\ \A B : /\ AnyOf(t, B) <=> AnyOf(<<Put("scratch", how)>>, B)
                    /\ AnyOf(m, B) <=> AnyOf(<<St("rename", rel, how)>>, B)
          /\ \A V, A, B : Passes(<<St("rename", rel, how)>>, V, A, B) => Passes(m, V, A, B)
      BY <1>0, <1>1, Dressing
    <2> QED BY <2>1, <2>2, <2>3
  <1>4. t \in Programs(e) /\ m \in Programs(e) /\ d \in Programs(e) /\ c \in Programs(e)
    BY <1>0, <1>1, TriedProgram
  <1>5. Save(e, rel, how) = IF e = "sparkPath" THEN t \o d \o m \o c ELSE d \o c
    <2>1. <<Drop(rel), Create(rel, how)>> = <<Drop(rel)>> \o <<Create(rel, how)>>
      OBVIOUS
    <2> QED BY <2>1 DEF Save, SparkSave, SparkPath
  <1>6. \A p : ~AnyOf(p, {})
    BY DEF AnyOf
  <1> HIDE DEF d, c, t, m
  <1>7. CASE e # "sparkPath"
    <2> DEFINE p == d \o c
    <2>1. p \in Programs(e) /\ Plain(p) /\ (\A r : r # rel => ~AnyOf(p, Fills(r)))
      BY <1>2, <1>4, Concatenation, Joining, Plainly
    <2>2. Clean(p, e)
      BY <1>0, <2>1, NothingTemporary
    <2>3. /\ rel = "model" => Passes(p, {}, Makers("table"), Touches)
          /\ rel = "backing" => Passes(p, {}, Fills("backing"), Refreshes)
          /\ how = "cast" /\ rel = "model" => Passes(p, Verifies, CastMakers, Touches)
      BY <1>2, <1>4, <1>6, Joining DEF Plain
    <2>4. ~AnyOf(p, Fills("scratch")) /\ (rel = "backing" => ~AnyOf(p, Fills("model")))
      BY <1>0, <2>1
    <2> HIDE DEF p
    <2>5. Save(e, rel, how) = p
      BY <1>5, <1>7 DEF p
    <2> QED BY <2>1, <2>2, <2>3, <2>4, <2>5 DEF Tabular, Casting, Aside
  <1>8. CASE e = "sparkPath"
    <2> DEFINE td == t \o d
               tdm == td \o m
               p == tdm \o c
    <2>1. /\ td \in Programs(e) /\ Plain(td) /\ ~AnyOf(td, Fills(rel)) /\ ~AnyOf(td, Fills("frame"))
          /\ ~AnyOf(td, Fills("model"))
      BY <1>0, <1>2, <1>3, <1>4, Concatenation, Joining, Plainly
    <2> HIDE DEF td
    <2>2. /\ tdm \in Programs(e) /\ Plain(tdm) /\ ~AnyOf(tdm, Fills("frame"))
          /\ ~AnyOf(tdm, Fills("model"))
          /\ \A V : ~AnyOf(td, V) => Passes(tdm, V, Removes("scratch"), Fills("scratch"))
      BY <1>3, <1>4, <2>1, Concatenation, Joining, Plainly
    <2> HIDE DEF tdm
    <2>3. /\ p \in Programs(e) /\ Plain(p) /\ ~AnyOf(p, Fills("frame"))
          /\ rel = "backing" => ~AnyOf(p, Fills("model"))
          /\ \A V : ~AnyOf(td, V) => Passes(p, V, Removes("scratch"), Fills("scratch"))
      BY <1>0, <1>2, <1>4, <2>2, Concatenation, Joining, Plainly
    <2>4. /\ rel = "model" => Passes(p, {}, Makers("table"), Touches)
          /\ rel = "backing" => Passes(p, {}, Fills("backing"), Refreshes)
          /\ how = "cast" /\ rel = "model" => Passes(p, Verifies, CastMakers, Touches)
      BY <1>2, <1>4, <1>6, <2>2, Joining DEF Plain
    <2> HIDE DEF p
    <2>5. Clean(p, e)
      BY <1>6, <1>8, <2>3 DEF Clean, Temps, Finally
    <2>6. Save(e, rel, how) = p
      BY <1>5, <1>8 DEF p, tdm, td
    <2>7. rel = "model" => Aside(p)
      BY <2>1, <2>3 DEF Aside
    <2> QED BY <2>3, <2>4, <2>5, <2>6, <2>7 DEF Tabular, Casting
  <1> QED BY <1>7, <1>8

LEMMA CreatingTables ==
  ASSUME NEW e \in Engines, NEW how \in Hows
  PROVE  LET p == Ctas(e, "model", how)
         IN  /\ Tabular(p, e) /\ Aside(p)
             /\ how = "cast" => Casting(p)
             /\ e \notin Spark => ~AnyOf(p, Fills("scratch"))
  <1>0. "model" \in Rels /\ "model" # "frame" /\ "model" # "scratch"
    BY DEF Rels
  <1>1. CASE e \in Spark
    <2>1. Ctas(e, "model", how) = Save(e, "model", how)
      BY <1>1 DEF Ctas, Spark
    <2> QED BY <1>1, <2>1, Saving
  <1>2. ASSUME e \notin Spark, NEW p \in Programs(e), Plain(p), ~AnyOf(p, Fills("scratch")),
               Passes(p, {}, Makers("table"), Touches),
               how = "cast" => Passes(p, Verifies, CastMakers, Touches)
        PROVE  LET q == Asked(p)
               IN  /\ Tabular(q, e) /\ Aside(q) /\ ~AnyOf(q, Fills("scratch"))
                   /\ how = "cast" => Casting(q)
    <2>1. Plain(Asked(p))
      BY <1>2, Plainly
    <2>2. /\ ~AnyOf(Asked(p), Fills("scratch")) /\ Passes(Asked(p), {}, Makers("table"), Touches)
          /\ how = "cast" => Passes(Asked(p), Verifies, CastMakers, Touches)
      BY <1>0, <1>2, Dressing
    <2>3. Clean(Asked(p), e)
      BY <2>1, <2>2, NothingTemporary DEF Plain
    <2> QED BY <2>1, <2>2, <2>3 DEF Tabular, Aside, Casting
  <1>3. CASE e = "postgres"
    <2> DEFINE d == <<Drop("model")>>
               c == <<Create("model", how)>>
    <2>1. d \in Programs(e) /\ c \in Programs(e)
      <3>1. Drop("model") \in Statements(e) /\ Create("model", how) \in Statements(e)
        BY <1>0, <1>3, SingleStatements DEF Atomic
      <3> QED BY <3>1, ShortPrograms
    <2>2. /\ Plain(d) /\ Plain(c) /\ ~AnyOf(d, Fills("scratch")) /\ ~AnyOf(c, Fills("scratch"))
          /\ \A V : Passes(c, V, Makers("table"), Touches)
          /\ how = "cast" => \A V : Passes(c, V, CastMakers, Touches)
      BY <1>0, Singly
    <2>3. Ctas(e, "model", how) = Asked(d \o c)
      <3>1. <<Drop("model"), Create("model", how)>> = d \o c
        OBVIOUS
      <3> QED BY <1>3, <3>1 DEF Ctas, PostgresCtas, Spark
    <2>4. ~AnyOf(d, {}) /\ ~AnyOf(d, Verifies)
      BY <2>2 DEF AnyOf, Plain
    <2> HIDE DEF d, c
    <2>5. /\ d \o c \in Programs(e) /\ Plain(d \o c) /\ ~AnyOf(d \o c, Fills("scratch"))
          /\ Passes(d \o c, {}, Makers("table"), Touches)
          /\ how = "cast" => Passes(d \o c, Verifies, CastMakers, Touches)
      BY <2>1, <2>2, <2>4, Concatenation, Joining, Plainly
    <2> QED BY <1>2, <1>3, <2>3, <2>5 DEF Spark
  <1>4. CASE e \notin Spark /\ e # "postgres"
    <2>1. <<Put("model", how)>> \in Programs(e)
      <3>1. Put("model", how) \in Statements(e)
        BY <1>0, SingleStatements
      <3> QED BY <3>1, ShortPrograms
    <2>2. /\ Plain(<<Put("model", how)>>) /\ ~AnyOf(<<Put("model", how)>>, Fills("scratch"))
          /\ Passes(<<Put("model", how)>>, {}, Makers("table"), Touches)
          /\ how = "cast" => Passes(<<Put("model", how)>>, Verifies, CastMakers, Touches)
      BY <1>0, Singly
    <2>3. Ctas(e, "model", how) = Asked(<<Put("model", how)>>)
      BY <1>4 DEF Ctas
    <2> QED BY <1>2, <1>4, <2>1, <2>2, <2>3
  <1> QED BY <1>1, <1>3, <1>4

\* A program x within try and finally, after a has filled what is dropped then.
LEMMA Wrapping ==
  ASSUME NEW e, NEW a \in Programs(e), NEW x \in Programs(e), NEW rel \in Temps, NEW p,
         p = a \o Try(x, rel) \o <<Tidy(rel)>>,
         \A i \in DOMAIN a : Is(a[i]) \in Fills(rel) => i = Len(a),
         \A r \in Temps \ {rel} : ~AnyOf(a, Fills(r)),
         ~AnyOf(a, Verifies),
         ~AnyOf(x, Fills(rel)), Clean(x, e), Passes(x, {}, Makers("table"), Touches)
  PROVE  /\ p \in Programs(e) /\ Clean(p, e) /\ Passes(p, {}, Makers("table"), Touches)
         /\ Casting(x) => Casting(p)
         /\ \A B \in {Verifies, Inserts, WrongMakers("table")} :
              ~AnyOf(a, B) /\ ~AnyOf(x, B) => ~AnyOf(p, B)
         /\ rel # "frame" /\ ~AnyOf(x, Fills("frame")) => ~AnyOf(p, Fills("frame"))
  <1> DEFINE y == Try(x, rel)
             z == <<Tidy(rel)>>
             ay == a \o y
  <1>0. rel \in Rels /\ rel \in Rels \ {"model"} /\ rel \notin {"model", "backing"} /\ "raw" \in Hows
    BY DEF Temps, Rels, Hows
  <1>1. z \in Programs(e) /\ y \in Programs(e)
    <2>1. Tidy(rel) \in Statements(e)
      BY <1>0, SingleStatements
    <2> QED BY <1>0, <2>1, ShortPrograms, TriedProgram
  <1>2. /\ Plain(z) /\ \A r : ~AnyOf(z, Fills(r))
        /\ ~AnyOf(z, Touches) /\ \A V, B : Passes(z, V, Removes(rel), B)
    BY <1>0, Singly
  <1>3. /\ \A B : AnyOf(y, B) <=> AnyOf(x, B)
        /\ \A V, A, B : Passes(x, V, A, B) => Passes(y, V, A, B)
        /\ \A r : Safe(x, r) => Safe(y, r)
    BY <1>0, Dressing
  <1>4. Safe(p, rel)
    BY <1>0, <1>1, Finalising
  <1> HIDE DEF y, z
  <1>5. ay \in Programs(e) /\ ay \o z \in Programs(e) /\ p = ay \o z
    BY <1>1, Concatenation DEF y, z
  <1>6. /\ \A B : ~AnyOf(a, B) /\ ~AnyOf(x, B) => ~AnyOf(ay, B)
        /\ \A V, A, B : Passes(x, V, A, B) /\ ~AnyOf(a, V) => Passes(ay, V, A, B)
        /\ \A r : Safe(a, r) /\ Safe(x, r) => Safe(ay, r)
    BY <1>1, <1>3, Joining
  <1> HIDE DEF ay
  <1>7. \A q : ~AnyOf(q, {})
    BY DEF AnyOf
  <1>8. Passes(p, {}, Makers("table"), Touches) /\ (Casting(x) => Casting(p))
    BY <1>1, <1>2, <1>5, <1>6, <1>7, Joining DEF Casting
  <1>9. \A B \in {Verifies, Inserts, WrongMakers("table")} :
              ~AnyOf(a, B) /\ ~AnyOf(x, B) => ~AnyOf(p, B)
    BY <1>1, <1>2, <1>5, <1>6, Joining DEF Plain
  <1>10. rel # "frame" /\ ~AnyOf(x, Fills("frame")) => ~AnyOf(p, Fills("frame"))
    BY <1>1, <1>2, <1>5, <1>6, Joining DEF Temps
  <1>11. Passes(p, {}, Removes(rel), Fills(rel))
    BY <1>1, <1>2, <1>5, <1>7, Joining
  <1>12. ASSUME NEW r \in Temps \ {rel}
         PROVE  /\ ~AnyOf(p, Fills(r)) \/ Passes(p, {}, Removes(r), Fills(r))
                /\ Finally(e) => Safe(p, r)
    <2>1. Safe(a, r) /\ Safe(z, r)
      BY <1>2, Unfilled
    <2>2. Finally(e) => Safe(p, r)
      <3>1. Finally(e) => Safe(x, r)
        BY DEF Clean
      <3>2. Safe(x, r) => Safe(ay, r)
        BY <1>6, <2>1
      <3>3. Safe(ay, r) => Safe(ay \o z, r)
        BY <1>1, <1>5, <2>1, Joining
      <3> QED BY <1>5, <3>1, <3>2, <3>3
    <2>3. ~AnyOf(x, Fills(r)) => ~AnyOf(p, Fills(r))
      BY <1>1, <1>2, <1>5, <1>6, Joining
    <2>4. Passes(x, {}, Removes(r), Fills(r)) => Passes(p, {}, Removes(r), Fills(r))
      BY <1>1, <1>2, <1>5, <1>6, <1>7, Joining
    <2> QED BY <2>2, <2>3, <2>4 DEF Clean
  <1>13. Clean(p, e)
    BY <1>4, <1>11, <1>12 DEF Clean
  <1> QED BY <1>5, <1>8, <1>9, <1>10, <1>13

LEMMA CastingModels ==
  ASSUME NEW c \in Config
  PROVE  Tabular(Cast(c), c.engine) /\ Casting(Cast(c))
  <1> DEFINE e == c.engine
  <1>0. /\ e \in Engines /\ {"model", "scratch"} \subseteq Rels /\ {"cast", "raw"} \subseteq Hows
        /\ "scratch" \in Rels \ {"model"} /\ "scratch" \in Temps /\ "scratch" # "frame"
        /\ "scratch" \notin {"model", "backing"} /\ "model" # "frame" /\ "model" # "scratch"
    BY DEF Config, Rels, Hows, Temps
  <1> HIDE DEF e
  <1>1. Tabular(Ctas(e, "model", "cast"), e) /\ Casting(Ctas(e, "model", "cast"))
        /\ (e \notin Spark => ~AnyOf(Ctas(e, "model", "cast"), Fills("scratch")))
        /\ Ctas(e, "model", "cast") \in Programs(e)
    BY <1>0, CreatingTables, CtasPrograms
  <1>2. /\ <<Query("cast")>> \in Programs(e) /\ <<Put("scratch", "raw")>> \in Programs(e)
        /\ <<Put("model", "cast")>> \in Programs(e)
        /\ <<Drop("scratch")>> \in Programs(e)
        /\ <<Create("scratch", "raw")>> \in Programs(e)
        /\ <<Drop("scratch"), Create("scratch", "raw")>> \in Programs(e)
    <2>1. /\ Query("cast") \in Statements(e) /\ Put("scratch", "raw") \in Statements(e)
          /\ Put("model", "cast") \in Statements(e) /\ Drop("scratch") \in Statements(e)
          /\ Create("scratch", "raw") \in Statements(e)
      BY <1>0, SingleStatements
    <2> QED BY <2>1, ShortPrograms
  <1>3. /\ Plain(<<Query("cast")>>) /\ \A r : ~AnyOf(<<Query("cast")>>, Fills(r))
        /\ Plain(<<Put("model", "cast")>>) /\ \A r : AnyOf(<<Put("model", "cast")>>, Fills(r)) <=> r = "model"
        /\ \A V : /\ Passes(<<Put("model", "cast")>>, V, CastMakers, Touches)
                  /\ Passes(<<Put("model", "cast")>>, V, Makers("table"), Touches)
        /\ Plain(<<Put("scratch", "raw")>>) /\ \A r : AnyOf(<<Put("scratch", "raw")>>, Fills(r)) <=> r = "scratch"
        /\ Plain(<<Create("scratch", "raw")>>) /\ \A r : AnyOf(<<Create("scratch", "raw")>>, Fills(r)) <=> r = "scratch"
        /\ Plain(<<Drop("scratch")>>) /\ \A r : ~AnyOf(<<Drop("scratch")>>, Fills(r))
        /\ \A V, B : Passes(<<Drop("scratch")>>, V, Removes("scratch"), B)
        /\ ~AnyOf(<<Drop("scratch")>>, Touches) /\ ~AnyOf(<<Put("scratch", "raw")>>, Touches)
    BY <1>0, Singly
  <1>4. \A q : ~AnyOf(q, {})
    BY DEF AnyOf
  <1>5. CASE e \in Spark
    <2> DEFINE q == <<Query("cast")>>
               s == Save(e, "model", "cast")
    <2>1. s = Ctas(e, "model", "cast") /\ Cast(c) = q \o s
      BY <1>5 DEF Cast, SparkCast, Ctas, e, Spark, Copying
    <2>2. Clean(q, e)
      BY <1>3, NothingTemporary
    <2>3. ~AnyOf(q, Verifies)
      BY <1>3 DEF Plain
    <2>4. s \in Programs(e) /\ Tabular(s, e) /\ Casting(s) /\ q \in Programs(e) /\ Plain(q)
      BY <1>1, <1>2, <1>3, <2>1
    <2> HIDE DEF q, s
    <2>5. Plain(q \o s) /\ Clean(q \o s, e)
      BY <2>2, <2>4, Cleaning, Plainly DEF Tabular
    <2>6. Passes(q \o s, {}, Makers("table"), Touches) /\ Casting(q \o s)
      BY <1>4, <2>3, <2>4, Joining DEF Tabular, Casting
    <2> QED BY <2>1, <2>5, <2>6 DEF Tabular, e
  <1>6. CASE e = "bigquery" \/ (e \notin Spark /\ ~c.extraOk)
    <2>1. Cast(c) = Ctas(e, "model", "cast")
      BY <1>6 DEF Cast, BigQueryCast, e, Spark, Copying, Config, Engines
    <2> QED BY <1>1, <2>1 DEF e
  <1>7. CASE e = "duckdb" /\ c.extraOk
    <2> DEFINE s == <<Put("scratch", "raw")>>
               m == <<Put("model", "cast")>>
               d == <<Drop("scratch")>>
               p == s \o m \o d
    <2>1. Cast(c) = Asked(p)
      <3>1. <<Put("scratch", "raw"), Put("model", "cast"), Drop("scratch")>> = p
        OBVIOUS
      <3> QED BY <1>7, <3>1 DEF Cast, DuckCast, e, Spark, Copying
    <2>2. /\ s \in Programs(e) /\ m \in Programs(e) /\ d \in Programs(e) /\ ~AnyOf(s, Verifies)
          /\ Plain(s) /\ Plain(m) /\ Plain(d) /\ ~AnyOf(d, Touches)
          /\ \A V : Passes(m, V, CastMakers, Touches) /\ Passes(m, V, Makers("table"), Touches)
          /\ \A V, B : Passes(d, V, Removes("scratch"), B)
      BY <1>2, <1>3 DEF Plain
    <2> HIDE DEF s, m, d
    <2>3. /\ s \o m \in Programs(e) /\ Plain(s \o m)
          /\ Passes(s \o m, {}, Makers("table"), Touches)
          /\ Passes(s \o m, Verifies, CastMakers, Touches)
      BY <1>4, <2>2, Concatenation, Joining, Plainly
    <2>4. /\ p \in Programs(e) /\ Plain(p)
          /\ Passes(p, {}, Makers("table"), Touches)
          /\ Passes(p, Verifies, CastMakers, Touches)
          /\ Passes(p, {}, Removes("scratch"), Fills("scratch"))
      BY <1>4, <2>2, <2>3, Concatenation, Joining, Plainly
    <2> HIDE DEF p
    <2>5. Clean(p, e)
      BY <1>7, <2>4 DEF Clean, Temps, Finally, Plain
    <2>6. Plain(Asked(p)) /\ Clean(Asked(p), e)
      BY <2>4, <2>5, Cleaning, Plainly
    <2>7. Passes(Asked(p), {}, Makers("table"), Touches) /\ Casting(Asked(p))
      BY <1>0, <2>4, Dressing DEF Casting
    <2> QED BY <2>1, <2>6, <2>7 DEF Tabular, e
  <1>8. ASSUME e \in {"postgres", "snowflake"}, NEW a \in Programs(e), NEW x \in Programs(e),
               Plain(a), \A i \in DOMAIN a : Is(a[i]) \in Fills("scratch") => i = Len(a),
               Tabular(x, e), Casting(x), ~AnyOf(x, Fills("scratch")),
               Cast(c) = a \o Try(x, "scratch") \o <<Tidy("scratch")>>
        PROVE  Tabular(Cast(c), e) /\ Casting(Cast(c))
    <2>1. \A r \in Temps \ {"scratch"} : ~AnyOf(a, Fills(r))
      BY <1>8 DEF Temps, Plain
    <2> QED BY <1>0, <1>8, <2>1, Wrapping DEF Tabular, Plain
  <1>9. CASE e = "postgres" /\ c.extraOk
    <2> DEFINE b == <<Drop("scratch"), Create("scratch", "raw")>>
               a == Asked(b)
    <2>1. Cast(c) = a \o Try(Ctas(e, "model", "cast"), "scratch") \o <<Tidy("scratch")>>
      BY <1>9 DEF Cast, PostgresCast, Ctas, e, Spark, Copying
    <2>2. Plain(b)
      <3>1. b = <<Drop("scratch")>> \o <<Create("scratch", "raw")>>
        OBVIOUS
      <3> QED BY <1>2, <1>3, <3>1, Plainly
    <2>3. a \in Programs(e) /\ Plain(a)
      BY <1>2, <2>2, AskedProgram, Plainly
    <2>4. \A i \in DOMAIN a : Is(a[i]) \in Fills("scratch") => i = Len(a)
      <3>1. DOMAIN a = DOMAIN b /\ Len(a) = Len(b) /\ \A i \in DOMAIN b : a[i] = [b[i] EXCEPT !.asked = TRUE]
        BY DEF Asked
      <3>2. DOMAIN b = {1, 2} /\ Len(b) = 2 /\ b[1] = Drop("scratch")
        OBVIOUS
      <3>3. Is([Drop("scratch") EXCEPT !.asked = TRUE]) = Is(Drop("scratch"))
        BY DEF Is, Drop, St
      <3>4. Is(Drop("scratch")) \notin Fills("scratch")
        BY <1>3, Shorts
      <3> QED BY <3>1, <3>2, <3>3, <3>4
    <2>5. e \notin Spark
      BY <1>9 DEF Spark
    <2> HIDE DEF a, b
    <2> QED BY <1>1, <1>8, <1>9, <2>1, <2>3, <2>4, <2>5 DEF e
  <1>10. CASE e = "snowflake" /\ c.extraOk
    <2>1. Cast(c) = <<Put("scratch", "raw")>> \o Try(Ctas(e, "model", "cast"), "scratch")
                      \o <<Tidy("scratch")>>
      BY <1>10 DEF Cast, SnowflakeCast, Ctas, e, Spark, Copying
    <2>2. \A i \in DOMAIN <<Put("scratch", "raw")>> :
             Is(<<Put("scratch", "raw")>>[i]) \in Fills("scratch") => i = Len(<<Put("scratch", "raw")>>)
      OBVIOUS
    <2>3. e \notin Spark
      BY <1>10 DEF Spark
    <2> QED BY <1>1, <1>2, <1>3, <1>8, <1>10, <2>1, <2>2, <2>3 DEF e
  <1> QED BY <1>0, <1>5, <1>6, <1>7, <1>9, <1>10 DEF Config, Engines, Spark, e

\* What a contract makes of its program: verified at the end, and cast before it.
Settling(p, c) == c.mode = "cast" => IF Enforced(c) THEN Casting(p) ELSE ~AnyOf(p, Verifies)
Making(p, c) ==
  /\ p \in Programs(c.engine) /\ Clean(p, c.engine)
  /\ Passes(p, {}, Makers("table"), Touches)
  /\ ~AnyOf(p, WrongMakers("table")) /\ ~AnyOf(p, Inserts)
Checked(p, c) == Enforced(c) => Passes(p, {}, Verifies, Triples)

LEMMA Verification ==
  ASSUME NEW c \in Config
  PROVE  LET v == VerifyAfter(c)
         IN  /\ v \in Programs(c.engine) /\ Clean(v, c.engine) /\ ~AnyOf(v, Inserts)
             /\ ~AnyOf(v, WrongMakers("table")) /\ ~AnyOf(v, WrongMakers("view"))
             /\ ~AnyOf(v, Touches) /\ ~AnyOf(v, Refreshes) /\ \A r \in Rels : ~AnyOf(v, Fills(r))
             /\ \A V : Enforced(c) => Passes(v, V, Verifies, Triples)
             /\ ~Enforced(c) => ~AnyOf(v, Verifies)
  <1> DEFINE v == VerifyAfter(c)
  <1>0. "verify" \in Ops /\ "model" \in Rels /\ "none" \in Hows /\ Temps \subseteq Rels
    BY DEF Ops, Rels, Hows, Temps
  <1>1. /\ Is(Verify) \notin Inserts /\ Is(Verify) \notin WrongMakers("table")
        /\ Is(Verify) \notin WrongMakers("view") /\ Is(Verify) \notin Touches
        /\ Is(Verify) \notin Refreshes /\ \A r : Is(Verify) \notin Fills(r)
        /\ Is(Verify) \in Verifies
    BY <1>0, Sorts DEF Verify
  <1>2. v = IF Enforced(c) THEN <<Verify>> ELSE <<>>
    BY DEF VerifyAfter
  <1>3. v \in Programs(c.engine)
    BY ContractPrograms
  <1> HIDE DEF v
  <1>4. /\ ~AnyOf(v, Inserts)
        /\ ~AnyOf(v, WrongMakers("table")) /\ ~AnyOf(v, WrongMakers("view"))
        /\ ~AnyOf(v, Touches) /\ ~AnyOf(v, Refreshes) /\ \A r \in Rels : ~AnyOf(v, Fills(r))
        /\ \A V : Enforced(c) => Passes(v, V, Verifies, Triples)
        /\ ~Enforced(c) => ~AnyOf(v, Verifies)
    BY <1>1, <1>2, Shorts
  <1>5. Clean(v, c.engine)
    BY <1>0, <1>4, NothingTemporary DEF Temps
  <1> QED BY <1>3, <1>4, <1>5 DEF v

LEMMA ThenVerified ==
  ASSUME NEW c \in Config, NEW p, Making(p, c)
  PROVE  LET q == p \o VerifyAfter(c)
         IN  /\ Making(q, c) /\ Checked(q, c) /\ (Settling(p, c) => Settling(q, c))
             /\ \A r \in Rels : ~AnyOf(p, Fills(r)) => ~AnyOf(q, Fills(r))
             /\ Aside(p) => Aside(q)
  <1> DEFINE v == VerifyAfter(c)
  <1>1. /\ v \in Programs(c.engine) /\ Clean(v, c.engine) /\ ~AnyOf(v, Inserts)
        /\ ~AnyOf(v, WrongMakers("table")) /\ ~AnyOf(v, Touches)
        /\ \A r \in Rels : ~AnyOf(v, Fills(r))
        /\ \A V : Enforced(c) => Passes(v, V, Verifies, Triples)
        /\ ~Enforced(c) => ~AnyOf(v, Verifies)
    BY Verification
  <1> HIDE DEF v
  <1>2. p \in Programs(c.engine) /\ p \o v \in Programs(c.engine)
    BY <1>1, Concatenation DEF Making
  <1>3. Clean(p \o v, c.engine)
    BY <1>1, <1>2, Cleaning DEF Making
  <1>4. Making(p \o v, c)
    BY <1>1, <1>2, <1>3, Joining DEF Making
  <1>5. Checked(p \o v, c)
    <2>1. ~AnyOf(p, {})
      BY DEF AnyOf
    <2> QED BY <1>1, <1>2, <2>1, Joining DEF Checked
  <1>6. Settling(p, c) => Settling(p \o v, c)
    BY <1>1, <1>2, Joining DEF Settling, Casting
  <1>7. \A r \in Rels : ~AnyOf(p, Fills(r)) => ~AnyOf(p \o v, Fills(r))
    BY <1>1, <1>2, Joining
  <1>8. Aside(p) => Aside(p \o v)
    <2>1. "scratch" \in Rels
      BY DEF Rels
    <2> QED BY <1>1, <1>2, <2>1, Joining DEF Aside
  <1> QED BY <1>4, <1>5, <1>6, <1>7, <1>8 DEF v

LEMMA Contracting ==
  ASSUME NEW c \in Config
  PROVE  LET p == Contract(c)
         IN  Making(p, c) /\ Checked(p, c) /\ Settling(p, c) /\ ~AnyOf(p, Fills("frame"))
  <1> DEFINE x == IF Enforced(c) /\ c.mode = "cast" THEN Cast(c) ELSE Ctas(c.engine, "model", "raw")
  <1>0. "raw" \in Hows /\ c.engine \in Engines /\ "frame" \in Rels
    BY DEF Hows, Config, Rels
  <1>1. Tabular(x, c.engine) /\ x \in Programs(c.engine)
    BY <1>0, CastingModels, CreatingTables, CastPrograms, CtasPrograms
  <1>2. Enforced(c) /\ c.mode = "cast" => Casting(x)
    BY CastingModels
  <1>3. Contract(c) = x \o VerifyAfter(c)
    BY DEF Contract
  <1> HIDE DEF x
  <1>4. Making(x, c) /\ Settling(x, c) /\ ~AnyOf(x, Fills("frame"))
    BY <1>1, <1>2 DEF Making, Settling, Tabular, Plain
  <1> QED BY <1>0, <1>3, <1>4, ThenVerified

\* A view.
LEMMA Viewing ==
  ASSUME NEW over \in {"select", "backing"}
  PROVE  LET p == <<View(over)>>
         IN  /\ \A V : Passes(p, V, Makers("view"), Touches)
             /\ ~AnyOf(p, WrongMakers("view")) /\ ~AnyOf(p, Inserts) /\ ~AnyOf(p, Refreshes)
             /\ \A r : ~AnyOf(p, Fills(r))
  <1>0. "view" \in Ops /\ "model" \in Rels /\ over \in Hows
    BY DEF Ops, Rels, Hows
  <1>1. /\ Is(View(over)) \in Makers("view") /\ Is(View(over)) \notin WrongMakers("view")
        /\ Is(View(over)) \notin Inserts /\ Is(View(over)) \notin Refreshes
        /\ \A r : Is(View(over)) \notin Fills(r)
    BY <1>0, Sorts DEF View
  <1> QED BY <1>1, Shorts

LEMMA SqlModels ==
  ASSUME NEW c \in Config
  PROVE  /\ Making(SqlTable(c), c) /\ Checked(SqlTable(c), c) /\ Settling(SqlTable(c), c)
         /\ Making(DirectDdl(c), c)
         /\ c.engine # "duckdb" => Checked(DirectDdl(c), c) /\ Settling(DirectDdl(c), c)
         /\ c.engine = "duckdb" => ~AnyOf(DirectDdl(c), Verifies)
  <1> DEFINE x == Contract(c)
             r == Asked(<<Query("raw")>>)
  <1>0. "model" \in Rels /\ {"raw", "none"} \subseteq Hows /\ "model" # "frame" /\ "model" # "scratch"
    BY DEF Rels, Hows
  <1>1. Making(x, c) /\ Checked(x, c) /\ Settling(x, c)
    BY Contracting
  <1>2. /\ <<Query("raw")>> \in Programs(c.engine) /\ <<Put("model", "raw")>> \in Programs(c.engine)
        /\ <<>> \in Programs(c.engine)
    <2>1. Query("raw") \in Statements(c.engine) /\ Put("model", "raw") \in Statements(c.engine)
      BY <1>0, SingleStatements
    <2> QED BY <2>1, ShortPrograms
  <1>3. /\ Plain(<<Query("raw")>>) /\ \A q : ~AnyOf(<<Query("raw")>>, Fills(q))
        /\ Plain(<<Put("model", "raw")>>)
        /\ \A q : AnyOf(<<Put("model", "raw")>>, Fills(q)) <=> q = "model"
        /\ \A V : Passes(<<Put("model", "raw")>>, V, Makers("table"), Touches)
    BY <1>0, Singly
  <1>4. Making(<<Put("model", "raw")>>, c) /\ ~AnyOf(<<Put("model", "raw")>>, Verifies)
    BY <1>0, <1>2, <1>3, NothingTemporary DEF Making, Plain
  <1>5. r \in Programs(c.engine) /\ Plain(r) /\ Clean(r, c.engine)
    <2>1. Clean(<<Query("raw")>>, c.engine)
      BY <1>3, NothingTemporary
    <2> QED BY <1>2, <1>3, <2>1, AskedProgram, Cleaning, Plainly
  <1> HIDE DEF x, r
  <1>6. \A q : ~AnyOf(q, {})
    BY DEF AnyOf
  <1>7. Making(r \o x, c) /\ Checked(r \o x, c) /\ Settling(r \o x, c)
    <2>1. r \o x \in Programs(c.engine) /\ Clean(r \o x, c.engine)
      BY <1>1, <1>5, Concatenation, Cleaning DEF Making
    <2>2. Making(r \o x, c)
      BY <1>1, <1>5, <1>6, <2>1, Joining DEF Making, Plain
    <2>3. Checked(r \o x, c)
      BY <1>1, <1>5, <1>6, Joining DEF Making, Checked
    <2>4. Settling(r \o x, c)
      BY <1>1, <1>5, Joining DEF Making, Settling, Casting, Plain
    <2> QED BY <2>2, <2>3, <2>4
  <1>8. <<>> \o x = x
    BY <1>1 DEF Making, Programs
  <1>9. SqlTable(c) = r \o x \/ SqlTable(c) = x
    BY <1>8 DEF SqlTable, r, x
  <1>10. DirectDdl(c) = IF c.engine = "duckdb" THEN <<Put("model", "raw")>> ELSE SqlTable(c)
    BY DEF DirectDdl
  <1> QED BY <1>1, <1>4, <1>7, <1>9, <1>10

\* The program of an incremental model appends first or not at all; where it makes
\* the table its files lie aside only while there is none.
LEMMA IncrementalModels ==
  ASSUME NEW c \in Config, NEW exists \in BOOLEAN
  PROVE  LET p == SqlIncremental(c, exists)
         IN  /\ p \in Programs(c.engine) /\ Clean(p, c.engine)
             /\ Passes(p, {}, Makers("table"), Touches)
             /\ ~AnyOf(p, WrongMakers("table")) /\ Checked(p, c) /\ ~AnyOf(p, Fills("frame"))
             /\ AnyOf(p, Inserts) => /\ exists /\ Is(Head(p)) \in Inserts
                                     /\ ~AnyOf(Tail(p), Inserts)
             /\ IF exists THEN ~AnyOf(p, Fills("scratch")) ELSE Aside(p)
  <1> DEFINE v == VerifyAfter(c)
  <1>0. "model" \in Rels /\ "raw" \in Hows /\ "insert" \in Ops /\ {"frame", "scratch"} \subseteq Rels
        /\ "model" # "scratch" /\ "model" # "frame"
    BY DEF Rels, Hows, Ops
  <1>1. CASE ~exists
    <2> DEFINE x == Ctas(c.engine, "model", "raw")
    <2>1. x \in Programs(c.engine) /\ Tabular(x, c.engine) /\ Aside(x)
      BY <1>0, CtasPrograms, CreatingTables DEF Config
    <2>2. SqlIncremental(c, exists) = x \o VerifyAfter(c)
      BY <1>1 DEF SqlIncremental
    <2> HIDE DEF x
    <2>3. Making(x, c) /\ ~AnyOf(x, Fills("frame"))
      BY <2>1 DEF Making, Tabular, Plain
    <2>4. /\ Making(x \o VerifyAfter(c), c) /\ Checked(x \o VerifyAfter(c), c)
          /\ ~AnyOf(x \o VerifyAfter(c), Fills("frame")) /\ Aside(x \o VerifyAfter(c))
      BY <1>0, <2>1, <2>3, ThenVerified
    <2> QED BY <1>1, <2>2, <2>4 DEF Making
  <1>2. CASE exists
    <2> DEFINE s == St("insert", "model", "raw")
               x == Asked(<<s>>)
    <2>1. /\ Is(s) \in Inserts /\ Is(s) \in Makers("table") /\ Is(s) \notin WrongMakers("table")
          /\ \A r : Is(s) \in Fills(r) <=> r = "model"
      BY <1>0, Sorts
    <2>2. <<s>> \in Programs(c.engine)
      <3>1. s \in Statements(c.engine)
        BY <1>0, SingleStatements
      <3> QED BY <3>1, ShortPrograms
    <2>3. x \in Programs(c.engine)
      BY <2>2, AskedProgram
    <2>4. /\ Passes(<<s>>, {}, Makers("table"), Touches) /\ ~AnyOf(<<s>>, WrongMakers("table"))
          /\ ~AnyOf(<<s>>, Fills("scratch")) /\ ~AnyOf(<<s>>, Fills("frame"))
      BY <1>0, <2>1, Shorts
    <2>5. /\ Passes(x, {}, Makers("table"), Touches) /\ ~AnyOf(x, WrongMakers("table"))
          /\ ~AnyOf(x, Fills("scratch")) /\ ~AnyOf(x, Fills("frame"))
      BY <1>0, <2>2, <2>4, Dressing
    <2>6. Clean(x, c.engine)
      BY <2>5, NothingTemporary
    <2>7. Len(x) = 1 /\ Is(x[1]) \in Inserts
      <3>1. DOMAIN x = {1} /\ x[1] = [s EXCEPT !.asked = TRUE]
        <4>1. DOMAIN <<s>> = {1} /\ <<s>>[1] = s
          OBVIOUS
        <4> HIDE DEF s
        <4> QED BY <4>1 DEF Asked
      <3>2. Is([s EXCEPT !.asked = TRUE]) = Is(s)
        BY DEF Is, St
      <3>3. Len(x) = 1
        BY <2>3, <3>1 DEF Programs
      <3> QED BY <2>1, <3>1, <3>2, <3>3
    <2> HIDE DEF s, x
    <2>8. /\ v \in Programs(c.engine) /\ Clean(v, c.engine) /\ ~AnyOf(v, Inserts)
          /\ ~AnyOf(v, WrongMakers("table")) /\ ~AnyOf(v, Touches)
          /\ ~AnyOf(v, Fills("scratch")) /\ ~AnyOf(v, Fills("frame"))
          /\ \A V : Enforced(c) => Passes(v, V, Verifies, Triples)
      BY <1>0, Verification
    <2> DEFINE p == x \o v
    <2>9. SqlIncremental(c, exists) = p
      BY <1>2 DEF SqlIncremental, x, s
    <2> HIDE DEF v
    <2>10. p \in Programs(c.engine) /\ Clean(p, c.engine)
      BY <2>3, <2>6, <2>8, Concatenation, Cleaning
    <2>11. /\ Passes(p, {}, Makers("table"), Touches) /\ ~AnyOf(p, WrongMakers("table"))
           /\ ~AnyOf(p, Fills("scratch")) /\ ~AnyOf(p, Fills("frame"))
      BY <2>3, <2>5, <2>8, Joining
    <2>12. Checked(p, c)
      <3>1. ~AnyOf(x, {})
        BY DEF AnyOf
      <3> QED BY <2>3, <2>8, <3>1, Joining DEF Checked
    <2>13. Is(Head(p)) \in Inserts /\ Tail(p) = v
      <3> HIDE DEF p
      <3>1. x \in Seq(Statements(c.engine)) /\ v \in Seq(Statements(c.engine))
        BY <2>3, <2>8 DEF Programs
      <3>2. p # <<>> /\ Head(p) = x[1] /\ Tail(p) = v
        <4>1. /\ p \in Seq(Statements(c.engine)) /\ Len(p) = 1 + Len(v) /\ p[1] = x[1]
              /\ \A i \in 1..Len(v) : p[i + 1] = v[i]
          <5>1. /\ DOMAIN x = 1..Len(x) /\ DOMAIN v = 1..Len(v) /\ Len(v) \in Nat
                /\ DOMAIN p = 1..(Len(x) + Len(v)) /\ Len(p) \in Nat
                /\ \A i \in DOMAIN x : p[i] = x[i]
                /\ \A i \in DOMAIN v : p[Len(x) + i] = v[i]
            BY <2>3, <2>8, Positions DEF p
          <5>2. p \in Seq(Statements(c.engine)) /\ DOMAIN p = 1..Len(p)
            BY <2>10 DEF Programs
          <5>3. 1 + Len(v) = Len(p)
            BY <2>7, <5>1, <5>2
          <5>4. p[1] = x[1] /\ \A i \in 1..Len(v) : p[1 + i] = v[i] /\ 1 + i = i + 1
            BY <2>7, <5>1
          <5> QED BY <5>2, <5>3, <5>4
        <4>2. Tail(p) \in Seq(Statements(c.engine)) /\ Len(Tail(p)) = Len(v)
              /\ \A i \in 1..Len(v) : Tail(p)[i] = v[i]
          BY <3>1, <4>1
        <4>3. Tail(p) = v
          <5> DEFINE t == Tail(p)
          <5>1. t \in Seq(Statements(c.engine)) /\ Len(t) = Len(v) /\ \A i \in 1..Len(v) : t[i] = v[i]
            BY <4>2
          <5> HIDE DEF t
          <5>2. t = v BY <3>1, <5>1, SameSequence
          <5> QED BY <5>2 DEF t
        <4> QED BY <3>1, <4>1, <4>3
      <3> QED BY <2>7, <3>2
    <2> HIDE DEF p
    <2> QED BY <1>2, <2>8, <2>9, <2>10, <2>11, <2>12, <2>13
  <1> QED BY <1>1, <1>2

LEMMA Views ==
  ASSUME NEW c \in Config
  PROVE  LET p == SqlView(c)
         IN  /\ p \in Programs(c.engine) /\ Clean(p, c.engine)
             /\ Passes(p, {}, Makers("view"), Touches)
             /\ ~AnyOf(p, WrongMakers("view")) /\ ~AnyOf(p, Inserts)
  <1> DEFINE w == <<View("select")>>
             d == <<Drop("model")>>
  <1>0. "model" \in Rels /\ "select" \in Hows
    BY DEF Rels, Hows
  <1>1. /\ Passes(w, {}, Makers("view"), Touches) /\ ~AnyOf(w, WrongMakers("view"))
        /\ ~AnyOf(w, Inserts) /\ \A r : ~AnyOf(w, Fills(r))
    BY Viewing
  <1>2. w \in Programs(c.engine) /\ (c.engine = "postgres" => d \in Programs(c.engine))
    <2>1. /\ View("select") \in Statements(c.engine)
          /\ c.engine = "postgres" => Drop("model") \in Statements(c.engine)
      BY <1>0, SingleStatements DEF Atomic
    <2> QED BY <2>1, ShortPrograms
  <1>3. Plain(d) /\ \A r : ~AnyOf(d, Fills(r))
    BY <1>0, Singly
  <1>4. Clean(w, c.engine) /\ Clean(d, c.engine)
    BY <1>1, <1>3, NothingTemporary
  <1>5. ~AnyOf(d, WrongMakers("view")) /\ ~AnyOf(d, {})
    BY <1>3 DEF AnyOf, WrongMakers
  <1>6. SqlView(c) = IF c.engine = "postgres" THEN d \o w
                     ELSE IF c.engine = "duckdb" THEN Asked(w) ELSE w
    <2>1. <<Drop("model"), View("select")>> = d \o w
      OBVIOUS
    <2> QED BY <2>1 DEF SqlView, PostgresView
  <1> HIDE DEF w, d
  <1>7. CASE c.engine = "postgres"
    <2>1. d \o w \in Programs(c.engine) /\ Clean(d \o w, c.engine)
      BY <1>2, <1>4, <1>7, Concatenation, Cleaning
    <2>2. /\ Passes(d \o w, {}, Makers("view"), Touches)
          /\ ~AnyOf(d \o w, WrongMakers("view")) /\ ~AnyOf(d \o w, Inserts)
      BY <1>1, <1>2, <1>3, <1>5, <1>7, Joining DEF Plain
    <2> QED BY <1>6, <1>7, <2>1, <2>2
  <1>8. CASE c.engine # "postgres"
    <2>1. /\ Asked(w) \in Programs(c.engine) /\ Clean(Asked(w), c.engine)
      BY <1>2, <1>4, AskedProgram, Cleaning
    <2>2. /\ Passes(Asked(w), {}, Makers("view"), Touches)
          /\ ~AnyOf(Asked(w), WrongMakers("view")) /\ ~AnyOf(Asked(w), Inserts)
      BY <1>0, <1>1, <1>2, Dressing
    <2> QED BY <1>1, <1>2, <1>4, <1>6, <1>8, <2>1, <2>2
  <1> QED BY <1>7, <1>8

\* _materialize_relation, for the model itself and for the table behind a view.
LEMMA FrameModels ==
  ASSUME NEW e \in Engines
  PROVE  /\ Frame(e, "model") \in Programs(e) /\ Tabular(Frame(e, "model"), e)
         /\ LET p == Frame(e, "backing")
            IN  /\ p \in Programs(e) /\ Plain(p) /\ Clean(p, e)
                /\ Passes(p, {}, Fills("backing"), Refreshes) /\ ~AnyOf(p, Fills("model"))
  <1>0. /\ {"model", "backing"} \subseteq Rels /\ "raw" \in Hows /\ "model" # "frame"
        /\ "model" # "scratch" /\ "backing" # "model" /\ "backing" # "frame" /\ "backing" # "scratch"
    BY DEF Rels, Hows
  <1>1. Frame(e, "model") \in Programs(e) /\ Frame(e, "backing") \in Programs(e)
    BY FramePrograms
  <1> DEFINE Good(p, rel) ==
        /\ Plain(p) /\ Clean(p, e)
        /\ rel = "model" => Passes(p, {}, Makers("table"), Touches)
        /\ rel = "backing" => Passes(p, {}, Fills("backing"), Refreshes) /\ ~AnyOf(p, Fills("model"))
  <1>2. ASSUME NEW rel \in {"model", "backing"}
        PROVE  Good(Frame(e, rel), rel)
    <2>1. CASE e \in Spark
      <3>1. Frame(e, rel) = Save(e, rel, "raw")
        BY <2>1 DEF Frame, Spark
      <3> QED BY <1>0, <2>1, <3>1, Saving DEF Tabular
    <2>2. CASE e \notin Spark
      <3> DEFINE s == IF e = "postgres" THEN <<Swap(rel)>> ELSE <<Put(rel, "raw")>>
      <3>1. s \in Programs(e)
        <4>1. Swap(rel) \in Statements(e) /\ Put(rel, "raw") \in Statements(e)
          BY <1>0, SingleStatements
        <4> QED BY <4>1, ShortPrograms
      <3>2. /\ Plain(s) /\ \A r : AnyOf(s, Fills(r)) <=> r = rel
            /\ rel = "model" => \A V : Passes(s, V, Makers("table"), Touches)
            /\ rel = "backing" => \A V : Passes(s, V, Fills("backing"), Refreshes)
        <4> DEFINE a == IF e = "postgres" THEN Swap(rel) ELSE Put(rel, "raw")
        <4>1. a \in {Create(rel, "raw"), Put(rel, "raw"), Swap(rel)} OBVIOUS
        <4>2. s = <<a>> OBVIOUS
        <4> HIDE DEF a, s, Good
        <4>3. /\ rel # "frame" => Plain(<<a>>)
              /\ \A r : AnyOf(<<a>>, Fills(r)) <=> r = rel
              /\ rel = "model" => \A V : Passes(<<a>>, V, Makers("table"), Touches)
              /\ rel = "backing" => \A V : Passes(<<a>>, V, Fills("backing"), Refreshes)
          <5>1. rel \in Rels /\ "raw" \in Hows BY <1>0
          <5> QED BY <4>1, <5>1, Singly
        <4>4. rel # "frame" BY <1>0
        <4> QED BY <4>2, <4>3, <4>4
      <3>3. Frame(e, rel) = s \/ Frame(e, rel) = Asked(s)
        BY <2>2 DEF Frame, Spark
      <3> HIDE DEF s
      <3>4. Clean(s, e)
        BY <1>0, <3>2, NothingTemporary
      <3>5. Good(s, rel)
        BY <1>0, <3>2, <3>4
      <3>6. Plain(Asked(s)) /\ Clean(Asked(s), e)
        BY <3>1, <3>2, <3>4, Cleaning, Plainly
      <3>7. Good(Asked(s), rel)
        BY <1>0, <3>1, <3>5, <3>6, Dressing
      <3> QED BY <3>3, <3>5, <3>7
    <2> QED BY <2>1, <2>2
  <1> QED BY <1>1, <1>2 DEF Tabular

\* The frame of a Python model taken over by its contract.
LEMMA TakingOver ==
  ASSUME NEW c \in Config
  PROVE  Making(TakenOver(c), c) /\ (Enforced(c) => Settling(TakenOver(c), c))
  <1> DEFINE e == c.engine
             x == Contract(c)
  <1>0. /\ e \in Engines /\ {"model", "frame"} \subseteq Rels /\ "raw" \in Hows /\ "frame" \in Temps
        /\ "frame" \notin {"model", "backing"} /\ "model" # "frame" /\ "model" # "scratch"
        /\ "frame" # "scratch"
    BY DEF Config, Rels, Hows, Temps
  <1>1. Making(x, c) /\ Settling(x, c) /\ ~AnyOf(x, Fills("frame"))
    BY Contracting
  <1>2. /\ <<Tidy("frame")>> \in Programs(e) /\ <<Swap("frame")>> \in Programs(e)
        /\ <<Tidy("frame"), Swap("frame")>> \in Programs(e)
        /\ <<Put("frame", "raw")>> \in Programs(e) /\ <<Put("model", "raw")>> \in Programs(e)
    <2>1. /\ Tidy("frame") \in Statements(e) /\ Swap("frame") \in Statements(e)
          /\ Put("frame", "raw") \in Statements(e) /\ Put("model", "raw") \in Statements(e)
      BY <1>0, SingleStatements
    <2> QED BY <2>1, ShortPrograms
  <1>3. /\ Plain(<<Tidy("frame")>>) /\ \A r : ~AnyOf(<<Tidy("frame")>>, Fills(r))
        /\ \A s \in {Swap("frame"), Put("frame", "raw")} :
             /\ ~AnyOf(<<s>>, Verifies) /\ ~AnyOf(<<s>>, Inserts) /\ ~AnyOf(<<s>>, WrongMakers("table"))
             /\ \A r : AnyOf(<<s>>, Fills(r)) <=> r = "frame"
        /\ Plain(<<Put("model", "raw")>>)
        /\ \A r : AnyOf(<<Put("model", "raw")>>, Fills(r)) <=> r = "model"
        /\ \A V : Passes(<<Put("model", "raw")>>, V, Makers("table"), Touches)
    BY <1>0, Singly
  <1> HIDE DEF e, x
  <1>4. ASSUME NEW a \in Programs(e), ~AnyOf(a, Verifies), ~AnyOf(a, Inserts), ~AnyOf(a, WrongMakers("table")),
               \A i \in DOMAIN a : Is(a[i]) \in Fills("frame") => i = Len(a),
               ~AnyOf(a, Fills("scratch")),
               TakenOver(c) = a \o Try(x, "frame") \o <<Tidy("frame")>>
        PROVE  Making(TakenOver(c), c) /\ (Enforced(c) => Settling(TakenOver(c), c))
    <2>1. /\ x \in Programs(e) /\ Clean(x, e) /\ Passes(x, {}, Makers("table"), Touches)
          /\ ~AnyOf(x, Fills("frame"))
      BY <1>1 DEF Making, e
    <2>2. \A r \in Temps \ {"frame"} : ~AnyOf(a, Fills(r))
      BY <1>4 DEF Temps
    <2> DEFINE p == TakenOver(c)
    <2>3. /\ p \in Programs(e) /\ Clean(p, e) /\ Passes(p, {}, Makers("table"), Touches)
          /\ Casting(x) => Casting(p)
          /\ ~AnyOf(x, Inserts) => ~AnyOf(p, Inserts)
          /\ ~AnyOf(x, Verifies) => ~AnyOf(p, Verifies)
          /\ ~AnyOf(x, WrongMakers("table")) => ~AnyOf(p, WrongMakers("table"))
      BY <1>0, <1>4, <2>1, <2>2, Wrapping
    <2> QED BY <1>1, <1>4, <2>3 DEF Making, Settling, e
  <1>5. CASE e = "postgres"
    <2> DEFINE a == <<Tidy("frame"), Swap("frame")>>
    <2>1. TakenOver(c) = a \o Try(x, "frame") \o <<Tidy("frame")>>
      BY <1>5 DEF TakenOver, PostgresPython, e, x
    <2>2. a = <<Tidy("frame")>> \o <<Swap("frame")>>
      OBVIOUS
    <2>3. /\ ~AnyOf(a, Verifies) /\ ~AnyOf(a, Inserts) /\ ~AnyOf(a, WrongMakers("table"))
          /\ ~AnyOf(a, Fills("scratch"))
      BY <1>0, <1>2, <1>3, <2>2, Joining DEF Plain
    <2>4. \A i \in DOMAIN a : Is(a[i]) \in Fills("frame") => i = Len(a)
      <3>1. DOMAIN a = {1, 2} /\ Len(a) = 2 /\ a[1] = Tidy("frame")
        OBVIOUS
      <3>2. Is(Tidy("frame")) \notin Fills("frame")
        BY <1>3, Shorts
      <3> QED BY <3>1, <3>2
    <2> HIDE DEF a
    <2> QED BY <1>2, <1>4, <2>1, <2>3, <2>4 DEF a
  <1>6. CASE e = "snowflake" /\ c.mode # "verify"
    <2> DEFINE a == <<Put("frame", "raw")>>
    <2>1. TakenOver(c) = a \o Try(x, "frame") \o <<Tidy("frame")>>
      BY <1>6 DEF TakenOver, SnowflakePython, e, x
    <2>2. DOMAIN a = {1} /\ Len(a) = 1
      OBVIOUS
    <2>3. a \in Programs(e) /\ ~AnyOf(a, Verifies) /\ ~AnyOf(a, Inserts) /\ ~AnyOf(a, WrongMakers("table"))
          /\ ~AnyOf(a, Fills("scratch"))
      BY <1>0, <1>2, <1>3
    <2> HIDE DEF a
    <2> QED BY <1>4, <2>1, <2>2, <2>3
  <1>7. CASE e = "snowflake" /\ c.mode = "verify"
    <2> DEFINE q == <<Put("model", "raw")>>
    <2>1. TakenOver(c) = q \o VerifyAfter(c)
      BY <1>7 DEF TakenOver, SnowflakePython, e
    <2>2. Making(q, c)
      BY <1>0, <1>2, <1>3, NothingTemporary DEF Making, Plain, e
    <2> HIDE DEF q
    <2> QED BY <1>7, <2>1, <2>2, ThenVerified DEF Settling
  <1>8. CASE e \notin {"postgres", "snowflake"}
    <2>1. TakenOver(c) = x
      BY <1>8 DEF TakenOver, e, x
    <2> QED BY <1>1, <2>1
  <1> QED BY <1>5, <1>6, <1>7, <1>8

LEMMA PythonModels ==
  ASSUME NEW c \in Config
  PROVE  /\ Making(PyTable(c), c) /\ Checked(PyTable(c), c)
         /\ c.engine # "bigquery" => Settling(PyTable(c), c)
         /\ Making(PyIncremental(c), c) /\ Checked(PyIncremental(c), c)
         /\ Making(LoadSeed(c), c) /\ Making(<<Refuse>>, c)
  <1> DEFINE f == Frame(c.engine, "model")
  <1>0. "refuse" \in Ops /\ "model" \in Rels /\ {"none", "raw"} \subseteq Hows /\ Temps \subseteq Rels
        /\ "model" # "frame" /\ "model" # "scratch" /\ c.engine \in Engines
    BY DEF Ops, Rels, Hows, Temps, Config
  <1>1. f \in Programs(c.engine) /\ Tabular(f, c.engine)
    BY <1>0, FrameModels
  <1> HIDE DEF f
  <1>2. Making(f, c)
    BY <1>1 DEF Making, Tabular, Plain
  <1>3. Making(<<Refuse>>, c) /\ ~AnyOf(<<Refuse>>, Verifies)
    <2>1. /\ Is(Refuse) \in Makers("table") /\ Is(Refuse) \notin Verifies /\ Is(Refuse) \notin Inserts
          /\ Is(Refuse) \notin WrongMakers("table") /\ \A r : Is(Refuse) \notin Fills(r)
      BY <1>0, Sorts DEF Refuse
    <2>2. /\ Passes(<<Refuse>>, {}, Makers("table"), Touches) /\ ~AnyOf(<<Refuse>>, Verifies)
          /\ ~AnyOf(<<Refuse>>, Inserts) /\ ~AnyOf(<<Refuse>>, WrongMakers("table"))
          /\ \A r : ~AnyOf(<<Refuse>>, Fills(r))
      BY <2>1, Shorts
    <2>3. <<Refuse>> \in Programs(c.engine)
      <3>1. Refuse \in Statements(c.engine)
        BY <1>0, SingleStatements
      <3> QED BY <3>1, ShortPrograms
    <2>4. Clean(<<Refuse>>, c.engine)
      BY <2>2, NothingTemporary
    <2> QED BY <2>2, <2>3, <2>4 DEF Making
  <1>4. Making(f \o VerifyAfter(c), c) /\ Checked(f \o VerifyAfter(c), c)
    BY <1>2, ThenVerified
  <1>5. Making(PyIncremental(c), c) /\ Checked(PyIncremental(c), c)
    BY <1>4 DEF PyIncremental, f
  <1>6. /\ Making(PyTable(c), c) /\ Checked(PyTable(c), c)
        /\ c.engine # "bigquery" => Settling(PyTable(c), c)
    <2>1. CASE c.mode = "off" \/ c.engine = "bigquery"
      <3>1. PyTable(c) = f \o VerifyAfter(c)
        BY <2>1 DEF PyTable, f
      <3> QED BY <1>4, <2>1, <3>1 DEF Settling
    <2>2. CASE ~(c.mode = "off" \/ c.engine = "bigquery") /\ c.mode = "cast" /\ ~c.expected
      <3>1. PyTable(c) = <<Refuse>> /\ ~Enforced(c)
        BY <2>2 DEF PyTable, Enforced
      <3> QED BY <1>3, <3>1 DEF Checked, Settling
    <2>3. CASE ~(c.mode = "off" \/ c.engine = "bigquery") /\ ~(c.mode = "cast" /\ ~c.expected)
      <3>1. PyTable(c) = TakenOver(c) \o VerifyAfter(c)
        BY <2>3 DEF PyTable
      <3>2. Making(TakenOver(c), c) /\ Settling(TakenOver(c), c)
        <4>1. c.mode = "cast" => Enforced(c)
          BY <2>3 DEF Enforced
        <4> QED BY <4>1, TakingOver DEF Settling
      <3> QED BY <3>1, <3>2, ThenVerified
    <2> QED BY <2>1, <2>2, <2>3
  <1>7. Making(LoadSeed(c), c)
    <2> DEFINE s == <<Swap("model")>>
               d == <<Drop("model")>>
               u == <<Put("model", "raw")>>
    <2>1. /\ s \in Programs(c.engine) /\ u \in Programs(c.engine)
          /\ c.engine = "postgres" => d \in Programs(c.engine)
      <3>1. /\ Swap("model") \in Statements(c.engine) /\ Put("model", "raw") \in Statements(c.engine)
            /\ c.engine = "postgres" => Drop("model") \in Statements(c.engine)
        BY <1>0, SingleStatements DEF Atomic
      <3> QED BY <3>1, ShortPrograms
    <2>2. /\ Plain(s) /\ \A r : AnyOf(s, Fills(r)) <=> r = "model"
          /\ \A V : Passes(s, V, Makers("table"), Touches)
          /\ Plain(u) /\ \A r : AnyOf(u, Fills(r)) <=> r = "model"
          /\ \A V : Passes(u, V, Makers("table"), Touches)
          /\ Plain(d) /\ \A r : ~AnyOf(d, Fills(r))
      BY <1>0, Singly
    <2>3. CASE c.engine = "postgres"
      <3>1. LoadSeed(c) = d \o s
        <4>1. <<Drop("model"), Swap("model")>> = d \o s
          OBVIOUS
        <4> QED BY <2>3, <4>1 DEF LoadSeed, PostgresSeed
      <3> HIDE DEF d, s
      <3>2. d \o s \in Programs(c.engine) /\ Plain(d \o s) /\ ~AnyOf(d \o s, Fills("scratch"))
        BY <1>0, <2>1, <2>2, <2>3, Concatenation, Plainly, Joining
      <3>3. Passes(d \o s, {}, Makers("table"), Touches)
        <4>1. ~AnyOf(d, {})
          BY DEF AnyOf
        <4> QED BY <2>1, <2>2, <2>3, <4>1, Joining
      <3>4. Clean(d \o s, c.engine)
        BY <3>2, NothingTemporary DEF Plain
      <3> QED BY <3>1, <3>2, <3>3, <3>4 DEF Making, Plain
    <2>4. CASE c.engine \in Spark
      <3>1. LoadSeed(c) = Save(c.engine, "model", "raw")
        BY <2>4 DEF LoadSeed, SparkSeed, Spark
      <3>2. Save(c.engine, "model", "raw") \in Programs(c.engine) /\ Tabular(Save(c.engine, "model", "raw"), c.engine)
        BY <1>0, <2>4, SavePrograms, Saving
      <3> QED BY <3>1, <3>2 DEF Making, Tabular, Plain
    <2>5. CASE c.engine \notin Spark /\ c.engine # "postgres"
      <3>1. LoadSeed(c) = u
        BY <1>0, <2>5 DEF LoadSeed, SnowflakeSeed, DuckSeed, BigQuerySeed, Spark, Engines
      <3> HIDE DEF u
      <3>2. Clean(u, c.engine)
        BY <1>0, <2>2, NothingTemporary
      <3> QED BY <2>1, <2>2, <3>1, <3>2 DEF Making, Plain
    <2> QED BY <2>3, <2>4, <2>5
  <1> QED BY <1>3, <1>5, <1>6, <1>7

LEMMA PythonViews ==
  ASSUME NEW c \in Config
  PROVE  LET p == PyView(c)
         IN  /\ p \in Programs(c.engine) /\ Clean(p, c.engine)
             /\ Passes(p, {}, Makers("view"), Touches)
             /\ ~AnyOf(p, WrongMakers("view")) /\ ~AnyOf(p, Inserts)
             /\ Checked(p, c) /\ Passes(p, {}, Fills("backing"), Refreshes)
  <1> DEFINE f == Frame(c.engine, "backing")
             w == <<View("backing")>>
             v == VerifyAfter(c)
  <1>0. /\ c.engine \in Engines /\ "model" \in Rels /\ "backing" \in Hows
        /\ "scratch" \in Rels /\ "frame" \in Rels
    BY DEF Config, Rels, Hows
  <1>1. /\ f \in Programs(c.engine) /\ Plain(f) /\ Clean(f, c.engine)
        /\ Passes(f, {}, Fills("backing"), Refreshes) /\ ~AnyOf(f, Fills("model"))
    BY <1>0, FrameModels
  <1>2. /\ Passes(w, {}, Makers("view"), Touches)
        /\ ~AnyOf(w, WrongMakers("view")) /\ ~AnyOf(w, Inserts) /\ ~AnyOf(w, Refreshes)
        /\ \A r : ~AnyOf(w, Fills(r))
    BY Viewing
  <1>3. w \in Programs(c.engine) /\ Clean(w, c.engine)
    <2>1. View("backing") \in Statements(c.engine)
      BY <1>0, SingleStatements
    <2> QED BY <1>2, <2>1, ShortPrograms, NothingTemporary
  <1>4. /\ v \in Programs(c.engine) /\ Clean(v, c.engine) /\ ~AnyOf(v, Inserts)
        /\ ~AnyOf(v, WrongMakers("view")) /\ ~AnyOf(v, Touches) /\ ~AnyOf(v, Refreshes)
        /\ \A V : Enforced(c) => Passes(v, V, Verifies, Triples)
    BY Verification
  <1>5. \A q : ~AnyOf(q, {})
    BY DEF AnyOf
  <1>6. ~AnyOf(f, WrongMakers("view")) /\ ~AnyOf(f, Inserts)
    BY <1>1 DEF WrongMakers, Plain
  <1>7. PyView(c) = f \o w \o v
    BY DEF PyView
  <1> HIDE DEF f, w, v
  <1> DEFINE fw == f \o w
  <1>8. /\ fw \in Programs(c.engine) /\ Clean(fw, c.engine)
        /\ Passes(fw, {}, Makers("view"), Touches) /\ Passes(fw, {}, Fills("backing"), Refreshes)
        /\ ~AnyOf(fw, WrongMakers("view")) /\ ~AnyOf(fw, Inserts)
    <2>1. fw \in Programs(c.engine) /\ Clean(fw, c.engine)
      BY <1>1, <1>3, Concatenation, Cleaning
    <2>2. ~AnyOf(fw, WrongMakers("view")) /\ ~AnyOf(fw, Inserts)
      BY <1>1, <1>2, <1>3, <1>6, Joining
    <2>3. Passes(fw, {}, Makers("view"), Touches)
      BY <1>1, <1>2, <1>3, <1>5, Joining
    <2>4. Passes(fw, {}, Fills("backing"), Refreshes)
      BY <1>1, <1>2, <1>3, Joining
    <2> QED BY <2>1, <2>2, <2>3, <2>4
  <1> HIDE DEF fw
  <1>9. /\ fw \o v \in Programs(c.engine) /\ Clean(fw \o v, c.engine)
        /\ Passes(fw \o v, {}, Makers("view"), Touches)
        /\ Passes(fw \o v, {}, Fills("backing"), Refreshes)
        /\ ~AnyOf(fw \o v, WrongMakers("view")) /\ ~AnyOf(fw \o v, Inserts)
        /\ Enforced(c) => Passes(fw \o v, {}, Verifies, Triples)
    <2>1. fw \o v \in Programs(c.engine) /\ Clean(fw \o v, c.engine)
      BY <1>4, <1>8, Concatenation, Cleaning
    <2>2. ~AnyOf(fw \o v, WrongMakers("view")) /\ ~AnyOf(fw \o v, Inserts)
      BY <1>4, <1>8, Joining
    <2>3. Passes(fw \o v, {}, Makers("view"), Touches)
      BY <1>4, <1>8, Joining
    <2>4. Passes(fw \o v, {}, Fills("backing"), Refreshes)
      BY <1>4, <1>8, Joining
    <2>5. Enforced(c) => Passes(fw \o v, {}, Verifies, Triples)
      BY <1>4, <1>5, <1>8, Joining
    <2> QED BY <2>1, <2>2, <2>3, <2>4, <2>5
  <1> QED BY <1>7, <1>9 DEF Checked, fw

\* The shape of every program: it makes the model once and for all, verifies what is
\* under contract after casting it, and cleans up.
Shape(p, c, exists) ==
  /\ p \in Programs(c.engine) /\ Clean(p, c.engine)
  /\ Passes(p, {}, Makers(KindOf(c)), Touches) /\ ~AnyOf(p, WrongMakers(KindOf(c)))
  /\ Contracted(c) => Passes(p, {}, Verifies, Triples)
  /\ Settles(c) => ~AnyOf(p, Verifies) \/ Casting(p)
  /\ AnyOf(p, Inserts) => exists /\ Is(Head(p)) \in Inserts /\ ~AnyOf(Tail(p), Inserts)
  /\ c.kind = "pyView" => Passes(p, {}, Fills("backing"), Refreshes)
  /\ IF c.kind = "incremental"
     THEN /\ ~AnyOf(p, Fills("frame"))
          /\ IF exists THEN ~AnyOf(p, Fills("scratch")) ELSE Aside(p)
     ELSE p = Program(c, FALSE)

LEMMA Shapes ==
  ASSUME NEW c \in Config, NEW exists \in BOOLEAN, c.kind # "ephemeral"
  PROVE  Shape(Program(c, exists), c, exists)
  <1> DEFINE p == Program(c, exists)
  <1>0. c.kind \in Kinds
    BY DEF Config
  <1>1. ASSUME Making(p, c), KindOf(c) = "table", c.kind \notin {"incremental", "pyView"},
               p = Program(c, FALSE),
               Contracted(c) => Checked(p, c), Settles(c) => ~AnyOf(p, Verifies) \/ Settling(p, c)
        PROVE  Shape(p, c, exists)
    <2>1. Contracted(c) => Passes(p, {}, Verifies, Triples)
      BY <1>1 DEF Contracted, Checked
    <2>2. Settles(c) => ~AnyOf(p, Verifies) \/ Casting(p)
      BY <1>1 DEF Settles, Settling
    <2> QED BY <1>1, <2>1, <2>2 DEF Shape, Making
  <1>2. CASE c.kind = "table"
    <2>1. p = SqlTable(c) /\ p = Program(c, FALSE)
      BY <1>2 DEF Program
    <2> QED BY <1>1, <1>2, <2>1, SqlModels DEF KindOf
  <1>3. CASE c.kind = "ddl"
    <2>1. p = DirectDdl(c) /\ p = Program(c, FALSE)
      BY <1>3 DEF Program
    <2> QED BY <1>1, <1>3, <2>1, SqlModels DEF KindOf, Contracted
  <1>4. CASE c.kind = "snapshot"
    <2>1. p = <<Refuse>> /\ p = Program(c, FALSE)
      BY <1>4 DEF Program
    <2> QED BY <1>1, <1>4, <2>1, PythonModels DEF KindOf, Contracted, Settles
  <1>5. CASE c.kind = "pyTable"
    <2>1. p = PyTable(c) /\ p = Program(c, FALSE)
      BY <1>5 DEF Program
    <2> QED BY <1>1, <1>5, <2>1, PythonModels DEF KindOf, Settles
  <1>6. CASE c.kind = "pyIncremental"
    <2>1. p = PyIncremental(c) /\ p = Program(c, FALSE)
      BY <1>6 DEF Program
    <2> QED BY <1>1, <1>6, <2>1, PythonModels DEF KindOf, Settles
  <1>7. CASE c.kind = "seed"
    <2>1. p = LoadSeed(c) /\ p = Program(c, FALSE)
      BY <1>7 DEF Program
    <2> QED BY <1>1, <1>7, <2>1, PythonModels DEF KindOf, Contracted, Settles
  <1>8. CASE c.kind = "view"
    <2>1. p = SqlView(c) /\ p = Program(c, FALSE)
      BY <1>8 DEF Program
    <2> QED BY <1>8, <2>1, Views DEF Shape, KindOf, Contracted, Settles
  <1>9. CASE c.kind = "pyView"
    <2>1. p = PyView(c) /\ p = Program(c, FALSE)
      BY <1>9 DEF Program
    <2>2. Contracted(c) => Enforced(c)
      BY DEF Contracted
    <2> QED BY <1>9, <2>1, <2>2, PythonViews DEF Shape, KindOf, Settles, Checked
  <1>10. CASE c.kind = "incremental"
    <2>1. p = SqlIncremental(c, exists)
      BY <1>10 DEF Program
    <2>2. Contracted(c) => Enforced(c)
      BY DEF Contracted
    <2> QED BY <1>10, <2>1, <2>2, IncrementalModels DEF Shape, KindOf, Settles, Checked
  <1> QED BY <1>0, <1>2, <1>3, <1>4, <1>5, <1>6, <1>7, <1>8, <1>9, <1>10 DEF Kinds

-----------------------------------------------------------------------------
(* The next statement of a program.                                        *)

LEMMA SortsOf ==
  ASSUME NEW e, NEW s \in Statements(e), NEW t, t = Is(s)
  PROVE  /\ t \in Triples
         /\ t \in Verifies <=> s.op = "verify"
         /\ t \in Inserts <=> s.op = "insert"
         /\ \A r : /\ t \in Fills(r) <=> s.op \in {"create", "put", "swap", "insert"} /\ s.rel = r
                   /\ t \in Tidies(r) <=> s.op = "tidy" /\ s.rel = r
                   /\ t \in Removes(r) <=> \/ s.op \in {"drop", "tidy"} /\ s.rel = r
                                           \/ s.op = "rename" /\ r = "scratch"
         /\ t \in Touches <=> \/ /\ s.op \in {"drop", "tidy", "create", "put", "swap", "insert"}
                                 /\ s.rel = "model"
                              \/ s.op = "view"
                              \/ s.op \in {"drop", "tidy"} /\ s.rel = "backing"
         /\ t \in Makers("view") <=> s.op \in {"refuse", "view"}
         /\ t \in Makers("table") <=>
              s.op = "refuse" \/ (s.op \in {"create", "put", "swap", "insert"} /\ s.rel = "model")
         /\ t \in WrongMakers("view") <=> s.op \in {"create", "put", "swap", "insert"} /\ s.rel = "model"
         /\ t \in WrongMakers("table") <=> s.op = "view"
         /\ t \in CastMakers <=> s.op \in {"create", "put"} /\ s.rel = "model" /\ s.how = "cast"
         /\ t \in Refreshes <=> s.op \in {"create", "put", "swap", "insert", "drop", "tidy"} /\ s.rel = "backing"
  <1>1. s.op \in Ops /\ s.rel \in Rels /\ s.how \in Hows
    BY DEF Statements
  <1>2. t = Is(St(s.op, s.rel, s.how))
    BY DEF Is, St
  <1> QED BY <1>1, <1>2, Sorts

LEMMA Tails ==
  ASSUME NEW e, NEW p \in Programs(e), p # <<>>, NEW q, q = Tail(p), NEW t, t = Is(Head(p))
  PROVE  /\ q \in Programs(e) /\ Head(p) \in Statements(e)
         /\ \A B : ~AnyOf(p, B) <=> t \notin B /\ ~AnyOf(q, B)
         /\ \A V, A, B : Passes(p, V, A, B) =>
              \/ t \notin V /\ Passes(q, V, A, B)
              \/ t \in A /\ ~AnyOf(q, B)
         /\ \A rel : /\ Safe(p, rel) => Safe(q, rel) /\ (t \in Fills(rel) => Covered(q, rel))
                     /\ Covered(p, rel) => \/ t \in Tidies(rel)
                                           \/ rel \in Head(p).undo /\ Covered(q, rel)
  <1>1. /\ Head(p) \in Statements(e) /\ q \in Programs(e) /\ Head(p) = p[1]
        /\ Len(p) \in Nat /\ Len(p) >= 1 /\ DOMAIN p = 1..Len(p) /\ 1 \in DOMAIN p
    BY DEF Programs
  <1>2. DOMAIN q = 1..(Len(p) - 1) /\ \A i \in DOMAIN q : q[i] = p[i + 1] /\ i + 1 \in DOMAIN p
    BY <1>1 DEF Programs
  <1>3. \A i \in DOMAIN p : i # 1 => i - 1 \in DOMAIN q /\ q[i - 1] = p[i]
    <2> SUFFICES ASSUME NEW i \in DOMAIN p, i # 1 PROVE i - 1 \in DOMAIN q /\ q[i - 1] = p[i]
      OBVIOUS
    <2>1. i - 1 \in DOMAIN q /\ (i - 1) + 1 = i
      BY <1>1, <1>2
    <2>2. q[i - 1] = p[(i - 1) + 1]
      BY <1>2, <2>1
    <2> QED BY <2>1, <2>2
  <1>4. \A B : ~AnyOf(p, B) <=> t \notin B /\ ~AnyOf(q, B)
    BY <1>1, <1>2, <1>3 DEF AnyOf
  <1>5. ASSUME NEW V, NEW A, NEW B, Passes(p, V, A, B)
        PROVE  (t \notin V /\ Passes(q, V, A, B)) \/ (t \in A /\ ~AnyOf(q, B))
    <2>1. PICK j \in DOMAIN p : /\ Is(p[j]) \in A
                                /\ \A i \in DOMAIN p : /\ i < j => Is(p[i]) \notin V
                                                       /\ i > j => Is(p[i]) \notin B
      BY <1>5 DEF Passes
    <2>2. CASE j = 1
      <3>1. \A i \in DOMAIN q : Is(q[i]) \notin B
        <4>1. \A i \in DOMAIN q : i + 1 > 1
          BY <1>1, <1>2
        <4> QED BY <1>2, <2>1, <2>2, <4>1
      <3> QED BY <1>1, <2>1, <2>2, <3>1 DEF AnyOf
    <2>3. CASE j # 1
      <3>1. t \notin V
        BY <1>1, <2>1, <2>3
      <3>2. j - 1 \in DOMAIN q /\ Is(q[j - 1]) \in A
        BY <1>3, <2>1, <2>3
      <3>3. \A i \in DOMAIN q : (i < j - 1 => i + 1 < j) /\ (i > j - 1 => i + 1 > j)
        BY <1>1, <1>2, <2>1
      <3>4. \A i \in DOMAIN q : /\ i < j - 1 => Is(q[i]) \notin V
                                /\ i > j - 1 => Is(q[i]) \notin B
        BY <1>2, <2>1, <3>3
      <3> QED BY <3>1, <3>2, <3>4 DEF Passes
    <2> QED BY <2>2, <2>3
  <1>6. ASSUME NEW rel, Safe(p, rel)
        PROVE  Safe(q, rel) /\ (t \in Fills(rel) => Covered(q, rel))
    <2>1. ASSUME NEW i \in DOMAIN p, Is(p[i]) \in Fills(rel)
          PROVE  \E j \in DOMAIN q : /\ j > i - 1 /\ Is(q[j]) \in Tidies(rel)
                                     /\ \A k \in DOMAIN q : k > i - 1 /\ k < j => rel \in q[k].undo
      <3>1. PICK j \in DOMAIN p : /\ j > i /\ Is(p[j]) \in Tidies(rel)
                                  /\ \A k \in DOMAIN p : k > i /\ k < j => rel \in p[k].undo
        BY <1>6, <2>1 DEF Safe
      <3>2. j # 1
        BY <1>1, <3>1
      <3>3. j - 1 \in DOMAIN q /\ j - 1 > i - 1 /\ Is(q[j - 1]) \in Tidies(rel)
        BY <1>1, <1>3, <3>1, <3>2
      <3>4. \A k \in DOMAIN q : k > i - 1 /\ k < j - 1 => k + 1 > i /\ k + 1 < j
        BY <1>1, <1>2, <3>1
      <3>5. \A k \in DOMAIN q : k > i - 1 /\ k < j - 1 => rel \in q[k].undo
        BY <1>2, <3>1, <3>4
      <3> QED BY <3>3, <3>5
    <2>2. Safe(q, rel)
      <3> SUFFICES ASSUME NEW i \in DOMAIN q, Is(q[i]) \in Fills(rel)
                   PROVE  \E j \in DOMAIN q : /\ j > i /\ Is(q[j]) \in Tidies(rel)
                                              /\ \A k \in DOMAIN q : k > i /\ k < j => rel \in q[k].undo
        BY DEF Safe
      <3>1. i + 1 \in DOMAIN p /\ Is(p[i + 1]) \in Fills(rel) /\ (i + 1) - 1 = i
        BY <1>1, <1>2
      <3> QED BY <2>1, <3>1
    <2>3. t \in Fills(rel) => Covered(q, rel)
      <3>1. \A k \in DOMAIN q : k > 1 - 1
        BY <1>1, <1>2
      <3> QED BY <1>1, <2>1, <3>1 DEF Covered
    <2> QED BY <2>2, <2>3
  <1>7. ASSUME NEW rel, Covered(p, rel)
        PROVE  t \in Tidies(rel) \/ (rel \in Head(p).undo /\ Covered(q, rel))
    <2>1. PICK j \in DOMAIN p : Is(p[j]) \in Tidies(rel) /\ \A k \in DOMAIN p : k < j => rel \in p[k].undo
      BY <1>7 DEF Covered
    <2>2. CASE j = 1
      BY <1>1, <2>1, <2>2
    <2>3. CASE j # 1
      <3>1. rel \in Head(p).undo
        BY <1>1, <2>1, <2>3
      <3>2. j - 1 \in DOMAIN q /\ Is(q[j - 1]) \in Tidies(rel)
        BY <1>3, <2>1, <2>3
      <3>3. \A k \in DOMAIN q : k < j - 1 => k + 1 < j
        BY <1>1, <1>2, <2>1
      <3>4. \A k \in DOMAIN q : k < j - 1 => rel \in q[k].undo
        BY <1>2, <2>1, <3>3
      <3> QED BY <3>1, <3>2, <3>4 DEF Covered
    <2> QED BY <2>2, <2>3
  <1> QED BY <1>1, <1>4, <1>5, <1>6, <1>7

\* What there is not in the empty program.
LEMMA Emptiness ==
  /\ \A B : ~AnyOf(<<>>, B)
  /\ \A V, A, B : ~Passes(<<>>, V, A, B)
  /\ \A rel : ~Covered(<<>>, rel) /\ Safe(<<>>, rel)
  /\ \A e : \A p \in Programs(e) : ~AnyOf(p, Triples) => p = <<>>
  <1>1. DOMAIN <<>> = {}
    OBVIOUS
  <1>2. ASSUME NEW e, NEW p \in Programs(e), ~AnyOf(p, Triples)
        PROVE  p = <<>>
    <2>1. SUFFICES ASSUME p # <<>> PROVE FALSE
      OBVIOUS
    <2>2. Is(Head(p)) \in Triples
      BY <2>1, NextStatement, SortsOf
    <2> QED BY <1>2, <2>1, <2>2, Tails
  <1> QED BY <1>1, <1>2 DEF AnyOf, Passes, Covered, Safe

\* A drop takes nothing along but the model and its dependent, and the model only
\* with the table it rests on.
LEMMA DroppedWith ==
  ASSUME Typed, Kindly, NEW rels \in SUBSET Rels
  PROVE  LET w == Without(Gone(rels))
         IN  /\ w \in [Rels -> Relations]
             /\ \A r \in Rels : w[r] \in {cat[r], Absent}
             /\ \A r \in rels : w[r] = Absent
             /\ \A r \in Rels \ {"model", "dependent"} : r \notin rels => w[r] = cat[r]
             /\ "model" \notin rels /\ "backing" \notin rels => w["model"] = cat["model"]
  <1>1. Without(Gone(rels)) \in [Rels -> Relations]
    BY Dropping
  <1>2. /\ \A r \in Rels : Without(Gone(rels))[r] \in {cat[r], Absent}
        /\ \A r \in rels : Without(Gone(rels))[r] = Absent
        /\ \A r \in Rels : r \notin Gone(rels) => Without(Gone(rels))[r] = cat[r]
    BY DEF Without, Gone
  <1>3. ASSUME NEW r \in Rels \ {"model", "dependent"}, r \notin rels PROVE r \notin Gone(rels)
    <2>1. cat[r].kind # "view"
      BY <1>3 DEF Kindly
    <2> QED BY <1>3, <2>1 DEF Gone, Over
  <1>4. ASSUME "model" \notin rels, "backing" \notin rels PROVE "model" \notin Gone(rels)
    <2>1. SUFFICES ASSUME NEW r \in rels, "model" \in Over(r) PROVE FALSE
      BY <1>4 DEF Gone
    <2>2. cat["model"].over = r /\ cat["model"] \in Relations
      BY <2>1 DEF Over, Typed, TypeOK, Rels
    <2>3. r \in {"none", "select", "backing", "model"}
      BY <2>2 DEF Relations
    <2> QED BY <1>4, <2>1, <2>3 DEF Rels
  <1> QED BY <1>1, <1>2, <1>3, <1>4 DEF Rels

\* What a statement of each sort does to the catalog.
LEMMA Effects ==
  ASSUME Typed, Kindly, pc = "run", NEW s \in Statements(cfg.engine), s.op # "refuse",
         NEW t, t = Is(s), NEW w, w = Applied(s)
  PROVE  /\ t \notin Touches => w["model"] = cat["model"]
         /\ t \in Makers(Kind) /\ (t \in Inserts => cat["model"].kind = Kind) =>
              w["model"].kind = Kind /\ w["model"].gen = run
         /\ t \in CastMakers => w["model"].col = "declared" /\ (cfg.extraOk \/ ~w["model"].extra)
         /\ \A r \in Rels \ {"model", "dependent"} : w[r].kind # "view"
         /\ t \notin WrongMakers(Kind) => w["model"].kind \in {"none", Kind}
         /\ t \notin Fills("model") /\ t \notin WrongMakers("table") =>
              w["model"] \in {cat["model"], Absent}
         /\ \A rel \in Temps : /\ t \in Removes(rel) => w[rel] = Absent
                               /\ t \notin Fills(rel) => w[rel] \in {cat[rel], Absent}
         /\ t \in Fills("backing") => w["backing"].gen = run
         /\ t \notin Refreshes => w["backing"] = cat["backing"]
  <1>0. /\ cat \in [Rels -> Relations] /\ s.op \in Ops /\ s.rel \in Rels /\ s.how \in Hows
        /\ "model" \in Rels /\ "backing" \in Rels /\ Temps \subseteq Rels \ {"model", "backing", "dependent"}
        /\ "backing" # "model" /\ "backing" # "dependent"
        /\ Kind \in {"view", "table"} /\ Absent.kind = "none"
        /\ \A r \in Rels \ {"model", "dependent"} : cat[r].kind # "view"
        /\ cat["model"].kind \in {"none", Kind}
    BY DEF Typed, TypeOK, Statements, Rels, Temps, Kind, Absent, Kindly
  <1>1. /\ t \in Inserts <=> s.op = "insert"
        /\ \A r : /\ t \in Fills(r) <=> s.op \in {"create", "put", "swap", "insert"} /\ s.rel = r
                  /\ t \in Removes(r) <=> \/ s.op \in {"drop", "tidy"} /\ s.rel = r
                                          \/ s.op = "rename" /\ r = "scratch"
        /\ t \in Touches <=> \/ /\ s.op \in {"drop", "tidy", "create", "put", "swap", "insert"}
                                /\ s.rel = "model"
                             \/ s.op = "view"
                             \/ s.op \in {"drop", "tidy"} /\ s.rel = "backing"
        /\ t \in Makers("view") <=> s.op \in {"refuse", "view"}
        /\ t \in Makers("table") <=>
             s.op = "refuse" \/ (s.op \in {"create", "put", "swap", "insert"} /\ s.rel = "model")
        /\ t \in WrongMakers("view") <=> s.op \in {"create", "put", "swap", "insert"} /\ s.rel = "model"
        /\ t \in WrongMakers("table") <=> s.op = "view"
        /\ t \in CastMakers <=> s.op \in {"create", "put"} /\ s.rel = "model" /\ s.how = "cast"
        /\ t \in Refreshes <=> s.op \in {"create", "put", "swap", "insert", "drop", "tidy"} /\ s.rel = "backing"
    BY SortsOf
  <1>2. CASE s.op \in {"drop", "tidy"}
    <2>1. w = Without(Gone({s.rel})) /\ {s.rel} \in SUBSET Rels
      BY <1>0, <1>2 DEF Applied
    <2>2. /\ \A r \in Rels : w[r] \in {cat[r], Absent}
          /\ w[s.rel] = Absent
          /\ \A r \in Rels \ {"model", "dependent"} : r # s.rel => w[r] = cat[r]
          /\ "model" # s.rel /\ "backing" # s.rel => w["model"] = cat["model"]
      BY <2>1, DroppedWith
    <2> QED BY <1>0, <1>1, <1>2, <2>2
  <1>3. CASE s.op \in {"create", "put", "swap"}
    <2>1. w = [cat EXCEPT ![s.rel] = Table(s.how)]
      BY <1>3 DEF Applied
    <2>2. /\ w[s.rel] = Table(s.how) /\ \A r \in Rels : r # s.rel => w[r] = cat[r]
      BY <1>0, <2>1
    <2>3. /\ Table(s.how).kind = "table" /\ Table(s.how).gen = run
          /\ s.how = "cast" => /\ Table(s.how).col = "declared"
                               /\ cfg.extraOk \/ ~Table(s.how).extra
      BY DEF Table
    <2>4. /\ t \in Makers(Kind) => s.rel = "model" /\ Kind = "table"
          /\ t \notin WrongMakers(Kind) => s.rel # "model" \/ Kind = "table"
      BY <1>0, <1>1, <1>3
    <2> QED BY <1>0, <1>1, <1>3, <2>2, <2>3, <2>4
  <1>4. CASE s.op = "insert"
    <2>1. w = [cat EXCEPT ![s.rel] = [cat[s.rel] EXCEPT !.gen = run]]
      BY <1>4 DEF Applied
    <2>2. /\ w[s.rel] = [cat[s.rel] EXCEPT !.gen = run] /\ \A r \in Rels : r # s.rel => w[r] = cat[r]
      BY <1>0, <2>1
    <2>3. w[s.rel].kind = cat[s.rel].kind /\ w[s.rel].gen = run
      <3>1. cat[s.rel] \in Relations
        BY <1>0
      <3> QED BY <2>2, <3>1 DEF Relations
    <2>4. \A r \in Rels : w[r].kind = cat[r].kind
      BY <2>2, <2>3
    <2>5. t \in Makers(Kind) => s.rel = "model"
      BY <1>0, <1>1, <1>4
    <2> QED BY <1>0, <1>1, <1>4, <2>2, <2>3, <2>4, <2>5
  <1>5. CASE s.op = "rename"
    <2>1. /\ w["scratch"] = Absent /\ \A r \in Rels : r # "scratch" => w[r] = cat[r]
      BY <1>5 DEF Applied, Without, Rels
    <2>2. "scratch" # "model" /\ "scratch" # "backing"
      OBVIOUS
    <2> QED BY <1>0, <1>1, <1>5, <2>1, <2>2
  <1>6. CASE s.op = "view"
    <2>1. s.rel = "model" /\ s.how \in {"select", "backing"}
      BY <1>6 DEF Statements
    <2> DEFINE u == Without(Gone({"model"}))
    <2>2. w = [u EXCEPT !["model"] = ViewOver(s.how)]
      BY <1>6, <2>1 DEF Applied
    <2>3. /\ u \in [Rels -> Relations] /\ \A r \in Rels : u[r] \in {cat[r], Absent}
          /\ \A r \in Rels \ {"model", "dependent"} : u[r] = cat[r]
      <3>1. {"model"} \in SUBSET Rels
        BY <1>0
      <3> QED BY <3>1, DroppedWith
    <2> HIDE DEF u
    <2>4. w["model"] = ViewOver(s.how) /\ \A r \in Rels \ {"model", "dependent"} : w[r] = cat[r]
      BY <1>0, <2>2, <2>3
    <2>5. ViewOver(s.how).kind = "view" /\ ViewOver(s.how).gen = run
      BY DEF ViewOver
    <2>6. /\ t \in Makers(Kind) => Kind = "view"
          /\ t \notin WrongMakers(Kind) => Kind = "view"
      BY <1>0, <1>1, <1>6
    <2> QED BY <1>0, <1>1, <1>6, <2>4, <2>5, <2>6
  <1>7. CASE s.op \in {"verify", "query"}
    <2>1. w = cat
      BY <1>7 DEF Applied
    <2>2. t \notin Makers(Kind)
      BY <1>0, <1>1, <1>7
    <2> QED BY <1>0, <1>1, <1>7, <2>1, <2>2
  <1> QED BY <1>0, <1>2, <1>3, <1>4, <1>5, <1>6, <1>7 DEF Ops

-----------------------------------------------------------------------------
(* The second invariant, step by step.                                     *)

LEMMA Keeping ==
  ASSUME UNCHANGED cfg
  PROVE  /\ Kind' = Kind /\ (UnderContract' <=> UnderContract) /\ (CastMode' <=> CastMode)
         /\ (SpelledAlike' <=> SpelledAlike)
         /\ Kind = KindOf(cfg) /\ (UnderContract <=> Contracted(cfg)) /\ (CastMode <=> Settles(cfg))
BY DEF Kind, UnderContract, CastMode, SpelledAlike, KindOf, Contracted, Settles

LEMMA InitLeaves == Init => JInv
  <1> SUFFICES ASSUME Init PROVE JInv
    OBVIOUS
  <1>1. /\ pc = "idle" /\ \A r \in Rels : cat[r] = Absent
        /\ Absent.kind = "none" /\ Temps \subseteq Rels /\ "model" \in Rels
    BY DEF Init, Absent, Temps, Rels
  <1>2. Kindly /\ Delivers /\ Verified /\ Settled /\ Tidied
    BY <1>1 DEF Kindly, Delivers, Verified, Settled, Tidied
  <1>3. Strays /\ Guarded
    BY <1>1 DEF Strays, Guarded
  <1> QED BY <1>1, <1>2, <1>3
          DEF JInv, ContractHolds, CastSettlesTypes, SuccessIsThere, LeavesNoScratch

LEMMA StartLeaves ==
  ASSUME IInv, JInv, NEW o \in Outs, StartRun(o)
  PROVE  JInv'
  <1> DEFINE exists == cat["model"].kind # "none"
             p == Program(cfg, exists)
  <1>0. /\ cfg \in Config /\ exists \in BOOLEAN /\ prog' = p /\ pc' = "run" /\ why' = "none"
        /\ pc # "run" /\ UNCHANGED <<cfg, cat, meta, good, overran, died>>
    BY DEF StartRun, IInv, Typed, Ended
  <1>1. /\ cfg.kind # "ephemeral" => Shape(p, cfg, exists)
        /\ cfg.kind = "ephemeral" => p = <<>> /\ p = Program(cfg, FALSE)
    BY <1>0, Shapes DEF Program
  <1>2. /\ Kind' = Kind /\ (UnderContract' <=> UnderContract) /\ (CastMode' <=> CastMode)
        /\ Kind = KindOf(cfg) /\ (UnderContract <=> Contracted(cfg)) /\ (CastMode <=> Settles(cfg))
    BY <1>0, Keeping
  <1>3. /\ cfg.kind = "incremental" /\ ~exists => p = Program(cfg, FALSE)
        /\ cfg.kind # "incremental" => p = Program(cfg, FALSE)
    BY <1>1 DEF Shape
  <1> HIDE DEF p
  <1>4. Kindly'
    <2>1. ~AnyOf(p, WrongMakers(Kind))
      BY <1>1, <1>2, Emptiness DEF Shape
    <2> QED BY <1>0, <1>2, <2>1 DEF JInv, Kindly
  <1>5. Delivers'
    <2>1. /\ cfg.kind # "ephemeral" => Passes(p, {}, Makers(Kind), Touches)
          /\ AnyOf(p, Inserts) => exists /\ Is(Head(p)) \in Inserts /\ ~AnyOf(Tail(p), Inserts)
          /\ cfg.kind = "pyView" => Passes(p, {}, Fills("backing"), Refreshes)
      BY <1>1, <1>2, Emptiness DEF Shape
    <2> QED BY <1>0, <1>2, <2>1 DEF Delivers
  <1>6. Verified' /\ Settled'
    <2>1. /\ UnderContract => Passes(p, {}, Verifies, Triples)
          /\ CastMode => ~AnyOf(p, Verifies) \/ Passes(p, Verifies, CastMakers, Touches)
      BY <1>1, <1>2, Emptiness DEF Shape, Casting, UnderContract
    <2> QED BY <1>0, <1>2, <2>1 DEF Verified, Settled
  <1>7. ASSUME NEW rel \in Temps, cat[rel] # Absent \/ AnyOf(p, Fills(rel))
        PROVE  /\ AnyOf(Program(cfg, FALSE), Fills(rel)) /\ AnyOf(p, Fills(rel))
               /\ cfg.kind = "incremental" =>
                    /\ cat["model"].kind = "none"
                    /\ Passes(p, Fills("model"), Removes(rel), Fills(rel))
    <2>1. cat[rel] # Absent => /\ AnyOf(Program(cfg, FALSE), Fills(rel))
                               /\ cfg.kind = "incremental" => ~exists
      BY DEF JInv, Strays
    <2>2. CASE cfg.kind # "incremental"
      BY <1>3, <1>7, <2>1, <2>2
    <2>3. CASE cfg.kind = "incremental"
      <3>1. ~AnyOf(p, Fills("frame")) /\ (IF exists THEN ~AnyOf(p, Fills("scratch")) ELSE Aside(p))
        BY <1>1, <2>3 DEF Shape
      <3>2. AnyOf(p, Fills(rel))
        BY <1>3, <1>7, <2>1, <2>3
      <3>3. rel = "scratch" /\ ~exists
        BY <3>1, <3>2 DEF Temps
      <3> QED BY <1>3, <2>3, <3>1, <3>2, <3>3 DEF Aside
    <2> QED BY <2>2, <2>3
  <1>8. Strays'
    BY <1>0, <1>7 DEF Strays
  <1>9. \A rel \in Temps : /\ ~AnyOf(p, Fills(rel)) \/ Passes(p, {}, Removes(rel), Fills(rel))
                           /\ Finally(cfg.engine) => Safe(p, rel)
    BY <1>1, Emptiness DEF Shape, Clean
  <1>10. Tidied'
    BY <1>0, <1>7, <1>9 DEF Tidied
  <1>11. Guarded'
    BY <1>0, <1>9 DEF JInv, Guarded
  <1>12. ContractHolds' /\ CastSettlesTypes' /\ SuccessIsThere' /\ LeavesNoScratch'
    BY <1>0 DEF ContractHolds, CastSettlesTypes, SuccessIsThere, LeavesNoScratch
  <1> QED BY <1>4, <1>5, <1>6, <1>8, <1>10, <1>11, <1>12 DEF JInv

\* The program goes on with its next statement.
LEMMA ProgramGoesOn ==
  ASSUME prog \in Programs(cfg.engine), prog # <<>>, prog' = Tail(prog)
  PROVE  LET t == Is(Head(prog))
         IN  /\ Head(prog) \in Statements(cfg.engine)
             /\ \A B : ~AnyOf(prog, B) <=> t \notin B /\ ~AnyOf(prog', B)
             /\ \A V, A, B : Passes(prog, V, A, B) =>
                  \/ t \notin V /\ Passes(prog', V, A, B)
                  \/ t \in A /\ ~AnyOf(prog', B)
             /\ \A rel : /\ Safe(prog, rel) => Safe(prog', rel) /\ (t \in Fills(rel) => Covered(prog', rel))
                         /\ Covered(prog, rel) => \/ t \in Tidies(rel)
                                                  \/ rel \in Head(prog).undo /\ Covered(prog', rel)
  <1>1. \A q, t : q = Tail(prog) /\ t = Is(Head(prog)) =>
          /\ Head(prog) \in Statements(cfg.engine)
          /\ \A B : ~AnyOf(prog, B) <=> t \notin B /\ ~AnyOf(q, B)
          /\ \A V, A, B : Passes(prog, V, A, B) =>
               \/ t \notin V /\ Passes(q, V, A, B)
               \/ t \in A /\ ~AnyOf(q, B)
          /\ \A rel : /\ Safe(prog, rel) => Safe(q, rel) /\ (t \in Fills(rel) => Covered(q, rel))
                      /\ Covered(prog, rel) => \/ t \in Tidies(rel)
                                               \/ rel \in Head(prog).undo /\ Covered(q, rel)
    BY Tails, Zenon
  <1> QED BY <1>1

LEMMA ExecuteLeaves ==
  ASSUME IInv, JInv, Execute
  PROVE  JInv'
  <1> DEFINE s == Head(prog)
             t == Is(s)
  <1>0. /\ pc = "run" /\ prog # <<>> /\ s.op # "verify" /\ s.op # "refuse"
        /\ cat' = Applied(s) /\ prog' = Tail(prog) /\ prog \in Programs(cfg.engine)
        /\ UNCHANGED <<cfg, out, run, pc, why, died>>
    BY DEF Execute, Possible, result, IInv, Typed
  <1>1. /\ s \in Statements(cfg.engine)
        /\ \A B : ~AnyOf(prog, B) <=> t \notin B /\ ~AnyOf(prog', B)
        /\ \A V, A, B : Passes(prog, V, A, B) =>
             \/ t \notin V /\ Passes(prog', V, A, B)
             \/ t \in A /\ ~AnyOf(prog', B)
        /\ \A rel : /\ Safe(prog, rel) => Safe(prog', rel) /\ (t \in Fills(rel) => Covered(prog', rel))
                    /\ Covered(prog, rel) => \/ t \in Tidies(rel)
                                             \/ rel \in Head(prog).undo /\ Covered(prog', rel)
    BY <1>0, ProgramGoesOn
  <1>2. /\ Kind' = Kind /\ (UnderContract' <=> UnderContract) /\ (CastMode' <=> CastMode)
    BY <1>0, Keeping
  <1> HIDE DEF s
  <1>3. /\ t \notin Verifies
        /\ \A rel : t \in Tidies(rel) => t \in Removes(rel)
    BY <1>0, <1>1, SortsOf
  <1>4. /\ t \notin Touches => cat'["model"] = cat["model"]
        /\ t \in Makers(Kind) /\ (t \in Inserts => cat["model"].kind = Kind) =>
             cat'["model"].kind = Kind /\ cat'["model"].gen = run
        /\ t \in CastMakers => cat'["model"].col = "declared" /\ (cfg.extraOk \/ ~cat'["model"].extra)
        /\ \A r \in Rels \ {"model", "dependent"} : cat'[r].kind # "view"
        /\ t \notin WrongMakers(Kind) => cat'["model"].kind \in {"none", Kind}
        /\ t \notin Fills("model") /\ t \notin WrongMakers("table") =>
             cat'["model"] \in {cat["model"], Absent}
        /\ \A rel \in Temps : /\ t \in Removes(rel) => cat'[rel] = Absent
                              /\ t \notin Fills(rel) => cat'[rel] \in {cat[rel], Absent}
        /\ t \in Fills("backing") => cat'["backing"].gen = run
        /\ t \notin Refreshes => cat'["backing"] = cat["backing"]
    BY <1>0, <1>1, Effects DEF IInv, JInv
  <1> HIDE DEF t
  <1>5. Kindly'
    BY <1>0, <1>1, <1>2, <1>4 DEF JInv, Kindly
  <1>6. Delivers'
    <2>1. ~AnyOf(prog', Inserts) /\ (t \in Inserts => cat["model"].kind = Kind)
      BY <1>0, <1>1 DEF JInv, Delivers, Kindly
    <2>2. ASSUME cfg.kind # "ephemeral"
          PROVE  \/ Passes(prog', {}, Makers(Kind), Touches)
                 \/ ~AnyOf(prog', Touches) /\ cat'["model"].kind = Kind /\ cat'["model"].gen = run
      BY <1>0, <1>1, <1>4, <2>1, <2>2 DEF JInv, Delivers
    <2>3. ASSUME cfg.kind = "pyView"
          PROVE  \/ Passes(prog', {}, Fills("backing"), Refreshes)
                 \/ ~AnyOf(prog', Refreshes) /\ cat'["backing"].gen = run
      BY <1>0, <1>1, <1>4, <2>3 DEF JInv, Delivers
    <2> QED BY <1>0, <1>2, <2>1, <2>2, <2>3 DEF Delivers
  <1>7. Verified'
    BY <1>0, <1>1, <1>2, <1>3 DEF JInv, Verified
  <1>8. Settled'
    BY <1>0, <1>1, <1>2, <1>3, <1>4 DEF JInv, Settled, Accepted
  <1>9. Tidied'
    BY <1>0, <1>1, <1>4 DEF JInv, Tidied
  <1>10. Strays'
    <2>1. SUFFICES ASSUME NEW rel \in Temps, cat'[rel] # Absent \/ AnyOf(prog', Fills(rel))
                   PROVE  /\ AnyOf(Program(cfg, FALSE), Fills(rel))
                          /\ cfg.kind = "incremental" =>
                               /\ cat'["model"].kind = "none"
                               /\ Passes(prog', Fills("model"), Removes(rel), Fills(rel))
      BY <1>0 DEF Strays
    <2>2. cat[rel] # Absent \/ AnyOf(prog, Fills(rel))
      BY <1>1, <1>4, <2>1
    <2>3. /\ AnyOf(Program(cfg, FALSE), Fills(rel))
          /\ cfg.kind = "incremental" =>
               /\ cat["model"].kind = "none"
               /\ Passes(prog, Fills("model"), Removes(rel), Fills(rel))
      BY <1>0, <2>2 DEF JInv, Strays
    <2>4. ASSUME cfg.kind = "incremental"
          PROVE  /\ cat'["model"].kind = "none"
                 /\ Passes(prog', Fills("model"), Removes(rel), Fills(rel))
      <3>1. t \notin Fills("model") /\ Passes(prog', Fills("model"), Removes(rel), Fills(rel))
        BY <1>1, <1>4, <2>1, <2>3, <2>4
      <3>2. t \notin WrongMakers("table")
        BY <1>0, <1>1, <2>4 DEF JInv, Kindly, Kind
      <3> QED BY <1>4, <2>3, <2>4, <3>1, <3>2 DEF Absent
    <2> QED BY <2>3, <2>4
  <1>11. Guarded'
    <2>1. SUFFICES ASSUME ~died, Finally(cfg.engine), NEW rel \in Temps
                   PROVE  Safe(prog', rel) /\ (cat'[rel] # Absent => Covered(prog', rel))
      BY <1>0 DEF Guarded
    <2>2. Safe(prog, rel) /\ (cat[rel] # Absent => Covered(prog, rel))
      BY <1>0, <2>1 DEF JInv, Guarded
    <2> QED BY <1>1, <1>3, <1>4, <2>2
  <1>12. ContractHolds' /\ CastSettlesTypes' /\ SuccessIsThere' /\ LeavesNoScratch'
    BY <1>0 DEF ContractHolds, CastSettlesTypes, SuccessIsThere, LeavesNoScratch
  <1> QED BY <1>5, <1>6, <1>7, <1>8, <1>9, <1>10, <1>11, <1>12 DEF JInv

\* What a program's first statement tells of it.
LEMMA Heads ==
  ASSUME NEW e, NEW p \in Programs(e), p # <<>>
  PROVE  /\ Head(p) \in Statements(e) /\ Tail(p) \in Programs(e)
         /\ \A B : Is(Head(p)) \in B => AnyOf(p, B)
         /\ \A V, A, B : Passes(p, V, A, B) => Is(Head(p)) \notin V \/ Is(Head(p)) \in A
         /\ \A rel : Covered(p, rel) => Is(Head(p)) \in Tidies(rel) \/ rel \in Head(p).undo
  <1>1. Head(p) \in Statements(e) /\ Tail(p) \in Programs(e)
    BY NextStatement
  <1>2. \A q, t : q = Tail(p) /\ t = Is(Head(p)) =>
          /\ \A B : ~AnyOf(p, B) <=> t \notin B /\ ~AnyOf(q, B)
          /\ \A V, A, B : Passes(p, V, A, B) =>
               \/ t \notin V /\ Passes(q, V, A, B)
               \/ t \in A /\ ~AnyOf(q, B)
          /\ \A rel : Covered(p, rel) => \/ t \in Tidies(rel)
                                         \/ rel \in Head(p).undo /\ Covered(q, rel)
    BY Tails, Zenon
  <1> QED BY <1>1, <1>2

LEMMA VerifyLeaves ==
  ASSUME IInv, JInv, VerifyPasses
  PROVE  JInv'
  <1> DEFINE t == Is(Head(prog))
  <1>0. /\ pc = "run" /\ prog # <<>> /\ Head(prog).op = "verify" /\ Accepts(cat["model"])
        /\ prog' = Tail(prog) /\ prog \in Programs(cfg.engine)
        /\ UNCHANGED <<cfg, cat, out, run, pc, why, died>>
    BY DEF VerifyPasses, result, stats, IInv, Typed
  <1>1. /\ Head(prog) \in Statements(cfg.engine)
        /\ \A B : ~AnyOf(prog, B) <=> t \notin B /\ ~AnyOf(prog', B)
        /\ \A V, A, B : Passes(prog, V, A, B) =>
             \/ t \notin V /\ Passes(prog', V, A, B)
             \/ t \in A /\ ~AnyOf(prog', B)
        /\ \A rel : /\ Safe(prog, rel) => Safe(prog', rel) /\ (t \in Fills(rel) => Covered(prog', rel))
                    /\ Covered(prog, rel) => \/ t \in Tidies(rel)
                                             \/ rel \in Head(prog).undo /\ Covered(prog', rel)
    BY <1>0, ProgramGoesOn
  <1>2. /\ Kind' = Kind /\ (UnderContract' <=> UnderContract) /\ (CastMode' <=> CastMode)
        /\ Kind \in {"view", "table"}
    BY <1>0, Keeping DEF Kind
  <1>3. /\ t \in Verifies /\ t \notin Inserts /\ t \notin Makers(Kind) /\ t \notin CastMakers
        /\ \A rel : t \notin Fills(rel) /\ t \notin Tidies(rel) /\ t \notin Removes(rel)
    BY <1>0, <1>1, <1>2, SortsOf
  <1>4. Accepted /\ prog' \in Programs(cfg.engine)
    BY <1>0, Heads DEF Accepts, Accepted
  <1> HIDE DEF t
  <1>5. Kindly'
    BY <1>0, <1>1, <1>2 DEF JInv, Kindly
  <1>6. Delivers'
    <2>1. ~AnyOf(prog', Inserts)
      BY <1>0, <1>1 DEF JInv, Delivers
    <2>2. ASSUME cfg.kind # "ephemeral"
          PROVE  \/ Passes(prog', {}, Makers(Kind), Touches)
                 \/ ~AnyOf(prog', Touches) /\ cat["model"].kind = Kind /\ cat["model"].gen = run
      BY <1>0, <1>1, <1>3, <2>2 DEF JInv, Delivers
    <2>3. ASSUME cfg.kind = "pyView"
          PROVE  \/ Passes(prog', {}, Fills("backing"), Refreshes)
                 \/ ~AnyOf(prog', Refreshes) /\ cat["backing"].gen = run
      BY <1>0, <1>1, <1>3, <2>3 DEF JInv, Delivers
    <2> QED BY <1>0, <1>2, <2>1, <2>2, <2>3 DEF Delivers
  <1>7. Verified'
    <2>1. UnderContract => Passes(prog', {}, Verifies, Triples) \/ ~AnyOf(prog', Triples)
      BY <1>0, <1>1 DEF JInv, Verified
    <2>2. ~AnyOf(prog', Triples) => prog' = <<>>
      BY <1>4, Emptiness
    <2> QED BY <1>0, <1>2, <1>4, <2>1, <2>2 DEF Verified, Accepted
  <1>8. Settled'
    <2>1. CastMode => ~AnyOf(prog', Touches)
      BY <1>0, <1>1, <1>3 DEF JInv, Settled
    <2> QED BY <1>0, <1>2, <1>4, <2>1 DEF Settled, Accepted
  <1>9. Tidied'
    BY <1>0, <1>1, <1>3 DEF JInv, Tidied
  <1>10. Strays'
    <2>1. \A rel \in Temps : AnyOf(prog', Fills(rel)) => AnyOf(prog, Fills(rel))
      BY <1>1
    <2>2. \A rel \in Temps : Passes(prog, Fills("model"), Removes(rel), Fills(rel)) =>
                               Passes(prog', Fills("model"), Removes(rel), Fills(rel))
      BY <1>1, <1>3
    <2> QED BY <1>0, <2>1, <2>2 DEF JInv, Strays
  <1>11. Guarded'
    BY <1>0, <1>1, <1>3 DEF JInv, Guarded
  <1>12. ContractHolds' /\ CastSettlesTypes' /\ SuccessIsThere' /\ LeavesNoScratch'
    BY <1>0 DEF ContractHolds, CastSettlesTypes, SuccessIsThere, LeavesNoScratch
  <1> QED BY <1>5, <1>6, <1>7, <1>8, <1>9, <1>10, <1>11, <1>12 DEF JInv

\* A failure, of the verification or of a statement: the finally clauses run.
LEMMA FailLeaves ==
  ASSUME IInv, JInv, pc = "run", prog # <<>>, NEW reason \in {"verify", "guard", "statement"},
         Fail(reason), Head(prog).op # "tidy",
         reason = "verify" => Head(prog).op = "verify" /\ ~Accepts(cat["model"])
  PROVE  JInv'
  <1> DEFINE undo == Head(prog).undo
  <1>0. /\ cat' = Without(Gone(undo)) /\ prog' = <<>> /\ pc' = "failed" /\ why' = reason
        /\ UNCHANGED <<cfg, out, run, died>> /\ prog \in Programs(cfg.engine)
    BY DEF Fail, stats, IInv, Typed
  <1>1. Head(prog) \in Statements(cfg.engine) /\ undo \in SUBSET Rels
    BY <1>0, Heads DEF Statements
  <1>2. /\ \A r \in Rels : cat'[r] \in {cat[r], Absent}
        /\ \A r \in undo : cat'[r] = Absent
    BY <1>0, <1>1, DroppedWith DEF IInv, JInv
  <1>3. /\ Temps \subseteq Rels /\ "model" \in Rels /\ Absent.kind = "none"
        /\ \A B : ~AnyOf(<<>>, B)
    BY Emptiness DEF Temps, Rels, Absent
  <1>4. /\ Kind' = Kind /\ (CastMode' <=> CastMode) /\ (SpelledAlike' <=> SpelledAlike)
    BY <1>0, Keeping
  <1> HIDE DEF undo
  <1>5. Kindly'
    BY <1>0, <1>2, <1>3, <1>4 DEF JInv, Kindly
  <1>6. Delivers' /\ Verified' /\ Settled' /\ Tidied'
    BY <1>0 DEF Delivers, Verified, Settled, Tidied
  <1>7. Strays'
    <2>1. cat["model"].kind = "none" => cat'["model"].kind = "none"
      BY <1>2, <1>3
    <2>2. \A rel \in Temps : cat'[rel] # Absent => cat[rel] # Absent
      BY <1>2, <1>3
    <2> QED BY <1>0, <2>1, <2>2 DEF JInv, Strays
  <1>8. Guarded'
    <2>1. SUFFICES ASSUME ~died, Finally(cfg.engine), NEW rel \in Temps PROVE cat'[rel] = Absent
      BY <1>0 DEF Guarded
    <2>2. CASE cat[rel] = Absent
      BY <1>2, <1>3, <2>2
    <2>3. CASE cat[rel] # Absent
      <3>1. Covered(prog, rel)
        BY <2>1, <2>3 DEF JInv, Guarded
      <3>2. Is(Head(prog)) \notin Tidies(rel)
        BY <1>1, SortsOf
      <3>3. rel \in undo
        BY <1>0, <3>1, <3>2, Heads DEF undo
      <3> QED BY <1>2, <3>3
    <2> QED BY <2>2, <2>3
  <1>9. CastSettlesTypes'
    <2>1. SUFFICES ASSUME reason = "verify", CastMode, SpelledAlike PROVE FALSE
      BY <1>0, <1>4 DEF CastSettlesTypes
    <2>2. Is(Head(prog)) \in Verifies
      BY <1>1, <2>1, SortsOf
    <2>3. Is(Head(prog)) \notin CastMakers
      BY <1>1, <2>1, SortsOf
    <2>4. AnyOf(prog, Verifies) /\ ~Passes(prog, Verifies, CastMakers, Touches)
      BY <1>0, <2>2, <2>3, Heads
    <2>5. Accepted
      BY <2>1, <2>4 DEF JInv, Settled
    <2> QED BY <2>1, <2>5 DEF Accepted, Accepts
  <1>10. LeavesNoScratch'
    <2>1. ~died /\ Finally(cfg.engine) => cat'["scratch"] = Absent /\ cat'["frame"] = Absent
      BY <1>0, <1>8 DEF Guarded, Temps
    <2> QED BY <1>0, <2>1 DEF LeavesNoScratch, Finally
  <1>11. ContractHolds' /\ SuccessIsThere'
    BY <1>0 DEF ContractHolds, SuccessIsThere
  <1> QED BY <1>5, <1>6, <1>7, <1>8, <1>9, <1>10, <1>11 DEF JInv

LEMMA OthersLeave ==
  ASSUME IInv, JInv, Crash \/ Finish \/ OnNodeBuilt \/ BuildDependent \/ UNCHANGED vars
  PROVE  JInv'
  <1>0. /\ UNCHANGED <<cfg, out, run>>
        /\ Temps \subseteq Rels \ {"model", "dependent"} /\ {"model", "backing"} \subseteq Rels \ {"dependent"}
    BY DEF Crash, Finish, OnNodeBuilt, BuildDependent, vars, Temps, Rels
  <1>1. /\ Kind' = Kind /\ (UnderContract' <=> UnderContract) /\ (CastMode' <=> CastMode)
        /\ (SpelledAlike' <=> SpelledAlike)
    BY <1>0, Keeping
  <1>2. CASE Crash
    <2>1. cat' = cat /\ prog' = <<>> /\ pc' = "crashed" /\ died'
      BY <1>2 DEF Crash
    <2>2. Kindly' /\ Strays'
      BY <1>0, <1>1, <2>1, Emptiness DEF JInv, Kindly, Strays
    <2>3. Delivers' /\ Verified' /\ Settled' /\ Tidied' /\ Guarded'
      BY <2>1 DEF Delivers, Verified, Settled, Tidied, Guarded
    <2> QED BY <2>1, <2>2, <2>3
            DEF JInv, ContractHolds, CastSettlesTypes, SuccessIsThere, LeavesNoScratch
  <1>3. CASE Finish
    <2>1. /\ pc = "run" /\ prog = <<>> /\ pc' = "built"
          /\ UNCHANGED <<cat, prog, why, died>>
      BY <1>3 DEF Finish, stats
    <2>2. Kindly' /\ Strays'
      BY <1>0, <1>1, <2>1 DEF JInv, Kindly, Strays
    <2>3. Delivers' /\ Verified' /\ Settled' /\ Tidied'
      BY <2>1 DEF Delivers, Verified, Settled, Tidied
    <2>4. \A rel \in Temps : cat[rel] = Absent
      BY <2>1, Emptiness DEF JInv, Tidied
    <2>5. Guarded' /\ LeavesNoScratch'
      BY <1>0, <2>1, <2>4 DEF JInv, Guarded, LeavesNoScratch, Temps
    <2>6. ContractHolds'
      BY <1>0, <1>1, <2>1, Emptiness DEF JInv, Verified, ContractHolds, Accepted
    <2>7. SuccessIsThere'
      BY <1>0, <1>1, <2>1, Emptiness DEF JInv, Delivers, SuccessIsThere
    <2>8. CastSettlesTypes'
      BY <2>1 DEF CastSettlesTypes
    <2> QED BY <2>2, <2>3, <2>5, <2>6, <2>7, <2>8 DEF JInv
  <1>4. CASE OnNodeBuilt
    <2>1. pc = "built" /\ pc' = "done" /\ UNCHANGED <<cat, prog, why, died>>
      BY <1>4 DEF OnNodeBuilt, stats
    <2>2. Kindly' /\ Strays' /\ Guarded'
      BY <1>0, <1>1, <2>1 DEF JInv, Kindly, Strays, Guarded
    <2>3. Delivers' /\ Verified' /\ Settled' /\ Tidied'
      BY <2>1 DEF Delivers, Verified, Settled, Tidied
    <2>4. ContractHolds' /\ CastSettlesTypes' /\ SuccessIsThere' /\ LeavesNoScratch'
      BY <1>0, <1>1, <2>1 DEF JInv, ContractHolds, CastSettlesTypes, SuccessIsThere, LeavesNoScratch
    <2> QED BY <2>2, <2>3, <2>4 DEF JInv
  <1>5. CASE BuildDependent
    <2>1. pc # "run" /\ UNCHANGED <<prog, pc, why, died>>
      BY <1>5 DEF BuildDependent, Ended, result, stats
    <2>2. \A r \in Rels \ {"dependent"} : cat'[r] = cat[r]
      BY <1>5 DEF BuildDependent, IInv, Typed, TypeOK
    <2>3. Kindly' /\ Strays' /\ Guarded'
      BY <1>0, <1>1, <2>1, <2>2 DEF JInv, Kindly, Strays, Guarded
    <2>4. Delivers' /\ Verified' /\ Settled' /\ Tidied'
      BY <2>1 DEF Delivers, Verified, Settled, Tidied
    <2>5. cat'["scratch"] = cat["scratch"] /\ cat'["frame"] = cat["frame"]
      BY <2>2 DEF Rels
    <2>6. ContractHolds' /\ CastSettlesTypes' /\ SuccessIsThere' /\ LeavesNoScratch'
      BY <1>0, <1>1, <2>1, <2>2, <2>5
         DEF JInv, ContractHolds, CastSettlesTypes, SuccessIsThere, LeavesNoScratch
    <2> QED BY <2>3, <2>4, <2>6 DEF JInv
  <1>6. CASE UNCHANGED vars
    <2>1. UNCHANGED <<cat, prog, pc, why, died>>
      BY <1>6 DEF vars, result, stats
    <2>2. Kindly' /\ Strays' /\ Guarded'
      BY <1>0, <1>1, <2>1 DEF JInv, Kindly, Strays, Guarded
    <2>3. Delivers'
      BY <1>0, <1>1, <2>1 DEF JInv, Delivers
    <2>4. Verified' /\ Settled' /\ Tidied'
      BY <1>0, <1>1, <2>1 DEF JInv, Verified, Settled, Tidied, Accepted
    <2>5. ContractHolds' /\ CastSettlesTypes' /\ SuccessIsThere' /\ LeavesNoScratch'
      BY <1>0, <1>1, <2>1 DEF JInv, ContractHolds, CastSettlesTypes, SuccessIsThere, LeavesNoScratch
    <2> QED BY <2>2, <2>3, <2>4, <2>5 DEF JInv
  <1> QED BY <1>2, <1>3, <1>4, <1>5, <1>6

\* At each place of a run it is settled what the statements still to come make, verify
\* and clean up, and what the catalog holds already.
THEOREM ProgramsDeliver == Spec => []JInv
  <1>1. ASSUME IInv, JInv, [Next]_vars
        PROVE  JInv'
    <2>1. CASE VerifyFails
      BY <1>1, <2>1, FailLeaves DEF VerifyFails
    <2>2. CASE StatementFails
      <3>1. PICK reason \in {"guard", "statement"} : Fail(reason)
        BY <2>2 DEF StatementFails
      <3>2. reason \in {"verify", "guard", "statement"} /\ reason # "verify"
        OBVIOUS
      <3> QED BY <1>1, <2>2, <3>1, <3>2, FailLeaves DEF StatementFails
    <2> QED BY <1>1, <2>1, <2>2, StartLeaves, ExecuteLeaves, VerifyLeaves, OthersLeave DEF Next
  <1> QED BY <1>1, InitLeaves, MaterializeInvariance, PTL DEF Spec

\* run_sql, run_python and run_or_dispatch with apply_sql_contracts: on every engine a
\* model that counts as built has the columns of its contract, and the verification
\* that follows a cast fails only where the engine spells a type differently.
THEOREM ContractsKept == Spec => []ContractsAreKept
  <1>1. JInv => ContractsAreKept
    BY DEF JInv, ContractsAreKept
  <1> QED BY <1>1, ProgramsDeliver, PTL

\* The same functions and load_seed: a run that counts as built leaves its relation,
\* made by this run and of the kind asked for, and no scratch relation; nor does a
\* failed one where there is a finally clause.
THEOREM RunLeaves == Spec => []RunLeavesItsRelation
  <1>1. JInv => RunLeavesItsRelation
    BY DEF JInv, RunLeavesItsRelation
  <1> QED BY <1>1, ProgramsDeliver, PTL
=============================================================================
