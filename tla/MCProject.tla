----------------------------- MODULE MCProject -----------------------------
(***************************************************************************)
(* Project over families of layouts that each vary one thing of a common   *)
(* one: the package's history and selectors, the files of the three        *)
(* owners, model headers and overlays, sources, profiles and environment,  *)
(* seeds.                                                                  *)
(***************************************************************************)
EXTENDS Project

NoMeta == Blank(MetaFields)
File(id, owner, name, deps) == [id |-> id, owner |-> owner, name |-> name, py |-> FALSE,
                                engines |-> {}, deps |-> deps, since |-> 1, meta |-> NoMeta]
Python(x) == [x EXCEPT !.py = TRUE]
For(x, engines) == [x EXCEPT !.engines = engines]
With(x, meta) == [x EXCEPT !.meta = Over(NoMeta, meta)]

NoEnv == Blank(EnvFields)
NoArt == [mode |-> Unset, dsn |-> Unset]
Duck(path) == [engine |-> "duckdb", art |-> NoArt,
               sections |-> [e \in {"duckdb"} |-> [place |-> path, dsn |-> Unset]]]
Pg(schema, dsn) == [engine |-> "postgres", art |-> NoArt,
                    sections |-> [e \in {"postgres"} |-> [place |-> schema, dsn |-> dsn]]]
Conf == [process |-> NoEnv, dotenv |-> <<>>, profiles |-> Empty, hint |-> Unset,
         own |-> [mode |-> Unset, extra |-> Unset], entry |-> [mode |-> Unset, extra |-> Unset],
         default |-> [mode |-> "verify", extra |-> Unset], limit |-> 15, unit |-> "s"]

Pin == [sel |-> "rev", at |-> 1, range |-> "any"]
Manifests == <<[version |-> <<0, 1, 0>>, needs |-> {}],
               [version |-> <<0, 2, 0>>, needs |-> {<<"base", {<<">=", <<1, 1, 0>> >>}>>}],
               [version |-> <<0, 2, 1>>, needs |-> {}]>>
Plain == [files |-> {File("k1", "kit", "a", {}), File("p1", "project", "b", {"a"})},
          macros |-> {}, sources |-> Empty, kit |-> Manifests,
          base |-> [version |-> <<1, 0, 0>>, needs |-> {<<"kit", {<<">=", <<0, 1, 0>> >>}>>}],
          specs |-> {Pin}, starts |-> 1, pin |-> <<0, 1, 0>>, storage |-> Unset, overlay |-> NoMeta,
          conf |-> Conf, cmds |-> {"load"}, seeds |-> <<>>, targets |-> Empty]

\* The package's history: every selector, edits between them.
Selectors == {[sel |-> s, at |-> 1, range |-> "any"] : s \in {"tag", "branch", "none", "ref"}}
             \union {[sel |-> "rev", at |-> n, range |-> "any"] : n \in {1, 3}}
Ranges == {[sel |-> "branch", at |-> 1, range |-> r] : r \in {"caret", "tilde", "exact"}}
Histories == <<[Plain EXCEPT !.specs = Selectors, !.starts = 3, !.cmds = {"load", "deps"}],
              [Plain EXCEPT !.specs = Ranges, !.starts = 2],
              [Plain EXCEPT !.specs = Ranges, !.starts = 2, !.pin = <<0, 2, 0>>],
              [Plain EXCEPT !.specs = Ranges, !.kit[3].version = <<1, 0, 0>>, !.base.version = <<1, 1, 0>>]>>

\* One name in several places; files of a later commit; names of other engines.
Layouts == <<
   {File("b1", "base", "a", {}), File("k1", "kit", "a", {}), File("p1", "project", "b", {"a"})},
   {File("b1", "base", "a", {}), Python(File("k1", "kit", "a", {"c"})), File("k2", "kit", "c", {}),
    File("p1", "project", "a", {})},
   {File("k1", "kit", "a", {}), File("k2", "kit", "a", {}), File("p1", "project", "b", {"a"})},
   {File("p1", "project", "a", {}), Python(File("p2", "project", "a", {}))},
   {File("p1", "project", "a", {}), For(File("p2", "project", "a", {}), {"postgres"})},
   {For(File("b1", "base", "a", {}), {"duckdb"}), For(File("p1", "project", "a", {}), {"postgres"})},
   {[File("k1", "kit", "a", {}) EXCEPT !.since = 2], File("p1", "project", "b", {"a"})},
   {For(Python(File("k1", "kit", "a", {})), {"postgres"}), File("p1", "project", "b", {"a"})}>>
Macro(owner, rel, names) == [owner |-> owner, rel |-> rel, names |-> names]
MacroLayouts == <<
   {Macro("base", "x", {"f", "g"}), Macro("project", "y", {"f"})},
   {Macro("base", "x", {"f", "g"}), Macro("kit", "z", {"f"}), Macro("project", "x", {"f"})},
   {Macro("base", "x", {"f"}), Macro("kit", "z", {"h"}), Macro("project", "x", {"f", "h"})}>>

\* Headers and what project.yml lays over them.
Headers == <<
   [x \in {"mat"} |-> "incremental"], [x \in {"inc"} |-> "on"],
   [x \in {"inc", "incKey", "incUpd"} |-> IF x = "inc" THEN "on" ELSE "c"],
   [x \in {"mat", "key", "snapStrategy", "snapUpd"} |->
      CASE x = "mat" -> "snapshot" [] x = "snapStrategy" -> "timestamp" [] OTHER -> "c"],
   [x \in {"mat", "key", "snapStrategy"} |->
      CASE x = "mat" -> "snapshot" [] x = "snapStrategy" -> "check" [] OTHER -> "c"],
   [x \in {"key", "updAt"} |-> "c"]>>
Overlays == <<NoMeta, Over(NoMeta, [x \in {"inc", "key", "updCol"} |-> IF x = "inc" THEN "on" ELSE "d"]),
             Over(NoMeta, [x \in {"schemaSync"} |-> "append"])>>
Metas(h, o) ==
  [Plain EXCEPT !.files = {File("k1", "kit", "a", {}), With(File("p1", "project", "b", {"a"}), Headers[h])},
                !.overlay = Overlays[o]]

\* sources.yml
Block(v, fields) == [x \in SourceFields |-> IF x \in fields THEN v ELSE Unset]
Keyed(star, engine) == [k \in SourceKeys |-> IF k = "*" THEN star ELSE engine]
Nothing == Block("", {})
SourceLayouts(t, a, b, c) == [Plain EXCEPT !.sources = [s \in {"s1"} |->
    [group |-> Block("group", SourceFields \ {"identifier"}),
     table |-> Block("table", <<{}, {"identifier", "schema"}, {"options"}>>[t]),
     groupOver |-> Keyed(Block("group *", <<{}, {"identifier"}>>[a]),
                         Block("group engine", <<{}, {"schema", "options"}>>[b])),
     tableOver |-> Keyed(Block("table *", <<{}, {"options", "location"}>>[c]), Nothing)]]]

\* profiles.yml, .env files, FF_* variables, --engine
Profiles == <<[x \in {"dev", "dev_utest"} |-> IF x = "dev" THEN Duck("main.db") ELSE Duck("utest.db")],
             [x \in {"dev", "dev_utest"} |-> IF x = "dev" THEN Pg("", "db") ELSE Pg("", "")],
             [x \in {"dev", "dev_utest"} |-> IF x = "dev" THEN Pg("main", "") ELSE Duck("utest.db")],
             [x \in {"default"} |-> [Duck("main.db") EXCEPT !.art = [mode |-> "db", dsn |-> "arts"]]],
             [x \in {"prod"} |-> Duck("prod.db")], Empty>>
Environments == <<NoEnv, Over(NoEnv, [x \in {"path", "schema"} |-> "elsewhere"]),
                 Over(NoEnv, [x \in {"engine", "dsn"} |-> IF x = "dsn" THEN "db" ELSE "postgres"]),
                 Over(NoEnv, [x \in {"mode", "artDsn"} |-> IF x = "mode" THEN "both" ELSE "db"])>>
Contexts(p, e, d, h) == [Plain EXCEPT !.cmds = {"load", "utest"}, !.conf =
  [Conf EXCEPT !.profiles = Profiles[p], !.process = Environments[e],
               !.dotenv = <<<<>>, <<NoEnv, Over(NoEnv, [x \in {"path"} |-> "dotenv"])>> >>[d],
               !.hint = <<Unset, "duckdb">>[h]]]
Enforcements(o, e) == [Plain EXCEPT !.conf =
  [Conf EXCEPT !.own = [mode |-> <<Unset, "cast">>[o], extra |-> Unset],
               !.entry = [mode |-> <<Unset, "cast", BareOff>>[e], extra |-> "no"]]]

\* seeds
Seed(id, dotted, stem) == [id |-> id, dotted |-> dotted, stem |-> stem, bad |-> {}]
Raw == Seed("raw/users", "raw.users", "users")
Stg == Seed("stg/users", "stg.users", "users")
Target(table, schema) == [table |-> table, schema |-> schema, byEngine |-> Unset]
Seedings(s, t, e) == [Plain EXCEPT !.cmds = {"seed"}, !.starts = 2,
  !.conf = [Conf EXCEPT !.profiles = [x \in {"dev"} |-> <<Duck(""), Pg("", "db")>>[e]]],
  !.seeds = <<<<Raw, Stg>>, <<Raw>>, <<Raw, [Stg EXCEPT !.bad = {"duckdb"}]>> >>[s],
  !.targets = <<Empty,
     [k \in {"raw/users", "stg.users"} |-> IF k = "raw/users" THEN Target("u", "raw") ELSE Target("v", "")],
     [k \in {"users"} |-> Target("w", "")],
     [k \in {"raw/users", "users"} |-> IF k = "raw/users" THEN Target("u", "raw") ELSE Target("w", "")]>>[t]]

Scenario(k) == CASE k[1] = "history" -> Histories[k[2]]
                 [] k[1] = "layout" -> [Plain EXCEPT !.files = Layouts[k[2]]]
                 [] k[1] = "macros" -> [Plain EXCEPT !.macros = MacroLayouts[k[2]]]
                 [] k[1] = "meta" -> Metas(k[2], k[3])
                 [] k[1] = "source" -> SourceLayouts(k[2], k[3], k[4], k[5])
                 [] k[1] = "context" -> Contexts(k[2], k[3], k[4], k[5])
                 [] k[1] = "contract" -> Enforcements(k[2], k[3])
                 [] k[1] = "seed" -> Seedings(k[2], k[3], k[4])
Keys == ({"history"} \X (1..4) \X {1} \X {1} \X {1})
        \union ({"layout"} \X (1..8) \X {1} \X {1} \X {1})
        \union ({"macros"} \X (1..3) \X {1} \X {1} \X {1})
        \union ({"meta"} \X (1..6) \X (1..3) \X {1} \X {1})
        \union ({"source"} \X (1..3) \X (1..2) \X (1..2) \X (1..2))
        \union ({"context"} \X (1..6) \X (1..4) \X (1..2) \X (1..2))
        \union ({"contract"} \X (1..2) \X (1..3) \X {1} \X {1})
        \union ({"seed"} \X (1..3) \X (1..4) \X (1..2) \X {1})
MCScenarios == [k \in Keys |-> Scenario(k)]
=============================================================================
