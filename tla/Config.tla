------------------------------- MODULE Config -------------------------------
(***************************************************************************)
(* What the files of a project mean: how sources.yml, project.yml, model   *)
(* headers, contracts, budgets.yml, seeds/schema.yml and profiles.yml are  *)
(* layered (config/*.py, contracts/core.py, contracts/runtime/base.py,     *)
(* seeding.py, settings.py).  Pure operators; Project and Quality use them.*)
(*                                                                         *)
(* A block of settings is a function from its fields to values, Unset when *)
(* a field is absent or empty.                                             *)
(***************************************************************************)
EXTENDS Naturals, Sequences, FiniteSets

Unset == ""
IsSet(v) == v # Unset
Blank(fields) == [x \in fields |-> Unset]

\* over's fields where it has them, base's elsewhere
Layer(base, over) == [x \in DOMAIN base |-> IF IsSet(over[x]) THEN over[x] ELSE base[x]]
Either(a, b) == IF IsSet(a) THEN a ELSE b
\* the first value of a sequence that is set
FirstSet(s) == IF \E i \in DOMAIN s : IsSet(s[i])
               THEN s[CHOOSE i \in DOMAIN s : IsSet(s[i]) /\ \A j \in 1..(i - 1) : ~IsSet(s[j])]
               ELSE Unset

-----------------------------------------------------------------------------
(* sources.yml.  A source is [group, table, groupOver, tableOver, warn,      *)
(* error]; the last two are pairs <<table's window, group's window>>.        *)

SourceFields == {"identifier", "schema", "location", "options"}
SourceKeys == {"*", "engine"}   \* the wildcard, and the engine that runs

\* A table's own `schema` is dropped: model_dump(include=...) goes by the name
\* of the field, and that is schema_.
TableFields(table) == [table EXCEPT !["schema"] = Unset]
SourceBase(src) ==
  LET base == Layer(src.group, TableFields(src.table))
  IN IF IsSet(base["identifier"]) \/ IsSet(base["location"]) THEN base
     ELSE [base EXCEPT !["identifier"] = "tableName"]
Overrides(src, key) == Layer(src.groupOver[key], src.tableOver[key])
ResolvedSource(src) == Layer(Layer(SourceBase(src), Overrides(src, "*")), Overrides(src, "engine"))

\* freshness: the table's window, else the group's; in minutes
Minutes(period) == CASE period = "minute" -> 1 [] period = "hour" -> 60 [] period = "day" -> 1440
Window(pair) == IF pair[1].count > 0 THEN pair[1] ELSE pair[2]
WindowMinutes(pair) == Window(pair).count * Minutes(Window(pair).period)

-----------------------------------------------------------------------------
(* A model's header or @model(meta), the overlay of project.yml, and the     *)
(* checks on what comes out.                                                 *)

IncFields == {"inc", "incKey", "incUpd", "incDelta"}   \* the block incremental: {...}
MetaFields == IncFields \union
  {"mat", "key", "updAt", "updCol", "delta", "schemaSync",
   "storage", "snapStrategy", "snapUpd", "snapCols"}

\* The overlay fills what the header leaves out; the block goes as a whole.
Overlaid(raw, overlay) ==
  [x \in MetaFields |-> IF x \in IncFields
                        THEN (IF IsSet(raw["inc"]) THEN raw[x] ELSE overlay[x])
                        ELSE Either(raw[x], overlay[x])]
\* storage is the other way round: project.yml wins
StorageOver(raw, storage) == [raw EXCEPT !["storage"] = Either(storage, @)]

\* The block's fields are mirrored to the top level where that has none.
Mirrored(meta) ==
  [meta EXCEPT !["key"] = Either(@, meta["incKey"]),
               !["updCol"] = Either(@, meta["incUpd"]),
               !["updAt"] = FirstSet(<<@, meta["incUpd"], meta["snapUpd"]>>),
               !["delta"] = Either(@, meta["incDelta"])]

Incremental(meta) == meta["inc"] = "on"
Fresh(meta) == \E x \in {"updAt", "updCol", "delta"} : IsSet(meta[x])
Agree(meta) == IsSet(meta["updAt"]) /\ IsSet(meta["updCol"]) => meta["updAt"] = meta["updCol"]
\* project.yml knows schema_sync, a model's meta does not (extra="forbid")
KnownKeys(meta) == ~IsSet(meta["schemaSync"])
IncrementalRules(meta) ==
  /\ meta["mat"] = "incremental" => Incremental(meta)
  /\ Incremental(meta) => Fresh(meta) /\ IsSet(meta["key"])
SnapshotRules(meta) ==
  meta["mat"] = "snapshot" =>
    /\ meta["snapStrategy"] \in {"timestamp", "check"} /\ IsSet(meta["key"])
    /\ meta["snapStrategy"] = "timestamp" => IsSet(meta["snapUpd"])
    /\ meta["snapStrategy"] = "check" => IsSet(meta["snapCols"])
ValidMeta(meta) == KnownKeys(meta) /\ Agree(meta) /\ IncrementalRules(meta) /\ SnapshotRules(meta)

ModelMeta(raw, storage, overlay) == Mirrored(Overlaid(StorageOver(raw, storage), overlay))
Materialized(meta) == IF Incremental(meta) THEN Either(meta["mat"], "incremental")
                      ELSE Either(meta["mat"], "table")

-----------------------------------------------------------------------------
(* Contracts.  A column's contract and the defaults of contracts.yml are     *)
(* blocks; a rule is [names, tables, block].  `physical` is one value: an    *)
(* engine's type in a rule does not complete a column's own block.           *)

ColumnFields == {"physical", "nullable", "unique", "enum", "min", "max", "regex"}
Matching(rules, col, table) == SelectSeq(rules, LAMBDA r : col \in r.names /\ table \in r.tables)
\* fields that are still open take the first rule that has a value
\* Altered Column: a rule overrides what the column says.
ColumnRuleFirst(own, rules, col, table) ==
  LET found == Matching(rules, col, table)
  IN [x \in ColumnFields |-> Either(FirstSet([i \in DOMAIN found |-> found[i].block[x]]), own[x])]
Column(own, rules, col, table) ==
  LET found == Matching(rules, col, table)
  IN [x \in ColumnFields |-> Either(own[x], FirstSet([i \in DOMAIN found |-> found[i].block[x]]))]
\* What fft test asserts of a column: one test per kind.
TestKind == [physical |-> "column_physical_type", nullable |-> "not_null", unique |-> "unique",
             enum |-> "accepted_values", min |-> "between", max |-> "between", regex |-> "regex_match"]
ContractTests(block) ==
  {TestKind[x] : x \in {y \in ColumnFields : IsSet(block[y]) /\ (y = "nullable" => block[y] = "false")
                                                           /\ (y = "unique" => block[y] = "true")}}

\* What a run enforces: the table's own file, else the project's entry for the
\* table field by field, else the project's default.  A file that cannot be parsed
\* takes all contracts with it; a bare `mode: off` in an entry is such a file,
\* YAML reads false and only the other two modes are mended.
BareOff == "false"
NotEnforced == [mode |-> "off", extra |-> "yes"]
Enforcement(own, entry, default) ==
  CASE entry.mode = BareOff -> NotEnforced
    [] entry.mode # BareOff /\ IsSet(own.mode) -> Layer(NotEnforced, own)
    [] OTHER -> Layer(Layer(NotEnforced, default), entry)

-----------------------------------------------------------------------------
(* budgets.yml: a limit of zero or less is no limit.                         *)

NoLimit == 0
Limit(n) == IF n > 0 THEN n ELSE NoLimit
Factor(unit) == CASE unit = "ms" -> 1 [] unit = "s" -> 1000 [] unit = "m" -> 60000
                  [] unit = "h" -> 3600000 [] unit = "d" -> 86400000
\* tenths of a unit, cut down to whole milliseconds
Duration(tenths, unit) == Limit((tenths * Factor(unit)) \div 10)

-----------------------------------------------------------------------------
(* seeds: the target of a file, and the type of a column.                    *)

NoTarget == [table |-> Unset, byEngine |-> Unset, schema |-> Unset]
\* A file's id is its path, its stem the last part; an entry of `targets` is a
\* block; path-based ids come before stems.
\* Altered SeedEntry: the stem before the path.
SeedEntryByStem(seed, targets) ==
  IF seed.stem \in DOMAIN targets THEN targets[seed.stem]
  ELSE IF seed.id \in DOMAIN targets THEN targets[seed.id] ELSE NoTarget
SeedEntry(seed, targets) ==
  IF seed.id \in DOMAIN targets THEN targets[seed.id]
  ELSE IF seed.dotted \in DOMAIN targets THEN targets[seed.dotted]
  ELSE IF seed.stem \in DOMAIN targets THEN targets[seed.stem] ELSE NoTarget
SeedTarget(seed, targets, default) ==
  LET entry == SeedEntry(seed, targets)
  IN [schema |-> FirstSet(<<entry.byEngine, entry.schema, default>>),
      table |-> Either(entry.table, seed.stem)]
\* A bare stem in `targets` is refused when two files share it.
Ambiguous(seed, seeds, targets) ==
  seed.stem \in DOMAIN targets /\ \E other \in seeds \ {seed} : other.stem = seed.stem

-----------------------------------------------------------------------------
(* profiles.yml and the environment.  A profile is [engine, sections, art]:   *)
(* sections is a function from engines to [place, dsn], where place is the    *)
(* path of DuckDB and the schema of Postgres; art is [mode, dsn].             *)

EnvFields == {"engine", "path", "dsn", "schema", "mode", "artDsn"}   \* the FF_* variables
NoSection == [place |-> Unset, dsn |-> Unset]
DefaultPlace == [duckdb |-> ":memory:", postgres |-> "public"]
BuiltIn == [engine |-> "duckdb", sections |-> [e \in {"duckdb"} |-> [place |-> ":memory:", dsn |-> Unset]],
            art |-> [mode |-> Unset, dsn |-> Unset]]

\* .env files in layers, later ones over earlier ones; what the process has wins
Environment(conf) ==
  [x \in EnvFields |->
     FirstSet(<<conf.process[x]>> \o [i \in DOMAIN conf.dotenv |-> conf.dotenv[Len(conf.dotenv) + 1 - i][x]])]
HasProfile(profiles, name) == DOMAIN profiles = {} \/ {name, "default"} \intersect DOMAIN profiles # {}
ProfileNamed(profiles, name) == IF name \in DOMAIN profiles THEN profiles[name]
                                ELSE IF "default" \in DOMAIN profiles THEN profiles["default"]
                                ELSE BuiltIn

\* FF_* variables over the profile: the engine, then what that engine's section has.
SectionFromEnv(env, engine) == IF engine = "duckdb" THEN [place |-> env["path"], dsn |-> Unset]
                               ELSE [place |-> env["schema"], dsn |-> env["dsn"]]
Section(profile, engine) == IF engine \in DOMAIN profile.sections THEN profile.sections[engine] ELSE NoSection
WithSection(profile, engine, section) ==
  [e \in DOMAIN profile.sections \union {engine} |-> IF e = engine THEN section ELSE profile.sections[e]]
WithEnv(profile, env) ==
  LET engine == Either(env["engine"], profile.engine)
  IN [engine |-> engine,
      sections |-> WithSection(profile, engine, Layer(Section(profile, engine), SectionFromEnv(env, engine))),
      art |-> [mode |-> Either(env["mode"], profile.art.mode), dsn |-> Either(env["artDsn"], profile.art.dsn)]]
\* extra="forbid": a section of another engine makes a profile invalid
ValidProfile(profile) ==
  /\ DOMAIN profile.sections = {profile.engine}
  /\ profile.engine = "postgres" => IsSet(profile.sections["postgres"].dsn)
  /\ profile.art.mode \in {"db", "both"} => IsSet(profile.art.dsn)
Place(profile) == Either(Section(profile, profile.engine).place, DefaultPlace[profile.engine])

\* The profile of unit tests: no FF_* variable, and of the base profile only what
\* does not name a place (its section is there then, if only empty).
\* Altered UtestProfile: the variables are laid over it like over any other.
UtestProfileFromEnv(base, utest, env) == WithEnv(utest, env)
UtestProfile(base, utest, env) ==
  LET own == Section(utest, base.engine)
  IN [utest EXCEPT !.sections = WithSection(utest, base.engine,
        [own EXCEPT !.dsn = IF base.engine = "postgres" THEN Either(@, base.sections["postgres"].dsn) ELSE @])]

\* The artifacts' database: the file's settings for this name, if they are complete;
\* FF_ARTIFACTS_MODE only if they are not, but FF_ARTIFACTS_PG_DSN before theirs.
Artifacts(art, env) ==
  IF IsSet(art.dsn)
  THEN [mode |-> Either(art.mode, "files"), dsn |-> Either(env["artDsn"], art.dsn)]
  ELSE [mode |-> Either(env["mode"], "files"), dsn |-> env["artDsn"]]
HasStore(artifacts) == artifacts.mode \in {"db", "both"} /\ IsSet(artifacts.dsn)
=============================================================================
