----------------------------- MODULE MCQuality -----------------------------
(* Small test suites and projects: every kind of check over every column of   *)
(* at most three rows, every way a command can be cut off, and the suites     *)
(* whose cases share a model, lack an input or cannot be loaded.              *)
EXTENDS Quality, TLC

\* --- fft utest
M(deps, incremental) == [deps |-> deps, incremental |-> incremental]
C(name, inputs, relation, rows) == [name |-> name, inputs |-> inputs, relation |-> relation, rows |-> rows]
Of(model, inputs, relation, cases) ==
  [model |-> model, engine |-> "", inputs |-> inputs, relation |-> relation, cases |-> cases]
Src(v) == "src" :> v
TwoCases == [models |-> [users |-> M({"src"}, FALSE), mart |-> M({"users"}, FALSE)],
             specs |-> <<Of("users", Src("csv"), "", <<C("u1", Nothing, "", "right"), C("u2", Src("other rows"), "", "right")>>),
                         Of("mart", Nothing, "mart", <<C("m1", "users" :> "rows", "", "right")>>)>>,
             memory |-> FALSE, modes |-> {"off", "ro", "rw"}, only |-> {"", "u1"}, codes |-> {1, 2}, csvs |-> {1, 2}]
\* an incremental model tested over its own relation, a missing model, another engine
Odd == [TwoCases EXCEPT
         !.models.users.incremental = TRUE,
         !.specs = <<Of("users", Src("neither"), "", <<C("u1", Src("rows"), "other", "right"), C("u2", "users" :> "rows", "", "wrong")>>),
                     Of("mart", Nothing, "", <<C("m1", Nothing, "", "right")>>),
                     Of("gone", Nothing, "", <<>>),
                     [Of("mart", Nothing, "", <<>>) EXCEPT !.engine = "postgres"]>>,
         !.codes = {0, 1}, !.csvs = {1}, !.only = {"", "x"}, !.modes = {"off", "rw"}]
InMemory == [TwoCases EXCEPT !.memory = TRUE, !.csvs = {0, 1}, !.codes = {0, 1}]
MCUtests == [two |-> TwoCases, odd |-> Odd, memory |-> InMemory]

\* --- fft test
On(kind, params) == [kind |-> kind, table |-> "t", column |-> TRUE, where |-> {}, params |-> params,
                     severity |-> "error", tags |-> {"batch"}, bad |-> FALSE]
Sql(kind, params) == [kind |-> kind, py |-> FALSE, overwrite |-> FALSE, params |-> params]
Py(kind, overwrite) == [kind |-> kind, py |-> TRUE, overwrite |-> overwrite, params |-> {"x"}]
Entry(file, test, modelTags) == [file |-> file, test |-> test, modelTags |-> modelTags, wellFormed |-> TRUE]
SchemaFile(version) == [readable |-> TRUE, version |-> version]
Token(prefix, tag) == [prefix |-> prefix, tag |-> tag]
Plain == [files |-> <<>>, project |-> <<>>, schema |-> <<>>, entries |-> <<>>, contracts |-> <<>>, rules |-> <<>>,
          tokens |-> <<>>, selects |-> TRUE, parents |-> {0, 1}, age |-> 30, sources |-> <<>>]
Only(list) == [Plain EXCEPT !.project = list]
Partly(test) == [test EXCEPT !.where = {0, 1}]

W(count, period) == [count |-> count, period |-> period]
None == <<W(0, "minute"), W(0, "minute")>>
S(age, warn, error) == [age |-> age, warn |-> warn, error |-> error]
Limits == <<<<W(2, "hour"), W(0, "day")>>, <<W(0, "minute"), W(1, "day")>>, <<W(90, "minute"), W(1, "minute")>>>>
Ages == {30, 100, 120, 150, 1500, Null, Unreadable}
Sourced(sources) == [Plain EXCEPT !.sources = sources]
Block(over) == [x \in ColumnFields |-> IF x \in DOMAIN over THEN over[x] ELSE Unset]
Rule(over) == [names |-> {"c"}, tables |-> {"t"}, block |-> Block(over)]

MCProjects ==
  [nulls |-> Only(<<On("not_null", {}), Partly(On("not_null", {})), [On("unique", {}) EXCEPT !.severity = "warn"],
                    Partly(On("unique", {}))>>),
   values |-> Only(<<On("accepted_values", {"values"}), Partly(On("accepted_values", {"values"})),
                     On("accepted_values", {}), On("between", {"min"}), On("between", {"min", "max"}),
                     On("between", {}), On("regex_match", {"pattern"}), On("regex_match", {})>>),
   sums |-> Only(<<On("greater_equal", {}), On("non_negative_sum", {}), On("row_count_between", {}),
                   On("freshness", {"delay"}), On("column_physical_type", {"int"}), On("column_physical_type", {})>>),
   keys |-> [Only(<<On("relationships", {"to"}), [On("reconcile_coverage", {"sides"}) EXCEPT !.table = ""]>>)
             EXCEPT !.parents = {0, 1, Null}],
   sides |-> Only(<<On("reconcile_equal", {"sides"}), On("reconcile_diff_within", {"sides", "limits"}),
                    On("reconcile_ratio_within", {"sides", "limits"}), On("reconcile_ratio_within", {"sides"})>>),
   refused |-> Only(<<[On("not_null", {}) EXCEPT !.bad = TRUE, !.severity = "warn"], [On("not_null", {}) EXCEPT !.column = FALSE],
                      [On("between", {"max"}) EXCEPT !.bad = TRUE]>>),
   noTable |-> Only(<<On("not_null", {}), [On("unique", {}) EXCEPT !.table = ""]>>),
   noRef |-> Only(<<On("relationships", {"to", "unknown ref"})>>),
   unknown |-> Only(<<On("nameless", {}), [On("not_null", {}) EXCEPT !.severity = "warn"]>>),
   custom |-> [Only(<<On("mine", {"x"}), Partly(On("yours", {"y"})), On("not_null", {})>>)
               EXCEPT !.files = <<Sql("mine", {"x"}), Py("yours", FALSE), Py("not_null", TRUE)>>],
   params |-> [Only(<<On("mine", {"x", "z"})>>) EXCEPT !.files = <<Sql("mine", {"x"})>>],
   twice |-> [Plain EXCEPT !.files = <<Sql("mine", {}), Sql("mine", {})>>],
   shadow |-> [Plain EXCEPT !.files = <<Py("unique", FALSE)>>],
   schema |-> [Plain EXCEPT
     !.schema = <<SchemaFile(1), SchemaFile(2)>>,
     !.entries = <<Entry(1, [On("not_null", {}) EXCEPT !.severity = "fatal", !.tags = {}], {"batch"}),
                   Entry(1, [On("unique", {}) EXCEPT !.severity = "warn", !.tags = {}], {}),
                   [Entry(1, On("nameless", {}), {}) EXCEPT !.wellFormed = FALSE],
                   Entry(2, On("nameless", {}), {})>>,
     !.tokens = <<Token("", "batch")>>, !.selects = FALSE],
   byTag |-> [Only(<<On("not_null", {})>>) EXCEPT !.tokens = <<Token("tag", "nightly")>>, !.selects = FALSE],
   noTests |-> [Only(<<On("not_null", {})>>) EXCEPT !.tokens = <<Token("", "nightly")>>, !.selects = FALSE],
   contract |-> [Plain EXCEPT
     !.contracts = <<Block([nullable |-> "true"]),
                     Block([nullable |-> "false", unique |-> "true", min |-> "0"])>>,
     !.rules = <<Rule([nullable |-> "true", unique |-> "false", physical |-> "int"]),
                 Rule([enum |-> "on", physical |-> "text", regex |-> "on"])>>],
   values2 |-> [Plain EXCEPT !.contracts = <<Block([enum |-> "on", nullable |-> "true"])>>,
                             !.rules = <<Rule([nullable |-> "false", max |-> "1"])>>]]
MCSources ==
  [k \in {"warn", "error", "both", "none"} \X (DOMAIN Limits) \X Ages |->
     LET limit == Limits[k[2]]
     IN Sourced(<<S(k[3], IF k[1] \in {"warn", "both"} THEN limit ELSE None,
                    CASE k[1] = "error" -> limit [] k[1] = "both" -> <<W(0, "day"), W(1, "day")>> [] OTHER -> None),
                  S(10, limit, None)>>)]
MCTests == [k \in {<<name, 0, 0>> : name \in DOMAIN MCProjects} |-> MCProjects[k[1]]] @@ MCSources
MCColumns == UNION {[1..n -> {-1, 0, 1, 2, Null}] : n \in 0..2} \union [1..3 -> {0, 1, Null}]
=============================================================================
