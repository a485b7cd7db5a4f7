----------------------------- MODULE DataTests -----------------------------
(***************************************************************************)
(* fft test (cli/test_cmd.py, testing/*.py, schema_loader.py,              *)
(* contracts/core.py) runs the tests of project.yml, of the schema files   *)
(* and of the contracts against what the engine holds; fft source          *)
(* freshness (source_freshness.py) compares the age of each source with    *)
(* its limits.  A check is one query; what it counts is modelled with      *)
(* SQL's unknown, since that is where a check goes wrong.                  *)
(***************************************************************************)
EXTENDS Config, Integers
LOCAL INSTANCE Functions

CONSTANTS TestScenarios,   \* projects, by name
          Columns          \* contents of the tested column: sequences of values and Null

(* A project is [files, project, schema, entries, contracts, rules, tokens,
   selects, parents, age, sources].  files: the custom tests [kind, py, overwrite,
   params] in the order they are found.  A test is [kind, table, column, where,
   params, severity, tags, bad]: where is the set of values its WHERE admits,
   {} for none; params names its parameters; bad if the engine refuses its
   query.  A schema file is [readable, version]; an entry says in which file it
   is and adds to the test the tags of its model and whether it is well formed.  contracts are
   the blocks of the column, one per file, rules the defaults of
   contracts.yml.  A token is [prefix, tag]; selects if a model matches them.
   A source is [age, warn, error] with the pairs of windows of Config.        *)

IsList(s) == s \in Seq({s[i] : i \in DOMAIN s})
ASSUME TestScenariosAssumption ==
  /\ Columns \subseteq Seq(Int)
  /\ \A p \in DOMAIN TestScenarios :
       LET d == TestScenarios[p]
       IN IsList(d.files) /\ IsList(d.project) /\ IsList(d.entries) /\ IsList(d.sources)

VARIABLES proj, column,    \* the project, what the tested column holds
          dq,              \* the command: [step, at]
          kinds,           \* TESTS: the file each kind comes from, 0 built in, and its parameters
          tests, verdicts, \* the tests, and what came of those that ran: "ok", "fail"
          statuses,        \* of the sources: "pass", "warn", "error"
          dqExit           \* the exit code
dvars == <<proj, column, dq, kinds, tests, verdicts, statuses, dqExit>>

D == TestScenarios[proj]
Null == -99
Unreadable == -98    \* the age of a column that is no timestamp

-----------------------------------------------------------------------------
(* What each check reads: a set of rows, by their places in the column.  A   *)
(* comparison with Null is neither true nor false, a row counts only where   *)
(* its condition is true.                                                    *)

Low == 0    High == 1    Accepted == {0, 1}    MinRows == 1    MaxRows == 2
Right == 1    MaxDiff == 1    MinRatio == 1    MaxRatio == 2    MaxDelay == 60

Everywhere == DOMAIN column
Where(test) == {i \in Everywhere : test.where = {} \/ column[i] \in test.where}
Some(rows, Cond(_)) == \E i \in rows : Cond(column[i])
NonNull(rows) == {i \in rows : column[i] # Null}
Total(rows) == SumFunctionOnSet(column, NonNull(rows))
Below(v) == v # Null /\ v < Low
Above(v) == v # Null /\ v > High
OutOfBounds(test, v) == ("min" \in test.params /\ Below(v)) \/ ("max" \in test.params /\ Above(v))
\* group by ... having count(*) > 1: the nulls are one group
Repeated(rows) == {i \in rows : \E j \in rows \ {i} : column[j] = column[i]}
\* left join ... where t.k is null
\* Altered Orphans: not in (select ...), which no row passes once the list has a null.
OrphansNotIn(rows) == {i \in NonNull(rows) : Null \notin D.parents /\ column[i] \notin D.parents}
Orphans(rows) == {i \in rows : ~\E p \in D.parents : p # Null /\ column[i] # Null /\ p = column[i]}
\* sum() of the left side, which is null if there is nothing to add
LeftOutside(low, high) == NonNull(Everywhere) = {} \/ Total(Everywhere) \notin low..high
TooOld(age, limit) == age \in {Null, Unreadable} \/ age > limit

Offends(test) ==
  LET rows == Where(test)
  IN CASE test.kind = "not_null" -> Some(rows, LAMBDA v : v = Null)
       [] test.kind = "unique" -> Repeated(rows) # {}
       \* the WHERE is added after the rows were counted
       [] test.kind = "accepted_values" -> Some(Everywhere, LAMBDA v : v # Null /\ v \notin Accepted)
       [] test.kind = "greater_equal" -> Some(Everywhere, Below)
       [] test.kind = "between" -> Some(Everywhere, LAMBDA v : OutOfBounds(test, v))
       [] test.kind = "regex_match" -> Some(rows, Below)     \* the pattern: no sign
       [] test.kind = "non_negative_sum" -> Total(Everywhere) < 0
       [] test.kind = "row_count_between" -> Len(column) \notin MinRows..MaxRows
       [] test.kind = "freshness" -> TooOld(D.age, MaxDelay)
       [] test.kind = "column_physical_type" -> "text" \in test.params      \* the column is an int
       [] test.kind \in {"relationships", "reconcile_coverage"} -> Orphans(rows) # {}
       [] test.kind = "reconcile_equal" -> LeftOutside(Right, Right)
       [] test.kind = "reconcile_diff_within" -> LeftOutside(Right - MaxDiff, Right + MaxDiff)
       [] test.kind = "reconcile_ratio_within" -> LeftOutside(MinRatio * Right, MaxRatio * Right)

\* What a runner asks for before it queries: one parameter of each set.
Reconciles == {"reconcile_equal", "reconcile_coverage", "reconcile_diff_within", "reconcile_ratio_within"}
ColumnChecks == {"not_null", "unique", "accepted_values", "greater_equal", "non_negative_sum", "column_physical_type",
                 "relationships", "between", "regex_match", "freshness"}
Builtin == {"row_count_between"} \union ColumnChecks \union Reconciles
Needs(kind) == CASE kind \in {"reconcile_equal", "reconcile_coverage"} -> {{"sides"}}
                 [] kind \in {"reconcile_diff_within", "reconcile_ratio_within"} -> {{"sides"}, {"limits"}}
                 [] kind = "relationships" -> {{"to"}}
                 [] kind = "between" -> {{"min", "max"}}
                 [] kind = "regex_match" -> {{"pattern"}}
                 [] kind = "freshness" -> {{"delay"}}
                 [] OTHER -> {}
Misconfigured(test) == \/ test.kind \in ColumnChecks /\ ~test.column
                       \/ \E need \in Needs(test.kind) : need \intersect test.params = {}
\* nothing to check
Vacuous(test) == \/ test.kind = "accepted_values" /\ "values" \notin test.params
                 \/ test.kind = "column_physical_type" /\ test.params \intersect {"text", "int"} = {}
\* the engine is asked
Asked(test) == ~Misconfigured(test) /\ ~Vacuous(test)
\* the checks that turn an engine's refusal into a failure; the others let it pass up
Wrapped == {"not_null", "unique", "relationships", "freshness", "column_physical_type"}

-----------------------------------------------------------------------------
(* Collection.                                                               *)

\* What stands at the given places of a list, in its order.
Sublist(s, places) ==
  [k \in 1..Cardinality(places) |-> s[CHOOSE i \in places : Cardinality({j \in places : j <= i}) = k]]

\* A contract's tests, in this order, all of them errors.
ContractKinds == <<"column_physical_type", "not_null", "unique", "accepted_values", "between", "regex_match">>
ContractParams(block) ==
  {block["physical"]} \union {"values", "pattern"} \union {x \in {"min", "max"} : IsSet(block[x])}
EffectiveContract == Column(D.contracts[Len(D.contracts)], D.rules, "c", "t")   \* of several files the last
FromContract ==
  IF D.contracts = <<>> THEN <<>>
  ELSE LET block == EffectiveContract
           mine == Sublist(ContractKinds, {i \in DOMAIN ContractKinds : ContractKinds[i] \in ContractTests(block)})
       IN [i \in DOMAIN mine |->
             [kind |-> mine[i], table |-> "t", column |-> TRUE, where |-> {}, params |-> ContractParams(block),
              severity |-> "error", tags |-> {"contract"}, bad |-> FALSE]]

Severity(s) == IF s = "warn" THEN "warn" ELSE "error"
FromEntry(entry) == [entry.test EXCEPT !.severity = Severity(@), !.tags = @ \union entry.modelTags]
Usable(entry) == entry.wellFormed /\ D.schema[entry.file].readable /\ D.schema[entry.file].version = 1
FromSchema ==
  LET entries == Sublist(D.entries, {i \in DOMAIN D.entries : Usable(D.entries[i])})
  IN [i \in DOMAIN entries |-> FromEntry(entries[i])]

\* One bare word that selects no model is the tag of tests; nothing else filters them.
LegacyToken == Len(D.tokens) = 1 /\ D.tokens[1].prefix = "" /\ ~D.selects
Filtered(all) == IF LegacyToken THEN Sublist(all, {i \in DOMAIN all : D.tokens[1].tag \in all[i].tags}) ELSE all

-----------------------------------------------------------------------------
NothingRan ==
  /\ kinds = [k \in Builtin |-> [file |-> 0, params |-> {}]]
  /\ tests = <<>> /\ verdicts = <<>> /\ statuses = <<>> /\ dqExit = 0
DataInit ==
  /\ proj \in DOMAIN TestScenarios /\ column \in Columns
  /\ dq \in [step : {"discover", "sources"}, at : {1}] /\ NothingRan
DataIdle ==
  /\ proj = (CHOOSE p \in DOMAIN TestScenarios : TRUE) /\ column = <<>>
  /\ dq = [step |-> "idle", at |-> 1] /\ NothingRan

Step(from) == dq.step = from
Goto(next) == dq' = [step |-> next, at |-> 1]
Advance == dq' = [dq EXCEPT !.at = @ + 1]
\* an exception leaves the command: no summary, no report
Abort(code) == /\ Goto("aborted") /\ dqExit' = code
               /\ UNCHANGED <<proj, column, kinds, tests, verdicts, statuses>>

\* Every custom test is registered under its kind; only Python may replace one.
File == D.files[dq.at]
Taken == File.kind \in DOMAIN kinds /\ ~(File.py /\ File.overwrite)
Register ==
  /\ Step("discover") /\ dq.at \in DOMAIN D.files /\ ~Taken
  /\ kinds' = [k \in DOMAIN kinds \union {File.kind} |->
                IF k = File.kind THEN [file |-> dq.at, params |-> IF File.py THEN {} ELSE File.params] ELSE kinds[k]]
  /\ Advance
  /\ UNCHANGED <<proj, column, tests, verdicts, statuses, dqExit>>
RegisterTwice == Step("discover") /\ dq.at \in DOMAIN D.files /\ Taken /\ Abort(1)

Collect ==
  /\ Step("discover") /\ dq.at \notin DOMAIN D.files
  /\ tests' = Filtered(D.project \o FromSchema \o FromContract)
  /\ Goto(IF tests' = <<>> THEN "ended" ELSE "run")
  /\ UNCHANGED <<proj, column, kinds, verdicts, statuses, dqExit>>

Test == tests[dq.at]
NextTest == Step("run") /\ dq.at \in DOMAIN tests
IsCustom == kinds[Test.kind].file > 0
Prepared(test) == (test.table # "" \/ test.kind \in Reconciles) /\ "unknown ref" \notin test.params
NotPrepared == NextTest /\ ~Prepared(Test) /\ Abort(2)
Ready == NextTest /\ Prepared(Test)
Judge(ok) == /\ verdicts' = Append(verdicts, IF ok THEN "ok" ELSE "fail") /\ Advance
             /\ UNCHANGED <<proj, column, kinds, tests, statuses, dqExit>>
\* Altered UnknownKind: passed over.
UnknownKindPasses == Ready /\ Test.kind \notin DOMAIN kinds /\ Judge(TRUE)
UnknownKind == Ready /\ Test.kind \notin DOMAIN kinds /\ Judge(FALSE)
\* declared parameters forbid all others; what the runner raises nobody catches
BadParams == kinds[Test.kind].params # {} /\ ~(Test.params \subseteq kinds[Test.kind].params)
RunCustom == /\ Ready /\ Test.kind \in DOMAIN kinds /\ IsCustom
             /\ IF BadParams \/ Test.bad THEN Abort(1) ELSE Judge(~Some(Where(Test), Below))
RunBuiltin ==
  /\ Ready /\ Test.kind \in DOMAIN kinds /\ ~IsCustom
  /\ \/ Misconfigured(Test) /\ Judge(FALSE)
     \/ ~Misconfigured(Test) /\ Vacuous(Test) /\ Judge(TRUE)
     \/ Asked(Test) /\ ~Test.bad /\ Judge(~Offends(Test))
     \/ Asked(Test) /\ Test.bad /\ Test.kind \in Wrapped /\ Judge(FALSE)
     \/ Asked(Test) /\ Test.bad /\ Test.kind \notin Wrapped /\ Abort(1)
\* Only errors count.
Finish ==
  /\ Step("run") /\ dq.at \notin DOMAIN tests /\ Goto("ended")
  /\ dqExit' = IF \E i \in DOMAIN tests : verdicts[i] = "fail" /\ tests[i].severity # "warn" THEN 2 ELSE 0
  /\ UNCHANGED <<proj, column, kinds, tests, verdicts, statuses>>

-----------------------------------------------------------------------------
(* fft source freshness.                                                     *)

Source == D.sources[dq.at]
HasWindow(pair) == Window(pair).count > 0
\* The error limit, else the warning.
Threshold(src) == WindowMinutes(IF HasWindow(src.error) THEN src.error ELSE src.warn)
\* A message says "90.0m", "1.5h", "2.0d" or "-"; the pattern looks for "min".
UnitOf(age) == CASE age = Null -> "-" [] age >= 1440 -> "d" [] age >= 60 /\ age < 1440 -> "h" [] OTHER -> "m"
Parsed(age) == IF UnitOf(age) = "min" THEN age ELSE Null
PastLimit(age, pair) == HasWindow(pair) /\ Parsed(age) # Null /\ Parsed(age) > WindowMinutes(pair)
StatusOf(src) ==
  CASE ~TooOld(src.age, Threshold(src)) -> "pass"
    [] TooOld(src.age, Threshold(src)) ->
         IF PastLimit(src.age, src.warn) /\ ~PastLimit(src.age, src.error) THEN "warn" ELSE "error"
Checked(src) == HasWindow(src.warn) \/ HasWindow(src.error)

MoreSources == Step("sources") /\ dq.at \in DOMAIN D.sources
CheckSource ==
  /\ MoreSources /\ Advance
  /\ statuses' = IF Checked(Source) THEN Append(statuses, StatusOf(Source)) ELSE statuses
  /\ UNCHANGED <<proj, column, kinds, tests, verdicts, dqExit>>
ReportSources ==
  /\ Step("sources") /\ ~MoreSources /\ Goto("reported")
  /\ dqExit' = IF \E i \in DOMAIN statuses : statuses[i] = "error" THEN 1 ELSE 0
  /\ UNCHANGED <<proj, column, kinds, tests, verdicts, statuses>>

DataNext == \/ Register \/ RegisterTwice \/ Collect
            \/ NotPrepared \/ UnknownKind \/ RunCustom \/ RunBuiltin \/ Finish
            \/ CheckSource \/ ReportSources

-----------------------------------------------------------------------------
(* Properties                                                                *)

\* What a check promises, said of the rows and not of a query: nulls are repeated like
\* any other value, a null key has no parent, the other checks pass over nulls.
Means(test) ==
  CASE test.kind = "not_null" -> \A i \in Where(test) : column[i] # Null
    [] test.kind = "unique" -> \A i, j \in Where(test) : column[i] = column[j] => i = j
    [] test.kind \in {"relationships", "reconcile_coverage"} ->
         \A i \in Where(test) : column[i] # Null /\ column[i] \in D.parents
    [] test.kind = "between" -> \A i \in Everywhere : column[i] # Null =>
         ("min" \in test.params => column[i] >= Low) /\ ("max" \in test.params => column[i] <= High)
    [] test.kind = "accepted_values" /\ test.where = {} ->
         "values" \in test.params => \A i \in Everywhere : column[i] \in Accepted \union {Null}
    [] test.kind = "regex_match" -> \A i \in Where(test) : column[i] = Null \/ column[i] >= 0
    [] OTHER -> TRUE

\* A built-in check with all it asks for passes exactly if the rows are as it says, for
\* every content of the column, null or not (testing/base.py).
ChecksMeanWhatTheySay ==
  \A i \in DOMAIN verdicts :
    LET t == tests[i]
    IN t.kind \in {"not_null", "unique", "relationships", "reconcile_coverage", "between",
                   "accepted_values", "regex_match"}
       /\ kinds[t.kind].file = 0 /\ ~t.bad /\ ~Misconfigured(t) /\ (t.kind = "accepted_values" => t.where = {})
       => (verdicts[i] = "ok" <=> Means(t))

\* fft test ends with 0 only if it came to every test and each that is an error passed:
\* none that is unknown, refused by the engine or cut off by an exception is lost.
ZeroMeansAllPassed ==
  dq.step = "ended" /\ dqExit = 0 =>
    /\ Len(verdicts) = Len(tests)
    /\ \A i \in DOMAIN tests : tests[i].severity # "warn" =>
         /\ tests[i].kind \in DOMAIN kinds
         /\ verdicts[i] = "ok"

\* What the last contract of the column says of itself decides, whatever the defaults of
\* contracts.yml: fft test does not end with 0 on a null, a double or a value outside
\* where that contract forbids it (_apply_column_defaults, _contract_tests_for_table).
OwnContractIsKept ==
  LET own == D.contracts[Len(D.contracts)]
  IN dq.step = "ended" /\ dqExit = 0 /\ ~LegacyToken /\ D.contracts # <<>>
     /\ (\A k \in Builtin : kinds[k].file = 0) =>
       /\ own["nullable"] = "false" => \A i \in Everywhere : column[i] # Null
       /\ own["unique"] = "true" => \A i, j \in Everywhere : column[i] = column[j] => i = j
       /\ IsSet(own["min"]) => \A i \in Everywhere : ~Below(column[i])
       /\ IsSet(own["enum"]) => \A i \in Everywhere : column[i] \in Accepted \union {Null}

\* A source fails the command exactly if its age passes its error limit, or its warning
\* when it has no other, or cannot be told (source_freshness.py, run_source_freshness).
StaleIsCaught ==
  dq.step = "reported" =>
    (dqExit = 1 <=> \E i \in DOMAIN D.sources :
       LET src == D.sources[i]
           limits == IF HasWindow(src.error) THEN src.error ELSE src.warn
       IN Checked(src) /\ TooOld(src.age, IF limits[1].count > 0 THEN limits[1].count * Minutes(limits[1].period)
                                          ELSE limits[2].count * Minutes(limits[2].period)))
=============================================================================
