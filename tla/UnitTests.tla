----------------------------- MODULE UnitTests -----------------------------
(***************************************************************************)
(* fft utest (utest.py, cli/utest_cmd.py): every spec of tests/unit names  *)
(* a model; each of its cases loads fixtures into relations, executes the  *)
(* model and compares a relation with the rows it expects.  With --cache a *)
(* case whose fingerprint is the saved one of its model is not executed.   *)
(*                                                                         *)
(* Invocations follow each other on one database, which is in memory or    *)
(* outlives them; between two, a model's code or the CSV file of a fixture *)
(* may be edited; a process may die between any two steps.                 *)
(***************************************************************************)
EXTENDS Naturals, Sequences, FiniteSets

CONSTANTS UtestScenarios,   \* test suites, by name
          MaxUtests         \* bound: invocations

ASSUME MaxUtestsAssumption == MaxUtests \in Nat \ {0}

(* A suite is [models, specs, memory, modes, only, codes, csvs]: models maps a
   name to [deps, incremental]; a spec is [model, engine, inputs, relation,
   cases] with the defaults of its cases; a case is [name, inputs, relation,
   rows].  An input is "rows", "other rows", "csv" or "neither"; rows is "right"
   or "wrong".  A model's relation has its name; two more hold what no model
   makes.                                                                   *)
RelationsOf(models) == DOMAIN models \union {"src", "other"}
Over(models, block) == /\ DOMAIN block.inputs \subseteq RelationsOf(models)
                       /\ block.relation \in RelationsOf(models) \union {""}
SpecOver(models, spec) == /\ Over(models, spec)
                          /\ \A j \in DOMAIN spec.cases : spec.cases[j].name \in STRING /\ Over(models, spec.cases[j])

ASSUME UtestScenariosAssumption ==
  \A name \in DOMAIN UtestScenarios :
    /\ UtestScenarios[name].memory \in BOOLEAN /\ UtestScenarios[name].modes \subseteq {"off", "ro", "rw"}
    /\ "fixture" \notin DOMAIN UtestScenarios[name].models
    /\ \A i \in DOMAIN UtestScenarios[name].specs :
         SpecOver(UtestScenarios[name].models, UtestScenarios[name].specs[i])

VARIABLES suite, code, csv,   \* versions: a code of 0 fails, a csv of 0 cannot be read
          utest,      \* the invocation: [pc, mode, only, order, spec, case, todo, bad,
                      \*                  fp, hit, status, failures]
          results,    \* what it has recorded: a sequence of [name, status, hit, cold];
                      \* cold: the status it would have on an empty database
          cache,      \* the cache file; its entries as they were read; the new ones
          known, computed,
          db, runs, exit,
          tidy        \* since the database was empty nothing died and every input was loaded

edits == <<suite, code, csv>>
store == <<cache, known, computed>>
uvars == <<edits, utest, results, store, db, runs, exit, tidy>>

U == UtestScenarios[suite]
Models == DOMAIN U.models
Relations == RelationsOf(U.models)
Engine == "duckdb"

\* What a relation holds: a fixture, or what a model made of what it read.
Nothing == [x \in {} |-> 0]
Absent == [by |-> "nobody", version |-> 0, from |-> Nothing, grown |-> FALSE]
Fixture(v) == [Absent EXCEPT !.by = "fixture", !.version = v]
Present(d, rel) == d[rel] # Absent
Empty == [rel \in Relations |-> Absent]
Cleaned(d, rels) == [rel \in Relations |-> IF rel \in rels THEN Absent ELSE d[rel]]

-----------------------------------------------------------------------------
(* Specs and cases.                                                          *)

Spec(i) == U.specs[utest.order[i]]
CurrentSpec == Spec(utest.spec)
\* A spec's defaults fill what a case leaves open.
Filled(own, defaults) ==
  [rel \in DOMAIN own \union DOMAIN defaults |-> IF rel \in DOMAIN own THEN own[rel] ELSE defaults[rel]]
MergedCase(spec, raw) ==
  [name |-> raw.name, inputs |-> Filled(raw.inputs, spec.inputs), rows |-> raw.rows,
   relation |-> IF raw.relation # "" THEN raw.relation ELSE IF spec.relation # "" THEN spec.relation ELSE spec.model]
Case == MergedCase(CurrentSpec, CurrentSpec.cases[utest.case])
Model == CurrentSpec.model
Covered(case, model) == U.models[model].deps \subseteq DOMAIN case.inputs

Value(input, csvNow) == CASE input = "rows" -> 1 [] input = "other rows" -> 2
                          [] input = "csv" /\ csvNow > 0 -> 2 + csvNow [] OTHER -> 0
Readable(input) == Value(input, csv) > 0
InputsDigest(case) == [rel \in DOMAIN case.inputs |-> <<case.inputs[rel], Value(case.inputs[rel], csv)>>]
\* What a case is about, and its fingerprint; none when the model does not render.
Subject(case) == [name |-> case.name, inputs |-> InputsDigest(case), code |-> code]
NoPrint == [name |-> "", inputs |-> Nothing, code |-> 0]
\* Altered Fingerprint: the inputs are left out.
FingerprintOfCode(case) == IF code = 0 THEN NoPrint ELSE [Subject(case) EXCEPT !.inputs = Nothing]
Fingerprint(case) == IF code = 0 THEN NoPrint ELSE Subject(case)
NoEntry == [fp |-> NoPrint, of |-> NoPrint]   \* of: the subject that was executed, for the properties

-----------------------------------------------------------------------------
(* The database.                                                             *)

\* Each input's relation is dropped, then filled.
Loaded(d, rel, input) == [Cleaned(d, {rel}) EXCEPT ![rel] = IF Readable(input) THEN Fixture(Value(input, csv)) ELSE @]
\* The relation the case expects is dropped before the model runs.
Target(d, case) == Cleaned(d, {case.relation})
Built(d, model) ==
  [d EXCEPT ![model] = [by |-> model, version |-> code, grown |-> U.models[model].incremental /\ Present(d, model),
                        from |-> [rel \in U.models[model].deps |-> d[rel]]]]
Runs(d, model) == code > 0 /\ \A rel \in U.models[model].deps : Present(d, rel)
\* The model's own relation is dropped too.
Executed(d, model) == LET clean == Cleaned(d, {model}) IN IF Runs(clean, model) THEN Built(clean, model) ELSE clean

-----------------------------------------------------------------------------
(* What a case comes to when nothing was ever tested before: the standard    *)
(* the properties compare with, and what `rows: right` stands for.           *)

Alone(case) ==
  Target([rel \in Relations |-> IF rel \in DOMAIN case.inputs THEN Loaded(Empty, rel, case.inputs[rel])[rel] ELSE Absent],
         case)
ColdResult(case, model) == Executed(Alone(case), model)[case.relation]
\* The rows were written when the code was at version 1 and the file as it was first.
Expected(case, model) ==
  [by |-> model, version |-> 1, grown |-> FALSE,
   from |-> [rel \in U.models[model].deps |-> Fixture(IF rel \in DOMAIN case.inputs THEN Value(case.inputs[rel], 1) ELSE 0)]]
Compared(content, case, model) ==
  IF content # Absent /\ case.rows = "right" /\ content = Expected(case, model) THEN "pass" ELSE "fail"
ColdStatus(case, model) ==
  IF \/ \E rel \in DOMAIN case.inputs : ~Readable(case.inputs[rel])
     \/ ~Runs(Cleaned(Alone(case), {model}), model)
  THEN "error" ELSE Compared(ColdResult(case, model), case, model)

-----------------------------------------------------------------------------
NoUtest == [pc |-> "idle", mode |-> "off", only |-> "", order |-> <<>>, spec |-> 0, case |-> 0,
            todo |-> {}, bad |-> 0, fp |-> NoPrint, hit |-> FALSE, status |-> "pass", failures |-> 0]
UtestInit ==
  /\ suite \in DOMAIN UtestScenarios /\ code = 1 /\ csv = 1
  /\ utest = NoUtest /\ results = <<>>
  /\ cache = [m \in Models |-> NoEntry] /\ known = cache /\ computed = cache
  /\ db = Empty
  /\ runs = 0 /\ exit = 0 /\ tidy = TRUE

At(step) == utest.pc = step
Resting == utest.pc \in {"idle", "ended", "dead"}
Record(name, status, hit) ==
  results' = Append(results, [name |-> name, status |-> status, hit |-> hit,
                              cold |-> IF name # "" /\ Covered(Case, Model) THEN ColdStatus(Case, Model) ELSE status])

\* A user edits the model or the CSV file while nothing runs.
EditCode == /\ Resting /\ runs > 0 /\ code' \in U.codes \ {code}
            /\ UNCHANGED <<suite, csv, utest, results, store, db, runs, exit, tidy>>
EditCsv == /\ Resting /\ runs > 0 /\ csv' \in U.csvs \ {csv}
           /\ UNCHANGED <<suite, code, utest, results, store, db, runs, exit, tidy>>

\* The specs are found in any order, the cache is read.
Orders == {o \in [DOMAIN U.specs -> DOMAIN U.specs] : \A i, j \in DOMAIN U.specs : o[i] = o[j] => i = j}
Begin(mode, only) ==
  /\ Resting /\ runs < MaxUtests /\ runs' = runs + 1
  /\ \E order \in Orders :
       utest' = [NoUtest EXCEPT !.pc = "spec", !.mode = mode, !.only = only, !.order = order, !.spec = 1]
  /\ results' = <<>> /\ exit' = 0
  /\ known' = cache /\ computed' = [m \in Models |-> NoEntry]
  /\ db' = IF U.memory THEN Empty ELSE db
  /\ tidy' = (U.memory \/ tidy)
  /\ UNCHANGED <<edits, cache>>

NextSpec == utest' = [utest EXCEPT !.pc = "spec", !.spec = @ + 1]
NextCase(failures) == utest' = [utest EXCEPT !.pc = "case", !.case = @ + 1, !.failures = @ + failures]
MoreSpecs == At("spec") /\ utest.spec \in DOMAIN U.specs
OtherEngine ==
  /\ MoreSpecs /\ CurrentSpec.engine \notin {"", Engine} /\ NextSpec
  /\ UNCHANGED <<edits, results, store, db, runs, exit, tidy>>
ModelNotFound ==
  /\ MoreSpecs /\ CurrentSpec.engine \in {"", Engine} /\ CurrentSpec.model \notin Models
  /\ utest' = [utest EXCEPT !.spec = @ + 1, !.failures = @ + 1]
  /\ Record("", "error", FALSE)
  /\ UNCHANGED <<edits, store, db, runs, exit, tidy>>
OpenSpec ==
  /\ MoreSpecs /\ CurrentSpec.engine \in {"", Engine} /\ CurrentSpec.model \in Models
  /\ utest' = [utest EXCEPT !.pc = "case", !.case = 1]
  /\ UNCHANGED <<edits, results, store, db, runs, exit, tidy>>

MoreCases == At("case") /\ utest.case \in DOMAIN CurrentSpec.cases
EndOfSpec == /\ At("case") /\ utest.case \notin DOMAIN CurrentSpec.cases /\ NextSpec
             /\ UNCHANGED <<edits, results, store, db, runs, exit, tidy>>
OtherCase == /\ MoreCases /\ utest.only \notin {"", Case.name} /\ NextCase(0)
             /\ UNCHANGED <<edits, results, store, db, runs, exit, tidy>>
OpenCase ==
  /\ MoreCases /\ utest.only \in {"", Case.name}
  /\ utest' = [utest EXCEPT !.pc = "load", !.todo = DOMAIN Case.inputs, !.bad = 0, !.fp = Fingerprint(Case),
                            !.hit = FALSE, !.status = "pass"]
  /\ UNCHANGED <<edits, results, store, db, runs, exit, tidy>>

\* Every input is tried, each that fails is a failure of its own.
LoadInput(rel) ==
  /\ At("load") /\ rel \in utest.todo
  /\ db' = Loaded(db, rel, Case.inputs[rel])
  /\ utest' = [utest EXCEPT !.todo = @ \ {rel}, !.bad = @ + IF Readable(Case.inputs[rel]) THEN 0 ELSE 1]
  /\ UNCHANGED <<edits, results, store, runs, exit, tidy>>
\* The case ends here; what was loaded stays.
InputsFailed ==
  /\ At("load") /\ utest.todo = {} /\ utest.bad > 0
  /\ NextCase(utest.bad) /\ Record(Case.name, "error", FALSE) /\ tidy' = FALSE
  /\ UNCHANGED <<edits, store, db, runs, exit>>

InputsThere == At("load") /\ utest.todo = {} /\ utest.bad = 0
\* Altered CanSkip: the mode is not looked at.
CanSkipAlways == utest.fp # NoPrint /\ known[Model].fp = utest.fp /\ Present(db, Model)
CanSkip == /\ utest.mode \in {"ro", "rw"} /\ utest.fp # NoPrint
           /\ known[Model].fp = utest.fp /\ Present(db, Model)
\* The first fingerprint of a model that was skipped stands, the last that was executed.
Remember(entry) == computed' = IF utest.mode = "rw" /\ utest.fp # NoPrint
                               THEN [computed EXCEPT ![Model] = entry] ELSE computed
SkipCase ==
  /\ InputsThere /\ CanSkip
  /\ Remember(IF computed[Model] = NoEntry THEN known[Model] ELSE computed[Model])
  /\ utest' = [utest EXCEPT !.pc = "assert", !.hit = TRUE]
  /\ UNCHANGED <<edits, results, cache, known, db, runs, exit, tidy>>
ResetTarget ==
  /\ InputsThere /\ ~CanSkip
  /\ db' = Target(db, Case) /\ utest' = [utest EXCEPT !.pc = "execute"]
  /\ UNCHANGED <<edits, results, store, runs, exit, tidy>>
Execute ==
  /\ At("execute") /\ db' = Executed(db, Model)
  /\ IF Runs(Cleaned(db, {Model}), Model)
     THEN /\ utest' = [utest EXCEPT !.pc = "assert"]
          /\ Remember([fp |-> utest.fp, of |-> Subject(Case)])
     ELSE /\ utest' = [utest EXCEPT !.pc = "clean", !.status = "error", !.failures = @ + 1]
          /\ UNCHANGED computed
  /\ UNCHANGED <<edits, results, cache, known, runs, exit, tidy>>
ReadAndAssert ==
  /\ At("assert")
  /\ LET verdict == Compared(db[Case.relation], Case, Model)
     IN utest' = [utest EXCEPT !.pc = "clean", !.status = verdict,
                               !.failures = @ + IF verdict = "pass" THEN 0 ELSE 1]
  /\ UNCHANGED <<edits, results, store, db, runs, exit, tidy>>
\* Altered CleanUp: a case that did not execute leaves its fixtures.
CleanUpAfterSuccess ==
  /\ At("clean") /\ NextCase(0) /\ Record(Case.name, utest.status, utest.hit)
  /\ db' = Cleaned(db, IF utest.status = "error" THEN {} ELSE DOMAIN Case.inputs)
  /\ UNCHANGED <<edits, store, runs, exit, tidy>>
CleanUp ==
  /\ At("clean") /\ NextCase(0) /\ Record(Case.name, utest.status, utest.hit)
  /\ db' = Cleaned(db, DOMAIN Case.inputs)
  /\ UNCHANGED <<edits, store, runs, exit, tidy>>

Finalize ==
  /\ At("spec") /\ utest.spec \notin DOMAIN U.specs
  /\ cache' = IF utest.mode = "rw"
              THEN [m \in Models |-> IF computed[m] # NoEntry THEN computed[m] ELSE known[m]] ELSE cache
  /\ utest' = [utest EXCEPT !.pc = "report"]
  /\ UNCHANGED <<edits, results, known, computed, db, runs, exit, tidy>>
Report ==
  /\ At("report") /\ utest' = [utest EXCEPT !.pc = "ended"]
  /\ exit' = IF utest.failures > 0 THEN 2 ELSE 0
  /\ UNCHANGED <<edits, results, store, db, runs, tidy>>
UtestDies == /\ ~Resting /\ utest' = [utest EXCEPT !.pc = "dead"] /\ tidy' = FALSE
             /\ UNCHANGED <<edits, results, store, db, runs, exit>>

UtestNext ==
  \/ \E mode \in U.modes, only \in U.only : Begin(mode, only)
  \/ OtherEngine \/ ModelNotFound \/ OpenSpec \/ EndOfSpec \/ OtherCase \/ OpenCase
  \/ \E rel \in Relations : LoadInput(rel)
  \/ InputsFailed \/ SkipCase \/ ResetTarget \/ Execute \/ ReadAndAssert \/ CleanUp
  \/ Finalize \/ Report
  \/ EditCode \/ EditCsv \/ UtestDies

-----------------------------------------------------------------------------
(* Properties                                                                *)

\* "executes a single model in isolation": with the cache off, and whenever it is
\* executed, a case that has an input for each of its model's dependencies ends as it
\* would on an empty database, whatever ran, failed or died before it (_run_one_case).
CasesAreIsolated ==
  \A i \in DOMAIN results : utest.mode = "off" \/ ~results[i].hit => results[i].status = results[i].cold

\* As long as no process dies and every input can be loaded no fixture outlives its
\* case, where a case that lacks an input could read it (_cleanup_inputs_for_case).
FixturesDoNotLeak == utest.pc \in {"case", "ended"} /\ tidy => \A rel \in Relations : db[rel].by # "fixture"

\* A case that is skipped is the case, with the inputs and the code, that was executed
\* when its fingerprint was saved (utest.py, _fingerprint_case and _maybe_skip_by_cache).
HitIsForThisCase == utest.hit /\ utest.pc = "assert" => known[Model].of = Subject(Case)

\* The exit code is 2 exactly if a case was not passed or a model not found, although
\* failures are counted in five places and one case may count several times.
UtestExitTellsTruth ==
  utest.pc = "ended" => (exit = 2 <=> \E i \in DOMAIN results : results[i].status # "pass")

\* What the manual says of the cache does not hold: a case that is skipped is compared
\* with what another case left in the model's relation (docs/Unit_Tests.md:16).
SkippedCaseIsCompared ==
  utest.hit /\ utest.pc = "assert" => db[Case.relation] = ColdResult(Case, Model)
=============================================================================
