--------------------------- MODULE QualityProofs ---------------------------
(***************************************************************************)
(* Proofs about fft utest (UnitTests), for every set of suites and any     *)
(* number of invocations, and about fft test and fft source freshness      *)
(* (DataTests), for every set of projects and every content of the column. *)
(***************************************************************************)
EXTENDS Quality, TLAPS, FiniteSetTheorems

Verdicts == {"pass", "fail", "error"}
Opened == {"load", "execute", "assert", "clean"}
UtestSteps == {"idle", "spec", "case", "report", "ended", "dead"} \union Opened

\* What is recorded; a model that is not found has no case to name.
Recordings == [name : {""} \union STRING, status : Verdicts, hit : BOOLEAN, cold : Verdicts]

UtestShape ==
  utest = [pc |-> utest.pc, mode |-> utest.mode, only |-> utest.only, order |-> utest.order,
              spec |-> utest.spec, case |-> utest.case, todo |-> utest.todo, bad |-> utest.bad,
              fp |-> utest.fp, hit |-> utest.hit, status |-> utest.status, failures |-> utest.failures]
UtestTypes ==
  /\ suite \in DOMAIN UtestScenarios
  /\ UtestShape
  /\ utest.pc \in UtestSteps /\ utest.mode \in {"off", "ro", "rw"} /\ utest.bad \in Nat
  /\ utest.hit \in BOOLEAN /\ utest.status \in Verdicts /\ utest.failures \in Nat
  /\ results \in Seq(Recordings)
  /\ cache = [m \in Models |-> cache[m]] /\ known = [m \in Models |-> known[m]]
  /\ computed = [m \in Models |-> computed[m]]
  /\ db = [rel \in Relations |-> db[rel]]
  /\ tidy \in BOOLEAN

\* A fingerprint that was saved is that of the subject that was executed.
EntryTrue(e) == e.fp # NoPrint => e.of = e.fp
EntriesTrue == \A m \in Models : EntryTrue(cache[m]) /\ EntryTrue(known[m]) /\ EntryTrue(computed[m])

\* The spec and the case are there, the fingerprint is theirs.
OrderTypes == utest.order \in [DOMAIN U.specs -> DOMAIN U.specs] /\ utest.spec \in Nat
SpecOpen == utest.spec \in DOMAIN U.specs /\ Model \in Models
CaseOpen ==
  /\ utest.pc \in Opened \union {"case", "spec"} => OrderTypes
  /\ utest.pc \in Opened \union {"case"} => SpecOpen
  /\ utest.pc \in Opened => /\ utest.case \in DOMAIN CurrentSpec.cases /\ utest.fp = Fingerprint(Case)
                            /\ utest.hit => utest.mode # "off"
  /\ utest.pc \in {"load", "execute", "assert"} => utest.status = "pass"

AllReadable == \A rel \in DOMAIN Case.inputs : Readable(Case.inputs[rel])
LoadedSoFar == DOMAIN Case.inputs \ utest.todo
Loading ==
  utest.pc = "load" =>
    /\ utest.todo \subseteq DOMAIN Case.inputs /\ ~utest.hit
    /\ utest.bad > 0 <=> \E rel \in LoadedSoFar : ~Readable(Case.inputs[rel])
    /\ \A rel \in LoadedSoFar : db[rel] = Loaded(Empty, rel, Case.inputs[rel])[rel]
\* What the model reads and what is compared is what an empty database would hold.
Executing ==
  utest.pc = "execute" =>
    /\ ~utest.hit /\ AllReadable
    /\ \A rel \in DOMAIN Case.inputs \union {Case.relation} : db[rel] = Alone(Case)[rel]
RunsAlone == Runs(Cleaned(Alone(Case), {Model}), Model)
Asserting ==
  utest.pc = "assert" =>
    /\ utest.hit => known[Model].of = Subject(Case)
    /\ ~utest.hit /\ Covered(Case, Model) => AllReadable /\ RunsAlone /\ db[Case.relation] = ColdResult(Case, Model)
Cleaning == utest.pc = "clean" /\ ~utest.hit /\ Covered(Case, Model) => utest.status = ColdStatus(Case, Model)

FixturesAtHome ==
  tidy => /\ utest.pc # "dead"
          /\ \A rel \in Relations : db[rel].by = "fixture" => utest.pc \in Opened /\ rel \in DOMAIN Case.inputs

SomeFailed == \E i \in DOMAIN results : results[i].status # "pass"
Counted ==
  /\ utest.pc # "dead" => (utest.failures > 0 <=> SomeFailed \/ (utest.pc = "clean" /\ utest.status # "pass"))
  /\ utest.pc = "ended" => exit = IF utest.failures > 0 THEN 2 ELSE 0

UtestInv == /\ UtestTypes /\ EntriesTrue /\ CaseOpen /\ Loading /\ Executing /\ Asserting /\ Cleaning
            /\ FixturesAtHome /\ Counted /\ CasesAreIsolated

-----------------------------------------------------------------------------
(* The case that is open.                                                  *)

LEMMA CaseShape ==
  ASSUME UtestTypes, OrderTypes, SpecOpen, utest.case \in DOMAIN CurrentSpec.cases
  PROVE  /\ DOMAIN Case.inputs \subseteq Relations /\ Case.relation \in Relations /\ Case.name \in STRING
         /\ Model \in Relations /\ Model # "fixture"
  <1> DEFINE spec == CurrentSpec
             raw == spec.cases[utest.case]
  <1>1. PICK i \in DOMAIN U.specs : spec = U.specs[i]
    BY DEF OrderTypes, SpecOpen, CurrentSpec, Spec
  <1>2. SpecOver(U.models, spec) /\ "fixture" \notin Models
    BY <1>1, UtestScenariosAssumption DEF UtestTypes, UtestShape, U, Models
  <1>3. Case = MergedCase(spec, raw)
    BY DEF Case
  <1>4. Model \in Models /\ Models \subseteq Relations /\ Model = spec.model
    BY DEF SpecOpen, Relations, RelationsOf, Model, Models
  <1> HIDE DEF spec
  <1>5. /\ DOMAIN spec.inputs \subseteq Relations /\ spec.relation \in Relations \union {""}
        /\ raw.name \in STRING /\ DOMAIN raw.inputs \subseteq Relations
        /\ raw.relation \in Relations \union {""}
    BY <1>2 DEF SpecOver, Over, Relations, spec
  <1> HIDE DEF raw
  <1>6. Case.inputs = Filled(raw.inputs, spec.inputs) /\ Case.name = raw.name
    BY <1>3 DEF MergedCase
  <1>7. DOMAIN Case.inputs = DOMAIN raw.inputs \union DOMAIN spec.inputs
    BY <1>6 DEF Filled
  <1>8. Case.relation \in Relations
    BY <1>3, <1>4, <1>5 DEF MergedCase
  <1> QED BY <1>2, <1>4, <1>5, <1>6, <1>7, <1>8

\* The case stays what it is until it is closed.
CaseStays == /\ UNCHANGED edits /\ utest'.order = utest.order
             /\ utest'.spec = utest.spec /\ utest'.case = utest.case

LEMMA SameCase ==
  ASSUME CaseStays
  PROVE  /\ Case' = Case /\ Model' = Model /\ CurrentSpec' = CurrentSpec
         /\ U' = U /\ Models' = Models /\ Relations' = Relations
  BY DEF CaseStays, edits, Case, Model, CurrentSpec, Spec, U, Models, Relations

LEMMA SameMeaning ==
  ASSUME CaseStays
  PROVE  /\ \A input : Readable(input)' <=> Readable(input)
         /\ \A rel, input : (Loaded(Empty, rel, input)[rel])' = Loaded(Empty, rel, input)[rel]
         /\ Subject(Case)' = Subject(Case) /\ Fingerprint(Case)' = Fingerprint(Case)
         /\ Covered(Case, Model)' <=> Covered(Case, Model)
         /\ AllReadable' <=> AllReadable
         /\ Alone(Case)' = Alone(Case)
  <1> USE SameCase DEF CaseStays, edits
  <1>1. /\ \A input : Readable(input)' <=> Readable(input)
        /\ \A rel, input : (Loaded(Empty, rel, input)[rel])' = Loaded(Empty, rel, input)[rel]
    BY DEF Readable, Value, Loaded, Cleaned, Empty
  <1>2. Subject(Case)' = Subject(Case) /\ Fingerprint(Case)' = Fingerprint(Case)
    BY DEF Subject, Fingerprint, InputsDigest, Value
  <1>3. Covered(Case, Model)' <=> Covered(Case, Model)
    BY DEF Covered
  <1>4. AllReadable' <=> AllReadable
    BY <1>1 DEF AllReadable
  <1>5. Alone(Case)' = Alone(Case)
    BY <1>1 DEF Alone, Target, Cleaned
  <1> QED BY <1>1, <1>2, <1>3, <1>4, <1>5

LEMMA SameResult ==
  ASSUME CaseStays
  PROVE  /\ RunsAlone' <=> RunsAlone
         /\ ColdResult(Case, Model)' = ColdResult(Case, Model)
         /\ ColdStatus(Case, Model)' = ColdStatus(Case, Model)
  <1> USE SameCase, SameMeaning DEF CaseStays, edits
  <1>1. RunsAlone' <=> RunsAlone
    BY DEF RunsAlone, Runs, Cleaned, Present
  <1>2. Executed(Alone(Case), Model)' = Executed(Alone(Case), Model)
    BY DEF Executed, Runs, Built, Cleaned, Present
  <1>3. ColdResult(Case, Model)' = ColdResult(Case, Model)
    BY <1>2 DEF ColdResult
  <1>4. Expected(Case, Model)' = Expected(Case, Model)
    BY DEF Expected, Value
  <1> DEFINE bad == \E rel \in DOMAIN Case.inputs : ~Readable(Case.inputs[rel])
  <1>5. bad' <=> bad
    OBVIOUS
  <1>6. \A content : Compared(content, Case, Model)' = Compared(content, Case, Model)
    BY <1>4 DEF Compared
  <1> QED BY <1>1, <1>3, <1>5, <1>6 DEF ColdStatus, RunsAlone

-----------------------------------------------------------------------------
(* The database.                                                           *)

LEMMA LoadedOne ==
  ASSUME NEW d, NEW rel \in Relations, NEW input
  PROVE  /\ Loaded(d, rel, input) = [r \in Relations |-> Loaded(d, rel, input)[r]]
         /\ \A r \in Relations : r # rel => Loaded(d, rel, input)[r] = d[r]
         /\ Loaded(d, rel, input)[rel] = IF Readable(input) THEN Fixture(Value(input, csv)) ELSE Absent
  BY DEF Loaded, Cleaned

\* An input is loaded over whatever was there.
LEMMA LoadedAlike ==
  ASSUME NEW d, NEW e, NEW rel \in Relations, NEW input
  PROVE  Loaded(d, rel, input)[rel] = Loaded(e, rel, input)[rel]
  BY DEF Loaded, Cleaned

LEMMA AloneHas ==
  ASSUME NEW case, DOMAIN case.inputs \subseteq Relations, case.relation \in Relations
  PROVE  /\ Alone(case) = [rel \in Relations |-> Alone(case)[rel]]
         /\ Alone(case)[case.relation] = Absent
         /\ \A rel \in DOMAIN case.inputs : rel # case.relation =>
              Alone(case)[rel] = Loaded(Empty, rel, case.inputs[rel])[rel]
  BY DEF Alone, Target, Cleaned

\* What is built is no fixture, and no other relation changes.
LEMMA ExecutedFixtures ==
  ASSUME db = [rel \in Relations |-> db[rel]], NEW model \in Relations, model # "fixture"
  PROVE  /\ Executed(db, model) = [rel \in Relations |-> Executed(db, model)[rel]]
         /\ \A rel \in Relations : Executed(db, model)[rel].by = "fixture" => db[rel].by = "fixture"
  <1> DEFINE dc == Cleaned(db, {model})
  <1>1. /\ dc = [rel \in Relations |-> dc[rel]] /\ dc[model].by # "fixture"
        /\ \A rel \in Relations : rel # model => dc[rel] = db[rel]
    BY DEF Cleaned, Absent
  <1> HIDE DEF dc
  <1>2. /\ Built(dc, model) = [rel \in Relations |-> Built(dc, model)[rel]]
        /\ Built(dc, model)[model].by = model
        /\ \A rel \in Relations : rel # model => Built(dc, model)[rel] = dc[rel]
    BY <1>1 DEF Built
  <1>3. Executed(db, model) = IF Runs(dc, model) THEN Built(dc, model) ELSE dc
    BY DEF Executed, dc
  <1> QED BY <1>1, <1>2, <1>3

-----------------------------------------------------------------------------
(* The steps.                                                              *)

\* A step that leaves all but the invocation's own record as it is and opens no case.
LEMMA MovesOn ==
  ASSUME UtestInv, UNCHANGED <<edits, results, store, db, runs, exit, tidy>>, ~Resting,
         utest.pc \notin Opened, OrderTypes,
         NEW pc \in {"spec", "case"}, NEW spec \in Nat, NEW case,
         utest' = [utest EXCEPT !.pc = pc, !.spec = spec, !.case = case],
         pc = "case" => spec = utest.spec /\ SpecOpen
  PROVE  UtestInv'
  <1> USE DEF UtestInv, edits, store
  <1>1. UtestTypes'
    BY DEF UtestTypes, UtestShape, UtestSteps, Models, Relations, U
  <1>2. EntriesTrue'
    BY DEF EntriesTrue, EntryTrue, Models, U
  <1>3. CaseOpen'
    <2>1. OrderTypes' /\ utest'.pc = pc
      BY DEF OrderTypes, U, UtestTypes, UtestShape
    <2>2. pc = "case" => SpecOpen'
      BY DEF SpecOpen, Model, CurrentSpec, Spec, Models, U, UtestTypes, UtestShape
    <2> QED BY <2>1, <2>2 DEF CaseOpen, Opened
  <1>4. Loading' /\ Executing' /\ Asserting' /\ Cleaning'
    BY DEF Loading, Executing, Asserting, Cleaning
  <1>5. FixturesAtHome'
    BY DEF FixturesAtHome, Relations, U, UtestTypes, UtestShape
  <1>6. Counted'
    BY DEF Counted, SomeFailed, UtestTypes, UtestShape, Resting, Opened
  <1>7. CasesAreIsolated'
    BY DEF CasesAreIsolated, UtestTypes, UtestShape
  <1> QED BY <1>1, <1>2, <1>3, <1>4, <1>5, <1>6, <1>7

LEMMA BetweenCases ==
  ASSUME UtestInv, OtherEngine \/ OpenSpec \/ EndOfSpec \/ OtherCase
  PROVE  UtestInv'
  <1>1. OrderTypes /\ utest.pc \in {"spec", "case"} /\ ~Resting /\ utest.pc \notin Opened
    BY DEF OtherEngine, OpenSpec, EndOfSpec, OtherCase, MoreSpecs, MoreCases, At, UtestInv, CaseOpen, Resting, Opened
  <1>2. utest.spec + 1 \in Nat /\ utest.spec \in Nat
    BY <1>1 DEF OrderTypes
  <1>3. UNCHANGED <<edits, results, store, db, runs, exit, tidy>>
    BY DEF OtherEngine, OpenSpec, EndOfSpec, OtherCase
  <1>4. CASE OtherEngine \/ EndOfSpec
    <2>1. utest' = [utest EXCEPT !.pc = "spec", !.spec = utest.spec + 1, !.case = utest.case]
      BY <1>4 DEF OtherEngine, EndOfSpec, NextSpec, UtestInv, UtestTypes, UtestShape
    <2> QED BY <2>1, <1>1, <1>2, <1>3, MovesOn
  <1>5. CASE OpenSpec
    <2>1. utest' = [utest EXCEPT !.pc = "case", !.spec = utest.spec, !.case = 1]
      BY <1>5 DEF OpenSpec, UtestInv, UtestTypes, UtestShape
    <2>2. SpecOpen
      BY <1>5 DEF OpenSpec, MoreSpecs, SpecOpen, Model
    <2> QED BY <2>1, <2>2, <1>1, <1>2, <1>3, MovesOn
  <1>6. CASE OtherCase
    <2>0. utest.failures + 0 = utest.failures
      BY DEF UtestInv, UtestTypes, UtestShape
    <2>1. utest' = [utest EXCEPT !.pc = "case", !.spec = utest.spec, !.case = utest.case + 1]
      BY <1>6, <2>0 DEF OtherCase, NextCase, UtestInv, UtestTypes, UtestShape
    <2>2. SpecOpen
      BY <1>6 DEF OtherCase, MoreCases, At, UtestInv, CaseOpen
    <2> QED BY <2>1, <2>2, <1>1, <1>2, <1>3, MovesOn
  <1> QED BY <1>4, <1>5, <1>6

LEMMA OpenCaseKeeps ==
  ASSUME UtestInv, OpenCase
  PROVE  UtestInv'
  <1> USE DEF UtestInv
  <1>1. /\ utest.pc = "case" /\ UNCHANGED <<edits, results, store, db, runs, exit, tidy>>
        /\ utest.case \in DOMAIN CurrentSpec.cases /\ OrderTypes /\ SpecOpen
        /\ utest' = [utest EXCEPT !.pc = "load", !.todo = DOMAIN Case.inputs, !.bad = 0, !.fp = Fingerprint(Case),
                                  !.hit = FALSE, !.status = "pass"]
    BY DEF OpenCase, MoreCases, At, CaseOpen
  <1>2. /\ utest'.pc = "load" /\ utest'.todo = DOMAIN Case.inputs /\ utest'.bad = 0 /\ utest'.fp = Fingerprint(Case)
        /\ utest'.hit = FALSE /\ utest'.status = "pass" /\ utest'.failures = utest.failures
        /\ utest'.mode = utest.mode /\ CaseStays
    BY <1>1 DEF UtestTypes, UtestShape, CaseStays, edits
  <1> HIDE DEF UtestInv
  <1>3. UtestTypes'
    BY <1>1, <1>2, SameCase DEF UtestInv, UtestTypes, UtestShape, UtestSteps, Opened, Verdicts, edits, store
  <1>4. EntriesTrue'
    BY <1>1, <1>2, SameCase DEF UtestInv, EntriesTrue, EntryTrue, store
  <1>5. CaseOpen'
    <2>1. OrderTypes' /\ SpecOpen'
      BY <1>1, <1>2, SameCase DEF OrderTypes, SpecOpen, CaseStays
    <2>2. utest'.fp = Fingerprint(Case)' /\ (utest.case \in DOMAIN CurrentSpec.cases)'
      BY <1>1, <1>2, SameCase, SameMeaning DEF CaseStays
    <2> QED BY <1>2, <2>1, <2>2 DEF CaseOpen
  <1>6. Loading'
    <2>1. LoadedSoFar' = {}
      BY <1>2, SameCase DEF LoadedSoFar
    <2> QED BY <1>2, <2>1, SameCase DEF Loading
  <1>7. Executing' /\ Asserting' /\ Cleaning'
    BY <1>2 DEF Executing, Asserting, Cleaning
  <1>8. FixturesAtHome'
    BY <1>1, <1>2, SameCase DEF UtestInv, FixturesAtHome, Opened
  <1>9. Counted' /\ CasesAreIsolated'
    BY <1>1, <1>2 DEF UtestInv, Counted, SomeFailed, CasesAreIsolated
  <1> QED BY <1>3, <1>4, <1>5, <1>6, <1>7, <1>8, <1>9 DEF UtestInv

\* A step within a case: what is left to show.
LEMMA WithinCase ==
  ASSUME UtestInv, UNCHANGED <<edits, results, cache, known, runs, exit, tidy>>, CaseStays,
         utest.pc \in Opened, utest'.pc \in Opened,
         utest'.mode = utest.mode, utest'.fp = utest.fp,
         utest'.pc # "clean" => utest'.status = "pass" /\ utest'.failures = utest.failures,
         utest'.pc = "clean" => (utest'.failures > 0 <=> utest.failures > 0 \/ utest'.status # "pass"),
         utest.pc # "clean", utest'.hit => utest.mode # "off",
         UtestTypes', Loading', Executing', Asserting', Cleaning',
         \A m \in Models : EntryTrue(computed'[m]),
         \A rel \in Relations : db'[rel].by = "fixture" => db[rel].by = "fixture" \/ rel \in DOMAIN Case.inputs
  PROVE  UtestInv'
  <1>1. EntriesTrue'
    BY SameCase DEF UtestInv, EntriesTrue, EntryTrue
  <1>2. CaseOpen'
    <2>1. OrderTypes' /\ SpecOpen'
      BY SameCase DEF UtestInv, CaseOpen, OrderTypes, SpecOpen, CaseStays
    <2>2. utest'.fp = Fingerprint(Case)' /\ (utest.case \in DOMAIN CurrentSpec.cases)'
      BY SameCase, SameMeaning DEF CaseStays, UtestInv, CaseOpen
    <2> QED BY <2>1, <2>2 DEF CaseOpen
  <1>3. FixturesAtHome'
    BY SameCase DEF UtestInv, FixturesAtHome, Opened
  <1>4. Counted'
    BY DEF UtestInv, Counted, SomeFailed, Opened
  <1>5. CasesAreIsolated'
    BY DEF UtestInv, CasesAreIsolated
  <1> QED BY <1>1, <1>2, <1>3, <1>4, <1>5 DEF UtestInv

LEMMA LoadInputKeeps ==
  ASSUME UtestInv, NEW rel \in Relations, LoadInput(rel)
  PROVE  UtestInv'
  <1>1. /\ utest.pc = "load" /\ rel \in utest.todo /\ utest.bad \in Nat /\ utest.failures \in Nat
        /\ rel \in DOMAIN Case.inputs /\ ~utest.hit /\ utest.status = "pass"
    BY DEF LoadInput, At, UtestInv, UtestTypes, UtestShape, Loading, CaseOpen
  <1> DEFINE one == IF Readable(Case.inputs[rel]) THEN 0 ELSE 1
  <1>2. /\ UNCHANGED <<edits, results, cache, known, computed, runs, exit, tidy>>
        /\ db' = Loaded(db, rel, Case.inputs[rel])
        /\ utest' = [utest EXCEPT !.todo = utest.todo \ {rel}, !.bad = utest.bad + one]
    BY DEF LoadInput, store
  <1>3. /\ one \in Nat /\ (one > 0 <=> ~Readable(Case.inputs[rel]))
    OBVIOUS
  <1> HIDE DEF one
  <1>4. /\ utest'.pc = "load" /\ utest'.todo = utest.todo \ {rel} /\ utest'.bad = utest.bad + one
        /\ utest'.hit = utest.hit /\ utest'.status = "pass" /\ utest'.failures = utest.failures
        /\ utest'.fp = utest.fp /\ utest'.mode = utest.mode /\ CaseStays
    BY <1>1, <1>2 DEF UtestInv, UtestTypes, UtestShape, CaseStays, edits
  <1>5. /\ db' = [r \in Relations |-> db'[r]] /\ \A r \in Relations : r # rel => db'[r] = db[r]
        /\ db'[rel] = Loaded(Empty, rel, Case.inputs[rel])[rel]
    BY <1>2 DEF Loaded, Cleaned
  <1>6. UtestTypes'
    <2>1. utest.bad + one \in Nat
      BY <1>1, <1>3
    <2>2. UtestShape'
      BY <1>2 DEF UtestInv, UtestTypes, UtestShape
    <2> QED BY <1>1, <1>2, <1>4, <1>5, <2>1, <2>2, SameCase DEF UtestInv, UtestTypes, edits
  <1>7. Loading'
    <2>1. LoadedSoFar' = LoadedSoFar \union {rel} /\ LoadedSoFar' \subseteq Relations
      <3>1. DOMAIN Case.inputs \subseteq Relations
        BY <1>1, CaseShape DEF UtestInv, CaseOpen, Opened
      <3> QED BY <1>1, <1>4, <3>1, SameCase DEF LoadedSoFar
    <2>2. /\ utest.todo \subseteq DOMAIN Case.inputs
          /\ utest.bad > 0 <=> \E r \in LoadedSoFar : ~Readable(Case.inputs[r])
          /\ \A r \in LoadedSoFar : db[r] = Loaded(Empty, r, Case.inputs[r])[r]
      BY <1>1 DEF UtestInv, Loading
    <2>3. utest'.bad > 0 <=> \E r \in LoadedSoFar' : ~Readable(Case.inputs[r])
      BY <1>1, <1>3, <1>4, <2>1, <2>2
    <2>4. \A r \in LoadedSoFar' : db'[r] = Loaded(Empty, r, Case.inputs[r])[r]
      BY <1>5, <2>1, <2>2
    <2>5. utest'.todo \subseteq DOMAIN Case'.inputs /\ ~utest'.hit
      BY <1>1, <1>4, <2>2, SameCase
    <2>6. (utest.bad > 0 <=> \E r \in LoadedSoFar : ~Readable(Case.inputs[r]))'
      BY <1>4, <2>3, SameCase, SameMeaning
    <2>7. (\A r \in LoadedSoFar : db[r] = Loaded(Empty, r, Case.inputs[r])[r])'
      BY <1>4, <2>4, SameCase, SameMeaning
    <2> QED BY <2>5, <2>6, <2>7 DEF Loading
  <1>8. Executing' /\ Asserting' /\ Cleaning'
    BY <1>4 DEF Executing, Asserting, Cleaning
  <1>9. /\ \A m \in Models : EntryTrue(computed'[m])
        /\ \A r \in Relations : db'[r].by = "fixture" => db[r].by = "fixture" \/ r \in DOMAIN Case.inputs
    BY <1>1, <1>2, <1>5 DEF UtestInv, EntriesTrue, EntryTrue
  <1> QED BY <1>1, <1>2, <1>4, <1>6, <1>7, <1>8, <1>9, WithinCase DEF Opened

LEMMA SkipCaseKeeps ==
  ASSUME UtestInv, SkipCase
  PROVE  UtestInv'
  <1>1. /\ utest.pc = "load" /\ CanSkip /\ utest.fp = Fingerprint(Case) /\ utest.status = "pass" /\ Model \in Models
        /\ UNCHANGED <<edits, results, cache, known, db, runs, exit, tidy>>
        /\ utest' = [utest EXCEPT !.pc = "assert", !.hit = TRUE]
        /\ Remember(IF computed[Model] = NoEntry THEN known[Model] ELSE computed[Model])
    BY DEF SkipCase, InputsThere, At, UtestInv, CaseOpen, Opened, SpecOpen
  <1>2. /\ utest'.pc = "assert" /\ utest'.hit = TRUE /\ utest'.status = "pass" /\ utest'.failures = utest.failures
        /\ utest'.fp = utest.fp /\ utest'.mode = utest.mode /\ CaseStays
    BY <1>1 DEF UtestInv, UtestTypes, UtestShape, CaseStays, edits
  <1>3. utest.mode # "off" /\ known[Model].of = Subject(Case)
    BY <1>1 DEF CanSkip, Fingerprint, UtestInv, EntriesTrue, EntryTrue
  <1>4. /\ computed' = [m \in Models |-> computed'[m]]
        /\ \A m \in Models : EntryTrue(computed'[m])
    BY <1>1 DEF Remember, UtestInv, UtestTypes, UtestShape, EntriesTrue, EntryTrue
  <1>5. UtestTypes'
    BY <1>1, <1>2, <1>4, SameCase DEF UtestInv, UtestTypes, UtestShape, UtestSteps, Opened, edits
  <1>6. Asserting'
    BY <1>1, <1>2, <1>3, SameCase, SameMeaning DEF Asserting
  <1>7. Loading' /\ Executing' /\ Cleaning'
    BY <1>2 DEF Loading, Executing, Cleaning
  <1>8. \A rel \in Relations : db'[rel].by = "fixture" => db[rel].by = "fixture"
    BY <1>1
  <1> QED BY <1>1, <1>2, <1>3, <1>4, <1>5, <1>6, <1>7, <1>8, WithinCase DEF Opened

LEMMA ResetTargetKeeps ==
  ASSUME UtestInv, ResetTarget
  PROVE  UtestInv'
  <1>1. /\ utest.pc = "load" /\ utest.todo = {} /\ utest.bad = 0 /\ ~utest.hit /\ utest.status = "pass"
        /\ UNCHANGED <<edits, results, cache, known, computed, runs, exit, tidy>>
        /\ db' = Target(db, Case) /\ utest' = [utest EXCEPT !.pc = "execute"]
    BY DEF ResetTarget, InputsThere, At, UtestInv, CaseOpen, Loading, store
  <1>2. /\ utest'.pc = "execute" /\ utest'.hit = utest.hit /\ utest'.status = "pass" /\ utest'.failures = utest.failures
        /\ utest'.fp = utest.fp /\ utest'.mode = utest.mode /\ CaseStays
    BY <1>1 DEF UtestInv, UtestTypes, UtestShape, CaseStays, edits
  <1>3. DOMAIN Case.inputs \subseteq Relations /\ Case.relation \in Relations
    BY <1>1, CaseShape DEF UtestInv, CaseOpen, Opened
  <1>4. /\ db' = [rel \in Relations |-> db'[rel]] /\ db'[Case.relation] = Absent
        /\ \A rel \in Relations : rel # Case.relation => db'[rel] = db[rel]
    BY <1>1, <1>3 DEF Target, Cleaned
  <1>5. UtestTypes'
    BY <1>1, <1>2, <1>4, SameCase DEF UtestInv, UtestTypes, UtestShape, UtestSteps, Opened, edits
  <1>6. Executing'
    <2>1. LoadedSoFar = DOMAIN Case.inputs
      BY <1>1 DEF LoadedSoFar
    <2>2. /\ AllReadable
          /\ \A rel \in DOMAIN Case.inputs : db[rel] = Loaded(Empty, rel, Case.inputs[rel])[rel]
      BY <1>1, <2>1 DEF UtestInv, Loading, AllReadable
    <2>3. \A rel \in DOMAIN Case.inputs \union {Case.relation} : db'[rel] = Alone(Case)[rel]
      BY <1>3, <1>4, <2>2, AloneHas
    <2>4. (\A rel \in DOMAIN Case.inputs \union {Case.relation} : db[rel] = Alone(Case)[rel])'
      BY <1>2, <2>3, SameCase, SameMeaning
    <2> QED BY <1>1, <1>2, <2>2, <2>4, SameMeaning DEF Executing
  <1>7. Loading' /\ Asserting' /\ Cleaning'
    BY <1>2 DEF Loading, Asserting, Cleaning
  <1>8. \A rel \in Relations : db'[rel].by = "fixture" => db[rel].by = "fixture"
    BY <1>4 DEF Absent
  <1>9. \A m \in Models : EntryTrue(computed'[m])
    BY <1>1 DEF UtestInv, EntriesTrue, EntryTrue
  <1> QED BY <1>1, <1>2, <1>5, <1>6, <1>7, <1>8, <1>9, WithinCase DEF Opened

\* What the model reads in a case that covers it is what it would read alone.
LEMMA ReadsAlone ==
  ASSUME UtestInv, utest.pc = "execute", Covered(Case, Model)
  PROVE  /\ AllReadable /\ (Runs(Cleaned(db, {Model}), Model) <=> RunsAlone)
         /\ Executed(db, Model)[Case.relation] = ColdResult(Case, Model)
  <1> DEFINE alone == Alone(Case)
             model == Model
             compared == Case.relation
             here == Cleaned(db, {model})
             there == Cleaned(alone, {model})
             deps == U.models[model].deps
  <1>1. /\ DOMAIN Case.inputs \subseteq Relations /\ compared \in Relations /\ model \in Relations
    BY CaseShape DEF UtestInv, CaseOpen, Opened
  <1>2. /\ AllReadable /\ \A rel \in DOMAIN Case.inputs \union {compared} : db[rel] = alone[rel]
    BY DEF UtestInv, Executing
  <1>3. deps \subseteq DOMAIN Case.inputs
    BY DEF Covered
  <1>4. /\ here = [rel \in Relations |-> here[rel]] /\ there = [rel \in Relations |-> there[rel]]
        /\ \A rel \in deps \union {compared, model} : rel \in Relations /\ here[rel] = there[rel]
    BY <1>1, <1>2, <1>3 DEF Cleaned
  <1>5. /\ Executed(db, model) = IF Runs(here, model) THEN Built(here, model) ELSE here
        /\ Executed(alone, model) = IF Runs(there, model) THEN Built(there, model) ELSE there
        /\ RunsAlone <=> Runs(there, model)
    BY DEF Executed, RunsAlone
  <1> HIDE DEF alone, model, compared, here, there
  <1>6. Runs(here, model) <=> Runs(there, model)
    BY <1>4 DEF Runs, Present
  <1>7. Built(here, model)[compared] = Built(there, model)[compared]
    <2>1. [rel \in deps |-> here[rel]] = [rel \in deps |-> there[rel]]
      BY <1>4
    <2>2. Present(here, model) <=> Present(there, model)
      BY <1>4 DEF Present
    <2>3. Built(here, model)[model] = Built(there, model)[model]
      BY <1>4, <2>1, <2>2 DEF Built
    <2>4. compared # model => Built(here, model)[compared] = here[compared] /\ Built(there, model)[compared] = there[compared]
      BY <1>4 DEF Built
    <2> QED BY <1>4, <2>3, <2>4
  <1>8. Executed(db, model)[compared] = Executed(alone, model)[compared]
    BY <1>4, <1>5, <1>6, <1>7
  <1> QED BY <1>2, <1>5, <1>6, <1>8 DEF ColdResult, alone, model, compared, here

LEMMA ExecuteKeeps ==
  ASSUME UtestInv, Execute
  PROVE  UtestInv'
  <1> DEFINE runs_ == Runs(Cleaned(db, {Model}), Model)
  <1>1. /\ utest.pc = "execute" /\ ~utest.hit /\ utest.status = "pass" /\ utest.failures \in Nat
        /\ UNCHANGED <<edits, results, cache, known, runs, exit, tidy>>
        /\ db' = Executed(db, Model) /\ utest.fp = Fingerprint(Case) /\ Model \in Models
        /\ runs_ => utest' = [utest EXCEPT !.pc = "assert"] /\ Remember([fp |-> utest.fp, of |-> Subject(Case)])
        /\ ~runs_ => utest' = [utest EXCEPT !.pc = "clean", !.status = "error", !.failures = utest.failures + 1]
                     /\ computed' = computed
    BY DEF Execute, At, UtestInv, UtestTypes, UtestShape, CaseOpen, Executing, Opened, SpecOpen
  <1>2. /\ DOMAIN Case.inputs \subseteq Relations /\ Case.relation \in Relations
        /\ Model \in Relations /\ Model # "fixture" /\ db = [rel \in Relations |-> db[rel]]
    BY <1>1, CaseShape DEF UtestInv, UtestTypes, UtestShape, CaseOpen, Opened
  <1>3. /\ db' = [rel \in Relations |-> db'[rel]]
        /\ \A rel \in Relations : db'[rel].by = "fixture" => db[rel].by = "fixture"
    BY <1>1, <1>2, ExecutedFixtures
  <1>4. Covered(Case, Model) => AllReadable /\ (runs_ <=> RunsAlone) /\ db'[Case.relation] = ColdResult(Case, Model)
    BY <1>1, ReadsAlone
  <1> HIDE DEF runs_
  <1>5. /\ utest'.hit = utest.hit /\ utest'.fp = utest.fp /\ utest'.mode = utest.mode /\ CaseStays
        /\ runs_ => utest'.pc = "assert" /\ utest'.status = "pass" /\ utest'.failures = utest.failures
        /\ ~runs_ => utest'.pc = "clean" /\ utest'.status = "error" /\ utest'.failures = utest.failures + 1
    BY <1>1 DEF UtestInv, UtestTypes, UtestShape, CaseStays, edits
  <1>6. /\ computed' = [m \in Models |-> computed'[m]]
        /\ \A m \in Models : EntryTrue(computed'[m])
    <2>1. EntryTrue([fp |-> utest.fp, of |-> Subject(Case)])
      BY <1>1 DEF EntryTrue, Fingerprint
    <2> QED BY <1>1, <2>1 DEF Remember, UtestInv, UtestTypes, UtestShape, EntriesTrue
  <1>7. UtestTypes'
    <2>1. UtestShape'
      BY <1>1 DEF UtestInv, UtestTypes, UtestShape
    <2>2. utest'.failures \in Nat
      BY <1>1, <1>5
    <2>3. utest'.bad = utest.bad
      BY <1>1 DEF UtestInv, UtestTypes, UtestShape
    <2> QED BY <1>1, <1>3, <1>5, <1>6, <2>1, <2>2, <2>3, SameCase
            DEF UtestInv, UtestTypes, UtestSteps, Opened, Verdicts, edits
  <1>8. Asserting'
    BY <1>1, <1>4, <1>5, SameCase, SameMeaning, SameResult DEF Asserting
  <1>9. Cleaning'
    BY <1>1, <1>4, <1>5, SameCase, SameMeaning, SameResult DEF Cleaning, ColdStatus, RunsAlone
  <1>10. Loading' /\ Executing'
    BY <1>5 DEF Loading, Executing
  <1>11. /\ utest'.pc # "clean" => utest'.status = "pass" /\ utest'.failures = utest.failures
         /\ utest'.pc = "clean" => (utest'.failures > 0 <=> utest.failures > 0 \/ utest'.status # "pass")
         /\ utest'.pc \in Opened
    BY <1>1, <1>5 DEF Opened
  <1> QED BY <1>1, <1>3, <1>5, <1>6, <1>7, <1>8, <1>9, <1>10, <1>11, WithinCase DEF Opened

LEMMA ReadAndAssertKeeps ==
  ASSUME UtestInv, ReadAndAssert
  PROVE  UtestInv'
  <1> DEFINE verdict == Compared(db[Case.relation], Case, Model)
             more == IF verdict = "pass" THEN 0 ELSE 1
  <1>1. /\ utest.pc = "assert" /\ utest.status = "pass" /\ utest.failures \in Nat
        /\ UNCHANGED <<edits, results, cache, known, computed, db, runs, exit, tidy>>
        /\ utest' = [utest EXCEPT !.pc = "clean", !.status = verdict, !.failures = utest.failures + more]
    BY DEF ReadAndAssert, At, UtestInv, UtestTypes, UtestShape, CaseOpen, store
  <1>2. verdict \in {"pass", "fail"} /\ more \in Nat /\ (more > 0 <=> verdict # "pass")
    BY DEF Compared
  <1>3. ~utest.hit /\ Covered(Case, Model) => verdict = ColdStatus(Case, Model)
    BY <1>1 DEF UtestInv, Asserting, ColdStatus, AllReadable, RunsAlone
  <1> HIDE DEF verdict, more
  <1>4. /\ utest'.pc = "clean" /\ utest'.hit = utest.hit /\ utest'.status = verdict
        /\ utest'.failures = utest.failures + more /\ utest'.bad = utest.bad
        /\ utest'.fp = utest.fp /\ utest'.mode = utest.mode /\ CaseStays /\ UtestShape'
    BY <1>1 DEF UtestInv, UtestTypes, UtestShape, CaseStays, edits
  <1>5. UtestTypes'
    <2>1. utest'.failures \in Nat
      BY <1>1, <1>2, <1>4
    <2> QED BY <1>1, <1>2, <1>4, <2>1, SameCase DEF UtestInv, UtestTypes, UtestSteps, Opened, Verdicts, edits
  <1>6. Cleaning'
    BY <1>3, <1>4, SameMeaning, SameResult DEF Cleaning
  <1>7. Loading' /\ Executing' /\ Asserting'
    BY <1>4 DEF Loading, Executing, Asserting
  <1>8. /\ \A rel \in Relations : db'[rel].by = "fixture" => db[rel].by = "fixture"
        /\ \A m \in Models : EntryTrue(computed'[m])
    BY <1>1 DEF UtestInv, EntriesTrue, EntryTrue
  <1>9. utest'.failures > 0 <=> utest.failures > 0 \/ utest'.status # "pass"
    BY <1>1, <1>2, <1>4
  <1>10. utest'.hit => utest.mode # "off"
    BY <1>1, <1>4 DEF UtestInv, CaseOpen, Opened
  <1> QED BY <1>1, <1>4, <1>5, <1>6, <1>7, <1>8, <1>9, <1>10, WithinCase DEF Opened

\* A step that records a result; the case, if one was open, is closed.
LEMMA Recorded ==
  ASSUME UtestInv, UNCHANGED <<edits, store, runs, exit>>, tidy' \in BOOLEAN, tidy' => tidy,
         utest.pc \in {"load", "clean", "spec"}, utest'.pc \in {"spec", "case"},
         UtestShape', OrderTypes', utest'.pc = "case" => SpecOpen',
         utest'.mode = utest.mode, utest'.bad = utest.bad, utest'.hit = utest.hit, utest'.status = utest.status,
         utest'.failures \in Nat,
         NEW r \in Recordings,
         results' = Append(results, r),
         utest.mode = "off" \/ ~r.hit => r.status = r.cold,
         utest'.failures > 0 <=> utest.failures > 0 \/ r.status # "pass",
         utest.pc = "clean" => r.status = utest.status,
         db' = [rel \in Relations |-> db'[rel]],
         tidy' => \A rel \in Relations : db'[rel].by # "fixture"
  PROVE  UtestInv'
  <1>1. U' = U /\ Models' = Models /\ Relations' = Relations
    BY DEF U, Models, Relations, edits
  <1>2. /\ results' \in Seq(Recordings)
        /\ Len(results') = Len(results) + 1 /\ results'[Len(results')] = r
        /\ \A i \in 1..Len(results) : results'[i] = results[i]
        /\ Len(results) \in Nat /\ DOMAIN results' = 1..Len(results') /\ DOMAIN results = 1..Len(results)
    BY DEF UtestInv, UtestTypes
  <1>3. UtestTypes'
    BY <1>1, <1>2 DEF UtestInv, UtestTypes, UtestSteps, edits, store
  <1>4. EntriesTrue'
    BY <1>1 DEF UtestInv, EntriesTrue, EntryTrue, store
  <1>5. CaseOpen' /\ Loading' /\ Executing' /\ Asserting' /\ Cleaning'
    BY DEF CaseOpen, Loading, Executing, Asserting, Cleaning, Opened
  <1>6. FixturesAtHome'
    BY <1>1 DEF FixturesAtHome
  <1>7. Counted'
    <2>1. SomeFailed' <=> SomeFailed \/ r.status # "pass"
      BY <1>2 DEF SomeFailed
    <2>2. utest.failures > 0 <=> SomeFailed \/ (utest.pc = "clean" /\ utest.status # "pass")
      BY DEF UtestInv, Counted
    <2> QED BY <2>1, <2>2 DEF Counted
  <1>8. CasesAreIsolated'
    BY <1>2 DEF UtestInv, CasesAreIsolated
  <1> QED BY <1>3, <1>4, <1>5, <1>6, <1>7, <1>8 DEF UtestInv

LEMMA ModelNotFoundKeeps ==
  ASSUME UtestInv, ModelNotFound
  PROVE  UtestInv'
  <1> DEFINE r == [name |-> "", status |-> "error", hit |-> FALSE, cold |-> "error"]
  <1>1. /\ utest.pc = "spec" /\ utest.failures \in Nat /\ OrderTypes
        /\ UNCHANGED <<edits, store, db, runs, exit, tidy>>
        /\ utest' = [utest EXCEPT !.spec = utest.spec + 1, !.failures = utest.failures + 1]
    BY DEF ModelNotFound, MoreSpecs, At, UtestInv, UtestTypes, UtestShape, CaseOpen
  <1>0. results' = Append(results, r)
    BY DEF ModelNotFound, Record
  <1>2. utest.spec + 1 \in Nat /\ utest.failures + 1 \in Nat
    BY <1>1 DEF OrderTypes
  <1>3. /\ utest'.pc = "spec" /\ utest'.mode = utest.mode /\ utest'.bad = utest.bad /\ utest'.hit = utest.hit
        /\ utest'.status = utest.status /\ utest'.failures = utest.failures + 1 /\ UtestShape'
        /\ utest'.order = utest.order /\ utest'.spec = utest.spec + 1
    BY <1>1 DEF UtestInv, UtestTypes, UtestShape
  <1>4. OrderTypes'
    BY <1>1, <1>2, <1>3 DEF OrderTypes, U, edits
  <1>5. /\ r \in Recordings
        /\ r.status = "error" /\ r.status = r.cold
    <2>1. "error" \in Verdicts /\ FALSE \in BOOLEAN /\ "" \in {""} \union STRING
      BY DEF Verdicts
    <2> QED BY <2>1 DEF Recordings
  <1> HIDE DEF r
  <1>6. /\ db' = [rel \in Relations |-> db'[rel]] /\ tidy' \in BOOLEAN /\ tidy' = tidy
        /\ tidy' => \A rel \in Relations : db'[rel].by # "fixture"
    BY <1>1 DEF UtestInv, UtestTypes, FixturesAtHome, Opened
  <1>7. utest'.failures > 0
    BY <1>1, <1>3
  <1> QED BY <1>0, <1>1, <1>2, <1>3, <1>4, <1>5, <1>6, <1>7, Recorded

LEMMA ColdVerdict == ColdStatus(Case, Model) \in Verdicts
  BY DEF ColdStatus, Compared, Verdicts

LEMMA InputsFailedKeeps ==
  ASSUME UtestInv, InputsFailed
  PROVE  UtestInv'
  <1> DEFINE cold == IF Case.name # "" /\ Covered(Case, Model) THEN ColdStatus(Case, Model) ELSE "error"
             r == [name |-> Case.name, status |-> "error", hit |-> FALSE, cold |-> cold]
  <1>1. /\ utest.pc = "load" /\ utest.todo = {} /\ utest.bad > 0 /\ utest.bad \in Nat /\ utest.failures \in Nat
        /\ OrderTypes /\ SpecOpen /\ UNCHANGED <<edits, store, db, runs, exit>> /\ tidy' = FALSE
        /\ utest' = [utest EXCEPT !.pc = "case", !.case = utest.case + 1, !.failures = utest.failures + utest.bad]
    BY DEF InputsFailed, At, NextCase, UtestInv, UtestTypes, UtestShape, CaseOpen, Opened
  <1>2. results' = Append(results, r)
    BY DEF InputsFailed, Record
  <1>3. /\ utest'.pc = "case" /\ utest'.mode = utest.mode /\ utest'.bad = utest.bad /\ utest'.hit = utest.hit
        /\ utest'.status = utest.status /\ utest'.failures = utest.failures + utest.bad /\ UtestShape'
        /\ utest'.order = utest.order /\ utest'.spec = utest.spec
    BY <1>1 DEF UtestInv, UtestTypes, UtestShape
  <1>4. OrderTypes' /\ SpecOpen'
    BY <1>1, <1>3 DEF OrderTypes, SpecOpen, Model, CurrentSpec, Spec, Models, U, edits
  <1>5. cold = "error"
    <2>1. \E rel \in DOMAIN Case.inputs : ~Readable(Case.inputs[rel])
      BY <1>1 DEF UtestInv, Loading, LoadedSoFar
    <2> QED BY <2>1 DEF ColdStatus
  <1>6. Case.name \in STRING
    BY <1>1, CaseShape DEF UtestInv, CaseOpen, Opened
  <1> HIDE DEF cold
  <1>7. r \in Recordings /\ r.status = "error" /\ r.status = r.cold
    BY <1>5, <1>6 DEF Recordings, Verdicts
  <1> HIDE DEF r
  <1>8. db' = [rel \in Relations |-> db'[rel]] /\ tidy' \in BOOLEAN
    BY <1>1 DEF UtestInv, UtestTypes
  <1>9. utest'.failures \in Nat /\ utest'.failures > 0
    BY <1>1, <1>3
  <1> QED BY <1>1, <1>2, <1>3, <1>4, <1>7, <1>8, <1>9, Recorded

LEMMA CleanUpKeeps ==
  ASSUME UtestInv, CleanUp
  PROVE  UtestInv'
  <1> DEFINE cold == IF Case.name # "" /\ Covered(Case, Model) THEN ColdStatus(Case, Model) ELSE utest.status
             r == [name |-> Case.name, status |-> utest.status, hit |-> utest.hit, cold |-> cold]
  <1>1. /\ utest.pc = "clean" /\ utest.failures \in Nat /\ utest.failures + 0 = utest.failures
        /\ utest.status \in Verdicts /\ utest.hit \in BOOLEAN
        /\ OrderTypes /\ SpecOpen /\ UNCHANGED <<edits, store, runs, exit, tidy>>
        /\ db' = Cleaned(db, DOMAIN Case.inputs)
    BY DEF CleanUp, At, UtestInv, UtestTypes, CaseOpen, Opened
  <1>2. results' = Append(results, r)
    BY DEF CleanUp, Record
  <1>0. utest' = [utest EXCEPT !.pc = "case", !.case = utest.case + 1, !.failures = utest.failures]
    BY <1>1 DEF CleanUp, NextCase, UtestInv, UtestTypes, UtestShape
  <1>3. /\ utest'.pc = "case" /\ utest'.mode = utest.mode /\ utest'.bad = utest.bad /\ utest'.hit = utest.hit
        /\ utest'.status = utest.status /\ utest'.failures = utest.failures /\ UtestShape'
        /\ utest'.order = utest.order /\ utest'.spec = utest.spec
    BY <1>0 DEF UtestInv, UtestTypes, UtestShape
  <1>4. OrderTypes' /\ SpecOpen'
    BY <1>1, <1>3 DEF OrderTypes, SpecOpen, Model, CurrentSpec, Spec, Models, U, edits
  <1>5. utest.mode = "off" \/ ~utest.hit => utest.status = cold
    BY <1>1 DEF UtestInv, CaseOpen, Cleaning, Opened
  <1>6. Case.name \in STRING /\ cold \in Verdicts
    BY <1>1, CaseShape, ColdVerdict DEF UtestInv, CaseOpen, Opened
  <1> HIDE DEF cold
  <1>7. /\ r \in Recordings /\ r.status = utest.status
        /\ utest.mode = "off" \/ ~r.hit => r.status = r.cold
    BY <1>1, <1>5, <1>6 DEF Recordings
  <1> HIDE DEF r
  <1>8. /\ db' = [rel \in Relations |-> db'[rel]] /\ tidy' \in BOOLEAN /\ tidy' = tidy
        /\ tidy' => \A rel \in Relations : db'[rel].by # "fixture"
    BY <1>1 DEF UtestInv, UtestTypes, FixturesAtHome, Cleaned, Absent
  <1>9. utest'.failures > 0 <=> utest.failures > 0 \/ r.status # "pass"
    BY <1>1, <1>3, <1>7 DEF UtestInv, Counted
  <1> QED BY <1>1, <1>2, <1>3, <1>4, <1>7, <1>8, <1>9, Recorded

LEMMA FinalizeKeeps ==
  ASSUME UtestInv, Finalize
  PROVE  UtestInv'
  <1>1. /\ utest.pc = "spec" /\ UNCHANGED <<edits, results, known, computed, db, runs, exit, tidy>>
        /\ utest' = [utest EXCEPT !.pc = "report"]
        /\ cache' = IF utest.mode = "rw"
                    THEN [m \in Models |-> IF computed[m] # NoEntry THEN computed[m] ELSE known[m]] ELSE cache
    BY DEF Finalize, At
  <1>2. /\ utest'.pc = "report" /\ utest'.mode = utest.mode /\ utest'.bad = utest.bad /\ utest'.hit = utest.hit
        /\ utest'.status = utest.status /\ utest'.failures = utest.failures /\ UtestShape'
    BY <1>1 DEF UtestInv, UtestTypes, UtestShape
  <1>3. U' = U /\ Models' = Models /\ Relations' = Relations
    BY <1>1 DEF U, Models, Relations, edits
  <1>4. cache' = [m \in Models |-> cache'[m]] /\ \A m \in Models : EntryTrue(cache'[m])
    BY <1>1 DEF UtestInv, UtestTypes, EntriesTrue
  <1>5. UtestTypes'
    BY <1>1, <1>2, <1>3, <1>4 DEF UtestInv, UtestTypes, UtestSteps, edits
  <1>6. EntriesTrue'
    BY <1>1, <1>3, <1>4 DEF UtestInv, EntriesTrue, EntryTrue
  <1>7. CaseOpen' /\ Loading' /\ Executing' /\ Asserting' /\ Cleaning'
    BY <1>2 DEF CaseOpen, Loading, Executing, Asserting, Cleaning, Opened
  <1>8. FixturesAtHome' /\ Counted' /\ CasesAreIsolated'
    BY <1>1, <1>2, <1>3 DEF UtestInv, FixturesAtHome, Counted, SomeFailed, CasesAreIsolated, Opened
  <1> QED BY <1>5, <1>6, <1>7, <1>8 DEF UtestInv

\* The report, and a process that dies.
LEMMA EndKeeps ==
  ASSUME UtestInv, Report \/ UtestDies
  PROVE  UtestInv'
  <1>1. /\ UNCHANGED <<edits, results, store, db, runs>>
        /\ utest' = [utest EXCEPT !.pc = "ended"] \/ utest' = [utest EXCEPT !.pc = "dead"]
    BY DEF Report, UtestDies
  <1>2. /\ utest'.mode = utest.mode /\ utest'.bad = utest.bad /\ utest'.hit = utest.hit
        /\ utest'.status = utest.status /\ utest'.failures = utest.failures /\ UtestShape'
        /\ utest'.pc \in {"ended", "dead"}
    BY <1>1 DEF UtestInv, UtestTypes, UtestShape
  <1>3. U' = U /\ Models' = Models /\ Relations' = Relations
    BY <1>1 DEF U, Models, Relations, edits
  <1>4. \/ utest.pc = "report" /\ utest'.pc = "ended" /\ tidy' = tidy
           /\ exit' = (IF utest.failures > 0 THEN 2 ELSE 0)
        \/ utest'.pc = "dead" /\ tidy' = FALSE
    BY DEF Report, UtestDies, At, UtestInv, UtestTypes, UtestShape
  <1>5. UtestTypes'
    BY <1>1, <1>2, <1>3, <1>4 DEF UtestInv, UtestTypes, UtestSteps, edits, store
  <1>6. EntriesTrue'
    BY <1>1, <1>3 DEF UtestInv, EntriesTrue, EntryTrue, store
  <1>7. CaseOpen' /\ Loading' /\ Executing' /\ Asserting' /\ Cleaning'
    BY <1>2 DEF CaseOpen, Loading, Executing, Asserting, Cleaning, Opened
  <1>8. FixturesAtHome' /\ Counted' /\ CasesAreIsolated'
    BY <1>1, <1>2, <1>3, <1>4 DEF UtestInv, FixturesAtHome, Counted, SomeFailed, CasesAreIsolated, Opened
  <1> QED BY <1>5, <1>6, <1>7, <1>8 DEF UtestInv

LEMMA EditKeeps ==
  ASSUME UtestInv, EditCode \/ EditCsv
  PROVE  UtestInv'
  <1>1. /\ Resting /\ suite' = suite /\ UNCHANGED <<utest, results, store, db, runs, exit, tidy>>
    BY DEF EditCode, EditCsv
  <1>2. U' = U /\ Models' = Models /\ Relations' = Relations
    BY <1>1 DEF U, Models, Relations
  <1>3. utest.pc \notin Opened \union {"case", "spec"} /\ utest' = utest
    BY <1>1 DEF Resting, Opened
  <1>4. UtestTypes' /\ EntriesTrue'
    BY <1>1, <1>2 DEF UtestInv, UtestTypes, UtestShape, EntriesTrue, EntryTrue, store
  <1>5. CaseOpen' /\ Loading' /\ Executing' /\ Asserting' /\ Cleaning'
    BY <1>3 DEF CaseOpen, Loading, Executing, Asserting, Cleaning, Opened
  <1>6. FixturesAtHome' /\ Counted' /\ CasesAreIsolated'
    BY <1>1, <1>2, <1>3 DEF UtestInv, FixturesAtHome, Counted, SomeFailed, CasesAreIsolated, Opened
  <1> QED BY <1>4, <1>5, <1>6 DEF UtestInv

LEMMA BeginKeeps ==
  ASSUME UtestInv, NEW mode \in U.modes, NEW only \in U.only, Begin(mode, only)
  PROVE  UtestInv'
  <1>1. PICK order \in Orders :
          utest' = [NoUtest EXCEPT !.pc = "spec", !.mode = mode, !.only = only, !.order = order, !.spec = 1]
    BY DEF Begin
  <1>2. order \in [DOMAIN U.specs -> DOMAIN U.specs] /\ mode \in {"off", "ro", "rw"} /\ U.memory \in BOOLEAN
    BY UtestScenariosAssumption DEF Orders, UtestInv, UtestTypes, U
  <1>3. /\ UNCHANGED <<edits, cache>> /\ known' = cache /\ computed' = [m \in Models |-> NoEntry]
        /\ results' = <<>> /\ exit' = 0 /\ Resting
        /\ U.memory => db' = Empty /\ tidy' = TRUE
        /\ ~U.memory => db' = db /\ tidy' = tidy
    BY <1>2 DEF Begin, UtestInv, UtestTypes
  <1>4. U' = U /\ Models' = Models /\ Relations' = Relations
    BY <1>3 DEF U, Models, Relations, edits
  <1>5. /\ utest'.pc = "spec" /\ utest'.mode = mode /\ utest'.bad = 0 /\ utest'.hit = FALSE /\ utest'.spec = 1
        /\ utest'.order = order /\ utest'.status = "pass" /\ utest'.failures = 0 /\ UtestShape'
    BY <1>1 DEF NoUtest, UtestShape
  <1>6. /\ Empty = [rel \in Relations |-> Empty[rel]] /\ \A rel \in Relations : Empty[rel].by # "fixture"
    BY DEF Empty, Absent
  <1>7. UtestTypes'
    <2>1. /\ suite' \in DOMAIN UtestScenarios /\ tidy' \in BOOLEAN
      BY <1>2, <1>3 DEF UtestInv, UtestTypes, edits
    <2>5. results' \in Seq(Recordings)
      BY <1>3
    <2>2. db' = [rel \in Relations |-> db'[rel]]
      BY <1>2, <1>3, <1>6 DEF UtestInv, UtestTypes
    <2>3. /\ cache' = [m \in Models |-> cache'[m]] /\ known' = [m \in Models |-> known'[m]]
          /\ computed' = [m \in Models |-> computed'[m]]
      BY <1>3 DEF UtestInv, UtestTypes
    <2>4. /\ utest'.pc \in UtestSteps /\ utest'.mode \in {"off", "ro", "rw"} /\ utest'.bad \in Nat
          /\ utest'.hit \in BOOLEAN /\ utest'.status \in Verdicts /\ utest'.failures \in Nat
      <3>1. utest'.hit \in BOOLEAN
        BY <1>5, Zenon
      <3> QED BY <1>2, <1>5, <3>1 DEF UtestSteps, Verdicts
    <2> QED BY <1>4, <1>5, <2>1, <2>2, <2>3, <2>4, <2>5 DEF UtestTypes
  <1>8. EntriesTrue'
    BY <1>3, <1>4 DEF UtestInv, EntriesTrue, EntryTrue, NoEntry
  <1>9. CaseOpen'
    BY <1>2, <1>4, <1>5 DEF CaseOpen, OrderTypes, Opened
  <1>10. Loading' /\ Executing' /\ Asserting' /\ Cleaning'
    BY <1>5 DEF Loading, Executing, Asserting, Cleaning
  <1>11. FixturesAtHome'
    BY <1>3, <1>4, <1>5, <1>6 DEF UtestInv, FixturesAtHome, Resting, Opened
  <1>12. Counted' /\ CasesAreIsolated'
    BY <1>3, <1>5 DEF Counted, SomeFailed, CasesAreIsolated
  <1> QED BY <1>7, <1>8, <1>9, <1>10, <1>11, <1>12 DEF UtestInv

-----------------------------------------------------------------------------
(* The theorems.                                                           *)

LEMMA InitUtest == UtestInit => UtestInv
  <1> SUFFICES ASSUME UtestInit PROVE UtestInv
    OBVIOUS
  <1>1. utest = NoUtest /\ results = <<>> /\ suite \in DOMAIN UtestScenarios /\ tidy = TRUE /\ db = Empty
    BY DEF UtestInit
  <1>2. /\ utest.pc = "idle" /\ utest.mode = "off" /\ utest.bad = 0 /\ utest.hit = FALSE
        /\ utest.status = "pass" /\ utest.failures = 0 /\ UtestShape
    BY <1>1 DEF NoUtest, UtestShape
  <1>3. \A m \in Models : cache[m] = NoEntry /\ known[m] = NoEntry /\ computed[m] = NoEntry
    BY DEF UtestInit
  <1>4. /\ cache = [m \in Models |-> cache[m]] /\ known = [m \in Models |-> known[m]]
        /\ computed = [m \in Models |-> computed[m]]
    BY DEF UtestInit
  <1>5. db = [rel \in Relations |-> db[rel]] /\ \A rel \in Relations : db[rel].by # "fixture"
    BY <1>1 DEF Empty, Absent
  <1>6. UtestTypes
    <2>1. results \in Seq(Recordings)
      BY <1>1
    <2>2. /\ utest.pc \in UtestSteps /\ utest.mode \in {"off", "ro", "rw"} /\ utest.bad \in Nat
          /\ utest.hit \in BOOLEAN /\ utest.status \in Verdicts /\ utest.failures \in Nat
      <3>1. utest.hit \in BOOLEAN
        BY <1>2, Zenon
      <3> QED BY <1>2, <3>1 DEF UtestSteps, Verdicts
    <2> QED BY <1>1, <1>2, <1>4, <1>5, <2>1, <2>2 DEF UtestTypes
  <1>7. EntriesTrue
    BY <1>3 DEF EntriesTrue, EntryTrue, NoEntry
  <1>8. CaseOpen /\ Loading /\ Executing /\ Asserting /\ Cleaning
    BY <1>2 DEF CaseOpen, Loading, Executing, Asserting, Cleaning, Opened
  <1>9. FixturesAtHome /\ Counted /\ CasesAreIsolated
    BY <1>1, <1>2, <1>5 DEF FixturesAtHome, Counted, SomeFailed, CasesAreIsolated
  <1> QED BY <1>6, <1>7, <1>8, <1>9 DEF UtestInv

LEMMA UtestStutters == UtestInv /\ UNCHANGED uvars => UtestInv'
  <1> SUFFICES ASSUME UtestInv, UNCHANGED uvars PROVE UtestInv'
    OBVIOUS
  <1>1. UNCHANGED <<suite, code, csv, utest, results, cache, known, computed, db, runs, exit, tidy>>
    BY DEF uvars, edits, store
  <1>2. CaseStays /\ utest' = utest
    BY <1>1 DEF CaseStays, edits
  <1> USE DEF UtestInv
  <1>3. UtestTypes' /\ EntriesTrue'
    BY <1>1, <1>2, SameCase DEF UtestTypes, UtestShape, EntriesTrue, EntryTrue
  <1>4. CaseOpen'
    BY <1>1, <1>2, SameCase, SameMeaning DEF CaseOpen, OrderTypes, SpecOpen
  <1>5. Loading'
    <2>1. LoadedSoFar' = LoadedSoFar
      BY <1>2, SameCase DEF LoadedSoFar
    <2> QED BY <1>1, <1>2, <2>1, SameCase, SameMeaning DEF Loading
  <1>6. Executing' /\ Asserting' /\ Cleaning'
    BY <1>1, <1>2, SameCase, SameMeaning, SameResult DEF Executing, Asserting, Cleaning
  <1>7. FixturesAtHome' /\ Counted' /\ CasesAreIsolated'
    BY <1>1, <1>2, SameCase DEF FixturesAtHome, Counted, SomeFailed, CasesAreIsolated
  <1> QED BY <1>3, <1>4, <1>5, <1>6, <1>7

LEMMA UtestStepKeeps == UtestInv /\ UtestNext => UtestInv'
  <1> SUFFICES ASSUME UtestInv, UtestNext PROVE UtestInv'
    OBVIOUS
  <1>1. ASSUME NEW mode \in U.modes, NEW only \in U.only, Begin(mode, only) PROVE UtestInv'
    BY <1>1, BeginKeeps
  <1>2. ASSUME NEW rel \in Relations, LoadInput(rel) PROVE UtestInv'
    BY <1>2, LoadInputKeeps
  <1> QED BY <1>1, <1>2, BetweenCases, ModelNotFoundKeeps, OpenCaseKeeps, InputsFailedKeeps, SkipCaseKeeps,
             ResetTargetKeeps, ExecuteKeeps, ReadAndAssertKeeps, CleanUpKeeps, FinalizeKeeps, EndKeeps, EditKeeps
          DEF UtestNext

\* The inductive invariant of fft utest: what a case has loaded and what its model reads
\* are those of an empty database, a saved fingerprint is that of the subject executed.
THEOREM UtestInvariance == QualitySpec => []UtestInv
  <1>1. Init => UtestInv
    BY InitUtest DEF Init
  <1>2. UtestInv /\ [Next]_qvars => UtestInv'
    <2> SUFFICES ASSUME UtestInv, [Next]_qvars PROVE UtestInv'
      OBVIOUS
    <2>1. UtestNext \/ UNCHANGED uvars
      BY DEF Next, UtestStep, DataStep, qvars
    <2> QED BY <2>1, UtestStepKeeps, UtestStutters
  <1> QED BY <1>1, <1>2, PTL DEF QualitySpec

\* A case that is executed ends as it would on an empty database, for every suite, order
\* of the specs, history of the database, death and edit (_run_one_case).
THEOREM Isolation == QualitySpec => []CasesAreIsolated
  <1>1. UtestInv => CasesAreIsolated
    BY DEF UtestInv
  <1> QED BY <1>1, UtestInvariance, PTL

\* As long as nothing dies and every input can be loaded, no fixture outlives its case
\* (_cleanup_inputs_for_case).
THEOREM NoFixtureLeaks == QualitySpec => []FixturesDoNotLeak
  <1>1. UtestInv => FixturesDoNotLeak
    BY DEF UtestInv, FixturesAtHome, FixturesDoNotLeak, Opened
  <1> QED BY <1>1, UtestInvariance, PTL

\* A case is skipped only for the fingerprint of what was executed: its name, its inputs
\* and the code (_fingerprint_case, _maybe_skip_by_cache).
THEOREM HitsAreHonest == QualitySpec => []HitIsForThisCase
  <1>1. UtestInv => HitIsForThisCase
    BY DEF UtestInv, Asserting, HitIsForThisCase
  <1> QED BY <1>1, UtestInvariance, PTL

\* fft utest ends with 2 exactly if something it recorded did not pass.
THEOREM UtestExit == QualitySpec => []UtestExitTellsTruth
  <1>1. UtestInv => UtestExitTellsTruth
    BY DEF UtestInv, Counted, SomeFailed, UtestTypes, UtestExitTellsTruth
  <1> QED BY <1>1, UtestInvariance, PTL

-----------------------------------------------------------------------------
(* fft test and fft source freshness (DataTests).                            *)

\* A sublist is a list, and has what stands at its places.
LEMMA SublistHas ==
  ASSUME NEW s, NEW n \in Nat, NEW places \in SUBSET (1..n)
  PROVE  /\ Cardinality(places) \in Nat /\ DOMAIN Sublist(s, places) = 1..Cardinality(places)
         /\ \A i \in places : \E k \in 1..Cardinality(places) : Sublist(s, places)[k] = s[i]
  <1> DEFINE Upto(i) == {j \in places : j <= i}
             rank == [i \in places |-> Cardinality(Upto(i))]
             size == Cardinality(places)
  <1>1. IsFiniteSet(places) /\ size \in Nat
    <2>1. IsFiniteSet(1..n)
      BY FS_Interval
    <2> QED BY <2>1, FS_Subset, FS_CardinalityType
  <1>2. \A i \in places : IsFiniteSet(Upto(i)) /\ Cardinality(Upto(i)) \in Nat /\ Cardinality(Upto(i)) <= size
    <2> TAKE i \in places
    <2>1. Upto(i) \in SUBSET places
      OBVIOUS
    <2> HIDE DEF Upto
    <2> QED BY <1>1, <2>1, FS_Subset, FS_CardinalityType
  <1>3. \A i \in places : Cardinality(Upto(i)) # 0
    <2> TAKE i \in places
    <2>1. i \in Upto(i)
      OBVIOUS
    <2> HIDE DEF Upto
    <2> QED BY <1>2, <2>1, FS_EmptySet
  <1>4. rank \in [places -> 1..size]
    <2> HIDE DEF Upto, size
    <2> QED BY <1>1, <1>2, <1>3 DEF size
  <1>5. ASSUME NEW i \in places, NEW j \in places, rank[i] = rank[j] PROVE i = j
    <2>0. i <= j \/ j <= i
      OBVIOUS
    <2>1. Upto(i) \in SUBSET Upto(j) \/ Upto(j) \in SUBSET Upto(i)
      <3>0. \A a, b, c \in places : a <= b /\ b <= c => a <= c
        OBVIOUS
      <3>1. ASSUME i <= j PROVE Upto(i) \in SUBSET Upto(j)
        BY <3>0, <3>1
      <3>2. ASSUME j <= i PROVE Upto(j) \in SUBSET Upto(i)
        BY <3>0, <3>2
      <3> QED BY <2>0, <3>1, <3>2
    <2>2. Cardinality(Upto(i)) = Cardinality(Upto(j))
      BY <1>5
    <2>3. Upto(i) = Upto(j)
      <3> HIDE DEF Upto
      <3> QED BY <1>2, <2>1, <2>2, FS_Subset
    <2>4. i \in Upto(j) /\ j \in Upto(i)
      BY <2>3
    <2> QED BY <2>4
  <1>6. ASSUME NEW i \in places PROVE \E k \in 1..size : Sublist(s, places)[k] = s[i]
    <2> DEFINE k == rank[i]
    <2>1. k \in 1..size
      BY <1>4
    <2>2. (CHOOSE l \in places : Cardinality(Upto(l)) = k) = i
      <3>1. \A l \in places : Cardinality(Upto(l)) = k => l = i
        BY <1>5
      <3>2. Cardinality(Upto(i)) = k
        OBVIOUS
      <3> HIDE DEF Upto, k
      <3> QED BY <3>1, <3>2
    <2>3. Sublist(s, places)[k] = s[CHOOSE l \in places : Cardinality(Upto(l)) = k]
      <3> HIDE DEF k
      <3> QED BY <2>1 DEF Sublist
    <2> QED BY <2>1, <2>2, <2>3
  <1>7. DOMAIN Sublist(s, places) = 1..size
    BY DEF Sublist
  <1> QED BY <1>1, <1>6, <1>7

DataSteps == {"idle", "discover", "run", "ended", "aborted", "sources", "reported"}
DataTypes ==
  /\ column \in Seq(Int)
  /\ dq = [step |-> dq.step, at |-> dq.at] /\ dq.step \in DataSteps /\ dq.at \in Nat \ {0}
  /\ dq.step # "idle" => proj \in DOMAIN TestScenarios
  /\ Builtin \subseteq DOMAIN kinds /\ \A k \in DOMAIN kinds : kinds[k].file \in Nat
  /\ IsList(tests) /\ verdicts \in Seq({"ok", "fail"}) /\ statuses \in Seq({"pass", "warn", "error"})

\* What a verdict says of its test.
Judged(t, v) ==
  /\ v = "ok" => t.kind \in DOMAIN kinds
  /\ t.kind \in DOMAIN kinds /\ kinds[t.kind].file = 0 =>
       /\ Misconfigured(t) => v = "fail"
       /\ ~Misconfigured(t) /\ Vacuous(t) => v = "ok"
       /\ Asked(t) /\ ~t.bad => (v = "ok" <=> ~Offends(t))
       /\ Asked(t) /\ t.bad => v = "fail"
VerdictsTrue ==
  /\ Len(verdicts) <= Len(tests)
  /\ \A i \in 1..Len(verdicts) : \A t, v : t = tests[i] /\ v = verdicts[i] => Judged(t, v)

Gathering == Filtered(D.project \o FromSchema \o FromContract)

\* How far fft test has come.
Judging ==
  /\ dq.step \in {"discover", "sources"} => verdicts = <<>> /\ tests = <<>>
  /\ dq.step \in {"discover", "run", "sources"} => dqExit = 0
  /\ dq.step = "run" => dq.at = Len(verdicts) + 1
  /\ dq.step \in {"run", "ended"} => tests = Gathering
  /\ dq.step = "ended" =>
       /\ Len(verdicts) = Len(tests)
       /\ dqExit = IF \E i \in DOMAIN tests : verdicts[i] = "fail" /\ tests[i].severity # "warn" THEN 2 ELSE 0

\* The same of fft source freshness: the errors so far are those of the sources passed.
Errs(src) == Checked(src) /\ StatusOf(src) = "error"
Aging ==
  /\ dq.step = "sources" => ((\E i \in DOMAIN statuses : statuses[i] = "error")
                               <=> \E i \in DOMAIN D.sources : i < dq.at /\ Errs(D.sources[i]))
  /\ dq.step = "reported" => dqExit = IF \E i \in DOMAIN D.sources : Errs(D.sources[i]) THEN 1 ELSE 0

DataInv == DataTypes /\ VerdictsTrue /\ Judging /\ Aging

LEMMA DataInitial == Init => DataInv
  <1> SUFFICES ASSUME Init PROVE DataInv
    OBVIOUS
  <1>1. NothingRan /\ column \in Seq(Int) /\ dq \in [step : {"idle", "discover", "sources"}, at : {1}]
        /\ (dq.step # "idle" => proj \in DOMAIN TestScenarios)
    <2>1. CASE DataIdle
      <3>1. <<>> \in Seq(Int)
        OBVIOUS
      <3> QED BY <2>1, <3>1 DEF DataIdle
    <2>2. CASE DataInit
      <3>1. Columns \subseteq Seq(Int)
        BY TestScenariosAssumption
      <3> QED BY <2>2, <3>1 DEF DataInit
    <2> QED BY <2>1, <2>2 DEF Init
  <1>2. DataTypes
    BY <1>1 DEF NothingRan, DataTypes, DataSteps, IsList
  <1>3. VerdictsTrue
    BY <1>1 DEF NothingRan, VerdictsTrue
  <1>4. Judging
    BY <1>1 DEF NothingRan, Judging
  <1>5. Aging
    <2>1. dq.at = 1 /\ dq.step # "reported"
      BY <1>1
    <2>2. dq.step = "sources" => \A i \in DOMAIN D.sources : ~ (i < 1)
      <3>1. ASSUME dq.step = "sources" PROVE IsList(D.sources)
        BY <1>1, <3>1, TestScenariosAssumption DEF D
      <3> QED BY <3>1 DEF IsList
    <2> QED BY <1>1, <2>1, <2>2 DEF NothingRan, Aging
  <1> QED BY <1>2, <1>3, <1>4, <1>5 DEF DataInv

\* A list of tests is gathered from lists.
LEMMA Gathered ==
  ASSUME DataTypes, dq.step # "idle"
  PROVE  /\ IsList(Filtered(D.project \o FromSchema \o FromContract))
         /\ \A n \in DOMAIN FromContract : ~LegacyToken =>
              \E i \in DOMAIN (D.project \o FromSchema \o FromContract) :
                 (D.project \o FromSchema \o FromContract)[i] = FromContract[n]
  <1> DEFINE all == D.project \o FromSchema \o FromContract
             T == {D.project[i] : i \in DOMAIN D.project} \union {FromSchema[i] : i \in DOMAIN FromSchema}
                    \union {FromContract[i] : i \in DOMAIN FromContract}
  <1>1. IsList(D.project) /\ IsList(D.entries)
    BY TestScenariosAssumption DEF D, DataTypes
  <1>2. \E n \in Nat : DOMAIN FromSchema = 1..n
    <2> DEFINE places == {i \in DOMAIN D.entries : Usable(D.entries[i])}
    <2>1. PICK n \in Nat : DOMAIN D.entries = 1..n
      BY <1>1 DEF IsList
    <2>2. places \in SUBSET (1..n)
      BY <2>1
    <2>3. DOMAIN FromSchema = DOMAIN Sublist(D.entries, places)
      BY DEF FromSchema
    <2> HIDE DEF places
    <2>4. /\ Cardinality(places) \in Nat
          /\ DOMAIN Sublist(D.entries, places) = 1..Cardinality(places)
      BY <2>2, SublistHas
    <2> QED BY <2>3, <2>4
  <1>3. \E n \in Nat : DOMAIN FromContract = 1..n
    <2> DEFINE places == {i \in DOMAIN ContractKinds : ContractKinds[i] \in ContractTests(EffectiveContract)}
    <2>1. places \in SUBSET (1..6)
      BY DEF ContractKinds
    <2>2. CASE D.contracts = <<>>
      <3>1. FromContract = <<>>
        BY <2>2 DEF FromContract
      <3>2. DOMAIN FromContract = 1..0
        BY <3>1
      <3> QED BY <3>2
    <2>3. CASE D.contracts # <<>>
      <3>1. DOMAIN FromContract = DOMAIN Sublist(ContractKinds, places)
        BY <2>3 DEF FromContract
      <3> HIDE DEF places
      <3>2. /\ Cardinality(places) \in Nat
            /\ DOMAIN Sublist(ContractKinds, places) = 1..Cardinality(places)
        BY <2>1, SublistHas
      <3> QED BY <3>1, <3>2
    <2> QED BY <2>2, <2>3
  <1>4. D.project \in Seq(T)
    BY <1>1 DEF IsList
  <1>5. FromSchema \in Seq(T) /\ FromContract \in Seq(T)
    <2>1. FromSchema = [i \in DOMAIN FromSchema |-> FromSchema[i]]
      BY DEF FromSchema
    <2>2. FromContract = [i \in DOMAIN FromContract |-> FromContract[i]]
      <3>1. CASE D.contracts = <<>>
        <4>1. FromContract = <<>>
          BY <3>1 DEF FromContract
        <4> QED BY <4>1
      <3>2. CASE D.contracts # <<>>
        BY <3>2, Zenon DEF FromContract
      <3> QED BY <3>1, <3>2
    <2>3. FromSchema \in Seq(T)
      BY <1>2, <2>1
    <2>4. FromContract \in Seq(T)
      BY <1>3, <2>2
    <2> QED BY <2>3, <2>4
  <1> HIDE DEF T
  <1>6. all \in Seq(T) /\ Len(D.project \o FromSchema) \in Nat /\ (D.project \o FromSchema) \in Seq(T)
        /\ Len(all) = Len(D.project \o FromSchema) + Len(FromContract)
        /\ \A n \in 1..Len(FromContract) : all[Len(D.project \o FromSchema) + n] = FromContract[n]
    <2>1. (D.project \o FromSchema) \in Seq(T)
      BY <1>4, <1>5
    <2> DEFINE front == D.project \o FromSchema
    <2> HIDE DEF front
    <2>2. front \in Seq(T)
      BY <2>1 DEF front
    <2>3. /\ front \o FromContract \in Seq(T) /\ Len(front) \in Nat
          /\ Len(front \o FromContract) = Len(front) + Len(FromContract)
          /\ \A n \in 1..Len(FromContract) : (front \o FromContract)[Len(front) + n] = FromContract[n]
      BY <1>5, <2>2
    <2> QED BY <2>2, <2>3 DEF front
  <1>7. IsList(Filtered(all))
    <2> HIDE DEF all
    <2>1. CASE LegacyToken
      <3> DEFINE places == {i \in DOMAIN all : D.tokens[1].tag \in all[i].tags}
                 l == Sublist(all, places)
      <3>1. PICK n \in Nat : DOMAIN all = 1..n
        BY <1>6
      <3>2. places \in SUBSET (1..n)
        BY <3>1
      <3>3. Filtered(all) = l
        BY <2>1 DEF Filtered
      <3>4. l = [k \in DOMAIN l |-> l[k]]
        BY DEF Sublist
      <3> HIDE DEF places
      <3>5. \E m \in Nat : DOMAIN l = 1..m
        <4>1. /\ Cardinality(places) \in Nat
              /\ DOMAIN Sublist(all, places) = 1..Cardinality(places)
          BY <3>2, SublistHas
        <4> QED BY <4>1
      <3> HIDE DEF l
      <3>6. IsList(l)
        BY <3>4, <3>5 DEF IsList
      <3> QED BY <3>3, <3>6
    <2>2. CASE ~LegacyToken
      <3>1. Filtered(all) = all
        BY <2>2 DEF Filtered
      <3>2. all = [i \in DOMAIN all |-> all[i]] /\ DOMAIN all = 1..Len(all) /\ Len(all) \in Nat
        BY <1>6
      <3> QED BY <3>1, <3>2 DEF IsList
    <2> QED BY <2>1, <2>2
  <1>8. \A n \in DOMAIN FromContract : \E i \in DOMAIN all : all[i] = FromContract[n]
    <2> SUFFICES ASSUME NEW n \in DOMAIN FromContract PROVE \E i \in DOMAIN all : all[i] = FromContract[n]
      OBVIOUS
    <2> HIDE DEF all
    <2>1. n \in 1..Len(FromContract) /\ Len(FromContract) \in Nat
      BY <1>5
    <2>2. Len(D.project \o FromSchema) + n \in DOMAIN all
      BY <1>6, <2>1
    <2> QED BY <1>6, <2>1, <2>2
  <1> QED BY <1>7, <1>8

\* A verdict stays true of its test while project, column and kinds stay.
LEMMA JudgedStays ==
  ASSUME NEW t, NEW v, UNCHANGED <<proj, column, kinds>>, Judged(t, v) PROVE Judged(t, v)'
  <1>1. D' = D
    BY DEF D
  <1>2. Offends(t)' = Offends(t)
    BY <1>1 DEF Offends, Where, Everywhere, Some, Total, NonNull, Repeated, Orphans, LeftOutside, OutOfBounds, Below, Above, TooOld
  <1> QED BY <1>2 DEF Judged

LEMMA GatheringStays ==
  ASSUME UNCHANGED proj PROVE Gathering' = Gathering
  <1>1. D' = D
    BY DEF D
  <1> QED BY <1>1 DEF Gathering, Filtered, LegacyToken, FromSchema, Usable, FromContract, EffectiveContract

\* A command that is cut off leaves what it has.
LEMMA AbortStep ==
  ASSUME DataInv, dq.step # "idle", NEW c, Abort(c) PROVE DataInv'
  <1> USE DEF Abort, Goto
  <1>1. DataTypes'
    BY DEF DataInv, DataTypes, DataSteps, D
  <1>2. VerdictsTrue'
    BY JudgedStays DEF DataInv, VerdictsTrue
  <1>3. Judging'
    BY DEF Judging
  <1>4. Aging'
    BY DEF Aging
  <1> QED BY <1>1, <1>2, <1>3, <1>4 DEF DataInv

\* One more verdict.
LEMMA JudgeStep ==
  ASSUME DataInv, NEW ok \in BOOLEAN, NextTest, Judge(ok),
         \A t, v : t = Test /\ v = (IF ok THEN "ok" ELSE "fail") => Judged(t, v)
  PROVE  DataInv'
  <1> DEFINE w == IF ok THEN "ok" ELSE "fail"
  <1> USE DEF Judge, Advance, NextTest, Step
  <1>1. /\ verdicts \in Seq({"ok", "fail"}) /\ w \in {"ok", "fail"}
        /\ verdicts' = Append(verdicts, w) /\ UNCHANGED <<proj, column, kinds, tests, statuses, dqExit>>
        /\ dq' = [step |-> "run", at |-> dq.at + 1] /\ dq.step = "run" /\ dq.at \in DOMAIN tests /\ dq.at = Len(verdicts) + 1
        /\ IsList(tests) /\ dq.at \in Nat \ {0}
    BY DEF DataInv, DataTypes, Judging
  <1>2. /\ verdicts' \in Seq({"ok", "fail"}) /\ Len(verdicts') = Len(verdicts) + 1 /\ verdicts'[Len(verdicts) + 1] = w
        /\ \A i \in 1..Len(verdicts) : verdicts'[i] = verdicts[i]
    <2> HIDE DEF w
    <2> QED BY <1>1
  <1>3. Len(verdicts) + 1 <= Len(tests) /\ Len(verdicts) \in Nat
    BY <1>1 DEF IsList
  <1>4. DataTypes'
    BY <1>1, <1>2 DEF DataInv, DataTypes, DataSteps, D
  <1>5. VerdictsTrue'
    <2>1. SUFFICES ASSUME NEW i \in 1..(Len(verdicts) + 1), NEW t, NEW v, t = tests[i], v = verdicts'[i]
                   PROVE  Judged(t, v)'
      BY <1>1, <1>2, <1>3 DEF VerdictsTrue
    <2>2. Judged(t, v)
      <3>1. CASE i = Len(verdicts) + 1
        BY <1>1, <1>2, <2>1, <3>1 DEF Test
      <3>2. CASE i \in 1..Len(verdicts)
        BY <1>2, <2>1, <3>2 DEF DataInv, VerdictsTrue
      <3> QED BY <1>3, <3>1, <3>2
    <2> QED BY <1>1, <2>2, JudgedStays
  <1>6. Judging'
    <2>1. Gathering' = Gathering /\ tests = Gathering /\ dqExit = 0
      BY <1>1, GatheringStays DEF DataInv, Judging
    <2> QED BY <1>1, <1>2, <2>1 DEF Judging
  <1>7. Aging'
    BY <1>1 DEF Aging
  <1> QED BY <1>4, <1>5, <1>6, <1>7 DEF DataInv

LEMMA RunSteps ==
  ASSUME DataInv, UnknownKind \/ RunCustom \/ RunBuiltin PROVE DataInv'
  <1>1. CASE UnknownKind
    <2>1. NextTest /\ Judge(FALSE)
      BY <1>1 DEF UnknownKind, Ready
    <2>2. \A t, v : t = Test /\ v = (IF FALSE THEN "ok" ELSE "fail") => Judged(t, v)
      BY <1>1 DEF UnknownKind, Judged
    <2> QED BY <2>1, <2>2, JudgeStep
  <1>2. CASE RunCustom
    <2>1. NextTest /\ Test.kind \in DOMAIN kinds /\ kinds[Test.kind].file > 0 /\ kinds[Test.kind].file \in Nat
      BY <1>2 DEF RunCustom, Ready, IsCustom, DataInv, DataTypes
    <2>2. ASSUME NEW ok \in BOOLEAN, Judge(ok) PROVE DataInv'
      <3>1. \A t, v : t = Test /\ v = (IF ok THEN "ok" ELSE "fail") => Judged(t, v)
        BY <2>1 DEF Judged
      <3> QED BY <2>1, <2>2, <3>1, JudgeStep
    <2> DEFINE clean == ~Some(Where(Test), Below)
    <2>3. clean \in BOOLEAN
      OBVIOUS
    <2>4. Abort(1) \/ Judge(clean)
      BY <1>2 DEF RunCustom
    <2> HIDE DEF clean
    <2>5. dq.step # "idle"
      BY <2>1 DEF NextTest, Step
    <2> QED BY <2>2, <2>3, <2>4, <2>5, AbortStep
  <1>3. CASE RunBuiltin
    <2>1. NextTest /\ Test.kind \in DOMAIN kinds /\ kinds[Test.kind].file = 0
      BY <1>3 DEF RunBuiltin, Ready, IsCustom, DataInv, DataTypes
    <2>2. ASSUME NEW ok \in BOOLEAN, Judge(ok),
                 \/ Misconfigured(Test) /\ ~ok
                 \/ ~Misconfigured(Test) /\ Vacuous(Test) /\ ok
                 \/ Asked(Test) /\ ~Test.bad /\ (ok <=> ~Offends(Test))
                 \/ Asked(Test) /\ Test.bad /\ ~ok
          PROVE  DataInv'
      <3>1. \A t, v : t = Test /\ v = (IF ok THEN "ok" ELSE "fail") => Judged(t, v)
        BY <2>1, <2>2, Zenon DEF Judged, Asked
      <3> QED BY <2>1, <2>2, <3>1, JudgeStep
    <2> DEFINE clean == ~Offends(Test)
    <2>3. clean \in BOOLEAN
      OBVIOUS
    <2>4. \/ Misconfigured(Test) /\ Judge(FALSE)
          \/ ~Misconfigured(Test) /\ Vacuous(Test) /\ Judge(TRUE)
          \/ Asked(Test) /\ ~Test.bad /\ Judge(clean)
          \/ Asked(Test) /\ Test.bad /\ Judge(FALSE)
          \/ Abort(1)
      BY <1>3 DEF RunBuiltin
    <2>5. dq.step # "idle"
      BY <2>1 DEF NextTest, Step
    <2> QED BY <2>2, <2>3, <2>4, <2>5, AbortStep, Zenon
  <1> QED BY <1>1, <1>2, <1>3

LEMMA CollectSteps ==
  ASSUME DataInv, Register \/ RegisterTwice \/ Collect \/ NotPrepared \/ Finish PROVE DataInv'
  <1>1. CASE Register
    <2> USE <1>1 DEF Register, Advance, Step
    <2>1. dq.at \in Nat \ {0} /\ dq' = [step |-> "discover", at |-> dq.at + 1] /\ verdicts = <<>> /\ tests = <<>>
      BY DEF DataInv, DataTypes, Judging
    <2>2. DataTypes'
      <3>1. kinds'= [k \in DOMAIN kinds \union {File.kind} |->
              IF k = File.kind THEN [file |-> dq.at, params |-> IF File.py THEN {} ELSE File.params] ELSE kinds[k]]
        OBVIOUS
      <3>2. Builtin \subseteq DOMAIN kinds' /\ \A k \in DOMAIN kinds' : kinds'[k].file \in Nat
        BY <2>1, <3>1 DEF DataInv, DataTypes
      <3>3. tests' = tests /\ verdicts' = verdicts /\ statuses' = statuses /\ column' = column /\ proj' = proj
        OBVIOUS
      <3> QED BY <2>1, <3>2, <3>3 DEF DataInv, DataTypes, DataSteps, IsList
    <2>3. VerdictsTrue'
      BY <2>1 DEF VerdictsTrue
    <2>4. Judging'
      BY <2>1 DEF DataInv, Judging
    <2>5. Aging'
      BY <2>1 DEF Aging
    <2> QED BY <2>2, <2>3, <2>4, <2>5 DEF DataInv
  <1>2. CASE RegisterTwice
    BY <1>2, AbortStep DEF RegisterTwice, Step
  <1>3. CASE NotPrepared
    BY <1>3, AbortStep DEF NotPrepared, NextTest, Step
  <1>4. CASE Collect
    <2> USE <1>4 DEF Collect, Goto, Step
    <2>1. verdicts = <<>> /\ dqExit = 0 /\ UNCHANGED <<proj, column, kinds, verdicts, statuses, dqExit>>
          /\ dq' = [step |-> IF tests' = <<>> THEN "ended" ELSE "run", at |-> 1] /\ dq.step = "discover"
      BY DEF DataInv, Judging
    <2>2. tests' = Gathering /\ IsList(tests')
      BY Gathered DEF DataInv, Gathering
    <2>3. DataTypes'
      BY <2>1, <2>2 DEF DataInv, DataTypes, DataSteps
    <2>4. VerdictsTrue'
      <3>1. Len(tests') \in Nat
        BY <2>2 DEF IsList
      <3> QED BY <2>1, <3>1 DEF VerdictsTrue
    <2>5. Judging'
      BY <2>1, <2>2, GatheringStays DEF Judging
    <2>6. Aging'
      BY <2>1 DEF Aging
    <2> QED BY <2>3, <2>4, <2>5, <2>6 DEF DataInv
  <1>5. CASE Finish
    <2> USE <1>5 DEF Finish, Goto, Step
    <2>1. dq.at = Len(verdicts) + 1 /\ Len(verdicts) <= Len(tests) /\ IsList(tests) /\ Len(verdicts) \in Nat
      BY DEF DataInv, Judging, VerdictsTrue, DataTypes
    <2>2. Len(verdicts) = Len(tests)
      <3>1. DOMAIN tests = 1..Len(tests) /\ Len(tests) \in Nat
        BY <2>1 DEF IsList
      <3> QED BY <2>1, <3>1
    <2>3. DataTypes'
      BY DEF DataInv, DataTypes, DataSteps
    <2>4. VerdictsTrue'
      BY JudgedStays DEF DataInv, VerdictsTrue
    <2>5. Judging'
      <3>1. Gathering' = Gathering /\ tests = Gathering
        BY GatheringStays DEF DataInv, Judging
      <3> QED BY <2>2, <3>1 DEF Judging
    <2>6. Aging'
      BY DEF Aging
    <2> QED BY <2>3, <2>4, <2>5, <2>6 DEF DataInv
  <1> QED BY <1>1, <1>2, <1>3, <1>4, <1>5

LEMMA SourceSteps ==
  ASSUME DataInv, CheckSource \/ ReportSources PROVE DataInv'
  <1>0. D' = D /\ verdicts = <<>> /\ tests = <<>> /\ dqExit = 0 /\ dq.step = "sources" /\ dq.at \in Nat \ {0}
        /\ UNCHANGED <<proj, column, kinds, tests, verdicts>> /\ IsList(D.sources)
    <2>1. D' = D /\ dq.step = "sources" /\ UNCHANGED <<proj, column, kinds, tests, verdicts>>
      BY DEF CheckSource, ReportSources, MoreSources, Step, D
    <2>2. proj \in DOMAIN TestScenarios
      BY <2>1 DEF DataInv, DataTypes
    <2>3. IsList(D.sources)
      BY <2>2, TestScenariosAssumption DEF D
    <2> QED BY <2>1, <2>3 DEF DataInv, Judging, DataTypes
  <1>1. CASE CheckSource
    <2> DEFINE checked == Checked(Source)
    <2>1. /\ dq' = [step |-> "sources", at |-> dq.at + 1] /\ dq.at \in DOMAIN D.sources /\ dqExit' = dqExit
          /\ statuses' = IF checked THEN Append(statuses, StatusOf(Source)) ELSE statuses
      BY <1>0, <1>1 DEF CheckSource, MoreSources, Step, Advance, DataInv, DataTypes
    <2>2. StatusOf(Source) \in {"pass", "warn", "error"}
      BY DEF StatusOf
    <2>3. statuses \in Seq({"pass", "warn", "error"}) /\ statuses' \in Seq({"pass", "warn", "error"})
      <3> HIDE DEF checked
      <3> QED BY <2>1, <2>2 DEF DataInv, DataTypes
    <2>4. DataTypes'
      BY <1>0, <2>1, <2>3 DEF DataInv, DataTypes, DataSteps
    <2>5. Aging'
      <3> DEFINE Had == \E i \in DOMAIN statuses : statuses[i] = "error"
                 Now == \E i \in DOMAIN statuses' : statuses'[i] = "error"
      <3>1. Had <=> \E i \in DOMAIN D.sources : i < dq.at /\ Errs(D.sources[i])
        BY <1>0 DEF DataInv, Aging
      <3>2. Now <=> Had \/ Errs(Source)
        <4> HIDE DEF checked
        <4>1. CASE ~checked
          BY <2>1, <4>1 DEF Errs, checked
        <4>2. CASE checked
          <5>1. statuses' = Append(statuses, StatusOf(Source)) /\ (Errs(Source) <=> StatusOf(Source) = "error")
            BY <2>1, <4>2 DEF Errs, checked
          <5>2. /\ DOMAIN statuses' = 1..(Len(statuses) + 1) /\ statuses'[Len(statuses) + 1] = StatusOf(Source)
                /\ DOMAIN statuses = 1..Len(statuses) /\ \A i \in 1..Len(statuses) : statuses'[i] = statuses[i]
                /\ Len(statuses) \in Nat
            BY <2>2, <2>3, <5>1
          <5>3. \A i : i \in 1..(Len(statuses) + 1) <=> i \in 1..Len(statuses) \/ i = Len(statuses) + 1
            BY <5>2
          <5> QED BY <5>1, <5>2, <5>3
        <4> QED BY <4>1, <4>2
      <3>3. \A i \in DOMAIN D.sources : i < dq.at + 1 <=> i < dq.at \/ i = dq.at
        BY <1>0 DEF IsList
      <3>4. Now <=> \E i \in DOMAIN D.sources : i < dq.at + 1 /\ Errs(D.sources[i])
        <4> HIDE DEF Had, Now
        <4> QED BY <2>1, <3>1, <3>2, <3>3, Zenon DEF Source
      <3> HIDE DEF Had
      <3> QED BY <1>0, <2>1, <3>4 DEF Aging
    <2>6. VerdictsTrue'
      BY <1>0 DEF VerdictsTrue
    <2>7. Judging'
      BY <1>0, <2>1 DEF Judging
    <2> QED BY <2>4, <2>5, <2>6, <2>7 DEF DataInv
  <1>2. CASE ReportSources
    <2>1. /\ dq' = [step |-> "reported", at |-> 1] /\ dq.at \notin DOMAIN D.sources /\ statuses' = statuses
          /\ dqExit' = IF \E i \in DOMAIN statuses : statuses[i] = "error" THEN 1 ELSE 0
      BY <1>0, <1>2 DEF ReportSources, MoreSources, Step, Goto
    <2>2. DataTypes'
      BY <1>0, <2>1 DEF DataInv, DataTypes, DataSteps
    <2>3. \A i \in DOMAIN D.sources : i < dq.at
      <3>1. DOMAIN D.sources = 1..Len(D.sources) /\ Len(D.sources) \in Nat
        BY <1>0 DEF IsList
      <3> QED BY <1>0, <2>1, <3>1
    <2>4. Aging'
      BY <1>0, <2>1, <2>3 DEF DataInv, Aging
    <2>5. VerdictsTrue'
      BY <1>0 DEF VerdictsTrue
    <2>6. Judging'
      BY <1>0, <2>1 DEF Judging
    <2> QED BY <2>2, <2>4, <2>5, <2>6 DEF DataInv
  <1> QED BY <1>1, <1>2

\* The inductive invariant of fft test and fft source freshness: what each verdict says
\* of its test, how far a command has come, and its exit code.
THEOREM DataInvariance == QualitySpec => []DataInv
  <1>1. DataInv /\ [Next]_qvars => DataInv'
    <2> SUFFICES ASSUME DataInv, [Next]_qvars PROVE DataInv'
      OBVIOUS
    <2>1. CASE DataStep
      BY <2>1, CollectSteps, RunSteps, SourceSteps DEF DataStep, DataNext
    <2>2. CASE UNCHANGED dvars
      <3> USE <2>2 DEF dvars
      <3>1. D' = D
        BY DEF D
      <3>2. DataTypes'
        BY DEF DataInv, DataTypes
      <3>3. VerdictsTrue'
        BY JudgedStays DEF DataInv, VerdictsTrue
      <3>4. Judging'
        BY <3>1, GatheringStays DEF DataInv, Judging
      <3>5. Aging'
        BY <3>1 DEF DataInv, Aging
      <3> QED BY <3>2, <3>3, <3>4, <3>5 DEF DataInv
    <2> QED BY <2>1, <2>2 DEF Next, UtestStep, qvars
  <1> QED BY <1>1, DataInitial, PTL DEF QualitySpec

\* The message never has the unit the limits are read from, so whatever is too old is an error.
LEMMA StatusIsError ==
  ASSUME NEW src PROVE StatusOf(src) = "error" <=> TooOld(src.age, Threshold(src))
  <1>1. Parsed(src.age) = Null
    BY DEF Parsed, UnitOf
  <1>2. ~PastLimit(src.age, src.warn)
    BY <1>1 DEF PastLimit
  <1> QED BY <1>2 DEF StatusOf

LEMMA StaleCaught == DataInv => StaleIsCaught
  <1> SUFFICES ASSUME DataInv, dq.step = "reported"
               PROVE  dqExit = 1 <=> \E i \in DOMAIN D.sources : Errs(D.sources[i])
    BY StatusIsError DEF StaleIsCaught, Errs, Threshold, WindowMinutes, Window
  <1> QED BY DEF DataInv, Aging

LEMMA AllPassed == DataInv => ZeroMeansAllPassed
  <1> SUFFICES ASSUME DataInv, dq.step = "ended", dqExit = 0
               PROVE  /\ Len(verdicts) = Len(tests)
                      /\ \A i \in DOMAIN tests : tests[i].severity # "warn" =>
                           tests[i].kind \in DOMAIN kinds /\ verdicts[i] = "ok"
    BY DEF ZeroMeansAllPassed
  <1>1. Len(verdicts) = Len(tests) /\ ~\E i \in DOMAIN tests : verdicts[i] = "fail" /\ tests[i].severity # "warn"
    BY DEF DataInv, Judging
  <1>2. /\ DOMAIN tests = 1..Len(verdicts) /\ verdicts \in Seq({"ok", "fail"})
        /\ \A i \in DOMAIN tests : verdicts[i] \in {"ok", "fail"}
    BY <1>1 DEF DataInv, DataTypes, IsList
  <1>3. \A i \in DOMAIN tests : Judged(tests[i], verdicts[i])
    BY <1>2 DEF DataInv, VerdictsTrue
  <1> QED BY <1>1, <1>2, <1>3 DEF Judged

\* The exit codes of the three commands: a failed or missing case, a failed, refused or
\* unknown check that is an error, and a source that is too old, all end theirs with an error.
THEOREM ExitCodes == QualitySpec => []ExitCodesTellTheTruth
  <1>1. DataInv => ZeroMeansAllPassed /\ StaleIsCaught
    BY AllPassed, StaleCaught
  <1> QED BY <1>1, DataInvariance, UtestExit, PTL DEF ExitCodesTellTheTruth

\* The checks whose meaning is said of the rows.
Plainly == {"not_null", "unique", "relationships", "reconcile_coverage", "between", "accepted_values", "regex_match"}

\* Each query finds what its check promises to find.
LEMMA OffendsMeans ==
  ASSUME column \in Seq(Int), NEW t, t.kind \in Plainly, Asked(t), t.kind = "accepted_values" => t.where = {}
  PROVE  Means(t) <=> ~Offends(t)
  <1>0. \A i \in Everywhere : column[i] \in Int
    BY DEF Everywhere
  <1>1. Where(t) \subseteq Everywhere
    BY DEF Where
  <1>2. CASE t.kind = "not_null"
    <2>1. Offends(t) = \E i \in Where(t) : column[i] = Null
      BY <1>2 DEF Offends, Some
    <2>2. Means(t) = \A i \in Where(t) : column[i] # Null
      BY <1>2 DEF Means
    <2> QED BY <2>1, <2>2
  <1>3. CASE t.kind = "unique"
    <2>1. Offends(t) = (Repeated(Where(t)) # {})
      BY <1>3 DEF Offends
    <2>2. Means(t) = \A i, j \in Where(t) : column[i] = column[j] => i = j
      BY <1>3 DEF Means
    <2> QED BY <2>1, <2>2, Zenon DEF Repeated
  <1>4. CASE t.kind \in {"relationships", "reconcile_coverage"}
    <2>1. Offends(t) = (Orphans(Where(t)) # {})
      BY <1>4 DEF Offends
    <2>2. Means(t) = \A i \in Where(t) : column[i] # Null /\ column[i] \in D.parents
      BY <1>4 DEF Means
    <2> QED BY <2>1, <2>2 DEF Orphans
  <1>5. CASE t.kind = "between"
    <2>1. Offends(t) = \E i \in Everywhere : OutOfBounds(t, column[i])
      BY <1>5 DEF Offends, Some
    <2>2. Means(t) = \A i \in Everywhere : column[i] # Null =>
                       ("min" \in t.params => column[i] >= Low) /\ ("max" \in t.params => column[i] <= High)
      BY <1>5 DEF Means
    <2>3. \A i \in Everywhere : OutOfBounds(t, column[i]) <=>
            ~(column[i] # Null => ("min" \in t.params => column[i] >= Low) /\ ("max" \in t.params => column[i] <= High))
      BY <1>0 DEF OutOfBounds, Below, Above, Low, High
    <2> QED BY <2>1, <2>2, <2>3
  <1>6. CASE t.kind = "accepted_values"
    <2>1. Offends(t) = \E i \in Everywhere : column[i] # Null /\ column[i] \notin Accepted
      BY <1>6 DEF Offends, Some
    <2>2. "values" \in t.params /\ t.where = {}
      BY <1>6 DEF Asked, Vacuous
    <2>3. Means(t) = \A i \in Everywhere : column[i] \in Accepted \union {Null}
      BY <1>6, <2>2 DEF Means
    <2> QED BY <2>1, <2>3
  <1>7. CASE t.kind = "regex_match"
    <2>1. Offends(t) = \E i \in Where(t) : Below(column[i])
      BY <1>7 DEF Offends, Some
    <2>2. Means(t) = \A i \in Where(t) : column[i] = Null \/ column[i] >= 0
      BY <1>7 DEF Means
    <2> QED BY <1>0, <1>1, <2>1, <2>2 DEF Below, Low
  <1> QED BY <1>2, <1>3, <1>4, <1>5, <1>6, <1>7 DEF Plainly

\* A built-in check that has all it asks for passes exactly if the rows are as it says.
THEOREM ChecksMean == QualitySpec => []ChecksMeanWhatTheySay
  <1>1. DataInv => ChecksMeanWhatTheySay
    <2> SUFFICES ASSUME DataInv, NEW i \in DOMAIN verdicts, NEW t, t = tests[i],
                        t.kind \in Plainly, kinds[t.kind].file = 0, ~t.bad, ~Misconfigured(t),
                        t.kind = "accepted_values" => t.where = {}
                 PROVE  verdicts[i] = "ok" <=> Means(t)
      BY DEF ChecksMeanWhatTheySay, Plainly
    <2>1. Judged(t, verdicts[i])
      <3>1. DOMAIN verdicts = 1..Len(verdicts)
        BY DEF DataInv, DataTypes
      <3> QED BY <3>1 DEF DataInv, VerdictsTrue
    <2>2. t.kind \in DOMAIN kinds /\ column \in Seq(Int)
      BY DEF Plainly, Builtin, ColumnChecks, Reconciles, DataInv, DataTypes
    <2>3. CASE Vacuous(t)
      <3>1. verdicts[i] = "ok"
        BY <2>1, <2>2, <2>3 DEF Judged
      <3>2. t.kind = "accepted_values" /\ "values" \notin t.params
        BY <2>3 DEF Vacuous, Plainly
      <3>3. Means(t) = ("values" \in t.params => \A j \in Everywhere : column[j] \in Accepted \union {Null})
        BY <3>2 DEF Means
      <3> QED BY <3>1, <3>2, <3>3
    <2>4. CASE ~Vacuous(t)
      <3>1. Asked(t)
        BY <2>4 DEF Asked
      <3>2. Means(t) <=> ~Offends(t)
        BY <2>2, <3>1, OffendsMeans
      <3> QED BY <2>1, <2>2, <3>1, <3>2, Zenon DEF Judged
    <2> QED BY <2>3, <2>4
  <1> QED BY <1>1, DataInvariance, PTL

\* What the last contract says of itself asserts a test, and that test is among those of fft test.
Own == D.contracts[Len(D.contracts)]
Asserts(x) == IsSet(Own[x]) /\ (x = "nullable" => Own[x] = "false") /\ (x = "unique" => Own[x] = "true")

LEMMA OwnTest ==
  ASSUME DataInv, dq.step = "ended", ~LegacyToken, D.contracts # <<>>,
         NEW x \in {"nullable", "unique", "min", "enum"}, Asserts(x)
  PROVE  /\ EffectiveContract[x] = Own[x]
         /\ \E i \in DOMAIN tests : tests[i] =
              [kind |-> TestKind[x], table |-> "t", column |-> TRUE, where |-> {},
               params |-> ContractParams(EffectiveContract), severity |-> "error", tags |-> {"contract"}, bad |-> FALSE]
  <1> DEFINE block == EffectiveContract
             places == {i \in DOMAIN ContractKinds : ContractKinds[i] \in ContractTests(block)}
             mine == Sublist(ContractKinds, places)
  <1>1. block[x] = Own[x]
    BY DEF EffectiveContract, Column, ColumnFields, Either, Own, Asserts
  <1>2. TestKind[x] \in ContractTests(block)
    <2>1. x \in {y \in ColumnFields : IsSet(block[y]) /\ (y = "nullable" => block[y] = "false")
                                                     /\ (y = "unique" => block[y] = "true")}
      <3> HIDE DEF block
      <3> QED BY <1>1 DEF Asserts, ColumnFields
    <2> HIDE DEF block
    <2> QED BY <2>1 DEF ContractTests
  <1>3. PICK n \in 1..6 : ContractKinds[n] = TestKind[x] /\ n \in DOMAIN ContractKinds
    <2>1. CASE x = "nullable"
      BY <2>1 DEF TestKind, ContractKinds
    <2>2. CASE x = "unique"
      BY <2>2 DEF TestKind, ContractKinds
    <2>3. CASE x = "enum"
      BY <2>3 DEF TestKind, ContractKinds
    <2>4. CASE x = "min"
      BY <2>4 DEF TestKind, ContractKinds
    <2> QED BY <2>1, <2>2, <2>3, <2>4
  <1>4. n \in places /\ places \in SUBSET (1..6)
    BY <1>2, <1>3 DEF ContractKinds
  <1>5. FromContract = [i \in DOMAIN mine |->
             [kind |-> mine[i], table |-> "t", column |-> TRUE, where |-> {}, params |-> ContractParams(block),
              severity |-> "error", tags |-> {"contract"}, bad |-> FALSE]]
    BY DEF FromContract
  <1> HIDE DEF places
  <1>6. PICK k \in DOMAIN mine : mine[k] = TestKind[x]
    <2>1. /\ DOMAIN mine = 1..Cardinality(places)
          /\ \A i \in places : \E k \in 1..Cardinality(places) : mine[k] = ContractKinds[i]
      <3>1. 6 \in Nat /\ places \in SUBSET (1..6)
        BY <1>4
      <3> QED BY <3>1, SublistHas, Zenon
    <2> HIDE DEF mine
    <2> QED BY <1>3, <1>4, <2>1
  <1> HIDE DEF mine, block
  <1>7. k \in DOMAIN FromContract /\ FromContract[k] =
          [kind |-> TestKind[x], table |-> "t", column |-> TRUE, where |-> {}, params |-> ContractParams(block),
           severity |-> "error", tags |-> {"contract"}, bad |-> FALSE]
    BY <1>5, <1>6
  <1>8. \E i \in DOMAIN tests : tests[i] = FromContract[k]
    <2> DEFINE all == D.project \o FromSchema \o FromContract
    <2>1. tests = all
      BY DEF DataInv, Judging, Gathering, Filtered
    <2>2. \E i \in DOMAIN all : all[i] = FromContract[k]
      BY <1>7, Gathered DEF DataInv
    <2> HIDE DEF all
    <2> QED BY <2>1, <2>2
  <1> QED BY <1>1, <1>7, <1>8 DEF block

\* A contract's own constraint holds of every row once the command ends with 0.
LEMMA OwnHolds ==
  ASSUME DataInv, dq.step = "ended", dqExit = 0, ~LegacyToken, D.contracts # <<>>,
         \A k \in Builtin : kinds[k].file = 0,
         NEW x \in {"nullable", "unique", "min", "enum"}, Asserts(x)
  PROVE  \E t : /\ t.kind = TestKind[x] /\ t.where = {} /\ Means(t) /\ "values" \in t.params
                /\ x = "min" => "min" \in t.params
  <1>1. PICK i \in DOMAIN tests : tests[i] =
              [kind |-> TestKind[x], table |-> "t", column |-> TRUE, where |-> {},
               params |-> ContractParams(EffectiveContract), severity |-> "error", tags |-> {"contract"}, bad |-> FALSE]
    BY OwnTest
  <1> DEFINE t == tests[i]
  <1>2. /\ t.kind = TestKind[x] /\ t.where = {} /\ t.params = ContractParams(EffectiveContract)
        /\ t.severity = "error" /\ t.bad = FALSE
    BY <1>1
  <1>3. "values" \in t.params /\ (x = "min" => "min" \in t.params)
    <2>1. x = "min" => IsSet(EffectiveContract["min"])
      BY OwnTest DEF Asserts
    <2> HIDE DEF t
    <2> QED BY <1>2, <2>1, Zenon DEF ContractParams
  <1>4. t.kind \in {"not_null", "unique", "between", "accepted_values"}
    <2> HIDE DEF t
    <2> QED BY <1>2 DEF TestKind
  <1>5. Len(verdicts) = Len(tests) /\ verdicts[i] = "ok"
    BY <1>2, AllPassed DEF ZeroMeansAllPassed
  <1>6. Judged(t, verdicts[i])
    <2>1. i \in 1..Len(verdicts)
      BY <1>5 DEF DataInv, DataTypes, IsList
    <2> QED BY <2>1 DEF DataInv, VerdictsTrue
  <1> HIDE DEF t
  <1>7. t.kind \in Builtin /\ t.kind \in DOMAIN kinds
    BY <1>4 DEF Builtin, ColumnChecks, DataInv, DataTypes
  <1>8. Asked(t)
    <2>1. ~Misconfigured(t)
      BY <1>5, <1>6, <1>7 DEF Judged
    <2>2. ~Vacuous(t)
      BY <1>3, <1>4 DEF Vacuous
    <2> QED BY <2>1, <2>2 DEF Asked
  <1>9. ~Offends(t)
    BY <1>2, <1>5, <1>6, <1>7, <1>8, Zenon DEF Judged
  <1>10. Means(t)
    BY <1>2, <1>4, <1>8, <1>9, OffendsMeans DEF Plainly, DataInv, DataTypes
  <1> QED BY <1>2, <1>3, <1>10

\* fft test does not end with 0 on a row that the column's last contract forbids of itself,
\* whatever the defaults of contracts.yml and whatever other tests there are.
THEOREM OwnContract == QualitySpec => []OwnContractIsKept
  <1>1. DataInv => OwnContractIsKept
    <2> SUFFICES ASSUME DataInv, dq.step = "ended", dqExit = 0, ~LegacyToken, D.contracts # <<>>,
                        \A k \in Builtin : kinds[k].file = 0
                 PROVE  /\ Own["nullable"] = "false" => \A i \in Everywhere : column[i] # Null
                        /\ Own["unique"] = "true" => \A i, j \in Everywhere : column[i] = column[j] => i = j
                        /\ IsSet(Own["min"]) => \A i \in Everywhere : ~Below(column[i])
                        /\ IsSet(Own["enum"]) => \A i \in Everywhere : column[i] \in Accepted \union {Null}
      BY DEF OwnContractIsKept, Own
    <2>0. \A t : t.where = {} => Where(t) = Everywhere
      BY DEF Where
    <2>1. ASSUME Own["nullable"] = "false" PROVE \A i \in Everywhere : column[i] # Null
      <3>1. Asserts("nullable")
        BY <2>1 DEF Asserts, IsSet, Unset
      <3>2. PICK t : t.kind = "not_null" /\ t.where = {} /\ Means(t)
        BY <3>1, OwnHolds DEF TestKind
      <3> QED BY <2>0, <3>2 DEF Means
    <2>2. ASSUME Own["unique"] = "true" PROVE \A i, j \in Everywhere : column[i] = column[j] => i = j
      <3>1. Asserts("unique")
        BY <2>2 DEF Asserts, IsSet, Unset
      <3>2. PICK t : t.kind = "unique" /\ t.where = {} /\ Means(t)
        BY <3>1, OwnHolds DEF TestKind
      <3> QED BY <2>0, <3>2 DEF Means
    <2>3. ASSUME IsSet(Own["min"]) PROVE \A i \in Everywhere : ~Below(column[i])
      <3>1. Asserts("min")
        BY <2>3 DEF Asserts
      <3>2. PICK t : t.kind = "between" /\ Means(t) /\ "min" \in t.params
        BY <3>1, OwnHolds DEF TestKind
      <3>3. \A i \in Everywhere : column[i] # Null => column[i] >= Low
        BY <3>2 DEF Means
      <3>4. \A i \in Everywhere : column[i] \in Int
        BY DEF Everywhere, DataInv, DataTypes
      <3> QED BY <3>3, <3>4 DEF Below, Low
    <2>4. ASSUME IsSet(Own["enum"]) PROVE \A i \in Everywhere : column[i] \in Accepted \union {Null}
      <3>1. Asserts("enum")
        BY <2>4 DEF Asserts
      <3>2. PICK t : t.kind = "accepted_values" /\ t.where = {} /\ Means(t) /\ "values" \in t.params
        BY <3>1, OwnHolds DEF TestKind
      <3> QED BY <3>2 DEF Means
    <2> QED BY <2>1, <2>2, <2>3, <2>4
  <1> QED BY <1>1, DataInvariance, PTL

=============================================================================
