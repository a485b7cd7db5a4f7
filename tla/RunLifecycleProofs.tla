------------------------- MODULE RunLifecycleProofs -------------------------
(***************************************************************************)
(* Theorems about RunLifecycle, for every set of models, threads and       *)
(* options and any number of invocations.                                  *)
(***************************************************************************)
EXTENDS RunLifecycle, TLAPS

LEMMA OrderLemma == \A i \in 1..6 : Order[i] \in Artifacts
BY DEF Order, Artifacts, Kinds

LEMMA OrderIsInjective == \A i, j \in 1..6 : i # j => Order[i] # Order[j]
BY DEF Order

LEMMA OrderIsComplete == \A a \in Artifacts : \E i \in 1..6 : Order[i] = a
<1> SUFFICES ASSUME NEW a \in Artifacts PROVE \E i \in 1..6 : Order[i] = a
    OBVIOUS
<1>1. a = <<a[1], a[2]>> /\ a[1] \in {"file", "db"} /\ a[2] \in Kinds
    BY DEF Artifacts
<1>2. \/ a = Order[1] \/ a = Order[2] \/ a = Order[3]
      \/ a = Order[4] \/ a = Order[5] \/ a = Order[6]
    BY <1>1 DEF Order, Kinds
<1> QED BY <1>2

\* The thread steps keep the types of what threads touch.
LEMMA ThreadTypes ==
    ASSUME TypeOK, NEW w \in Workers, RunNode(w)
    PROVE  TypeOK'
<1> USE DEF TypeOK, InThread, main, stored, Idle
<1>1. Runner(w) \in Executors
    BY DEF Runner, Executors
<1>2. \A part \in {"before", "model", "after"} :
        (on[w] # Idle /\ Record(w, part)) =>
            buf' \in [Executors -> SUBSET Queries] /\ stats' \in [Nodes -> SUBSET Queries]
    BY <1>1 DEF Record, Queries
<1>3. (on[w] # Idle /\ Capture(w)) =>
            buf' \in [Executors -> SUBSET Queries] /\ stats' \in [Nodes -> SUBSET Queries]
    BY <1>1 DEF Capture
<1>4. ASSUME NEW n \in Nodes, Take(w, n) PROVE TypeOK'
    BY <1>1, <1>4 DEF Take
<1>5. CASE Skip(w)
    BY <1>5 DEF Skip, At, Busy, Free
<1>6. CASE BeforeHooks(w)
    BY <1>2, <1>6 DEF BeforeHooks, At, Busy, Advance
<1>7. CASE Model(w)
    BY <1>2, <1>7 DEF Model, At, Busy, Advance
<1>8. CASE Collect(w)
    BY <1>3, <1>8 DEF Collect, At, Busy, Advance
<1>9. CASE AfterHooks(w)
    BY <1>2, <1>9 DEF AfterHooks, At, Busy, Advance
<1>10. CASE Finalize(w)
    BY <1>3, <1>10 DEF Finalize, At, Busy, Free
<1>11. CASE Fail(w)
    BY <1>2, <1>11 DEF Fail, Busy, Free
<1> QED BY <1>4, <1>5, <1>6, <1>7, <1>8, <1>9, <1>10, <1>11 DEF RunNode

LEMMA StoreTypes ==
    ASSUME TypeOK, next \in 1..6, Store(TRUE) \/ Store(FALSE)
    PROVE  disk' \in [Artifacts -> [run : 0..MaxRuns, whole : BOOLEAN]]
<1>1. [run |-> run, whole |-> TRUE] \in [run : 0..MaxRuns, whole : BOOLEAN]
    BY DEF TypeOK
<1>2. [run |-> run, whole |-> FALSE] \in [run : 0..MaxRuns, whole : BOOLEAN]
    BY DEF TypeOK
<1> QED BY <1>1, <1>2, OrderLemma DEF TypeOK, Store

LEMMA TypeStep == TypeOK /\ [Next]_vars => TypeOK'
<1> SUFFICES ASSUME TypeOK, [Next]_vars PROVE TypeOK'
    OBVIOUS
<1> USE OptionsAssumption DEF TypeOK, main, threads, stored, Leave, Goto, Places
<1>1. ASSUME NEW o \in Options, Invoke(o) PROVE TypeOK'
  <2>1. run' \in 0..MaxRuns /\ run' > 0
    BY <1>1 DEF Invoke
  <2>2. buf' \in [Executors -> SUBSET Queries] /\ stats' \in [Nodes -> SUBSET Queries]
    BY <1>1 DEF Invoke
  <2>3. /\ status' \in [Nodes -> {Idle, "running", "ok", "skipped", "failed"}]
        /\ on' \in [Workers -> Nodes \union {Idle}]
        /\ step' \in [Workers -> {Idle, "before", "model", "collect", "after", "final"}]
    BY <1>1 DEF Invoke
  <2>4. over' \in BOOLEAN
    BY <1>1, Zenon DEF Invoke
  <2>5. UNCHANGED <<disk, payload, saved>> /\ opts' = o /\ pc' = "start" /\ next' = 1
    BY <1>1 DEF Invoke
  <2>6. told' \in {"nothing", "success", "error"} /\ exit' \in {"none", "0", "1", "broken"}
    BY <1>1 DEF Invoke
  <2> QED BY <2>1, <2>2, <2>3, <2>4, <2>5, <2>6
<1>2. CASE Start
    BY <1>2 DEF Start
<1>3. CASE EndNodes
    BY <1>3 DEF EndNodes
<1>4. CASE Budgets
  <2>1. run \in 1..MaxRuns
    BY <1>4 DEF Budgets
  <2>2. OverLimit \in BOOLEAN
    BY DEF OverLimit
  <2>3. Succeeded \in SUBSET Nodes /\ Failed \in SUBSET Nodes
    BY DEF Succeeded, Failed
  <2>4. payload' \in [1..MaxRuns ->
                        [ok : SUBSET Nodes, failed : SUBSET Nodes, over : BOOLEAN]]
    BY <1>4, <2>1, <2>2, <2>3 DEF Budgets
  <2> QED BY <1>4, <2>2, <2>4 DEF Budgets
<1>5. CASE BudgetsUnreadable
    BY <1>5 DEF BudgetsUnreadable
<1>6. CASE LeaveOut
    BY <1>6 DEF LeaveOut
<1>7. CASE OpenFile
  <2>1. next \in 1..6
    BY <1>7 DEF OpenFile, Writing
  <2>2. Store(FALSE)
    BY <1>7, Zenon DEF OpenFile
  <2>3. disk' \in [Artifacts -> [run : 0..MaxRuns, whole : BOOLEAN]]
    BY <2>1, <2>2, StoreTypes, Zenon
  <2> QED BY <1>7, <2>1, <2>3 DEF OpenFile, Writing
<1>8. CASE FillFile
  <2>1. next \in 1..6
    BY <1>8 DEF FillFile, Writing
  <2>2. Store(TRUE)
    BY <1>8, Zenon DEF FillFile
  <2>3. disk' \in [Artifacts -> [run : 0..MaxRuns, whole : BOOLEAN]]
    BY <2>1, <2>2, StoreTypes, Zenon
  <2> QED BY <1>8, <2>1, <2>3 DEF FillFile, Writing
<1>9. CASE WriteRow
  <2>1. next \in 1..6
    BY <1>9 DEF WriteRow, Writing
  <2>2. Store(TRUE)
    BY <1>9, Zenon DEF WriteRow
  <2>3. disk' \in [Artifacts -> [run : 0..MaxRuns, whole : BOOLEAN]]
    BY <2>1, <2>2, StoreTypes, Zenon
  <2> QED BY <1>9, <2>1, <2>3 DEF WriteRow, Writing
<1>10. CASE ArtifactsWritten \/ Errors
    BY <1>10 DEF ArtifactsWritten, Errors
<1>11. CASE EndHooks \/ Verdict
    BY <1>11 DEF EndHooks, Verdict
<1>12. CASE Save \/ Report \/ Die
    BY <1>12 DEF Save, Report, Die
<1>13. ASSUME NEW w \in Workers, RunNode(w) PROVE TypeOK'
    BY <1>13, ThreadTypes
<1>14. CASE UNCHANGED vars
    BY <1>14 DEF vars
<1> QED
    BY <1>1, <1>2, <1>3, <1>4, <1>5, <1>6, <1>7, <1>8, <1>9, <1>10, <1>11, <1>12,
       <1>13, <1>14 DEF Next, MainThread

LEMMA InitTypes == Init => TypeOK
<1> SUFFICES ASSUME Init PROVE TypeOK
  OBVIOUS
<1> USE OptionsAssumption DEF Init
<1>1. /\ status \in [Nodes -> {Idle, "running", "ok", "skipped", "failed"}]
      /\ on \in [Workers -> Nodes \union {Idle}]
      /\ step \in [Workers -> {Idle, "before", "model", "collect", "after", "final"}]
  OBVIOUS
<1>2. buf \in [Executors -> SUBSET Queries] /\ stats \in [Nodes -> SUBSET Queries]
  OBVIOUS
<1>3. disk \in [Artifacts -> [run : 0..MaxRuns, whole : BOOLEAN]]
  BY DEF Unwritten
<1>4. payload \in [1..MaxRuns ->
                     [ok : SUBSET Nodes, failed : SUBSET Nodes, over : BOOLEAN]]
  BY DEF NoPayload
<1>5. over \in BOOLEAN
  BY Zenon
<1>6. opts \in Options /\ run \in 0..MaxRuns /\ saved \in 0..MaxRuns
  OBVIOUS
<1> QED BY <1>1, <1>2, <1>3, <1>4, <1>5, <1>6 DEF TypeOK, Places

\* The types of the run's state, over all steps of _RunEngine.
THEOREM WellTyped == Spec => []TypeOK
BY InitTypes, TypeStep, PTL DEF Spec

-----------------------------------------------------------------------------
(* The exit code, the record and the saved fingerprints.                   *)

After == {"errors", "end_hooks", "verdict", "save", "report"}

\* The run_results of runs to come, and of this one until budgets are evaluated.
PayloadIsFresh ==
    \A r \in 1..MaxRuns :
        (r > run \/ (r = run /\ pc \in {"start", "nodes", "budgets"})) =>
            payload[r] = NoPayload

WrittenSoFar ==
    /\ pc \in {"start", "nodes", "budgets"} => next = 1
    /\ pc = "artifacts" =>
         \A i \in 1..6 : (i < next /\ Wanted(Order[i])) => Recorded(Order[i])
    /\ pc \in After => \A a \in Artifacts : Wanted(a) => Recorded(a)

PayloadTells ==
    /\ pc \in After \union {"artifacts"} =>
         /\ payload[run].ok = Succeeded /\ payload[run].failed = Failed
         /\ payload[run].over = over /\ over = OverLimit
    /\ pc \in After \union {"artifacts", "budgets"} =>
         Failed # {} \/ Succeeded = opts.selected

FailuresLeave == pc \in {"end_hooks", "verdict", "save", "report"} => Failed = {}

ToldStatus ==
    /\ pc = "verdict" => told = IF over THEN "error" ELSE "success"
    /\ pc \in {"save", "report"} => ~over /\ told = "success"

SavedIsPast ==
    /\ saved <= run
    /\ pc \notin {"report", "exited"} => saved < run
    /\ pc = "report" => (opts.saves => saved = run)

IInv ==
    /\ TypeOK
    /\ pc # "exited" => exit = "none"
    /\ run = 0 => exit = "none"
    /\ \A a \in Artifacts : disk[a].run <= run
    /\ PayloadIsFresh /\ WrittenSoFar /\ PayloadTells
    /\ FailuresLeave /\ ToldStatus /\ SavedIsPast
    /\ SavedRunIsOnRecord /\ ExitCodeMatchesRecord

\* Storing an artifact of this run keeps every saved run on record.
LEMMA StoreKeepsRecord ==
    ASSUME TypeOK, SavedRunIsOnRecord, saved < run, next \in 1..6,
           Store(TRUE) \/ Store(FALSE), UNCHANGED <<saved, payload>>
    PROVE  SavedRunIsOnRecord'
<1>1. \A a \in Artifacts : disk'[a] = disk[a] \/ disk'[a].run = run
    BY OrderLemma DEF TypeOK, Store
<1>2. \A place \in {"file", "db"} : <<place, "results">> \in Artifacts
    BY DEF Artifacts, Kinds
<1>3. \A place \in {"file", "db"} : OnRecord(place, saved) => OnRecord(place, saved)'
    BY <1>1, <1>2 DEF OnRecord, TypeOK
<1> QED BY <1>3 DEF SavedRunIsOnRecord

\* What the main thread reads of the models after they have run.
LEMMA MainReads ==
    ASSUME UNCHANGED <<opts, status, stats>>
    PROVE  /\ Succeeded' = Succeeded /\ Failed' = Failed /\ OverLimit' = OverLimit
           /\ \A a : Wanted(a)' <=> Wanted(a)
BY DEF Succeeded, Failed, OverLimit, Total, Wanted

\* A thread touches nothing of what IInv says, but for types and statistics.
LEMMA ThreadStep ==
    ASSUME IInv, NEW w \in Workers, RunNode(w)
    PROVE  IInv'
<1>1. pc = "nodes" /\ UNCHANGED <<run, opts, pc, over, next, disk, payload, saved, told, exit>>
    BY DEF RunNode, Take, Skip, BeforeHooks, Model, Collect, AfterHooks, Finalize, Fail,
           At, Busy, InThread, main, stored
<1>2. TypeOK'
    BY ThreadTypes DEF IInv
<1>3. SavedRunIsOnRecord'
    BY <1>1 DEF IInv, SavedRunIsOnRecord, OnRecord
<1>4. ExitCodeMatchesRecord'
    BY <1>1 DEF IInv, ExitCodeMatchesRecord
<1>5. PayloadIsFresh' /\ WrittenSoFar' /\ PayloadTells'
    BY <1>1 DEF IInv, PayloadIsFresh, WrittenSoFar, PayloadTells, After
<1>6. FailuresLeave' /\ ToldStatus' /\ SavedIsPast'
    BY <1>1 DEF IInv, FailuresLeave, ToldStatus, SavedIsPast
<1> QED BY <1>1, <1>2, <1>3, <1>4, <1>5, <1>6 DEF IInv

LEMMA InvStep == IInv /\ [Next]_vars => IInv'
<1> SUFFICES ASSUME IInv, [Next]_vars PROVE IInv'
    OBVIOUS
<1> USE DEF IInv
<1>0. TypeOK'
    BY TypeStep
<1>1. ASSUME NEW o \in Options, Invoke(o) PROVE IInv'
  <2>1. /\ run' = run + 1 /\ pc' = "start" /\ exit' = "none" /\ next' = 1
        /\ UNCHANGED <<disk, payload, saved>>
    BY <1>1 DEF Invoke, stored
  <2>2. SavedRunIsOnRecord' /\ ExitCodeMatchesRecord'
    BY <2>1 DEF SavedRunIsOnRecord, OnRecord, ExitCodeMatchesRecord
  <2>3. PayloadIsFresh' /\ SavedIsPast'
    BY <2>1 DEF PayloadIsFresh, SavedIsPast, TypeOK
  <2>4. \A a \in Artifacts : disk'[a].run <= run'
    BY <2>1 DEF TypeOK
  <2>5. WrittenSoFar' /\ PayloadTells' /\ FailuresLeave' /\ ToldStatus'
    BY <2>1 DEF WrittenSoFar, PayloadTells, FailuresLeave, ToldStatus, After
  <2> QED BY <1>0, <2>1, <2>2, <2>3, <2>4, <2>5 DEF TypeOK
<1>2. CASE Start
  <2>1. UNCHANGED <<run, opts, status, stats, over, next, disk, payload, saved, told>>
    BY <1>2 DEF Start, Leave, Goto, threads, stored
  <2>2. \/ pc' = "exited" /\ exit' = "0" /\ opts.selected = {}
        \/ pc' = "nodes" /\ exit' = exit
    BY <1>2 DEF Start, Leave, Goto
  <2>3. SavedRunIsOnRecord' /\ ExitCodeMatchesRecord'
    BY <1>2, <2>1, <2>2 DEF SavedRunIsOnRecord, OnRecord, ExitCodeMatchesRecord, Start
  <2> QED BY <1>0, <1>2, <2>1, <2>2, <2>3
          DEF Start, PayloadIsFresh, WrittenSoFar, PayloadTells, FailuresLeave,
              ToldStatus, SavedIsPast, After, TypeOK
<1>3. CASE EndNodes
  <2>1. /\ pc = "nodes" /\ pc' = "budgets"
        /\ UNCHANGED <<run, opts, status, stats, over, next, disk, payload, saved, told, exit>>
    BY <1>3 DEF EndNodes, Goto, threads, stored
  <2>2. SavedRunIsOnRecord' /\ ExitCodeMatchesRecord'
    BY <2>1 DEF SavedRunIsOnRecord, OnRecord, ExitCodeMatchesRecord
  <2>3. PayloadTells'
    BY <1>3, <2>1, MainReads DEF EndNodes, PayloadTells, After
  <2> QED BY <1>0, <2>1, <2>2, <2>3
          DEF PayloadIsFresh, WrittenSoFar, FailuresLeave, ToldStatus, SavedIsPast, After
<1>4. CASE Budgets
  <2>1. /\ pc = "budgets" /\ pc' = "artifacts"
        /\ UNCHANGED <<run, opts, status, stats, next, disk, saved, told, exit>>
    BY <1>4 DEF Budgets, Goto, threads
  <2>2. over' = OverLimit /\ OverLimit \in BOOLEAN
    BY <1>4, Zenon DEF Budgets, OverLimit
  <2>3. run \in 1..MaxRuns /\ next = 1 /\ saved < run
    BY <2>1 DEF TypeOK, WrittenSoFar, SavedIsPast
  <2>4. payload' = [payload EXCEPT ![run] =
                      [ok |-> Succeeded, failed |-> Failed, over |-> OverLimit]]
    BY <1>4 DEF Budgets
  <2>5. \A r \in 1..MaxRuns : r # run => payload'[r] = payload[r]
    BY <2>3, <2>4 DEF TypeOK
  <2>6. /\ payload'[run].ok = Succeeded /\ payload'[run].failed = Failed
        /\ payload'[run].over = OverLimit
    BY <2>3, <2>4 DEF TypeOK
  <2>7. Failed # {} \/ Succeeded = opts.selected
    BY <2>1 DEF PayloadTells
  <2>8. PayloadTells'
    BY <2>1, <2>2, <2>6, <2>7, MainReads DEF PayloadTells
  <2>9. SavedRunIsOnRecord'
    BY <2>1, <2>3, <2>5 DEF SavedRunIsOnRecord, OnRecord, TypeOK
  <2>10. WrittenSoFar'
    BY <2>1, <2>3 DEF WrittenSoFar, After
  <2>11. PayloadIsFresh'
    BY <2>1, <2>5 DEF PayloadIsFresh
  <2>12. FailuresLeave' /\ ToldStatus' /\ SavedIsPast' /\ ExitCodeMatchesRecord'
    BY <2>1 DEF FailuresLeave, ToldStatus, SavedIsPast, ExitCodeMatchesRecord
  <2> QED BY <1>0, <2>1, <2>8, <2>9, <2>10, <2>11, <2>12
<1>5. CASE BudgetsUnreadable
  <2>1. /\ pc = "budgets" /\ pc' = "exited" /\ exit' = "1" /\ opts.limit = 0
        /\ UNCHANGED <<run, opts, status, stats, over, next, disk, payload, saved, told>>
    BY <1>5 DEF BudgetsUnreadable, Leave, threads, stored
  <2>2. payload[run] = NoPayload /\ saved # run
    BY <2>1 DEF PayloadIsFresh, SavedIsPast, TypeOK
  <2>3. SavedRunIsOnRecord' /\ ExitCodeMatchesRecord'
    BY <2>1, <2>2 DEF SavedRunIsOnRecord, OnRecord, ExitCodeMatchesRecord
  <2> QED BY <1>0, <2>1, <2>3
          DEF PayloadIsFresh, WrittenSoFar, PayloadTells, FailuresLeave,
              ToldStatus, SavedIsPast, After, TypeOK
<1>6. CASE LeaveOut
  <2>1. /\ pc = "artifacts" /\ next \in 1..6 /\ next' = next + 1 /\ ~Wanted(Order[next])
        /\ UNCHANGED <<run, opts, pc, status, stats, over, disk, payload, saved, told, exit>>
    BY <1>6 DEF LeaveOut, TypeOK, main, threads, stored
  <2>2. WrittenSoFar'
    BY <2>1, MainReads DEF WrittenSoFar, After, Recorded
  <2>3. SavedRunIsOnRecord' /\ ExitCodeMatchesRecord'
    BY <2>1 DEF SavedRunIsOnRecord, OnRecord, ExitCodeMatchesRecord
  <2>4. PayloadTells' /\ FailuresLeave'
    BY <2>1, MainReads DEF PayloadTells, FailuresLeave
  <2> QED BY <1>0, <2>1, <2>2, <2>3, <2>4 DEF PayloadIsFresh, ToldStatus, SavedIsPast
<1>7. ASSUME OpenFile \/ FillFile \/ WriteRow PROVE IInv'
  <2>1. /\ pc = "artifacts" /\ next \in 1..6
        /\ UNCHANGED <<run, opts, pc, status, stats, over, payload, saved, told, exit>>
    <3>1. CASE OpenFile
      BY <3>1 DEF OpenFile, Writing, TypeOK, main, threads
    <3>2. CASE FillFile
      BY <3>2 DEF FillFile, Writing, TypeOK, main, threads
    <3>3. CASE WriteRow
      BY <3>3 DEF WriteRow, Writing, TypeOK, main, threads
    <3> QED BY <1>7, <3>1, <3>2, <3>3
  <2>2. Store(TRUE) \/ Store(FALSE)
    BY <1>7, Zenon DEF OpenFile, FillFile, WriteRow
  <2>3. SavedRunIsOnRecord'
    BY <2>1, <2>2, StoreKeepsRecord DEF SavedIsPast
  <2>4. \A a \in Artifacts : disk'[a] = disk[a] \/ disk'[a].run = run
    BY <2>1, <2>2, OrderLemma DEF Store, TypeOK
  <2>5. \/ next' = next
        \/ next' = next + 1 /\ disk'[Order[next]] = [run |-> run, whole |-> TRUE]
    <3>1. CASE OpenFile
      BY <3>1 DEF OpenFile
    <3>2. CASE FillFile \/ WriteRow
      <4>1. next' = next + 1
        BY <3>2 DEF FillFile, WriteRow
      <4>2. Store(TRUE)
        BY <3>2, Zenon DEF FillFile, WriteRow
      <4> QED BY <2>1, <4>1, <4>2, OrderLemma DEF Store, TypeOK
    <3> QED BY <1>7, <3>1, <3>2
  <2>6. \A i \in 1..6 : i < next => disk'[Order[i]] = disk[Order[i]]
    <3> SUFFICES ASSUME NEW i \in 1..6, i < next
                 PROVE  disk'[Order[i]] = disk[Order[i]]
        OBVIOUS
    <3>1. Order[i] # Order[next]
      BY <2>1, OrderIsInjective
    <3> QED BY <2>1, <2>2, <3>1, OrderLemma DEF Store, TypeOK
  <2>7. WrittenSoFar'
    BY <2>1, <2>5, <2>6, MainReads DEF WrittenSoFar, Recorded, After
  <2>8. PayloadTells' /\ FailuresLeave'
    BY <2>1, MainReads DEF PayloadTells, FailuresLeave
  <2>9. \A a \in Artifacts : disk'[a].run <= run'
    BY <2>1, <2>4 DEF TypeOK
  <2> QED BY <1>0, <2>1, <2>3, <2>7, <2>8, <2>9
          DEF PayloadIsFresh, ToldStatus, SavedIsPast, ExitCodeMatchesRecord
<1>8. CASE ArtifactsWritten
  <2>1. /\ pc = "artifacts" /\ pc' = "errors" /\ next = 7
        /\ UNCHANGED <<run, opts, status, stats, over, next, disk, payload, saved, told, exit>>
    BY <1>8 DEF ArtifactsWritten, Goto, threads, stored, TypeOK
  <2>2. \A a \in Artifacts : Wanted(a) => Recorded(a)
    BY <2>1, OrderIsComplete DEF WrittenSoFar
  <2>3. WrittenSoFar'
    BY <2>1, <2>2, MainReads DEF WrittenSoFar, Recorded
  <2>4. SavedRunIsOnRecord' /\ ExitCodeMatchesRecord'
    BY <2>1 DEF SavedRunIsOnRecord, OnRecord, ExitCodeMatchesRecord
  <2>5. PayloadTells' /\ FailuresLeave'
    BY <2>1, MainReads DEF PayloadTells, FailuresLeave, After
  <2> QED BY <1>0, <2>1, <2>3, <2>4, <2>5
          DEF PayloadIsFresh, ToldStatus, SavedIsPast, After
<1>9. CASE Errors
  <2>1. /\ pc = "errors"
        /\ UNCHANGED <<run, opts, status, stats, over, next, disk, payload, saved, told>>
    BY <1>9 DEF Errors, Leave, Goto, threads, stored
  <2>2. \/ pc' = "exited" /\ exit' = "1" /\ Failed # {}
        \/ pc' = "end_hooks" /\ exit' = exit /\ Failed = {}
    BY <1>9 DEF Errors, Leave, Goto
  <2>3. SavedRunIsOnRecord'
    BY <2>1 DEF SavedRunIsOnRecord, OnRecord
  <2>4. /\ \A a \in Artifacts : Wanted(a) => Recorded(a)
        /\ payload[run].failed = Failed /\ payload[run].over = over /\ saved # run
    BY <2>1 DEF WrittenSoFar, PayloadTells, SavedIsPast, After, TypeOK
  <2>5. ExitCodeMatchesRecord'
    BY <2>1, <2>2, <2>4, MainReads DEF ExitCodeMatchesRecord, Recorded
  <2>6. WrittenSoFar'
    BY <2>1, <2>2, <2>4, MainReads DEF WrittenSoFar, Recorded
  <2>7. PayloadTells' /\ FailuresLeave'
    BY <2>1, <2>2, MainReads DEF PayloadTells, FailuresLeave, After
  <2> QED BY <1>0, <2>1, <2>2, <2>3, <2>5, <2>6, <2>7
          DEF PayloadIsFresh, ToldStatus, SavedIsPast, TypeOK
<1>10. CASE EndHooks
  <2>1. /\ pc = "end_hooks" /\ pc' = "verdict" /\ exit' = exit /\ Failed = {}
        /\ UNCHANGED <<run, opts, status, stats, over, next, disk, payload, saved>>
    BY <1>10 DEF EndHooks, Goto, threads, stored, FailuresLeave
  <2>2. told' = IF over THEN "error" ELSE "success"
    BY <1>10, <2>1 DEF EndHooks
  <2>3. SavedRunIsOnRecord' /\ ExitCodeMatchesRecord'
    BY <2>1 DEF SavedRunIsOnRecord, OnRecord, ExitCodeMatchesRecord
  <2>4. WrittenSoFar'
    BY <2>1, MainReads DEF WrittenSoFar, Recorded, After
  <2>5. PayloadTells' /\ FailuresLeave'
    BY <2>1, MainReads DEF PayloadTells, FailuresLeave, After
  <2> QED BY <1>0, <2>1, <2>2, <2>3, <2>4, <2>5
          DEF PayloadIsFresh, ToldStatus, SavedIsPast
<1>11. CASE Verdict
  <2>1. /\ pc = "verdict" /\ Failed = {}
        /\ UNCHANGED <<run, opts, status, stats, over, next, disk, payload, saved, told>>
    BY <1>11 DEF Verdict, Leave, Goto, threads, stored, FailuresLeave
  <2>2. \/ pc' = "exited" /\ exit' = "1" /\ over
        \/ pc' = "save" /\ exit' = exit /\ ~over
    BY <1>11, <2>1 DEF Verdict, Leave, Goto
  <2>3. SavedRunIsOnRecord'
    BY <2>1 DEF SavedRunIsOnRecord, OnRecord
  <2>4. /\ \A a \in Artifacts : Wanted(a) => Recorded(a)
        /\ payload[run].failed = Failed /\ payload[run].over = over /\ saved # run
    BY <2>1 DEF WrittenSoFar, PayloadTells, SavedIsPast, After, TypeOK
  <2>5. ExitCodeMatchesRecord'
    BY <2>1, <2>2, <2>4, MainReads DEF ExitCodeMatchesRecord, Recorded
  <2>6. WrittenSoFar'
    BY <2>1, <2>2, <2>4, MainReads DEF WrittenSoFar, Recorded
  <2>7. PayloadTells' /\ FailuresLeave'
    BY <2>1, <2>2, MainReads DEF PayloadTells, FailuresLeave, After
  <2> QED BY <1>0, <2>1, <2>2, <2>3, <2>5, <2>6, <2>7
          DEF PayloadIsFresh, ToldStatus, SavedIsPast, TypeOK
<1>12. CASE Save
  <2>1. /\ pc = "save" /\ pc' = "report" /\ exit' = exit
        /\ UNCHANGED <<run, opts, status, stats, over, next, disk, payload, told>>
    BY <1>12 DEF Save, Goto, threads
  <2>2. saved' = IF opts.saves THEN run ELSE saved
    BY <1>12, <2>1 DEF Save, FailuresLeave
  <2>3. /\ \A a \in Artifacts : Wanted(a) => Recorded(a)
        /\ payload[run].failed = {} /\ ~payload[run].over
    BY <2>1 DEF WrittenSoFar, PayloadTells, FailuresLeave, ToldStatus, After
  <2>4. \E place \in {"file", "db"} : Recorded(<<place, "results">>)
    BY <2>3, OptionsAssumption DEF Wanted, Artifacts, Kinds, TypeOK, OptionRecords
  <2>5. \E place \in {"file", "db"} : OnRecord(place, run)
    BY <2>4 DEF OnRecord, Recorded
  <2>6. SavedRunIsOnRecord'
    BY <2>1, <2>2, <2>3, <2>5 DEF SavedRunIsOnRecord, OnRecord
  <2>7. ExitCodeMatchesRecord'
    BY <2>1 DEF ExitCodeMatchesRecord
  <2>8. WrittenSoFar'
    BY <2>1, MainReads DEF WrittenSoFar, Recorded, After
  <2>9. PayloadTells' /\ FailuresLeave'
    BY <2>1, MainReads DEF PayloadTells, FailuresLeave, After
  <2>10. SavedIsPast'
    BY <2>1, <2>2 DEF SavedIsPast, TypeOK
  <2> QED BY <1>0, <2>1, <2>6, <2>7, <2>8, <2>9, <2>10 DEF PayloadIsFresh, ToldStatus
<1>14. CASE Report
  <2>1. /\ pc = "report" /\ pc' = "exited" /\ exit' = "0"
        /\ UNCHANGED <<run, opts, status, stats, over, next, disk, payload, saved, told>>
    BY <1>14 DEF Report, Leave, threads, stored
  <2>2. /\ \A a \in Artifacts : Wanted(a) => Recorded(a)
        /\ payload[run].ok = Succeeded /\ over = OverLimit
        /\ Succeeded = opts.selected /\ ~over /\ told = "success"
        /\ opts.saves => saved = run
    <3>1. \A a \in Artifacts : Wanted(a) => Recorded(a)
      BY <2>1 DEF WrittenSoFar, After
    <3>2. payload[run].ok = Succeeded /\ over = OverLimit /\ Succeeded = opts.selected
      BY <2>1 DEF PayloadTells, FailuresLeave, After
    <3>3. ~over /\ told = "success" /\ (opts.saves => saved = run)
      BY <2>1 DEF ToldStatus, SavedIsPast
    <3> QED BY <3>1, <3>2, <3>3
  <2>3. ExitCodeMatchesRecord'
    <3>1. ~OverLimit'
      BY <2>1, <2>2, MainReads, Zenon
    <3>2. Succeeded' = opts'.selected /\ payload'[run'].ok = opts'.selected
      BY <2>1, <2>2, MainReads
    <3>3. \A a \in Artifacts : Wanted(a)' => Recorded(a)'
      BY <2>1, <2>2, MainReads DEF Recorded
    <3> QED BY <2>1, <2>2, <3>1, <3>2, <3>3 DEF ExitCodeMatchesRecord
  <2>4. SavedRunIsOnRecord'
    BY <2>1 DEF SavedRunIsOnRecord, OnRecord
  <2> QED BY <1>0, <2>1, <2>3, <2>4
          DEF PayloadIsFresh, WrittenSoFar, PayloadTells, FailuresLeave, ToldStatus,
              SavedIsPast, After, TypeOK
<1>15. CASE Die
  <2>1. /\ pc # "exited" /\ pc' = "exited" /\ exit' = "broken"
        /\ UNCHANGED <<run, opts, status, stats, over, next, disk, payload, saved, told>>
    BY <1>15 DEF Die, Leave, threads, stored
  <2>2. SavedRunIsOnRecord' /\ ExitCodeMatchesRecord'
    BY <2>1 DEF SavedRunIsOnRecord, OnRecord, ExitCodeMatchesRecord
  <2> QED BY <1>0, <2>1, <2>2
          DEF PayloadIsFresh, WrittenSoFar, PayloadTells, FailuresLeave, ToldStatus,
              SavedIsPast, After, TypeOK
<1>16. CASE UNCHANGED vars
  <2>1. UNCHANGED <<run, opts, pc, status, stats, over, next, disk, payload, saved, told, exit>>
    BY <1>16 DEF vars, main, threads, stored
  <2>2. SavedRunIsOnRecord'
    BY <2>1 DEF SavedRunIsOnRecord, OnRecord
  <2>5. ExitCodeMatchesRecord'
    <3>1. \A a : Wanted(a)' <=> Wanted(a)
      BY <2>1, MainReads
    <3>2. \A a : Recorded(a)' <=> Recorded(a)
      BY <2>1 DEF Recorded
    <3>3. Succeeded' = Succeeded /\ Failed' = Failed /\ (OverLimit' <=> OverLimit)
      BY <2>1, MainReads
    <3> QED BY <2>1, <3>1, <3>2, <3>3 DEF ExitCodeMatchesRecord
  <2>3. PayloadIsFresh' /\ WrittenSoFar' /\ PayloadTells'
    BY <2>1, MainReads DEF PayloadIsFresh, WrittenSoFar, PayloadTells, Recorded
  <2>4. FailuresLeave' /\ ToldStatus' /\ SavedIsPast'
    BY <2>1, MainReads DEF FailuresLeave, ToldStatus, SavedIsPast
  <2> QED BY <1>0, <2>1, <2>2, <2>3, <2>4, <2>5
<1>13. ASSUME NEW w \in Workers, RunNode(w) PROVE IInv'
    BY <1>13, ThreadStep
<1> QED
    BY <1>1, <1>2, <1>3, <1>4, <1>5, <1>6, <1>7, <1>8, <1>9, <1>10, <1>11, <1>12, <1>13,
       <1>14, <1>15, <1>16 DEF Next, MainThread

LEMMA InvInit == Init => IInv
<1> SUFFICES ASSUME Init PROVE IInv
    OBVIOUS
<1>1. TypeOK
    BY InitTypes
<1>2. run = 0 /\ pc = "exited" /\ saved = 0 /\ exit = "none"
    BY DEF Init
<1>3. \A a \in Artifacts : disk[a].run <= run
    BY DEF Init, Unwritten
<1>4. PayloadIsFresh
    BY DEF Init, PayloadIsFresh
<1>5. WrittenSoFar /\ PayloadTells /\ FailuresLeave /\ ToldStatus
    BY <1>2 DEF WrittenSoFar, PayloadTells, FailuresLeave, ToldStatus, After
<1>6. SavedIsPast /\ SavedRunIsOnRecord /\ ExitCodeMatchesRecord
    BY <1>2 DEF SavedIsPast, SavedRunIsOnRecord, ExitCodeMatchesRecord
<1> QED BY <1>1, <1>2, <1>3, <1>4, <1>5, <1>6 DEF IInv

\* The inductive invariant of the invocations of run().
THEOREM RunInvariance == Spec => []IInv
BY InvInit, InvStep, PTL DEF Spec

\* persist_on_success saves fingerprints of nothing but a successful run that is
\* on record.
THEOREM SavedRuns == Spec => []SavedRunIsOnRecord
<1>1. IInv => SavedRunIsOnRecord
    BY DEF IInv
<1> QED BY <1>1, RunInvariance, PTL

\* The exit code of run() agrees with run_results, hooks and cache.
THEOREM ExitCodes == Spec => []ExitCodeMatchesRecord
<1>1. IInv => ExitCodeMatchesRecord
    BY DEF IInv
<1> QED BY <1>1, RunInvariance, PTL
-----------------------------------------------------------------------------
(* Statistics: with an executor per thread its buffer is its model's.      *)

\* The buffer of a busy thread holds queries of its model alone, no other thread has
\* that model, and without SQL hooks the buffer is empty but for the model's query.
OwnBuffer(w) ==
    on[w] # Idle =>
        /\ status[on[w]] = "running"
        /\ \A v \in Workers : v # w => on[v] # on[w]
        /\ \A q \in buf[w] : q[1] = on[w]
        /\ ~opts.sqlHooks =>
             /\ buf[w] = IF step[w] = "collect" THEN {<<on[w], "model">>} ELSE {}
             /\ step[w] \in {"after", "final"} => stats[on[w]] = {<<on[w], "model">>}

StatsInv == TypeOK /\ StatsBelongToNode /\ (~opts.shared => \A w \in Workers : OwnBuffer(w))

\* A thread with an executor of its own appends to and drains its own buffer.
LEMMA OwnExecutor ==
    ASSUME TypeOK, ~opts.shared, NEW w \in Workers
    PROVE  /\ Runner(w) = w /\ w \in Executors
           /\ \A part : Record(w, part) =>
                buf' = [buf EXCEPT ![w] = @ \union {<<on[w], part>>}] /\ stats' = stats
           /\ Capture(w) =>
                /\ buf' = [buf EXCEPT ![w] = {}]
                /\ stats' = IF buf[w] = {} THEN stats ELSE [stats EXCEPT ![on[w]] = buf[w]]
BY DEF Runner, Executors, Record, Capture, Contended

\* What a thread does to its own model leaves the models of the others alone.
LEMMA OthersUndisturbed ==
    ASSUME StatsInv, ~opts.shared, NEW w \in Workers, opts' = opts,
           on' \in [Workers -> Nodes \union {Idle}], on'[w] = on[w] \/ on'[w] = Idle,
           \A v \in Workers : v # w => on'[v] = on[v] /\ step'[v] = step[v] /\ buf'[v] = buf[v],
           \A n \in Nodes : n # on[w] => status'[n] = status[n] /\ stats'[n] = stats[n]
    PROVE  \A v \in Workers : v # w => OwnBuffer(v)'
<1> SUFFICES ASSUME NEW v \in Workers, v # w, on[v] # Idle
             PROVE  OwnBuffer(v)'
    BY DEF OwnBuffer
<1>1. OwnBuffer(v) /\ on[v] \in Nodes
    BY DEF StatsInv, TypeOK
<1>2. on[v] # on[w]
    BY <1>1 DEF OwnBuffer
<1>3. \A u \in Workers : u # v => on'[u] # on[v]
    BY <1>1, <1>2 DEF OwnBuffer
<1> QED BY <1>1, <1>2, <1>3 DEF OwnBuffer

LEMMA StatsThreadStep ==
    ASSUME StatsInv, NEW w \in Workers, RunNode(w)
    PROVE  StatsInv'
<1>1. TypeOK'
    BY ThreadTypes DEF StatsInv
<1>2. opts' = opts
    BY DEF RunNode, Take, Skip, BeforeHooks, Model, Collect, AfterHooks, Finalize, Fail, InThread, main
<1> SUFFICES ASSUME ~opts.shared
             PROVE  StatsBelongToNode' /\ \A v \in Workers : OwnBuffer(v)'
    BY <1>1, <1>2 DEF StatsInv, StatsBelongToNode
<1>3. TypeOK /\ StatsBelongToNode /\ OwnBuffer(w)
    BY DEF StatsInv
<1>4. ASSUME NEW n \in Nodes, Take(w, n)
      PROVE  StatsBelongToNode' /\ \A v \in Workers : OwnBuffer(v)'
  <2>1. /\ on[w] = Idle /\ status[n] = Idle /\ stats' = stats
        /\ status' = [status EXCEPT ![n] = "running"] /\ on' = [on EXCEPT ![w] = n]
        /\ step' = [step EXCEPT ![w] = "before"] /\ buf' = [buf EXCEPT ![w] = {}]
    BY <1>4, OwnExecutor, <1>3 DEF Take
  <2>2. StatsBelongToNode'
    BY <1>2, <1>3, <2>1 DEF StatsBelongToNode, TypeOK
  <2>3. \A v \in Workers : on[v] # n \/ on[v] = Idle
    BY <2>1 DEF StatsInv, OwnBuffer, Idle
  <2>4. OwnBuffer(w)'
    BY <1>2, <1>3, <2>1, <2>3, OwnExecutor DEF OwnBuffer, TypeOK, Idle
  <2>5. ASSUME NEW v \in Workers, v # w
        PROVE  OwnBuffer(v)'
    BY <1>2, <1>3, <2>1, <2>3, <2>5 DEF StatsInv, OwnBuffer, TypeOK, Executors
  <2> QED BY <2>2, <2>4, <2>5
<1>5. ASSUME on[w] \in Nodes, UNCHANGED <<on, status>>,
             \/ \E part : Record(w, part)
             \/ UNCHANGED <<buf, stats>>
             \/ Capture(w),
             \A v \in Workers : v # w => step'[v] = step[v],
             OwnBuffer(w)', StatsBelongToNode'
      PROVE  StatsBelongToNode' /\ \A v \in Workers : OwnBuffer(v)'
  <2>1. /\ \A v \in Workers : v # w => buf'[v] = buf[v]
        /\ \A m \in Nodes : m # on[w] => stats'[m] = stats[m]
    BY <1>3, <1>5, OwnExecutor DEF TypeOK, Executors
  <2> QED BY <1>1, <1>2, <1>5, <2>1, OthersUndisturbed DEF TypeOK
<1>6. CASE BeforeHooks(w)
  <2>1. /\ on[w] \in Nodes /\ step[w] = "before" /\ UNCHANGED <<on, status>>
        /\ step' = [step EXCEPT ![w] = "model"]
        /\ IF opts.sqlHooks THEN Record(w, "before") ELSE UNCHANGED <<buf, stats>>
    BY <1>3, <1>6 DEF BeforeHooks, At, Busy, Advance, TypeOK
  <2>2. stats' = stats
    BY <1>3, <2>1, OwnExecutor
  <2>3. OwnBuffer(w)'
    BY <1>2, <1>3, <2>1, <2>2, OwnExecutor DEF OwnBuffer, TypeOK
  <2>4. StatsBelongToNode'
    BY <1>2, <1>3, <2>1, <2>2 DEF StatsBelongToNode
  <2> QED BY <1>3, <1>5, <2>1, <2>3, <2>4 DEF TypeOK
<1>7. CASE Model(w)
  <2>1. /\ on[w] \in Nodes /\ step[w] = "model" /\ UNCHANGED <<on, status>>
        /\ step' = [step EXCEPT ![w] = "collect"] /\ Record(w, "model")
    BY <1>3, <1>7 DEF Model, At, Busy, Advance, TypeOK
  <2>2. stats' = stats
    BY <1>3, <2>1, OwnExecutor
  <2>3. OwnBuffer(w)'
    BY <1>2, <1>3, <2>1, <2>2, OwnExecutor DEF OwnBuffer, TypeOK
  <2>4. StatsBelongToNode'
    BY <1>2, <1>3, <2>1, <2>2 DEF StatsBelongToNode
  <2> QED BY <1>3, <1>5, <2>1, <2>3, <2>4 DEF TypeOK
<1>8. CASE AfterHooks(w)
  <2>1. /\ on[w] \in Nodes /\ step[w] = "after" /\ UNCHANGED <<on, status>>
        /\ step' = [step EXCEPT ![w] = "final"]
        /\ IF opts.sqlHooks THEN Record(w, "after") ELSE UNCHANGED <<buf, stats>>
    BY <1>3, <1>8 DEF AfterHooks, At, Busy, Advance, TypeOK
  <2>2. stats' = stats
    BY <1>3, <2>1, OwnExecutor
  <2>3. OwnBuffer(w)'
    BY <1>2, <1>3, <2>1, <2>2, OwnExecutor DEF OwnBuffer, TypeOK
  <2>4. StatsBelongToNode'
    BY <1>2, <1>3, <2>1, <2>2 DEF StatsBelongToNode
  <2> QED BY <1>3, <1>5, <2>1, <2>3, <2>4 DEF TypeOK
<1>9. CASE Collect(w)
  <2>1. /\ on[w] \in Nodes \ {Idle} /\ step[w] = "collect" /\ UNCHANGED <<on, status>>
        /\ step' = [step EXCEPT ![w] = "after"] /\ Capture(w)
    BY <1>3, <1>9 DEF Collect, At, Busy, Advance, TypeOK
  <2>2. /\ buf' = [buf EXCEPT ![w] = {}]
        /\ stats' = IF buf[w] = {} THEN stats ELSE [stats EXCEPT ![on[w]] = buf[w]]
    BY <1>3, <2>1, OwnExecutor
  <2>3. OwnBuffer(w)'
    BY <1>2, <1>3, <2>1, <2>2, OwnExecutor DEF OwnBuffer, TypeOK
  <2>4. status[on[w]] = "running" /\ \A q \in buf[w] : q[1] = on[w]
    BY <1>3, <2>1 DEF OwnBuffer, TypeOK, Idle
  <2>5. StatsBelongToNode'
    BY <1>2, <1>3, <2>1, <2>2, <2>4 DEF StatsBelongToNode, TypeOK
  <2> QED BY <1>3, <1>5, <2>1, <2>3, <2>5 DEF TypeOK
<1>10. ASSUME Busy(w), on' = [on EXCEPT ![w] = Idle], step' = [step EXCEPT ![w] = Idle],
              \/ \E part : Record(w, part)
              \/ UNCHANGED <<buf, stats>>
              \/ Capture(w)
              \/ buf' = buf /\ stats' = [stats EXCEPT ![on[w]] = {}],
              NEW result, status' = [status EXCEPT ![on[w]] = result],
              StatsBelongToNode'
       PROVE  StatsBelongToNode' /\ \A v \in Workers : OwnBuffer(v)'
  <2>1. /\ \A v \in Workers : v # w => buf'[v] = buf[v]
        /\ \A m \in Nodes : m # on[w] => stats'[m] = stats[m]
    BY <1>3, <1>10, OwnExecutor DEF TypeOK, Executors, Busy
  <2>2. /\ on'[w] = Idle
        /\ \A v \in Workers : v # w => on'[v] = on[v] /\ step'[v] = step[v]
        /\ \A m \in Nodes : m # on[w] => status'[m] = status[m]
    BY <1>3, <1>10 DEF TypeOK
  <2>3. OwnBuffer(w)'
    BY <2>2 DEF OwnBuffer
  <2> QED BY <1>1, <1>2, <1>10, <2>1, <2>2, <2>3, OthersUndisturbed DEF TypeOK
<1>11. CASE Skip(w)
  <2>1. /\ Busy(w) /\ on' = [on EXCEPT ![w] = Idle] /\ step' = [step EXCEPT ![w] = Idle]
        /\ buf' = buf /\ stats' = [stats EXCEPT ![on[w]] = {}]
        /\ status' = [status EXCEPT ![on[w]] = "skipped"]
    BY <1>11 DEF Skip, At, Free
  <2>2. StatsBelongToNode'
    BY <1>2, <1>3, <2>1 DEF StatsBelongToNode, TypeOK
  <2> QED BY <1>10, <2>1, <2>2
<1>12. CASE Finalize(w)
  <2>1. /\ Busy(w) /\ on' = [on EXCEPT ![w] = Idle] /\ step' = [step EXCEPT ![w] = Idle]
        /\ Capture(w) /\ status' = [status EXCEPT ![on[w]] = "ok"] /\ step[w] = "final"
    BY <1>12 DEF Finalize, At, Free
  <2>2. /\ stats' = IF buf[w] = {} THEN stats ELSE [stats EXCEPT ![on[w]] = buf[w]]
        /\ \A q \in buf[w] : q[1] = on[w]
        /\ ~opts.sqlHooks => buf[w] = {} /\ stats[on[w]] = {<<on[w], "model">>}
    BY <1>3, <2>1, OwnExecutor DEF OwnBuffer, Busy
  <2>3. StatsBelongToNode'
    BY <1>2, <1>3, <2>1, <2>2 DEF StatsBelongToNode, TypeOK
  <2> QED BY <1>10, <2>1, <2>3
<1>13. CASE Fail(w)
  <2>1. /\ Busy(w) /\ on' = [on EXCEPT ![w] = Idle] /\ step' = [step EXCEPT ![w] = Idle]
        /\ Record(w, step[w]) \/ UNCHANGED <<buf, stats>>
        /\ status' = [status EXCEPT ![on[w]] = "failed"]
    BY <1>13 DEF Fail, Free
  <2>2. stats' = stats
    BY <1>3, <2>1, OwnExecutor
  <2>3. StatsBelongToNode'
    BY <1>2, <1>3, <2>1, <2>2 DEF StatsBelongToNode, TypeOK
  <2> QED BY <1>10, <2>1, <2>3
<1> QED BY <1>4, <1>6, <1>7, <1>8, <1>9, <1>11, <1>12, <1>13 DEF RunNode

LEMMA StatsStep == StatsInv /\ [Next]_vars => StatsInv'
<1> SUFFICES ASSUME StatsInv, [Next]_vars PROVE StatsInv'
    OBVIOUS
<1>1. TypeOK'
    BY TypeStep DEF StatsInv
<1>2. ASSUME NEW w \in Workers, RunNode(w)
      PROVE  StatsInv'
    BY <1>2, StatsThreadStep
<1>3. ASSUME NEW o \in Options, Invoke(o)
      PROVE  StatsInv'
  <2>1. /\ status' = [n \in Nodes |-> Idle] /\ on' = [w \in Workers |-> Idle]
        /\ stats' = [n \in Nodes |-> {}]
    BY <1>3 DEF Invoke
  <2> QED BY <1>1, <2>1 DEF StatsInv, StatsBelongToNode, OwnBuffer, Idle
<1>4. CASE UNCHANGED <<opts, threads>>
    BY <1>1, <1>4 DEF StatsInv, StatsBelongToNode, OwnBuffer, threads
<1> QED BY <1>2, <1>3, <1>4
        DEF Next, MainThread, Start, EndNodes, Budgets, BudgetsUnreadable, LeaveOut, OpenFile, FillFile,
            WriteRow, ArtifactsWritten, Errors, EndHooks, Verdict, Save, Report, Die, Leave, Goto,
            main, vars

\* get_node_stats with an executor per thread: the numbers of a model are its own.
THEOREM StatsAreOwn == Spec => []StatsBelongToNode
<1>1. Init => StatsInv
  <2> SUFFICES ASSUME Init PROVE StatsInv
    OBVIOUS
  <2> QED BY InitTypes DEF Init, StatsInv, StatsBelongToNode, OwnBuffer, Idle
<1>2. StatsInv => StatsBelongToNode
    BY DEF StatsInv
<1> QED BY <1>1, <1>2, StatsStep, PTL DEF Spec
=============================================================================
