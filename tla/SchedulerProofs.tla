-------------------------- MODULE SchedulerProofs --------------------------
(***************************************************************************)
(* Theorems about Scheduler for every set of nodes and every set of well   *)
(* formed plans: any number of levels, of batches and of nodes.  Then what *)
(* Planning hands to it: theorems for every finite registry, every         *)
(* dependency function on it and every mix of options.  Then Batching, for *)
(* levels of any size and durations of any length.                         *)
(***************************************************************************)
EXTENDS Scheduler, Planning, Batching, TLAPS, FiniteSetTheorems, SequenceTheorems, WellFoundedInduction

LEMMA PlanLength ==
    ASSUME NEW p, WellFormed(p)
    PROVE  Len(p.batches) \in Nat
  BY DEF WellFormed

(* The type of the parts of a plan.                                        *)
LEMMA PlanParts ==
    ASSUME NEW p, WellFormed(p), NEW l \in PlanLevels(p),
           NEW g \in 1..Len(p.batches[l])
    PROVE  /\ Len(p.batches) \in Nat
           /\ p.batches[l] \in Seq(Seq(Nodes))
           /\ Len(p.batches[l]) \in Nat
           /\ DOMAIN p.batches[l] = 1..Len(p.batches[l])
           /\ p.batches[l][g] \in Seq(Nodes)
           /\ Len(p.batches[l][g]) \in Nat
  <1>1. p.batches \in Seq(Seq(Seq(Nodes)))
    BY DEF WellFormed
  <1>2. p.batches[l] \in Seq(Seq(Nodes))
    BY <1>1 DEF PlanLevels
  <1>3. p.batches[l][g] \in Seq(Nodes)
    BY <1>2
  <1> QED
    BY <1>1, <1>2, <1>3, SMTT(30)

(* The node at a place of a level is a node of that level.                 *)
LEMMA PlaceNode ==
    ASSUME NEW p, WellFormed(p), NEW l \in PlanLevels(p),
           NEW g \in 1..Len(p.batches[l]), NEW i \in 1..Len(p.batches[l][g])
    PROVE  /\ p.batches[l][g][i] \in Nodes
           /\ p.batches[l][g][i] \in LevelNodes(p, l)
  <1>1. <<g, i>> \in Places(p, l)
    BY DEF Places
  <1>2. p.batches[l][g][i] \in LevelNodes(p, l)
    BY <1>1 DEF LevelNodes
  <1>3. p.batches[l][g] \in Seq(Nodes)
    BY PlanParts
  <1>4. p.batches[l][g][i] \in Nodes
    BY <1>3
  <1> QED
    BY <1>2, <1>4

LEMMA LevelNodesAreNodes ==
    ASSUME NEW p, WellFormed(p), NEW l \in PlanLevels(p)
    PROVE  LevelNodes(p, l) \subseteq Nodes
  <1> SUFFICES ASSUME NEW g \in 1..Len(p.batches[l]),
                      NEW i \in 1..Len(p.batches[l][g])
               PROVE  p.batches[l][g][i] \in Nodes
    BY DEF LevelNodes, Places
  <1> QED
    BY PlaceNode

(* What a worker can rely on: a batch that is not completed belongs to the *)
(* current level, and its nodes are nodes of that level.                   *)
LEMMA CurrentBatch ==
    ASSUME IInv, NEW g \in Futures, ~Completed(g)
    PROVE  /\ main = "collect"
           /\ lvl \in PlanLevels(plan)
           /\ g \in 1..Len(plan.batches[lvl])
           /\ Batch(g) \in Seq(Nodes)
           /\ Len(Batch(g)) \in Nat
           /\ at[g] \in 1..(Len(Batch(g)) + 1)
           /\ \A i \in 1..Len(Batch(g)) :
                Batch(g)[i] \in Nodes /\ Batch(g)[i] \in LevelNodes(plan, lvl)
  <1>1. main = "collect"
    BY DEF IInv, QuietBetweenLevels
  <1>2. lvl \in PlanLevels(plan) /\ g \in 1..Len(plan.batches[lvl])
        /\ at[g] \in 1..(Len(Batch(g)) + 1)
    BY <1>1 DEF IInv, TypeOK, PlanLevels
  <1>3. WellFormed(plan)
    BY DEF IInv, TypeOK
  <1>4. Batch(g) \in Seq(Nodes) /\ Len(Batch(g)) \in Nat
    BY <1>2, <1>3, PlanParts DEF Batch
  <1>5. \A i \in 1..Len(Batch(g)) :
          Batch(g)[i] \in Nodes /\ Batch(g)[i] \in LevelNodes(plan, lvl)
    BY <1>2, <1>3, PlaceNode DEF Batch
  <1> QED
    BY <1>1, <1>2, <1>4, <1>5

LEMMA InitStep == Init => IInv
  <1> SUFFICES ASSUME Init PROVE IInv
    OBVIOUS
  <1>1. WellFormed(plan)
    BY PlansWellFormed DEF Init
  <1>2. plan.batches \in Seq(Seq(Seq(Nodes))) /\ Len(plan.batches) \in Nat
    BY <1>1 DEF WellFormed
  <1>3. TypeOK
    <2>1. DOMAIN fut = {} /\ DOMAIN at = {}
      BY DEF Init
    <2>2. lvl \in 1..(Len(plan.batches) + 1)
      BY <1>2 DEF Init
    <2>3. status \in [Nodes -> NodeStates]
      BY DEF Init, NodeStates
    <2> QED
      BY <1>1, <2>1, <2>2, <2>3 DEF Init, TypeOK, Futures
  <1>4. EarlierLevelsOk
    BY DEF Init, EarlierLevelsOk
  <1>5. LaterLevelsIdle
    BY <1>1, LevelNodesAreNodes DEF Init, LaterLevelsIdle
  <1>6. BatchProgress /\ SeenWithoutError /\ ErrorsHaveCulprit /\ DoneMeansOver
    BY DEF Init, BatchProgress, SeenWithoutError, ErrorsHaveCulprit, DoneMeansOver
  <1>7. QuietBetweenLevels
    BY DEF Init, QuietBetweenLevels, Futures
  <1> QED
    BY <1>3, <1>4, <1>5, <1>6, <1>7 DEF IInv

LEMMA EnterStep == IInv /\ Enter => IInv'
  <1> SUFFICES ASSUME IInv, Enter PROVE IInv'
    OBVIOUS
  <1>1. WellFormed(plan) /\ lvl \in PlanLevels(plan)
    BY DEF IInv, TypeOK, Enter, PlanLevels
  <1>2. \A g \in 1..Len(plan.batches[lvl]) : Len(plan.batches[lvl][g]) \in Nat
    BY <1>1, PlanParts
  <1>3. TypeOK'
    <2>1. /\ DOMAIN fut' = 1..Len(plan.batches[lvl])
          /\ DOMAIN at' = 1..Len(plan.batches[lvl])
          /\ \A g \in 1..Len(plan.batches[lvl]) : fut'[g] = "pending" /\ at'[g] = 1
      BY DEF Enter
    <2>2. \A g \in DOMAIN fut' : fut'[g] \in FutStates /\ at'[g] \in Nat
      BY <2>1 DEF FutStates
    <2>3. \A g \in DOMAIN fut' : at'[g] \in 1..(Len(plan.batches[lvl][g]) + 1)
      BY <1>2, <2>1
    <2>4. /\ UNCHANGED <<plan, policy, lvl, status, perNode, failed, failedLvl>>
          /\ main' = "collect" /\ seen' = {} /\ hadError' = FALSE
          /\ lvl <= Len(plan.batches)
      BY DEF Enter
    <2> QED
      BY <2>1, <2>2, <2>3, <2>4 DEF IInv, TypeOK, Futures, Batch
  <1>4. EarlierLevelsOk'
    BY DEF IInv, Enter, EarlierLevelsOk
  <1>5. LaterLevelsIdle'
    BY DEF IInv, Enter, LaterLevelsIdle
  <1>6. BatchProgress' /\ SeenWithoutError'
    BY DEF Enter, BatchProgress, SeenWithoutError, Futures
  <1>7. ErrorsHaveCulprit' /\ DoneMeansOver'
    BY DEF IInv, Enter, ErrorsHaveCulprit, DoneMeansOver, Futures
  <1>8. QuietBetweenLevels'
    BY DEF Enter, QuietBetweenLevels
  <1> QED
    BY <1>3, <1>4, <1>5, <1>6, <1>7, <1>8 DEF IInv

(* Collect disturbs neither the nodes nor the places of the batches; it    *)
(* adds a culprit before it cancels anything.                              *)
LEMMA CollectStep == IInv /\ (\E g \in Futures : Collect(g)) => IInv'
  <1> SUFFICES ASSUME IInv, NEW g \in Futures, Collect(g) PROVE IInv'
    OBVIOUS
  <1>1. /\ main = "collect" /\ main' = "collect"
        /\ UNCHANGED <<plan, policy, lvl, at, status, perNode>>
        /\ seen' = seen \union {g}
        /\ Completed(g)
    BY DEF Collect
  <1>2. /\ DOMAIN fut' = Futures
        /\ \A h \in Futures :
             fut'[h] = fut[h] \/ (fut[h] = "pending" /\ fut'[h] = "cancelled")
    BY DEF Collect, AfterError, CancelPending, Futures
  <1>3. fut[g] = "error" => Culprit(g) \in Nodes
    <2> SUFFICES ASSUME fut[g] = "error" PROVE Culprit(g) \in Nodes
      OBVIOUS
    <2>1. lvl \in PlanLevels(plan) /\ g \in 1..Len(plan.batches[lvl]) /\ WellFormed(plan)
      BY <1>1 DEF IInv, TypeOK, PlanLevels
    <2>2. at[g] \in 1..Len(plan.batches[lvl][g])
      BY <1>1, <2>1, PlanParts DEF IInv, TypeOK, BatchProgress, Batch
    <2> QED
      BY <2>1, <2>2, PlaceNode DEF Culprit, Batch
  <1>4. TypeOK'
    <2>1. failed' \subseteq Nodes /\ failedLvl' \subseteq Nat /\ hadError' \in BOOLEAN
      <3>1. CASE fut[g] = "ok"
        BY <3>1 DEF IInv, TypeOK, Collect
      <3>2. CASE fut[g] = "error"
        BY <3>2, <1>3 DEF IInv, TypeOK, Collect
      <3>3. CASE fut[g] = "notified"
        <4>1. lvl \in Nat
          BY PlanLength DEF IInv, TypeOK
        <4> QED
          BY <3>3, <4>1 DEF IInv, TypeOK, Collect
      <3> QED
        BY <1>1, <3>1, <3>2, <3>3 DEF Completed
    <2>2. \A h \in DOMAIN fut' : fut'[h] \in FutStates
      BY <1>2 DEF IInv, TypeOK, FutStates
    <2> QED
      BY <1>1, <1>2, <2>1, <2>2 DEF IInv, TypeOK, Futures, Batch
  <1>5. EarlierLevelsOk' /\ LaterLevelsIdle'
    BY <1>1 DEF IInv, EarlierLevelsOk, LaterLevelsIdle
  <1>6. BatchProgress'
    BY <1>1, <1>2 DEF IInv, BatchProgress, Futures, Batch
  <1>7. SeenWithoutError'
    BY <1>1, <1>2 DEF IInv, SeenWithoutError, Collect, TypeOK
  <1>8. ErrorsHaveCulprit'
    <2>1. fut[g] = "error" => failed' # {}
      BY DEF Collect
    <2>2. failed \subseteq failed'
      BY DEF Collect
    <2>3. fut[g] = "notified" => failed # {}
      BY <1>1 DEF IInv, ErrorsHaveCulprit
    <2>4. fut[g] # "ok" => failed' # {}
      BY <1>1, <2>1, <2>2, <2>3 DEF Completed
    <2>5. fut[g] = "ok" => UNCHANGED <<fut, hadError, failed, failedLvl>>
      BY DEF Collect
    <2> QED
      BY <1>1, <2>4, <2>5 DEF IInv, ErrorsHaveCulprit, Futures
  <1>9. QuietBetweenLevels'
    BY <1>1, <1>2 DEF IInv, TypeOK, QuietBetweenLevels, Completed, Futures
  <1>10. DoneMeansOver'
    BY <1>1 DEF DoneMeansOver
  <1> QED
    BY <1>4, <1>5, <1>6, <1>7, <1>8, <1>9, <1>10 DEF IInv

LEMMA EndLevelStep == IInv /\ EndLevel => IInv'
  <1> SUFFICES ASSUME IInv, EndLevel PROVE IInv'
    OBVIOUS
  <1>1. /\ main = "collect" /\ seen = Futures
        /\ UNCHANGED <<plan, policy, seen, hadError, failed, failedLvl, fut, at,
                       status, perNode>>
        /\ hadError => main' = "done" /\ lvl' = lvl
        /\ ~hadError => main' = "enter" /\ lvl' = lvl + 1
    BY DEF EndLevel, workerVars
  <1>2. Len(plan.batches) \in Nat /\ WellFormed(plan) /\ lvl \in PlanLevels(plan)
    BY <1>1, PlanLength DEF IInv, TypeOK, PlanLevels
  <1>3. TypeOK'
    BY <1>1, <1>2 DEF IInv, TypeOK, PlanLevels, Futures
  <1>4. ~hadError => \A m \in LevelNodes(plan, lvl) : status[m] = "ok"
    <2> SUFFICES ASSUME ~hadError,
                        NEW g \in 1..Len(plan.batches[lvl]),
                        NEW i \in 1..Len(plan.batches[lvl][g])
                 PROVE  status[plan.batches[lvl][g][i]] = "ok"
      BY DEF LevelNodes, Places
    <2>1. g \in Futures /\ fut[g] = "ok"
      BY <1>1 DEF IInv, TypeOK, SeenWithoutError
    <2>2. at[g] = Len(Batch(g)) + 1 /\ Len(Batch(g)) \in Nat
      BY <1>1, <1>2, <2>1, PlanParts DEF IInv, BatchProgress, Batch
    <2> QED
      BY <1>1, <2>1, <2>2 DEF IInv, BatchProgress, Batch
  <1>5. EarlierLevelsOk'
    BY <1>1, <1>2, <1>4 DEF IInv, EarlierLevelsOk, PlanLevels
  <1>6. LaterLevelsIdle'
    BY <1>1, <1>2 DEF IInv, LaterLevelsIdle, PlanLevels
  <1>7. BatchProgress' /\ SeenWithoutError' /\ ErrorsHaveCulprit'
    BY <1>1 DEF IInv, BatchProgress, SeenWithoutError, ErrorsHaveCulprit
  <1>8. QuietBetweenLevels'
    BY <1>1 DEF IInv, QuietBetweenLevels, Completed, Futures
  <1>9. DoneMeansOver'
    BY <1>1 DEF DoneMeansOver
  <1> QED
    BY <1>3, <1>5, <1>6, <1>7, <1>8, <1>9 DEF IInv

LEMMA EndRunStep == IInv /\ EndRun => IInv'
  <1> SUFFICES ASSUME IInv, EndRun PROVE IInv'
    OBVIOUS
  <1>1. /\ main = "enter" /\ main' = "done" /\ lvl > Len(plan.batches)
        /\ UNCHANGED <<plan, policy, lvl, seen, hadError, failed, failedLvl, fut, at,
                       status, perNode>>
    BY DEF EndRun, workerVars
  <1>2. Len(plan.batches) \in Nat
    BY PlanLength DEF IInv, TypeOK
  <1>3. TypeOK'
    BY <1>1 DEF IInv, TypeOK, Futures
  <1>4. EarlierLevelsOk' /\ LaterLevelsIdle'
    BY <1>1 DEF IInv, EarlierLevelsOk, LaterLevelsIdle
  <1>5. BatchProgress' /\ SeenWithoutError' /\ ErrorsHaveCulprit'
    BY <1>1 DEF IInv, BatchProgress, SeenWithoutError, ErrorsHaveCulprit
  <1>6. QuietBetweenLevels'
    BY <1>1 DEF IInv, QuietBetweenLevels, Completed, Futures
  <1>7. DoneMeansOver'
    BY <1>1, <1>2 DEF IInv, TypeOK, DoneMeansOver
  <1> QED
    BY <1>3, <1>4, <1>5, <1>6, <1>7 DEF IInv

(* A worker that only moves its future on: PickUp and FinishEmpty.         *)
LEMMA FutureStep ==
    ASSUME IInv, NEW g \in Futures, PickUp(g) \/ FinishEmpty(g)
    PROVE  IInv'
  <1>1. ~Completed(g)
    BY DEF PickUp, FinishEmpty, Completed
  <1>2. /\ main = "collect" /\ Len(Batch(g)) \in Nat
        /\ at[g] \in 1..(Len(Batch(g)) + 1)
    BY <1>1, CurrentBatch
  <1>3. UNCHANGED <<plan, policy, at, status, perNode, lvl, main, seen, hadError,
                    failed, failedLvl>>
    BY DEF PickUp, FinishEmpty, mainVars
  <1>4. /\ DOMAIN fut' = Futures
        /\ \A h \in Futures : h # g => fut'[h] = fut[h]
        /\ \/ fut[g] = "pending" /\ fut'[g] = "running"
           \/ fut[g] = "cancelled" /\ fut'[g] = "notified"
           \/ Len(Batch(g)) = 0 /\ fut'[g] = "ok"
    BY DEF PickUp, FinishEmpty, Futures
  <1>5. g \notin seen
    BY <1>1 DEF IInv, QuietBetweenLevels
  <1>6. TypeOK'
    <2>1. \A h \in DOMAIN fut' : fut'[h] \in FutStates
      BY <1>4 DEF IInv, TypeOK, FutStates
    <2> QED
      BY <1>3, <1>4, <2>1 DEF IInv, TypeOK, Futures, Batch
  <1>7. EarlierLevelsOk' /\ LaterLevelsIdle'
    BY <1>3 DEF IInv, EarlierLevelsOk, LaterLevelsIdle
  <1>8. BatchProgress'
    BY <1>2, <1>3, <1>4 DEF IInv, BatchProgress, Futures, Batch
  <1>9. SeenWithoutError' /\ ErrorsHaveCulprit'
    BY <1>2, <1>3, <1>4, <1>5
    DEF IInv, TypeOK, SeenWithoutError, ErrorsHaveCulprit, Futures
  <1>10. QuietBetweenLevels' /\ DoneMeansOver'
    BY <1>2, <1>3, <1>4, <1>5
    DEF IInv, TypeOK, QuietBetweenLevels, DoneMeansOver, Completed, Futures
  <1> QED
    BY <1>6, <1>7, <1>8, <1>9, <1>10 DEF IInv

(* A worker at a node changes the status of that node alone, a node of the *)
(* current level that had not succeeded: the levels before and behind it   *)
(* are untouched.                                                          *)
LEMMA NodeStepLevels ==
    ASSUME IInv, NEW g \in Futures, ~Completed(g), at[g] <= Len(Batch(g)),
           NEW s \in NodeStates,
           status[Batch(g)[at[g]]] # "ok",
           status' = [status EXCEPT ![Batch(g)[at[g]]] = s],
           UNCHANGED <<plan, lvl, main>>
    PROVE  /\ Batch(g)[at[g]] \in Nodes
           /\ status' \in [Nodes -> NodeStates]
           /\ \A n \in Nodes : status[n] = "ok" => status'[n] = "ok"
           /\ EarlierLevelsOk'
           /\ LaterLevelsIdle'
  <1> DEFINE x == Batch(g)[at[g]]
  <1>1. main = "collect" /\ lvl \in PlanLevels(plan) /\ WellFormed(plan)
    BY CurrentBatch DEF IInv, TypeOK
  <1>2. x \in Nodes /\ x \in LevelNodes(plan, lvl)
    BY CurrentBatch
  <1>3. status \in [Nodes -> NodeStates]
    BY DEF IInv, TypeOK
  <1>4. status' \in [Nodes -> NodeStates]
    BY <1>2, <1>3
  <1>5. \A n \in Nodes : n # x => status'[n] = status[n]
    BY <1>3
  <1>6. \A n \in Nodes : status[n] = "ok" => status'[n] = "ok"
    BY <1>5
  <1>7. \A k \in PlanLevels(plan) : k # lvl => x \notin LevelNodes(plan, k)
    BY <1>1, <1>2 DEF WellFormed
  <1>8. EarlierLevelsOk'
    <2> SUFFICES ASSUME NEW k \in 1..(lvl - 1), NEW m \in LevelNodes(plan, k)
                 PROVE  status'[m] = "ok"
      BY DEF EarlierLevelsOk
    <2>1. k \in PlanLevels(plan)
      BY <1>1, PlanLength DEF PlanLevels
    <2>2. m \in Nodes
      BY <1>1, <2>1, LevelNodesAreNodes
    <2> QED
      BY <1>6, <2>2 DEF IInv, EarlierLevelsOk
  <1>9. LaterLevelsIdle'
    <2> SUFFICES ASSUME NEW k \in PlanLevels(plan), k > lvl,
                        NEW m \in LevelNodes(plan, k)
                 PROVE  status'[m] = "idle"
      BY <1>1 DEF LaterLevelsIdle
    <2>1. m \in Nodes
      BY <1>1, LevelNodesAreNodes
    <2>2. k # lvl
      BY <1>1, PlanLength DEF PlanLevels
    <2> QED
      BY <1>5, <1>7, <2>1, <2>2 DEF IInv, LaterLevelsIdle
  <1> QED
    BY <1>2, <1>4, <1>6, <1>8, <1>9

(* The places a batch has passed hold nodes.                               *)
LEMMA PassedNode ==
    ASSUME IInv, main = "collect", NEW h \in Futures, NEW i \in 1..(at[h] - 1)
    PROVE  Batch(h)[i] \in Nodes
  <1>1. lvl \in PlanLevels(plan) /\ h \in 1..Len(plan.batches[lvl]) /\ WellFormed(plan)
    BY DEF IInv, TypeOK, PlanLevels
  <1>2. i \in 1..Len(plan.batches[lvl][h])
    BY <1>1, PlanParts DEF IInv, TypeOK, Batch
  <1> QED
    BY <1>1, <1>2, PlaceNode DEF Batch

LEMMA StartNodeStep == ASSUME IInv, NEW g \in Futures, StartNode(g) PROVE IInv'
  <1>1. ~Completed(g) /\ at[g] <= Len(Batch(g)) /\ status[Batch(g)[at[g]]] = "idle"
    BY DEF StartNode, Completed
  <1>2. /\ UNCHANGED <<plan, policy, fut, at, perNode, lvl, main, seen, hadError,
                       failed, failedLvl>>
        /\ status' = [status EXCEPT ![Batch(g)[at[g]]] = "running"]
    BY DEF StartNode, mainVars
  <1>3. /\ status' \in [Nodes -> NodeStates] /\ EarlierLevelsOk' /\ LaterLevelsIdle'
        /\ \A n \in Nodes : status[n] = "ok" => status'[n] = "ok"
    BY <1>1, <1>2, NodeStepLevels DEF NodeStates
  <1>4. TypeOK'
    BY <1>2, <1>3 DEF IInv, TypeOK, Futures, Batch
  <1>5. BatchProgress'
    <2> SUFFICES ASSUME main = "collect", NEW h \in Futures, NEW i \in 1..(at[h] - 1)
                 PROVE  status'[Batch(h)[i]] = "ok"
      BY <1>2 DEF IInv, BatchProgress, Futures, Batch
    <2>1. Batch(h)[i] \in Nodes
      BY PassedNode
    <2> QED
      BY <1>3, <2>1 DEF IInv, BatchProgress
  <1>6. SeenWithoutError' /\ ErrorsHaveCulprit' /\ DoneMeansOver'
    BY <1>2 DEF IInv, SeenWithoutError, ErrorsHaveCulprit, DoneMeansOver, Futures
  <1>7. QuietBetweenLevels'
    BY <1>2 DEF IInv, QuietBetweenLevels, Completed, Futures
  <1> QED
    BY <1>3, <1>4, <1>5, <1>6, <1>7 DEF IInv

LEMMA NodeOkStep == ASSUME IInv, NEW g \in Futures, NodeOk(g) PROVE IInv'
  <1> DEFINE x == Batch(g)[at[g]]
  <1>1. ~Completed(g) /\ at[g] <= Len(Batch(g)) /\ status[x] = "running"
    BY DEF NodeOk, Completed
  <1>2. /\ UNCHANGED <<plan, policy, lvl, main, seen, hadError, failed, failedLvl>>
        /\ status' = [status EXCEPT ![x] = "ok"]
        /\ perNode' = perNode \union {x}
        /\ at' = [at EXCEPT ![g] = @ + 1]
        /\ fut' = IF at[g] = Len(Batch(g)) THEN [fut EXCEPT ![g] = "ok"] ELSE fut
    BY DEF NodeOk, mainVars
  <1>3. /\ status' \in [Nodes -> NodeStates] /\ EarlierLevelsOk' /\ LaterLevelsIdle'
        /\ \A n \in Nodes : status[n] = "ok" => status'[n] = "ok"
        /\ x \in Nodes
    BY <1>1, <1>2, NodeStepLevels DEF NodeStates
  <1>4. /\ main = "collect" /\ Len(Batch(g)) \in Nat /\ g \notin seen
        /\ at[g] \in 1..(Len(Batch(g)) + 1)
    BY <1>1, CurrentBatch DEF IInv, QuietBetweenLevels
  <1>5. /\ DOMAIN fut' = Futures /\ DOMAIN at' = Futures
        /\ at'[g] = at[g] + 1
        /\ fut'[g] = IF at[g] = Len(Batch(g)) THEN "ok" ELSE "running"
        /\ \A h \in Futures : h # g => fut'[h] = fut[h] /\ at'[h] = at[h]
    BY <1>2 DEF IInv, TypeOK, Futures, NodeOk
  <1>6. TypeOK'
    <2>1. \A h \in Futures : fut'[h] \in FutStates /\ at'[h] \in Nat
      BY <1>4, <1>5 DEF IInv, TypeOK, FutStates
    <2>2. \A h \in Futures : at'[h] \in 1..(Len(Batch(h)) + 1)
      BY <1>1, <1>4, <1>5, SMTT(30) DEF IInv, TypeOK
    <2>3. perNode' \subseteq Nodes
      BY <1>2, <1>3 DEF IInv, TypeOK
    <2> QED
      BY <1>2, <1>3, <1>4, <1>5, <2>1, <2>2, <2>3 DEF IInv, TypeOK, Futures, Batch
  <1>7. BatchProgress'
    <2>1. \A h \in Futures : \A i \in 1..(at'[h] - 1) : status'[Batch(h)[i]] = "ok"
      <3> SUFFICES ASSUME NEW h \in Futures, NEW i \in 1..(at'[h] - 1)
                   PROVE  status'[Batch(h)[i]] = "ok"
        OBVIOUS
      <3>1. CASE i \in 1..(at[h] - 1)
        BY <1>3, <1>4, <3>1, PassedNode DEF IInv, BatchProgress
      <3>2. CASE i \notin 1..(at[h] - 1)
        <4>1. h = g /\ i = at[g]
          BY <1>4, <1>5, <3>2
        <4> QED
          BY <1>2, <1>3, <4>1 DEF IInv, TypeOK
      <3> QED
        BY <3>1, <3>2
    <2>2. \A h \in Futures : /\ fut'[h] = "ok" => at'[h] = Len(Batch(h)) + 1
                             /\ fut'[h] = "error" => at'[h] <= Len(Batch(h))
      BY <1>4, <1>5 DEF IInv, BatchProgress
    <2> QED
      BY <1>2, <1>5, <2>1, <2>2 DEF BatchProgress, Futures, Batch
  <1>8. SeenWithoutError' /\ ErrorsHaveCulprit' /\ DoneMeansOver'
    BY <1>2, <1>4, <1>5
    DEF IInv, TypeOK, SeenWithoutError, ErrorsHaveCulprit, DoneMeansOver, Futures
  <1>9. QuietBetweenLevels'
    BY <1>2, <1>4, <1>5 DEF IInv, TypeOK, QuietBetweenLevels, Completed, Futures
  <1> QED
    BY <1>3, <1>6, <1>7, <1>8, <1>9 DEF IInv

LEMMA NodeFailsStep == ASSUME IInv, NEW g \in Futures, NodeFails(g) PROVE IInv'
  <1> DEFINE x == Batch(g)[at[g]]
  <1>1. ~Completed(g) /\ at[g] <= Len(Batch(g)) /\ status[x] = "running"
    BY DEF NodeFails, Completed
  <1>2. /\ UNCHANGED <<plan, policy, at, lvl, main, seen, hadError, failed, failedLvl>>
        /\ status' = [status EXCEPT ![x] = "failed"]
        /\ perNode' = perNode \union {x}
        /\ fut' = [fut EXCEPT ![g] = "error"]
    BY DEF NodeFails, mainVars
  <1>3. /\ status' \in [Nodes -> NodeStates] /\ EarlierLevelsOk' /\ LaterLevelsIdle'
        /\ \A n \in Nodes : status[n] = "ok" => status'[n] = "ok"
        /\ x \in Nodes
    BY <1>1, <1>2, NodeStepLevels DEF NodeStates
  <1>4. main = "collect" /\ g \notin seen
    BY <1>1, CurrentBatch DEF IInv, QuietBetweenLevels
  <1>5. /\ DOMAIN fut' = Futures /\ fut'[g] = "error"
        /\ \A h \in Futures : h # g => fut'[h] = fut[h]
    BY <1>2 DEF Futures
  <1>6. TypeOK'
    <2>1. \A h \in Futures : fut'[h] \in FutStates
      BY <1>5 DEF IInv, TypeOK, FutStates
    <2> QED
      BY <1>2, <1>3, <1>5, <2>1 DEF IInv, TypeOK, Futures, Batch
  <1>7. BatchProgress'
    <2>1. \A h \in Futures : \A i \in 1..(at[h] - 1) : status'[Batch(h)[i]] = "ok"
      BY <1>3, <1>4, PassedNode DEF IInv, BatchProgress
    <2> QED
      BY <1>1, <1>2, <1>4, <1>5, <2>1 DEF IInv, BatchProgress, Futures, Batch
  <1>8. SeenWithoutError' /\ ErrorsHaveCulprit' /\ DoneMeansOver'
    BY <1>2, <1>4, <1>5
    DEF IInv, TypeOK, SeenWithoutError, ErrorsHaveCulprit, DoneMeansOver, Futures
  <1>9. QuietBetweenLevels'
    BY <1>2, <1>4, <1>5 DEF IInv, TypeOK, QuietBetweenLevels, Completed, Futures
  <1> QED
    BY <1>3, <1>6, <1>7, <1>8, <1>9 DEF IInv

LEMMA UnchangedStep == IInv /\ UNCHANGED vars => IInv'
  BY DEF IInv, TypeOK, EarlierLevelsOk, LaterLevelsIdle, BatchProgress,
         SeenWithoutError, ErrorsHaveCulprit, QuietBetweenLevels, DoneMeansOver,
         Futures, Batch, Completed, vars

LEMMA NextStep == IInv /\ [Next]_vars => IInv'
  <1> SUFFICES ASSUME IInv, [Next]_vars PROVE IInv'
    OBVIOUS
  <1>1. CASE Main
    BY <1>1, EnterStep, CollectStep, EndLevelStep, EndRunStep DEF Main
  <1>2. ASSUME NEW g \in Futures, Worker(g) PROVE IInv'
    BY <1>2, FutureStep, StartNodeStep, NodeOkStep, NodeFailsStep DEF Worker
  <1>3. CASE Terminating \/ UNCHANGED vars
    BY <1>3, UnchangedStep DEF Terminating
  <1> QED
    BY <1>1, <1>2, <1>3 DEF Next

(* The inductive invariant holds in every reachable state of the scheduler. *)
THEOREM Invariance == Spec => []IInv
  <1> QED
    BY InitStep, NextStep, PTL DEF Spec

(* Every variable of run_executor keeps its type, for every plan.          *)
THEOREM TypeCorrect == Spec => []TypeOK
  <1>1. IInv => TypeOK
    BY DEF IInv
  <1> QED
    BY <1>1, Invariance, PTL

LEMMA BarrierFromInv == IInv => LevelBarrier
  <1> SUFFICES ASSUME IInv, NEW l \in PlanLevels(plan), NEW n \in LevelNodes(plan, l),
                      status[n] # "idle", NEW k \in 1..(l - 1),
                      NEW m \in LevelNodes(plan, k)
               PROVE  status[m] = "ok"
    BY DEF LevelBarrier
  <1>1. Len(plan.batches) \in Nat
    BY PlanLength DEF IInv, TypeOK
  <1>2. l <= lvl /\ l \in Nat /\ lvl \in Nat
    BY <1>1 DEF IInv, TypeOK, LaterLevelsIdle, PlanLevels
  <1> QED
    BY <1>2 DEF IInv, EarlierLevelsOk

(* No node of a level starts before every node of every earlier level has  *)
(* succeeded, whatever the policy and the batches (run_executor.schedule). *)
THEOREM Barrier == Spec => []LevelBarrier
  BY BarrierFromInv, Invariance, PTL

LEMMA OrderFromInv == IInv => DependencyOrder
  <1> SUFFICES ASSUME IInv, Layered(plan),
                      NEW l \in PlanLevels(plan), NEW n \in LevelNodes(plan, l),
                      status[n] # "idle", NEW d \in plan.deps[n] \cap PlanNodes(plan)
               PROVE  status[d] = "ok"
    BY DEF DependencyOrder, PlanNodes
  <1>1. PICK k \in 1..(l - 1) : d \in LevelNodes(plan, k)
    BY DEF Layered
  <1> QED
    BY <1>1, BarrierFromInv DEF LevelBarrier

(* "Dependencies are never violated" when the levels are those of          *)
(* dag.levels(): a node starts only after its dependencies have succeeded. *)
THEOREM DependenciesFirst == Spec => []DependencyOrder
  BY OrderFromInv, Invariance, PTL

(* An empty `failed` means that the whole plan was built: run() relies on  *)
(* it before it saves the fingerprints.                                    *)
THEOREM SuccessIsComplete == Spec => []EmptyFailedMeansBuilt
  <1>1. IInv => EmptyFailedMeansBuilt
    <2> SUFFICES ASSUME IInv, main = "done", failed = {}
                 PROVE  /\ failedLvl = {}
                        /\ \A n \in PlanNodes(plan) : status[n] = "ok"
      BY DEF EmptyFailedMeansBuilt
    <2>1. failedLvl = {} /\ ~hadError
      BY DEF IInv, ErrorsHaveCulprit
    <2>2. lvl = Len(plan.batches) + 1 /\ Len(plan.batches) \in Nat
      BY <2>1, PlanLength DEF IInv, TypeOK, DoneMeansOver
    <2> QED
      BY <2>1, <2>2 DEF IInv, EarlierLevelsOk, PlanNodes, PlanLevels
  <1> QED
    BY <1>1, Invariance, PTL

(* A node that has succeeded or failed stays so, a running node never      *)
(* becomes idle again and no outcome is reached without a start: no node   *)
(* is run twice (_group_task).                                             *)
THEOREM FinalOutcomes == Spec => OutcomesAreFinal
  <1> DEFINE Step == \A n \in Nodes :
                       /\ status[n] \in {"ok", "failed"} => status'[n] = status[n]
                       /\ status[n] = "idle" => status'[n] \in {"idle", "running"}
                       /\ status[n] = "running" => status'[n] # "idle"
  <1>1. IInv /\ [Next]_vars => [Step]_vars
    <2> SUFFICES ASSUME IInv, [Next]_vars PROVE Step
      OBVIOUS
    <2>1. status \in [Nodes -> NodeStates]
      BY DEF IInv, TypeOK
    <2>2. CASE UNCHANGED status
      BY <2>2 DEF NodeStates
    <2>3. CASE Main
      BY <2>2, <2>3 DEF Main, Enter, Collect, EndLevel, EndRun, workerVars
    <2>4. ASSUME NEW g \in Futures, Worker(g) PROVE Step
      <3>1. CASE PickUp(g) \/ FinishEmpty(g)
        BY <2>2, <3>1 DEF PickUp, FinishEmpty
      <3>2. CASE StartNode(g)
        BY <2>1, <3>2 DEF StartNode
      <3>3. CASE NodeOk(g)
        BY <2>1, <3>3 DEF NodeOk
      <3>4. CASE NodeFails(g)
        BY <2>1, <3>4 DEF NodeFails
      <3> QED
        BY <2>4, <3>1, <3>2, <3>3, <3>4 DEF Worker
    <2>5. CASE Terminating \/ UNCHANGED vars
      BY <2>2, <2>5 DEF Terminating, vars
    <2> QED
      BY <2>3, <2>4, <2>5 DEF Next
  <1> QED
    BY <1>1, Invariance, PTL DEF Spec, OutcomesAreFinal

LEMMA PlanIsFixed == Spec => [](plan \in Plans)
  <1>1. Init => plan \in Plans
    BY DEF Init
  <1>2. plan \in Plans /\ [Next]_vars => (plan \in Plans)'
    BY DEF Next, Main, Worker, Enter, Collect, EndLevel, EndRun, PickUp,
           FinishEmpty, StartNode, NodeOk, NodeFails, Terminating, vars
  <1> QED
    BY <1>1, <1>2, PTL DEF Spec

(* The scheduler implements DagRun for every set of layered plans: levels, *)
(* batches, pool and policy only ever restrict the order in which the      *)
(* abstract run may start its models.                                      *)
THEOREM ImplementsDagRun ==
    ASSUME \A p \in Plans : Layered(p)
    PROVE  Spec => RefinesDagRun
  <1> DEFINE absDeps == [n \in Nodes |-> plan.deps[n] \cap PlanNodes(plan)]
  <1>1. Init => AbstractRun!Init
    <2> SUFFICES ASSUME Init PROVE AbstractRun!Init
      OBVIOUS
    <2>1. plan.deps \in [Nodes -> SUBSET Nodes]
      BY PlansWellFormed DEF Init, WellFormed
    <2>2. absDeps \in [Nodes -> SUBSET Nodes]
      BY <2>1
    <2> QED
      BY <2>2 DEF Init, AbstractRun!Init
  <1>2. IInv /\ IInv' /\ plan \in Plans /\ [Next]_vars
          => [AbstractRun!Next]_(AbstractRun!vars)
    <2> SUFFICES ASSUME IInv, IInv', plan \in Plans, [Next]_vars
                 PROVE  AbstractRun!Next \/ UNCHANGED AbstractRun!vars
      OBVIOUS
    <2>1. UNCHANGED plan
      BY DEF Next, Main, Worker, Enter, Collect, EndLevel, EndRun, PickUp,
             FinishEmpty, StartNode, NodeOk, NodeFails, Terminating, vars
    <2>2. UNCHANGED absDeps
      BY <2>1
    <2>3. UNCHANGED status => UNCHANGED AbstractRun!vars
      BY <2>2 DEF AbstractRun!vars
    <2>4. CASE Main
      BY <2>3, <2>4 DEF Main, Enter, Collect, EndLevel, EndRun, workerVars
    <2>5. ASSUME NEW g \in Futures, Worker(g)
          PROVE  AbstractRun!Next \/ UNCHANGED AbstractRun!vars
      <3> DEFINE x == Batch(g)[at[g]]
      <3>1. CASE PickUp(g) \/ FinishEmpty(g)
        BY <2>3, <3>1 DEF PickUp, FinishEmpty
      <3>2. ASSUME StartNode(g) \/ NodeOk(g) \/ NodeFails(g)
            PROVE  x \in Nodes /\ x \in PlanNodes(plan)
        <4>1. ~Completed(g) /\ at[g] <= Len(Batch(g))
          BY <3>2 DEF StartNode, NodeOk, NodeFails, Completed
        <4>2. x \in Nodes /\ x \in LevelNodes(plan, lvl) /\ lvl \in PlanLevels(plan)
          BY <4>1, CurrentBatch
        <4> QED
          BY <4>2 DEF PlanNodes
      <3>3. CASE StartNode(g)
        <4>1. /\ status[x] = "idle" /\ x \in Nodes /\ x \in PlanNodes(plan)
              /\ status' = [status EXCEPT ![x] = "running"]
          BY <3>2, <3>3 DEF StartNode
        <4>2. status'[x] = "running"
          BY <4>1 DEF IInv, TypeOK
        <4>3. Layered(plan)' /\ PlanNodes(plan)' = PlanNodes(plan)
          BY <2>1
        <4>4. DependencyOrder'
          BY OrderFromInv, PTL
        <4>5. \A d \in plan.deps[x] \cap PlanNodes(plan) : status'[d] = "ok"
          BY <2>1, <4>1, <4>2, <4>3, <4>4 DEF DependencyOrder
        <4>6. \A d \in absDeps[x] : status[d] = "ok"
          BY <4>1, <4>2, <4>5 DEF IInv, TypeOK
        <4>7. AbstractRun!Start(x)
          BY <2>2, <4>1, <4>6 DEF AbstractRun!Start
        <4> QED
          BY <4>1, <4>7 DEF AbstractRun!Next
      <3>4. CASE NodeOk(g)
        BY <2>2, <3>2, <3>4 DEF NodeOk, AbstractRun!Next, AbstractRun!Finish
      <3>5. CASE NodeFails(g)
        BY <2>2, <3>2, <3>5 DEF NodeFails, AbstractRun!Next, AbstractRun!Finish
      <3> QED
        BY <2>5, <3>1, <3>3, <3>4, <3>5 DEF Worker
    <2>6. CASE Terminating \/ UNCHANGED vars
      BY <2>3, <2>6 DEF Terminating, vars
    <2> QED
      BY <2>4, <2>5, <2>6 DEF Next
  <1> QED
    BY <1>1, <1>2, PlanIsFixed, Invariance, PTL DEF Spec, RefinesDagRun, AbstractRun!Spec

-----------------------------------------------------------------------------
(* What schedule() returns.  While a level is open, and after one that had *)
(* an error, every node that runs or has failed is where its batch stands. *)

LevelOpen == main = "collect" \/ (main = "done" /\ lvl <= Len(plan.batches))

Standing(n, g) == at[g] \in 1..Len(Batch(g)) /\ n = Batch(g)[at[g]]

\* per_node has the nodes that ended, failed the culprits of the errors seen.
Keys ==
    /\ \A n \in Nodes : n \in perNode <=> status[n] \in {"ok", "failed"}
    /\ \A n \in Nodes : n \in failed <=>
         LevelOpen /\ \E g \in seen : fut[g] = "error" /\ n = Culprit(g)

\* A node that runs, or has failed, has a batch that does or has.
Whereabouts ==
    /\ \A n \in Nodes : status[n] = "running" =>
         LevelOpen /\ \E g \in Futures : Standing(n, g) /\ fut[g] = "running"
    /\ \A n \in Nodes : status[n] = "failed" =>
         LevelOpen /\ \E g \in Futures : Standing(n, g) /\ fut[g] = "error"
    /\ LevelOpen => \A g \in Futures : fut[g] = "error" =>
         Standing(Culprit(g), g) /\ status[Culprit(g)] = "failed"

NothingCancelled ==
    policy = "keep_going" => \A g \in Futures : fut[g] \notin {"cancelled", "notified"}

\* How the batches stand when a level with an error has ended.
Halted ==
    main = "done" /\ LevelOpen =>
        /\ Futures = 1..Len(plan.batches[lvl])
        /\ \A g \in Futures :
             /\ \A i \in 1..(at[g] - 1) : status[Batch(g)[i]] = "ok"
             /\ fut[g] = "ok" => at[g] = Len(Batch(g)) + 1

ResultInv == IInv /\ Keys /\ Whereabouts /\ NothingCancelled /\ Halted

LEMMA ResultInit == Init => ResultInv
  <1> SUFFICES ASSUME Init PROVE ResultInv
    OBVIOUS
  <1>1. IInv
    BY InitStep
  <1>2. Len(plan.batches) \in Nat
    BY <1>1, PlanLength DEF IInv, TypeOK
  <1> QED
    BY <1>1, <1>2 DEF Init, ResultInv, Keys, Whereabouts, NothingCancelled, Halted, LevelOpen, Futures

LEMMA ResultEnter == ASSUME ResultInv, Enter PROVE ResultInv'
  <1>1. IInv'
    BY EnterStep DEF ResultInv
  <1>2. ~LevelOpen /\ LevelOpen' /\ main' = "collect"
    BY DEF Enter, LevelOpen
  <1>3. \A g \in Futures' : fut'[g] = "pending"
    BY DEF Enter, Futures
  <1>4. seen' = {} /\ UNCHANGED <<policy, status, perNode, failed>>
    BY DEF Enter
  <1> QED
    BY <1>1, <1>2, <1>3, <1>4 DEF ResultInv, Keys, Whereabouts, NothingCancelled, Halted

LEMMA ResultCollect == ASSUME ResultInv, NEW g \in Futures, Collect(g) PROVE ResultInv'
  <1>1. IInv'
    BY CollectStep DEF ResultInv
  <1>2. /\ main = "collect" /\ main' = "collect" /\ seen' = seen \union {g}
        /\ UNCHANGED <<plan, policy, lvl, at, status, perNode>>
        /\ failed' = IF fut[g] = "error" THEN failed \union {Culprit(g)} ELSE failed
        /\ fut' = fut \/ fut' = AfterError
    BY DEF Collect
  <1>3. /\ Futures' = Futures
        /\ \A h \in Futures : fut'[h] = fut[h]
                              \/ (policy = "fail_fast" /\ fut[h] = "pending" /\ fut'[h] = "cancelled")
    BY <1>2 DEF AfterError, CancelPending, Futures
  <1>4. /\ LevelOpen /\ LevelOpen'
        /\ \A h : Culprit(h)' = Culprit(h)
        /\ \A n, h : Standing(n, h)' <=> Standing(n, h)
    BY <1>2 DEF LevelOpen, Culprit, Standing, Batch
  <1>5. seen \subseteq Futures
    BY DEF ResultInv, IInv, TypeOK
  <1>6. Keys'
    <2>1. \A h \in seen' : fut'[h] = "error" <=> fut[h] = "error"
      BY <1>2, <1>3, <1>5
    <2>2. \A n \in Nodes : n \in failed' <=>
            \/ \E h \in seen : fut[h] = "error" /\ n = Culprit(h)
            \/ fut[g] = "error" /\ n = Culprit(g)
      BY <1>2, <1>4 DEF ResultInv, Keys
    <2>3. \A n \in Nodes : n \in failed' <=> \E h \in seen' : fut'[h] = "error" /\ n = Culprit(h)
      BY <1>2, <2>1, <2>2
    <2>4. \A n \in Nodes : n \in perNode' <=> status'[n] \in {"ok", "failed"}
      BY <1>2 DEF ResultInv, Keys
    <2> QED
      BY <1>4, <2>3, <2>4 DEF Keys
  <1>7. Whereabouts'
    BY <1>2, <1>3, <1>4 DEF ResultInv, Whereabouts
  <1>8. NothingCancelled' /\ Halted'
    BY <1>2, <1>3 DEF ResultInv, NothingCancelled, Halted
  <1> QED
    BY <1>1, <1>6, <1>7, <1>8 DEF ResultInv

LEMMA ResultEndLevel == ASSUME ResultInv, EndLevel PROVE ResultInv'
  <1>1. IInv'
    BY EndLevelStep DEF ResultInv
  <1>2. /\ main = "collect" /\ seen = Futures /\ LevelOpen
        /\ UNCHANGED <<plan, policy, seen, hadError, failed, fut, at, status, perNode>>
    BY DEF EndLevel, workerVars, LevelOpen
  <1>3. lvl <= Len(plan.batches) /\ Futures = 1..Len(plan.batches[lvl]) /\ Futures' = Futures
    BY <1>2 DEF ResultInv, IInv, TypeOK, Futures
  <1>4. CASE hadError
    <2>1. main' = "done" /\ lvl' = lvl /\ LevelOpen'
      BY <1>2, <1>3, <1>4 DEF EndLevel, LevelOpen
    <2>2. /\ \A h : Culprit(h)' = Culprit(h) /\ Batch(h)' = Batch(h)
          /\ \A n, h : Standing(n, h)' <=> Standing(n, h)
      BY <1>2, <2>1 DEF Culprit, Standing, Batch
    <2>3. Halted'
      BY <1>2, <1>3, <2>1, <2>2 DEF Halted, ResultInv, IInv, BatchProgress
    <2> QED
      BY <1>1, <1>2, <1>3, <2>1, <2>2, <2>3 DEF ResultInv, Keys, Whereabouts, NothingCancelled
  <1>5. CASE ~hadError
    <2>1. main' = "enter" /\ ~LevelOpen'
      BY <1>2, <1>5 DEF EndLevel, LevelOpen
    <2>2. \A g \in Futures : fut[g] = "ok"
      BY <1>2, <1>5 DEF ResultInv, IInv, SeenWithoutError
    <2>3. \A n \in Nodes : status[n] \notin {"running", "failed"} /\ n \notin failed
      BY <1>2, <2>2 DEF ResultInv, Keys, Whereabouts
    <2> QED
      BY <1>1, <1>2, <1>3, <2>1, <2>2, <2>3 DEF ResultInv, Keys, Whereabouts, NothingCancelled, Halted
  <1> QED
    BY <1>4, <1>5

LEMMA ResultEndRun == ASSUME ResultInv, EndRun PROVE ResultInv'
  <1>1. IInv'
    BY EndRunStep DEF ResultInv
  <1>2. /\ main = "enter" /\ main' = "done" /\ lvl' = lvl /\ lvl > Len(plan.batches)
        /\ UNCHANGED <<plan, policy, seen, failed, fut, at, status, perNode>>
    BY DEF EndRun, workerVars
  <1>3. lvl \in Nat /\ Len(plan.batches) \in Nat
    BY PlanLength DEF ResultInv, IInv, TypeOK
  <1>4. ~LevelOpen /\ ~LevelOpen'
    BY <1>2, <1>3 DEF LevelOpen
  <1> QED
    BY <1>1, <1>2, <1>4 DEF ResultInv, Keys, Whereabouts, NothingCancelled, Halted, Futures

\* A step of a worker on the batch g that leaves its nodes alone.
LEMMA ResultFuture == ASSUME ResultInv, NEW g \in Futures, PickUp(g) \/ FinishEmpty(g) PROVE ResultInv'
  <1>1. IInv'
    BY FutureStep DEF ResultInv
  <1>2. /\ UNCHANGED <<plan, policy, at, status, perNode, lvl, main, seen, hadError, failed>>
        /\ ~Completed(g) /\ fut' = [fut EXCEPT ![g] = fut'[g]]
        /\ fut'[g] # "error" /\ fut[g] # "error"
        /\ fut'[g] = "notified" => fut[g] = "cancelled"
        /\ fut'[g] # "cancelled"
        /\ fut[g] = "running" => Len(Batch(g)) = 0
    BY DEF PickUp, FinishEmpty, mainVars, Completed, Futures
  <1>3. /\ main = "collect" /\ g \notin seen /\ seen \subseteq Futures
        /\ LevelOpen /\ LevelOpen'
    BY <1>2, CurrentBatch DEF ResultInv, IInv, QuietBetweenLevels, LevelOpen, TypeOK
  <1>4. /\ \A h : Culprit(h)' = Culprit(h)
        /\ \A n, h : Standing(n, h)' <=> Standing(n, h)
        /\ Futures' = Futures /\ \A h \in Futures : h # g => fut'[h] = fut[h]
    BY <1>2 DEF Culprit, Standing, Batch, Futures
  <1>5. Keys'
    BY <1>2, <1>3, <1>4 DEF ResultInv, Keys
  <1>6. Whereabouts'
    <2>1. \A n : Standing(n, g) => fut[g] # "running"
      BY <1>2 DEF Standing
    <2> QED
      BY <1>2, <1>3, <1>4, <2>1 DEF ResultInv, Whereabouts
  <1>7. NothingCancelled' /\ Halted'
    BY <1>2, <1>3, <1>4 DEF ResultInv, NothingCancelled, Halted
  <1> QED
    BY <1>1, <1>5, <1>6, <1>7 DEF ResultInv

\* A step of a worker that moves the node x its batch stands at: other nodes, and the
\* batches they stand in, are as they were.
LEMMA ResultNode ==
    ASSUME ResultInv, NEW g \in Futures, StartNode(g) \/ NodeOk(g) \/ NodeFails(g)
    PROVE  ResultInv'
  <1> DEFINE x == Batch(g)[at[g]]
  <1>1. IInv'
    BY StartNodeStep, NodeOkStep, NodeFailsStep DEF ResultInv
  <1>2. /\ UNCHANGED <<plan, policy, lvl, main, seen, failed>>
        /\ fut[g] = "running" /\ at[g] <= Len(Batch(g)) /\ status[x] \in {"idle", "running"}
        /\ \/ /\ status' = [status EXCEPT ![x] = "running"] /\ UNCHANGED <<fut, at, perNode>>
              /\ status[x] = "idle"
           \/ /\ status' = [status EXCEPT ![x] = "ok"] /\ perNode' = perNode \union {x}
              /\ at' = [at EXCEPT ![g] = @ + 1]
              /\ fut' = [fut EXCEPT ![g] = "ok"] \/ fut' = fut
           \/ /\ status' = [status EXCEPT ![x] = "failed"] /\ perNode' = perNode \union {x}
              /\ at' = at /\ fut' = [fut EXCEPT ![g] = "error"]
    BY DEF StartNode, NodeOk, NodeFails, mainVars
  <1>3. /\ main = "collect" /\ g \notin seen /\ seen \subseteq Futures /\ LevelOpen /\ LevelOpen'
        /\ at[g] \in 1..Len(Batch(g)) /\ x \in Nodes
    BY <1>2, CurrentBatch DEF ResultInv, IInv, QuietBetweenLevels, LevelOpen, TypeOK, Completed
  <1>4. /\ Futures' = Futures /\ status \in [Nodes -> NodeStates]
        /\ DOMAIN at = Futures
        /\ \A h \in Futures : h # g => fut'[h] = fut[h] /\ at'[h] = at[h]
    BY <1>2 DEF Futures, ResultInv, IInv, TypeOK
  <1>5. /\ \A h \in Futures : h # g => Culprit(h)' = Culprit(h)
        /\ \A n, h : h \in Futures /\ h # g => (Standing(n, h)' <=> Standing(n, h))
        /\ \A h : Batch(h)' = Batch(h)
    BY <1>2, <1>4 DEF Culprit, Standing, Batch
  <1>6. \A n \in Nodes : n # x => status'[n] = status[n]
    BY <1>2, <1>4
  <1>7. Keys'
    <2>1. \A n \in Nodes : n \in perNode' <=> status'[n] \in {"ok", "failed"}
      BY <1>2, <1>3, <1>4, <1>6 DEF ResultInv, Keys
    <2>2. \A n \in Nodes : n \in failed' <=> \E h \in seen' : fut'[h] = "error" /\ n = Culprit(h)'
      BY <1>2, <1>3, <1>4, <1>5 DEF ResultInv, Keys
    <2> QED
      BY <1>3, <2>1, <2>2 DEF Keys
  <1>8. /\ status'[x] = "running" => at' = at /\ fut'[g] = "running"
        /\ status'[x] = "failed" => at' = at /\ fut'[g] = "error"
        /\ fut'[g] = "error" => at' = at /\ status'[x] = "failed"
        /\ fut'[g] \notin {"cancelled", "notified"}
    BY <1>2, <1>3, <1>4 DEF Futures
  <1>9. Whereabouts'
    <2>1. \A n \in Nodes : n # x => ~Standing(n, g)
      BY DEF Standing
    <2>2. ASSUME NEW n \in Nodes, status'[n] = "running"
          PROVE  \E h \in Futures' : Standing(n, h)' /\ fut'[h] = "running"
      <3>1. CASE n = x
        <4>1. at' = at /\ fut'[g] = "running"
          BY <1>8, <2>2, <3>1
        <4>2. Standing(n, g)'
          BY <1>3, <1>5, <3>1, <4>1 DEF Standing
        <4> QED
          BY <1>4, <4>1, <4>2
      <3>2. CASE n # x
        BY <1>4, <1>5, <1>6, <2>1, <2>2, <3>2 DEF ResultInv, Whereabouts
      <3> QED
        BY <3>1, <3>2
    <2>3. ASSUME NEW n \in Nodes, status'[n] = "failed"
          PROVE  \E h \in Futures' : Standing(n, h)' /\ fut'[h] = "error"
      <3>1. CASE n = x
        <4>1. at' = at /\ fut'[g] = "error"
          BY <1>8, <2>3, <3>1
        <4>2. Standing(n, g)'
          BY <1>3, <1>5, <3>1, <4>1 DEF Standing
        <4> QED
          BY <1>4, <4>1, <4>2
      <3>2. CASE n # x
        BY <1>4, <1>5, <1>6, <2>1, <2>3, <3>2 DEF ResultInv, Whereabouts
      <3> QED
        BY <3>1, <3>2
    <2>4. ASSUME NEW h \in Futures, fut'[h] = "error"
          PROVE  Standing(Culprit(h), h)' /\ (status[Culprit(h)])' = "failed"
      <3>1. CASE h # g
        <4>1. Standing(Culprit(h), h) /\ status[Culprit(h)] = "failed"
          BY <1>3, <1>4, <2>4, <3>1 DEF ResultInv, Whereabouts
        <4>2. Culprit(h) # x
          BY <1>2, <4>1
        <4>3. Culprit(h) \in Nodes
          <5>1. WellFormed(plan) /\ lvl \in PlanLevels(plan) /\ Futures = 1..Len(plan.batches[lvl])
            BY <1>3 DEF ResultInv, IInv, TypeOK, PlanLevels
          <5>2. h \in 1..Len(plan.batches[lvl]) /\ at[h] \in 1..Len(plan.batches[lvl][h])
            BY <4>1, <5>1 DEF Standing, Batch
          <5>3. plan.batches[lvl][h][at[h]] \in Nodes
            BY <5>1, <5>2, PlaceNode
          <5> QED
            BY <5>3 DEF Culprit, Batch
        <4>4. Culprit(h)' = Culprit(h) /\ status'[Culprit(h)] = "failed"
          BY <1>5, <1>6, <3>1, <4>1, <4>2, <4>3
        <4>5. at'[h] = at[h] /\ Batch(h)' = Batch(h)
          BY <1>4, <1>5, <3>1
        <4> QED
          BY <4>1, <4>4, <4>5 DEF Standing
      <3>2. CASE h = g
        <4>1. at' = at /\ status'[x] = "failed"
          BY <1>8, <2>4, <3>2
        <4>2. Culprit(g)' = x /\ at'[g] \in 1..Len(Batch(g)')
          BY <1>3, <1>5, <4>1 DEF Culprit
        <4> QED
          BY <3>2, <4>1, <4>2 DEF Standing, Culprit
      <3> QED
        BY <3>1, <3>2
    <2> QED
      BY <1>3, <1>4, <2>2, <2>3, <2>4 DEF Whereabouts
  <1>10. NothingCancelled'
    BY <1>2, <1>4, <1>8 DEF ResultInv, NothingCancelled
  <1>11. Halted'
    BY <1>2, <1>3 DEF Halted
  <1> QED
    BY <1>1, <1>7, <1>9, <1>10, <1>11 DEF ResultInv

LEMMA ResultStep == ResultInv /\ [Next]_vars => ResultInv'
  <1>1. ASSUME ResultInv, UNCHANGED vars PROVE ResultInv'
    <2>1. IInv'
      BY <1>1, UnchangedStep DEF ResultInv
    <2> QED
      BY <1>1, <2>1 DEF ResultInv, Keys, Whereabouts, NothingCancelled, Halted, LevelOpen, Standing,
                        Culprit, Batch, Futures, vars
  <1> QED
    BY <1>1, ResultEnter, ResultCollect, ResultEndLevel, ResultEndRun, ResultFuture, ResultNode
    DEF Next, Main, Worker, Terminating

(* What schedule() returns is what has happened: nothing still runs, every *)
(* node is accounted for, and only what the policy allows was left out.    *)
THEOREM ResultIsTrue == Spec => []ResultTellsWhatRan
  <1>1. ASSUME ResultInv, main = "done"
        PROVE  \A g \in Futures : g \in seen /\ fut[g] \in {"notified", "ok", "error"}
    BY <1>1 DEF ResultInv, IInv, QuietBetweenLevels, Completed
  <1>2. ASSUME ResultInv PROVE ResultIsComplete
    <2> SUFFICES ASSUME main = "done"
                 PROVE  /\ \A n \in Nodes : status[n] # "running"
                        /\ failed = {n \in Nodes : status[n] = "failed"}
                        /\ perNode = {n \in Nodes : status[n] # "idle"}
      BY DEF ResultIsComplete
    <2>1. \A n \in Nodes : status[n] # "running"
      BY <1>1, <1>2 DEF ResultInv, Whereabouts
    <2>2. failed \subseteq Nodes /\ perNode \subseteq Nodes /\ status \in [Nodes -> NodeStates]
          /\ seen \subseteq Futures
      BY <1>2 DEF ResultInv, IInv, TypeOK
    <2>3. ASSUME NEW n \in Nodes, n \in failed PROVE status[n] = "failed"
      <3>1. PICK g \in seen : fut[g] = "error" /\ n = Culprit(g)
        BY <1>2, <2>3 DEF ResultInv, Keys
      <3>2. LevelOpen /\ g \in Futures
        BY <1>2, <2>2, <2>3 DEF ResultInv, Keys
      <3> QED
        BY <1>2, <3>1, <3>2 DEF ResultInv, Whereabouts
    <2>4. ASSUME NEW n \in Nodes, status[n] = "failed" PROVE n \in failed
      <3>1. PICK g \in Futures : Standing(n, g) /\ fut[g] = "error"
        BY <1>2, <2>4 DEF ResultInv, Whereabouts
      <3>2. LevelOpen /\ g \in seen /\ n = Culprit(g)
        BY <1>1, <1>2, <2>4, <3>1 DEF ResultInv, Whereabouts, Standing, Culprit
      <3> QED
        BY <1>2, <3>1, <3>2 DEF ResultInv, Keys
    <2>5. \A n \in Nodes : n \in perNode <=> status[n] # "idle"
      BY <1>2, <2>1, <2>2 DEF ResultInv, Keys, NodeStates
    <2> QED
      BY <2>1, <2>2, <2>3, <2>4, <2>5
  <1>3. ResultInv => SyntheticKeyNeedsFailure
    BY DEF ResultInv, IInv, ErrorsHaveCulprit, SyntheticKeyNeedsFailure
  <1>4. ASSUME ResultInv PROVE KeepGoingOnlySkipsBehindFailure
    <2> SUFFICES ASSUME main = "done", policy = "keep_going", lvl <= Len(plan.batches),
                        NEW g \in 1..Len(plan.batches[lvl]), NEW i \in 1..Len(plan.batches[lvl][g]),
                        status[plan.batches[lvl][g][i]] = "idle"
                 PROVE  \E j \in 1..(i - 1) : status[plan.batches[lvl][g][j]] = "failed"
      <3>1. \A pl \in Places(plan, lvl) :
              pl[1] \in 1..Len(plan.batches[lvl]) /\ pl[2] \in 1..Len(plan.batches[lvl][pl[1]])
        BY DEF Places
      <3> QED
        BY <3>1 DEF KeepGoingOnlySkipsBehindFailure
    <2>1. LevelOpen /\ g \in Futures
      BY <1>4 DEF LevelOpen, ResultInv, Halted
    <2>2. /\ \A k \in 1..(at[g] - 1) : status[Batch(g)[k]] = "ok"
          /\ fut[g] = "ok" => at[g] = Len(Batch(g)) + 1
          /\ at[g] \in Nat
      BY <1>4, <2>1 DEF ResultInv, Halted, IInv, TypeOK
    <2>3. fut[g] = "ok" \/ fut[g] = "error"
      BY <1>1, <1>4, <2>1 DEF ResultInv, NothingCancelled
    <2>4. lvl \in PlanLevels(plan) /\ Len(Batch(g)) \in Nat /\ i \in Nat /\ 1 <= i
      BY <1>4, PlanParts DEF ResultInv, IInv, TypeOK, PlanLevels, Batch
    <2>5. fut[g] # "ok"
      <3>1. Batch(g)[i] = plan.batches[lvl][g][i] /\ i <= Len(Batch(g))
        BY DEF Batch
      <3>2. SUFFICES ASSUME at[g] = Len(Batch(g)) + 1 PROVE FALSE
        BY <2>2
      <3>3. i \in 1..(at[g] - 1)
        BY <2>4, <3>1, <3>2
      <3>4. status[Batch(g)[i]] = "ok"
        BY <2>2, <3>3
      <3> QED
        BY <3>1, <3>4
    <2>6. at[g] \in 1..Len(Batch(g)) /\ status[Batch(g)[at[g]]] = "failed"
      BY <1>4, <2>1, <2>3, <2>5 DEF ResultInv, Whereabouts, Standing, Culprit
    <2>7. at[g] < i
      BY <2>2, <2>4, <2>6, SMTT(30) DEF Batch
    <2> QED
      BY <2>4, <2>6, <2>7 DEF Batch
  <1>5. ResultInv => ResultTellsWhatRan
    BY <1>2, <1>3, <1>4 DEF ResultTellsWhatRan
  <1> QED
    BY <1>5, ResultInit, ResultStep, PTL DEF Spec

-----------------------------------------------------------------------------
(* Planning: loops and their invariants.                                   *)

\* A nonempty set of naturals has a least member.
LEMMA Least ==
  ASSUME NEW T \in SUBSET Nat, T # {}
  PROVE  \E m \in T : \A k \in T : m <= k
  <1> DEFINE R == {ss \in Nat \X Nat : ss[1] < ss[2]}
  <1>1. IsWellFoundedOn(R, Nat)
    BY NatLessThanWellFounded DEF OpToRel
  <1> HIDE DEF R
  <1>2. PICK x \in T : \A y \in T : ~ (<<y, x>> \in R)
    BY <1>1, WFMin
  <1>3. ASSUME NEW k \in T PROVE x <= k
    <2>1. <<k, x>> \notin R
      BY <1>2
    <2>2. <<k, x>> \in Nat \X Nat
      OBVIOUS
    <2>3. ~ (k < x)
      BY <2>1, <2>2 DEF R
    <2> QED BY <2>3
  <1> QED BY <1>3

\* Induction on the naturals, over a set.
LEMMA NatSetInduction ==
  ASSUME NEW S, 0 \in S, \A n \in Nat : n \in S => n + 1 \in S
  PROVE  Nat \subseteq S
  <1> SUFFICES ASSUME NEW n0 \in Nat, n0 \notin S PROVE FALSE
    OBVIOUS
  <1>1. PICK m \in Nat \ S : \A k \in Nat \ S : m <= k
    BY Least
  <1>2. m # 0 /\ m - 1 \in Nat /\ m - 1 \in S
    BY <1>1
  <1> QED BY <1>2, <1>1

\* A function of A into itself can be applied any number of times.
LEMMA Iterates ==
  ASSUME NEW A, NEW a \in A, NEW G \in [A -> A]
  PROVE  \E f \in [Nat -> A] : f[0] = a /\ \A n \in Nat : f[n + 1] = G[f[n]]
  <1> DEFINE Start(n, g) == g \in [0..n -> A] /\ g[0] = a /\ \A i \in 0..n : i < n => g[i + 1] = G[g[i]]
             Some == {n \in Nat : \E g \in [0..n -> A] : Start(n, g)}
             Same == {n \in Nat : \A k, l \in Nat : \A g \in [0..k -> A], h \in [0..l -> A] :
                        Start(k, g) /\ Start(l, h) /\ n <= k /\ n <= l => g[n] = h[n]}
  <1>1. Nat \subseteq Some
    <2>1. 0 \in Some
      <3>1. Start(0, [i \in 0..0 |-> a])
        OBVIOUS
      <3> QED BY <3>1
    <2>2. ASSUME NEW n \in Nat, n \in Some PROVE n + 1 \in Some
      <3>1. PICK g \in [0..n -> A] : Start(n, g)
        BY <2>2
      <3> DEFINE h == [i \in 0..(n + 1) |-> IF i = n + 1 THEN G[g[n]] ELSE g[i]]
      <3>2. Start(n + 1, h)
        BY <3>1
      <3> QED BY <3>2
    <2> HIDE DEF Some
    <2> QED BY <2>1, <2>2, NatSetInduction
  <1>2. Nat \subseteq Same
    <2>1. 0 \in Same
      OBVIOUS
    <2>2. ASSUME NEW n \in Nat, n \in Same PROVE n + 1 \in Same
      <3>1. ASSUME NEW k \in Nat, NEW l \in Nat, NEW g \in [0..k -> A], NEW h \in [0..l -> A],
                   Start(k, g), Start(l, h), n + 1 <= k, n + 1 <= l
            PROVE  g[n + 1] = h[n + 1]
        <4>1. n <= k /\ n <= l /\ n \in 0..k /\ n \in 0..l /\ n < k /\ n < l
          BY <3>1
        <4> HIDE DEF Start
        <4>2. g[n] = h[n]
          BY <2>2, <3>1, <4>1
        <4> USE DEF Start
        <4>3. g[n + 1] = G[g[n]] /\ h[n + 1] = G[h[n]]
          BY <3>1, <4>1
        <4> QED BY <4>2, <4>3
      <3> HIDE DEF Start
      <3> QED BY <3>1
    <2> HIDE DEF Same
    <2> QED BY <2>1, <2>2, NatSetInduction
  <1> DEFINE part(n) == CHOOSE g \in [0..n -> A] : Start(n, g)
             f == [n \in Nat |-> part(n)[n]]
  <1>3. \A n \in Nat : part(n) \in [0..n -> A] /\ Start(n, part(n))
    BY <1>1
  <1> HIDE DEF part
  <1>4. f \in [Nat -> A] /\ f[0] = a
    BY <1>3
  <1>5. ASSUME NEW n \in Nat PROVE f[n + 1] = G[f[n]]
    <2>1. part(n)[n] = part(n + 1)[n]
      <3>1. n \in Same
        BY <1>2
      <3>2. Start(n, part(n)) /\ Start(n + 1, part(n + 1))
            /\ part(n) \in [0..n -> A] /\ part(n + 1) \in [0..(n + 1) -> A]
        BY <1>3
      <3>3. n <= n /\ n <= n + 1 /\ n + 1 \in Nat
        OBVIOUS
      <3> HIDE DEF Start
      <3> QED BY <3>1, <3>2, <3>3
    <2>2. part(n + 1)[n + 1] = G[part(n + 1)[n]]
      <3>2. Start(n + 1, part(n + 1))
        BY <1>3
      <3> QED BY <3>2
    <2> QED BY <2>1, <2>2
  <1> QED BY <1>4, <1>5

\* The turns of a loop are the iterates of its body.
LEMMA TurnsOf ==
  ASSUME NEW A, NEW body \in [A -> A], NEW start \in A
  PROVE  /\ Turns(body, start, 0) = start
         /\ \A k \in Nat : Turns(body, start, k) \in A /\ Turns(body, start, k + 1) = body[Turns(body, start, k)]
  <1> DEFINE run[i \in Nat] == IF i = 0 THEN start ELSE body[run[i - 1]]
  <1>1. PICK f \in [Nat -> A] : f[0] = start /\ \A n \in Nat : f[n + 1] = body[f[n]]
    BY Iterates
  <1>2. f = [i \in Nat |-> IF i = 0 THEN start ELSE body[f[i - 1]]]
    <2>1. ASSUME NEW i \in Nat PROVE f[i] = IF i = 0 THEN start ELSE body[f[i - 1]]
      <3>1. CASE i = 0
        BY <1>1, <3>1
      <3>2. CASE i # 0
        <4>1. i - 1 \in Nat /\ (i - 1) + 1 = i
          BY <3>2
        <4> QED BY <1>1, <3>2, <4>1
      <3> QED BY <3>1, <3>2
    <2>2. f = [i \in Nat |-> f[i]]
      BY <1>1
    <2> QED BY <2>1, <2>2
  <1>3. run = CHOOSE g : g = [i \in Nat |-> IF i = 0 THEN start ELSE body[g[i - 1]]]
    BY Zenon
  <1>4. run = [i \in Nat |-> IF i = 0 THEN start ELSE body[run[i - 1]]]
    BY <1>2, <1>3, Zenon
  <1>5. \A k : Turns(body, start, k) = run[k]
    BY Zenon DEF Turns
  <1> HIDE DEF run
  <1>6. run[0] = start
    BY <1>4
  <1>7. \A k \in Nat : run[k + 1] = body[run[k]]
    <2> TAKE k \in Nat
    <2>1. k + 1 \in Nat /\ k + 1 # 0 /\ (k + 1) - 1 = k
      OBVIOUS
    <2> QED BY <1>4, <2>1
  <1>8. Nat \subseteq {k \in Nat : run[k] \in A}
    <2>1. 0 \in {k \in Nat : run[k] \in A}
      BY <1>6
    <2>2. \A n \in Nat : n \in {k \in Nat : run[k] \in A} => n + 1 \in {k \in Nat : run[k] \in A}
      BY <1>7
    <2> QED BY <2>1, <2>2, NatSetInduction
  <1> QED BY <1>5, <1>6, <1>7, <1>8

\* A property of the states of a loop that holds at its start and survives a turn.
LEMMA Invariantly ==
  ASSUME NEW A, NEW body \in [A -> A], NEW start \in A, NEW I,
         start \in I, \A s \in A : s \in I => body[s] \in I,
         NEW k \in Nat
  PROVE  Turns(body, start, k) \in A \cap I
  <1> DEFINE Good == {n \in Nat : Turns(body, start, n) \in I}
  <1>1. 0 \in Good
    BY TurnsOf
  <1>2. ASSUME NEW n \in Nat, n \in Good PROVE n + 1 \in Good
    BY <1>2, TurnsOf
  <1> HIDE DEF Good
  <1>3. k \in Good
    BY <1>1, <1>2, NatSetInduction
  <1> QED BY <1>3, TurnsOf DEF Good

\* The worklist marks what it started from and whatever is next to what it serves, and
\* nothing that a set with these two properties can do without.
Serves(S, out, frontier, next) ==
    out \subseteq S /\ \A n \in frontier \union (S \ out) : next[n] \subseteq S

\* Bounded by the number of nodes, the worklist loop computes that least set.
LEMMA WorklistCloses ==
  ASSUME NEW N, IsFiniteSet(N), NEW out \in SUBSET N, NEW frontier \in SUBSET out, NEW next \in [N -> SUBSET N]
  PROVE  /\ Worklist(N, out, frontier, next) \subseteq N
         /\ Serves(Worklist(N, out, frontier, next), out, frontier, next)
         /\ \A S \in SUBSET N : Serves(S, out, frontier, next) => Worklist(N, out, frontier, next) \subseteq S
  <1> DEFINE A == [out : SUBSET N, frontier : SUBSET N]
             body == [s \in A |-> LET new == (UNION {next[n] : n \in s.frontier}) \ s.out
                                  IN  [out |-> s.out \union new, frontier |-> new]]
             start == [out |-> out, frontier |-> frontier]
             turn(k) == Turns(body, start, k)
             R == Worklist(N, out, frontier, next)
             new(s) == (UNION {next[n] : n \in s.frontier}) \ s.out
             size == Cardinality(N)
  <1>1. start \in A
    OBVIOUS
  <1>2. \A s \in A : body[s] = [out |-> s.out \union new(s), frontier |-> new(s)]
    OBVIOUS
  <1>3. body \in [A -> A]
    OBVIOUS
  <1>4. R = turn(size).out /\ size \in Nat
    BY FS_CardinalityType DEF Worklist
  <1> DEFINE Half(s) == /\ out \subseteq s.out /\ s.frontier \subseteq s.out
                        /\ \A n \in (frontier \union (s.out \ out)) \ s.frontier : next[n] \subseteq s.out
                        /\ \A S \in SUBSET N : Serves(S, out, frontier, next) => s.out \subseteq S /\ s.frontier \subseteq frontier \union (S \ out)
             I == {s \in A : Half(s)}
  <1>5. start \in I
    BY <1>1 DEF Serves
  <1>6. ASSUME NEW s \in A, s \in I PROVE body[s] \in I
    <2> DEFINE t == [out |-> s.out \union new(s), frontier |-> new(s)]
    <2>1. t \in A /\ t.out = s.out \union new(s) /\ t.frontier = new(s)
      BY <1>2, <1>3
    <2>2. \A n \in s.frontier : next[n] \subseteq t.out
      BY <2>1
    <2>3. \A n \in (frontier \union (t.out \ out)) \ t.frontier : next[n] \subseteq t.out
      BY <1>6, <2>1, <2>2
    <2>4. ASSUME NEW S \in SUBSET N, Serves(S, out, frontier, next)
          PROVE  t.out \subseteq S /\ t.frontier \subseteq frontier \union (S \ out)
      <3>1. s.out \subseteq S /\ s.frontier \subseteq frontier \union (S \ out) /\ out \subseteq s.out
        BY <1>6, <2>4
      <3>2. \A n \in s.frontier : next[n] \subseteq S
        BY <3>1, <2>4 DEF Serves
      <3>3. new(s) \subseteq S
        BY <3>2
      <3> QED BY <2>1, <3>1, <3>3
    <2>5. Half(t)
      <3>1. out \subseteq t.out /\ t.frontier \subseteq t.out
        BY <1>6, <2>1
      <3> HIDE DEF t
      <3> QED BY <2>3, <2>4, <3>1
    <2> HIDE DEF Half, A
    <2> QED BY <1>2, <2>1, <2>5
  <1> HIDE DEF I, A, body, start, turn
  <1>7. \A k \in Nat : turn(k) \in I
    BY <1>1, <1>3, <1>5, <1>6, Invariantly DEF turn
  <1> DEFINE Big(s, k) == s.frontier # {} => Cardinality(s.out) >= k + 1
             Grown == {k \in Nat : Big(turn(k), k)}
  <1>8. 0 \in Grown
    <2>1. turn(0) = start
      BY <1>1, <1>3, TurnsOf DEF turn
    <2>2. frontier # {} => Cardinality(out) >= 1
      <3>1. IsFiniteSet(out)
        BY FS_Subset
      <3> QED BY <3>1, FS_EmptySet, FS_CardinalityType
    <2> QED BY <2>1, <2>2 DEF start
  <1>9. ASSUME NEW k \in Nat, k \in Grown PROVE k + 1 \in Grown
    <2> DEFINE s == turn(k)
               t == turn(k + 1)
    <2>1. t = [out |-> s.out \union new(s), frontier |-> new(s)] /\ s \in A
      <3>1. s \in A /\ t = body[s]
        BY <1>1, <1>3, TurnsOf DEF turn
      <3> HIDE DEF s, t
      <3> QED BY <1>2, <3>1
    <2>2. SUFFICES ASSUME new(s) # {} PROVE Cardinality(t.out) >= (k + 1) + 1
      BY <2>1
    <2>3. s.frontier # {}
      BY <2>2
    <2>4. Cardinality(s.out) >= k + 1
      BY <1>9, <2>3
    <2>5. t.out \subseteq N
      BY <2>1 DEF A
    <2>6. PICK x \in new(s) : x \notin s.out
      BY <2>2
    <2>7. s.out \union {x} \subseteq t.out
      BY <2>1, <2>6
    <2>8. IsFiniteSet(t.out) /\ IsFiniteSet(s.out)
      BY <2>5, <2>7, FS_Subset
    <2>9. Cardinality(s.out \union {x}) = Cardinality(s.out) + 1
      BY <2>6, <2>8, FS_AddElement
    <2>10. Cardinality(s.out \union {x}) <= Cardinality(t.out)
      BY <2>7, <2>8, FS_Subset
    <2> HIDE DEF s, t, new
    <2> QED BY <2>4, <2>8, <2>9, <2>10, FS_CardinalityType
  <1> HIDE DEF Grown
  <1>10. turn(size).frontier = {}
    <2>1. turn(size).frontier # {} => Cardinality(turn(size).out) >= size + 1
      BY <1>4, <1>8, <1>9, NatSetInduction DEF Grown
    <2>2. turn(size).out \subseteq N
      BY <1>4, <1>7 DEF I, A
    <2>3. Cardinality(turn(size).out) <= size
      BY <2>2, FS_Subset
    <2>4. Cardinality(turn(size).out) \in Nat
      BY <2>2, FS_Subset, FS_CardinalityType
    <2> QED BY <1>4, <2>1, <2>3, <2>4
  <1>11. turn(size) \in I
    BY <1>4, <1>7
  <1>12. R \subseteq N /\ Serves(R, out, frontier, next)
    BY <1>4, <1>10, <1>11 DEF I, A, Serves
  <1>13. \A S \in SUBSET N : Serves(S, out, frontier, next) => R \subseteq S
    BY <1>4, <1>11 DEF I
  <1> QED BY <1>12, <1>13

-----------------------------------------------------------------------------
(* Sorted.                                                                 *)

Increasing(s) == \A i, j \in DOMAIN s : i < j => s[i] < s[j]

\* A finite set of naturals can be listed in one increasing order.
LEMMA SortedExists ==
  ASSUME NEW S \in SUBSET Nat, IsFiniteSet(S)
  PROVE  \E s \in SetToSeqs(S) : Increasing(s)
  <1> DEFINE Lists(T) == \E s \in SetToSeqs(T) : Increasing(s)
             Sizes == {n \in Nat : \A T \in SUBSET Nat : IsFiniteSet(T) /\ Cardinality(T) = n => Lists(T)}
  <1>1. 0 \in Sizes
    <2> SUFFICES ASSUME NEW T \in SUBSET Nat, IsFiniteSet(T), Cardinality(T) = 0 PROVE Lists(T)
      OBVIOUS
    <2> DEFINE s == [i \in 1..0 |-> 0]
    <2>1. s \in SetToSeqs(T) /\ Increasing(s)
      BY DEF SetToSeqs, Increasing
    <2> QED BY <2>1
  <1>2. ASSUME NEW n \in Nat, n \in Sizes PROVE n + 1 \in Sizes
    <2> SUFFICES ASSUME NEW T \in SUBSET Nat, IsFiniteSet(T), Cardinality(T) = n + 1 PROVE Lists(T)
      OBVIOUS
    <2>1. PICK m \in T : \A k \in T : m <= k
      <3>1. T # {}
        BY FS_EmptySet
      <3> QED BY <3>1, Least
    <2> DEFINE rest == T \ {m}
    <2>2. IsFiniteSet(rest) /\ Cardinality(rest) = n
      <3>1. IsFiniteSet(T \ {m}) /\ Cardinality(T \ {m}) = Cardinality(T) - 1
        BY FS_RemoveElement, Zenon
      <3> QED BY <3>1
    <2>3. PICK r \in SetToSeqs(rest) : Increasing(r)
      BY <1>2, <2>2
    <2>4. r \in [1..n -> rest] /\ \A i, j \in 1..n : i # j => r[i] # r[j]
      BY <2>2, <2>3 DEF SetToSeqs
    <2> DEFINE s == [i \in 1..(n + 1) |-> IF i = 1 THEN m ELSE r[i - 1]]
    <2>5. \A i \in 1..(n + 1) : i = 1 \/ i - 1 \in 1..n
      OBVIOUS
    <2>6. s \in [1..(n + 1) -> T]
      BY <2>1, <2>4, <2>5
    <2>7. \A i, j \in 1..(n + 1) : i < j => s[i] < s[j]
      <3> SUFFICES ASSUME NEW i \in 1..(n + 1), NEW j \in 1..(n + 1), i < j PROVE s[i] < s[j]
        OBVIOUS
      <3>1. j - 1 \in 1..n /\ s[j] = r[j - 1] /\ r[j - 1] \in rest
        BY <2>4
      <3>2. CASE i = 1
        <4>1. s[i] = m
          BY <3>2
        <4>2. r[j - 1] \in T /\ r[j - 1] # m /\ T \subseteq Nat
          BY <3>1
        <4>3. m <= r[j - 1]
          BY <2>1, <4>2
        <4>4. m < r[j - 1]
          <5>1. m \in Nat /\ r[j - 1] \in Nat
            BY <4>2
          <5> QED BY <4>2, <4>3, <5>1
        <4> HIDE DEF s
        <4> QED BY <3>1, <4>1, <4>4
      <3>3. CASE i # 1
        <4>1. i - 1 \in 1..n /\ s[i] = r[i - 1] /\ i - 1 < j - 1
          BY <3>3
        <4> QED BY <2>3, <2>4, <3>1, <4>1 DEF Increasing
      <3> QED BY <3>2, <3>3
    <2>8. \A i, j \in 1..(n + 1) : i # j => s[i] # s[j]
      <3>1. \A i \in 1..(n + 1) : s[i] \in Nat
        BY <2>6
      <3> HIDE DEF s
      <3> QED BY <2>7, <3>1
    <2>9. DOMAIN s = 1..(n + 1)
      OBVIOUS
    <2> HIDE DEF s
    <2>10. s \in SetToSeqs(T) /\ Increasing(s)
      BY <2>6, <2>7, <2>8, <2>9 DEF SetToSeqs, Increasing
    <2> QED BY <2>10
  <1> HIDE DEF Sizes, Lists
  <1>3. Cardinality(S) \in Sizes
    BY <1>1, <1>2, NatSetInduction, FS_CardinalityType
  <1> QED BY <1>3 DEF Sizes, Lists

\* Sorted lists every member once, in that order.
LEMMA SortedLists ==
  ASSUME NEW S \in SUBSET Nat, IsFiniteSet(S)
  PROVE  /\ Sorted(S) \in [1..Cardinality(S) -> S] /\ ToSet(Sorted(S)) = S
         /\ \A i, j \in 1..Cardinality(S) : Sorted(S)[i] = Sorted(S)[j] => i = j
         /\ Increasing(Sorted(S))
  <1> DEFINE s == Sorted(S)
             n == Cardinality(S)
  <1>1. s \in SetToSeqs(S) /\ Increasing(s)
    BY SortedExists DEF Sorted, Increasing
  <1>2. s \in [1..n -> S] /\ \A i, j \in 1..n : s[i] = s[j] => i = j
    BY <1>1 DEF SetToSeqs
  <1>3. n \in Nat
    BY FS_CardinalityType
  <1>4. s \in Injection(1..n, S)
    BY <1>2 DEF Injection, IsInjective
  <1>5. Cardinality(1..n) = n
    BY <1>3, FS_Interval
  <1>6. s \in Surjection(1..n, S)
    BY <1>4, <1>5, FS_Injection
  <1>7. ToSet(s) = S
    <2> HIDE DEF s, n
    <2>1. DOMAIN s = 1..n
      BY <1>2
    <2>2. ToSet(s) \subseteq S
      BY <1>2, <2>1 DEF ToSet
    <2>3. S \subseteq ToSet(s)
      BY <1>6, <2>1 DEF Surjection, ToSet
    <2> QED BY <2>2, <2>3
  <1> HIDE DEF s
  <1> QED BY <1>1, <1>2, <1>7 DEF s

-----------------------------------------------------------------------------
(* Selection.                                                              *)

\* Dependency at a distance contains deps and is closed under a step at either end.
LEMMA DependsOnSteps ==
  ASSUME deps \in [RegistryNodes -> SUBSET RegistryNodes], NEW n \in RegistryNodes
  PROVE  /\ \A m \in deps[n] : DependsOn(n, m)
         /\ \A m \in RegistryNodes : \A d \in deps[m] : DependsOn(n, m) => DependsOn(n, d)
         /\ \A m \in deps[n] : \A d : DependsOn(m, d) => DependsOn(n, d)
  BY DEF DependsOn, Closed

\* What --exclude takes away.
Removed == exclude \union Downstream(exclude)

\* It is what the walk down from the excluded nodes finds.
LEMMA RemovedIsDownstream ==
  ASSUME deps \in [RegistryNodes -> SUBSET RegistryNodes], exclude \subseteq RegistryNodes
  PROVE  DownstreamClosure(RegistryNodes, deps, exclude) = Removed
  <1> DEFINE R == DownstreamClosure(RegistryNodes, deps, exclude)
             next == Dependents(RegistryNodes, deps)
  <1>1. next \in [RegistryNodes -> SUBSET RegistryNodes]
    BY DEF Dependents
  <1>2. /\ R \subseteq RegistryNodes /\ exclude \subseteq R /\ \A n \in R : next[n] \subseteq R
        /\ \A S \in SUBSET RegistryNodes :
             exclude \subseteq S /\ (\A n \in S : next[n] \subseteq S) => R \subseteq S
    <2>1. /\ R \subseteq RegistryNodes /\ Serves(R, exclude, exclude, next)
          /\ \A S \in SUBSET RegistryNodes : Serves(S, exclude, exclude, next) => R \subseteq S
      <3>1. R = Worklist(RegistryNodes, exclude, exclude, next)
        BY DEF DownstreamClosure
      <3>2. IsFiniteSet(RegistryNodes) /\ exclude \in SUBSET RegistryNodes /\ exclude \in SUBSET exclude
        BY RegistryAssumption
      <3> HIDE DEF R, next
      <3> QED BY <1>1, <3>1, <3>2, WorklistCloses
    <2>2. \A S : exclude \subseteq S => exclude \union (S \ exclude) = S
      OBVIOUS
    <2> QED BY <2>1, <2>2 DEF Serves
  <1>3. \A n, m \in RegistryNodes : m \in next[n] <=> n \in deps[m]
    BY DEF Dependents
  <1> HIDE DEF next, R
  <1>4. R \subseteq Removed
    <2>1. ASSUME NEW n \in Removed PROVE next[n] \subseteq Removed
      <3>1. n \in RegistryNodes
        BY DEF Removed, Downstream
      <3>2. SUFFICES ASSUME NEW m \in RegistryNodes, n \in deps[m] PROVE m \in Removed
        BY <1>1, <1>3, <3>1
      <3>3. \E e \in exclude : DependsOn(m, e)
        <4>1. CASE n \in exclude
          BY <3>2, <4>1, DependsOnSteps
        <4>2. CASE n \in Downstream(exclude)
          <5>1. PICK e \in exclude : DependsOn(n, e)
            BY <4>2 DEF Downstream
          <5> QED BY <3>2, <5>1, DependsOnSteps
        <4> QED BY <4>1, <4>2 DEF Removed
      <3> QED BY <3>3 DEF Removed, Downstream
    <2>2. exclude \subseteq Removed /\ Removed \subseteq RegistryNodes
      BY DEF Removed, Downstream
    <2> QED BY <1>2, <2>1, <2>2
  <1>5. Removed \subseteq R
    <2>1. SUFFICES ASSUME NEW m \in RegistryNodes, NEW e \in exclude, DependsOn(m, e), m \notin R
                   PROVE  FALSE
      BY <1>2 DEF Removed, Downstream
    <2> DEFINE S == RegistryNodes \ R
    <2>2. \A k \in S : deps[k] \subseteq S
      BY <1>2, <1>3
    <2>3. e \in S
      BY <2>1, <2>2 DEF DependsOn, Closed
    <2> QED BY <1>2, <2>3
  <1> QED BY <1>4, <1>5 DEF R

\* What is kept is the seeds that remain and everything they depend on; none of it is
\* removed, and it lacks none of its dependencies.
LEMMA SubgraphIsUpstream ==
  ASSUME deps \in [RegistryNodes -> SUBSET RegistryNodes], exclude \subseteq RegistryNodes,
         raw \subseteq RegistryNodes,
         NEW kept, kept = raw \ Removed, NEW W, W = SelectedSubgraph(RegistryNodes, deps, raw, exclude)
  PROVE  /\ W = kept \union Upstream(kept)
         /\ W \subseteq RegistryNodes \ Removed
         /\ \A n \in W : deps[n] \subseteq W
  <1> DEFINE next == [n \in RegistryNodes |-> deps[n] \cap (RegistryNodes \ Removed)]
  <1>1. W = Worklist(RegistryNodes, kept, kept, next) /\ kept \subseteq RegistryNodes \ Removed
    <2>1. (raw \cap RegistryNodes) \ Removed = kept
      OBVIOUS
    <2> QED BY <2>1, RemovedIsDownstream DEF SelectedSubgraph
  <1>2. next \in [RegistryNodes -> SUBSET RegistryNodes]
    OBVIOUS
  <1>3. \A n \in RegistryNodes \ Removed : deps[n] \subseteq RegistryNodes \ Removed
    <2>1. SUFFICES ASSUME NEW n \in RegistryNodes, NEW d \in deps[n], d \in Removed PROVE n \in Removed
      OBVIOUS
    <2>2. \E e \in exclude : DependsOn(n, e)
      BY <2>1, DependsOnSteps DEF Removed, Downstream
    <2> QED BY <2>2 DEF Removed, Downstream
  <1>4. \A n \in RegistryNodes \ Removed : next[n] = deps[n]
    BY <1>3
  <1> HIDE DEF next
  <1>5. /\ W \subseteq RegistryNodes /\ kept \subseteq W /\ \A n \in W : next[n] \subseteq W
        /\ \A S \in SUBSET RegistryNodes : kept \subseteq S /\ (\A n \in S : next[n] \subseteq S) => W \subseteq S
    <2>1. /\ W \subseteq RegistryNodes /\ Serves(W, kept, kept, next)
          /\ \A S \in SUBSET RegistryNodes : Serves(S, kept, kept, next) => W \subseteq S
      <3>1. IsFiniteSet(RegistryNodes) /\ kept \in SUBSET RegistryNodes /\ kept \in SUBSET kept
        BY <1>1, RegistryAssumption
      <3> DEFINE w == Worklist(RegistryNodes, kept, kept, next)
      <3>2. /\ w \subseteq RegistryNodes /\ Serves(w, kept, kept, next)
            /\ \A S \in SUBSET RegistryNodes : Serves(S, kept, kept, next) => w \subseteq S
        BY <1>2, <3>1, WorklistCloses
      <3>3. W = w
        BY <1>1
      <3> HIDE DEF w
      <3> QED BY <3>2, <3>3
    <2>2. \A S : kept \subseteq S => kept \union (S \ kept) = S
      OBVIOUS
    <2> QED BY <2>1, <2>2 DEF Serves
  <1>6. W \subseteq RegistryNodes \ Removed
    <2>1. \A n \in RegistryNodes \ Removed : next[n] \subseteq RegistryNodes \ Removed
      BY <1>3, <1>4
    <2> QED BY <1>1, <1>5, <2>1
  <1>7. \A n \in W : deps[n] \subseteq W
    BY <1>4, <1>5, <1>6
  <1>8. W \subseteq kept \union Upstream(kept)
    <2> DEFINE S == kept \union Upstream(kept)
    <2>1. S \subseteq RegistryNodes
      BY <1>1 DEF Upstream
    <2>2. ASSUME NEW n \in S PROVE deps[n] \subseteq S
      <3>1. SUFFICES ASSUME NEW d \in deps[n] PROVE \E k \in kept : DependsOn(k, d)
        BY <2>1 DEF Upstream
      <3>2. CASE n \in kept
        BY <1>1, <3>2, DependsOnSteps
      <3>3. CASE n \in Upstream(kept)
        <4>1. PICK k \in kept : DependsOn(k, n)
          BY <3>3 DEF Upstream
        <4> QED BY <1>1, <2>1, <4>1, DependsOnSteps
      <3> QED BY <3>2, <3>3
    <2>3. \A n \in S : next[n] \subseteq deps[n]
      BY <2>1 DEF next
    <2> QED BY <1>5, <2>1, <2>2, <2>3
  <1>9. Upstream(kept) \subseteq W
    <2>1. SUFFICES ASSUME NEW n \in kept, NEW m \in RegistryNodes, DependsOn(n, m) PROVE m \in W
      BY DEF Upstream
    <2> QED BY <1>5, <1>7, <2>1 DEF DependsOn, Closed
  <1> QED BY <1>5, <1>6, <1>7, <1>8, <1>9

\* A plan has exactly the nodes it was made for; without one there are no levels.
LEMMA LevelsCover ==
  ASSUME NEW N \in SUBSET Nat, IsFiniteSet(N), NEW edges
  PROVE  /\ LevelsOf(N, edges).error = "none" =>
              UNION {ToSet(LevelsOf(N, edges).levels[i]) : i \in DOMAIN LevelsOf(N, edges).levels} = N
         /\ LevelsOf(N, edges).error \in {"none", "missing", "cycle"}
         /\ LevelsOf(N, edges).error # "none" => LevelsOf(N, edges).levels = <<>>
         /\ LevelsOf(N, edges).error = "missing" <=> Dangling(N, edges) # {}
  <1> DEFINE l == LevelsOf(N, edges)
             K == KahnLevels(N, edges)
  <1>1. CASE Dangling(N, edges) # {}
    <2>1. l = [error |-> "missing", levels |-> <<>>]
      BY <1>1 DEF LevelsOf
    <2> HIDE DEF l
    <2>2. l.error = "missing" /\ l.levels = <<>>
      BY <2>1
    <2> QED BY <1>1, <2>2 DEF l
  <1>2. CASE Dangling(N, edges) = {} /\ UNION {K[i] : i \in DOMAIN K} # N
    <2>1. l = [error |-> "cycle", levels |-> <<>>]
      BY <1>2 DEF LevelsOf
    <2> HIDE DEF l
    <2>2. l.error = "cycle" /\ l.levels = <<>>
      BY <2>1
    <2> QED BY <1>2, <2>2 DEF l
  <1>3. CASE Dangling(N, edges) = {} /\ UNION {K[i] : i \in DOMAIN K} = N
    <2>1. l = [error |-> "none", levels |-> [i \in DOMAIN K |-> Sorted(K[i])]]
      BY <1>3 DEF LevelsOf
    <2> HIDE DEF l, K
    <2>2. \A i \in DOMAIN K : K[i] \in SUBSET Nat /\ IsFiniteSet(K[i])
      <3> SUFFICES ASSUME NEW i \in DOMAIN K PROVE K[i] \in SUBSET Nat /\ IsFiniteSet(K[i])
        OBVIOUS
      <3>1. K[i] \in SUBSET N
        BY <1>3
      <3> QED BY <3>1, FS_Subset
    <2>3. \A i \in DOMAIN K : ToSet(Sorted(K[i])) = K[i]
      BY <2>2, SortedLists
    <2>4. UNION {ToSet(l.levels[i]) : i \in DOMAIN l.levels} = UNION {K[i] : i \in DOMAIN K}
      BY <2>1, <2>3
    <2>5. l.error = "none"
      BY <2>1
    <2>6. UNION {K[i] : i \in DOMAIN K} = N
      BY <1>3
    <2>7. UNION {ToSet(l.levels[i]) : i \in DOMAIN l.levels} = N
      BY <2>4, <2>6
    <2> QED BY <1>3, <2>5, <2>7 DEF l
  <1> QED BY <1>1, <1>2, <1>3

\* Phases in which the selection is not narrowed yet.
Early == {"select", "subgraph", "changed"}

PlanningTypes ==
  /\ deps \in [RegistryNodes -> SUBSET RegistryNodes] /\ exclude \subseteq RegistryNodes
  /\ select # All => select \subseteq RegistryNodes
  /\ raw \subseteq RegistryNodes

\* What the selection has and lacks.
Selection ==
  /\ phase = "changed" => wanted = (raw \ Removed) \union Upstream(raw \ Removed)
  /\ wanted \cap Removed = {}
  /\ phase \in Early \/ changed = Absent => wanted \subseteq RegistryNodes /\ \A n \in wanted : deps[n] \subseteq wanted

\* What the end of a plan was made from.
Outcome ==
  /\ phase # "end" => lvls = <<>> /\ outcome = "none"
  /\ phase = "end" => \/ outcome = "empty" /\ lvls = <<>>
                      \/ outcome = "planned" /\ targets # <<>>
                      \/ /\ lvls = LevelsOf(SubNodes, deps).levels
                         /\ outcome = IF LevelsOf(SubNodes, deps).error = "none" THEN "planned"
                                      ELSE LevelsOf(SubNodes, deps).error

PlanningInv == PlanningTypes /\ Selection /\ Outcome

\* Each step of run() keeps the invariant.
LEMMA PlanningStep ==
  ASSUME PlanningInv, [PlanningNext]_planningVars
  PROVE  PlanningInv'
  <1>1. CASE SelectRaw
    <2> USE <1>1 DEF SelectRaw, project, options
    <2>1. PlanningTypes'
      BY DEF PlanningInv, PlanningTypes
    <2>2. Selection'
      BY DEF PlanningInv, Selection, Early, Removed, Downstream, DependsOn, Closed
    <2>3. Outcome'
      BY DEF PlanningInv, Outcome
    <2> QED BY <2>1, <2>2, <2>3 DEF PlanningInv
  <1>2. CASE Subgraph
    <2> USE <1>2 DEF Subgraph, project, options
    <2>1. PlanningTypes'
      BY DEF PlanningInv, PlanningTypes
    <2>2. Removed' = Removed /\ Upstream(raw \ Removed)' = Upstream(raw \ Removed)
      BY DEF Removed, Downstream, Upstream, DependsOn, Closed
    <2>3. /\ wanted' = (raw \ Removed) \union Upstream(raw \ Removed)
          /\ wanted' \subseteq RegistryNodes \ Removed
          /\ \A n \in wanted' : deps[n] \subseteq wanted'
      BY SubgraphIsUpstream DEF PlanningInv, PlanningTypes
    <2>4. Selection'
      BY <2>2, <2>3 DEF Selection
    <2>5. Outcome'
      BY DEF PlanningInv, Outcome
    <2> QED BY <2>1, <2>4, <2>5 DEF PlanningInv
  <1>3. CASE ChangedSince
    <2> USE <1>3 DEF ChangedSince, project, options
    <2>1. PlanningTypes'
      BY DEF PlanningInv, PlanningTypes
    <2>2. Removed' = Removed
      BY DEF Removed, Downstream, DependsOn, Closed
    <2>3. Removed = {} \/ wanted' \subseteq wanted
      BY DEF Removed, Downstream
    <2>4. changed = Absent => wanted' = wanted
      OBVIOUS
    <2>5. Selection'
      BY <2>2, <2>3, <2>4 DEF PlanningInv, Selection, Early
    <2>6. Outcome'
      BY DEF PlanningInv, Outcome
    <2> QED BY <2>1, <2>5, <2>6 DEF PlanningInv
  <1>4. CASE Targets
    <2> USE <1>4 DEF Targets, project, options
    <2>1. PlanningTypes'
      BY DEF PlanningInv, PlanningTypes
    <2>2. Removed' = Removed
      BY DEF Removed, Downstream, DependsOn, Closed
    <2>3. Selection'
      BY <2>2 DEF PlanningInv, Selection, Early
    <2>4. Outcome'
      BY DEF PlanningInv, Outcome
    <2> QED BY <2>1, <2>3, <2>4 DEF PlanningInv
  <1>5. CASE Levels
    <2> USE <1>5 DEF Levels, project, options
    <2>1. PlanningTypes'
      BY DEF PlanningInv, PlanningTypes
    <2>2. Removed' = Removed /\ SubNodes' = SubNodes /\ deps' = deps
      BY DEF Removed, Downstream, DependsOn, Closed, SubNodes
    <2>3. Selection'
      BY <2>2 DEF PlanningInv, Selection, Early
    <2>4. Outcome'
      BY <2>2 DEF PlanningInv, Outcome
    <2> QED BY <2>1, <2>3, <2>4 DEF PlanningInv
  <1>6. CASE UNCHANGED planningVars
    <2> USE <1>6 DEF planningVars, project, options, results
    <2>1. PlanningTypes'
      BY DEF PlanningInv, PlanningTypes
    <2>2. Removed' = Removed /\ Upstream(raw \ Removed)' = Upstream(raw \ Removed) /\ SubNodes' = SubNodes
      BY DEF Removed, Downstream, Upstream, DependsOn, Closed, SubNodes
    <2>3. Selection'
      BY <2>2 DEF PlanningInv, Selection
    <2>4. Outcome'
      BY <2>2 DEF PlanningInv, Outcome
    <2> QED BY <2>1, <2>3, <2>4 DEF PlanningInv
  <1> QED BY <1>1, <1>2, <1>3, <1>4, <1>5, <1>6 DEF PlanningNext, Ended

\* The inductive invariant of planning: what the selection has, lacks and is closed
\* under at each step of run().
THEOREM PlanningInvariance == PlanningSpec => []PlanningInv
  <1>1. PlanningInit => PlanningInv
    BY RegistryAssumption DEF PlanningInit, PlanningInv, PlanningTypes, Selection, Outcome
  <1> QED BY <1>1, PlanningStep, PTL DEF PlanningSpec

\* For every project and every mix of options the selection is what was asked for and
\* what it needs, and no excluded model or dependent of one is planned (_wanted_names,
\* _apply_changed_since_filter).
THEOREM SelectionExact == PlanningSpec => []SelectionIsExact
  <1>1. ASSUME PlanningInv PROVE SelectionIsExact
    <2>1. SubgraphIsClosed
      BY <1>1 DEF PlanningInv, Selection, SubgraphIsClosed, Removed
    <2>2. SubNodes \in SUBSET Nat /\ IsFiniteSet(SubNodes)
      <3>1. SubNodes \in SUBSET RegistryNodes
        BY DEF SubNodes
      <3> QED BY <3>1, RegistryAssumption, FS_Subset
    <2>3. ASSUME targets = <<>> PROVE Planned \subseteq wanted
      <3>1. CASE lvls = <<>>
        BY <3>1 DEF Planned
      <3>2. CASE lvls # <<>>
        <4>1. LevelsOf(SubNodes, deps).error = "none" /\ lvls = LevelsOf(SubNodes, deps).levels
          BY <1>1, <2>2, <2>3, <3>2, LevelsCover DEF PlanningInv, Outcome
        <4> QED BY <2>2, <4>1, LevelsCover, SMTT(30) DEF Planned, SubNodes
      <3> QED BY <3>1, <3>2
    <2>4. ExcludeHolds
      BY <1>1, <2>3 DEF PlanningInv, Selection, ExcludeHolds, Removed
    <2>5. ASSUME outcome = "missing", changed = Absent PROVE FALSE
      <3>1. Dangling(SubNodes, deps) # {}
        BY <1>1, <2>2, <2>5, LevelsCover DEF PlanningInv, Outcome
      <3>2. wanted \subseteq RegistryNodes /\ \A n \in wanted : deps[n] \subseteq wanted
        BY <1>1, <2>5 DEF PlanningInv, Selection
      <3> QED BY <3>1, <3>2 DEF Dangling, SubNodes
    <2> QED BY <2>1, <2>4, <2>5 DEF SelectionIsExact, MissingOnlyWithChangedSince
  <1> QED BY <1>1, PlanningInvariance, PTL

-----------------------------------------------------------------------------
(* Kahn's levels.                                                          *)

\* All levels before the i-th.
Earlier(l, i) == UNION {l[j] : j \in 1..(i - 1)}
\* Each level is what is ready after those before it.
Levelled(l, N, edges, i) == l[i] = {n \in N : edges[n] \subseteq Earlier(l, i)} \ Earlier(l, i)

\* What stands before a level: that much more with each level.
LEMMA EarlierGrows ==
  ASSUME NEW l, NEW i \in Nat \ {0}
  PROVE  Earlier(l, i + 1) = Earlier(l, i) \union l[i] /\ Earlier(l, 1) = {}
         /\ \A j \in 1..i : Earlier(l, j) \subseteq Earlier(l, i)
  <1>1. \A j : j \in 1..((i + 1) - 1) <=> j \in 1..(i - 1) \/ j = i
    OBVIOUS
  <1>2. Earlier(l, i + 1) = Earlier(l, i) \union l[i]
    BY <1>1, Zenon DEF Earlier
  <1>3. \A j \in 1..i : 1..(j - 1) \subseteq 1..(i - 1)
    OBVIOUS
  <1>4. 1..(1 - 1) = {}
    OBVIOUS
  <1> QED BY <1>2, <1>3, <1>4 DEF Earlier

\* A level at the end changes nothing before it.
LEMMA EarlierOfAppend ==
  ASSUME NEW T, NEW l \in Seq(T), NEW x \in T, NEW i \in 1..(Len(l) + 1)
  PROVE  Earlier(Append(l, x), i) = Earlier(l, i)
  <1>1. \A j \in 1..(i - 1) : Append(l, x)[j] = l[j]
    OBVIOUS
  <1> QED BY <1>1, Zenon DEF Earlier

\* The levels of the nodes that can be levelled, in order; no node is ready after them.
KahnResult(K, N, edges) ==
  /\ K \in Seq(SUBSET N)
  /\ \A i \in 1..Len(K) : Levelled(K, N, edges, i)
  /\ \A n \in N : edges[n] \subseteq Earlier(K, Len(K) + 1) => n \in Earlier(K, Len(K) + 1)

\* The counting of in-degrees computes these levels: a node's counter is the number of
\* its dependencies that no level before the last holds.
LEMMA KahnLevelsCorrect ==
  ASSUME NEW N, IsFiniteSet(N), NEW edges, \A n \in N : edges[n] \in SUBSET N
  PROVE  KahnResult(KahnLevels(N, edges), N, edges)
  <1> DEFINE start == [indeg |-> [n \in N |-> Cardinality(edges[n])],
                       lvls |-> <<{n \in N : edges[n] = {}}>>]
             After(s) == [n \in N |-> s.indeg[n] - Cardinality(edges[n] \cap Last(s.lvls))]
             Zero(s) == {n \in N : s.indeg[n] > 0 /\ After(s)[n] = 0}
             A == [indeg : [N -> Int], lvls : Seq(SUBSET N)]
             body == [s \in A |-> IF Last(s.lvls) = {} THEN s
                                  ELSE [indeg |-> After(s), lvls |-> Append(s.lvls, Zero(s))]]
             size == Cardinality(N)
             turn(k) == Turns(body, start, k)
  <1>1. KahnLevels(N, edges) = Front(turn(size + 1).lvls)
    BY DEF KahnLevels
  <1>2. size \in Nat /\ \A S \in SUBSET N : IsFiniteSet(S) /\ Cardinality(S) \in Nat
    BY FS_Subset, FS_CardinalityType
  <1>3. start \in A
    BY <1>2
  <1>4. body \in [A -> A]
    <2>1. ASSUME NEW s \in A PROVE [indeg |-> After(s), lvls |-> Append(s.lvls, Zero(s))] \in A
      <3>1. \A n \in N : Cardinality(edges[n] \cap Last(s.lvls)) \in Int
        BY <1>2
      <3>2. After(s) \in [N -> Int]
        BY <3>1
      <3>3. Zero(s) \in SUBSET N
        OBVIOUS
      <3> HIDE DEF After, Zero
      <3> QED BY <3>2, <3>3
    <2> HIDE DEF A, After, Zero
    <2> QED BY <2>1
  <1> DEFINE Before(s) == Earlier(s.lvls, Len(s.lvls))
             Good(s) == /\ s.lvls # <<>>
                        /\ \A i \in 1..Len(s.lvls) : Levelled(s.lvls, N, edges, i)
                        /\ s.indeg = [n \in N |-> Cardinality(edges[n] \ Before(s))]
                        /\ Cardinality(Before(s)) >= Len(s.lvls) - 1
             I == {s \in A : Good(s)}
  <1>5. start \in I
    <2>1. start.lvls # <<>> /\ Len(start.lvls) = 1 /\ start.lvls[1] = {n \in N : edges[n] = {}}
      OBVIOUS
    <2>2. Earlier(start.lvls, 1) = {}
      BY EarlierGrows
    <2>3. Levelled(start.lvls, N, edges, 1)
      BY <2>1, <2>2 DEF Levelled
    <2>4. \A n \in N : edges[n] \ {} = edges[n]
      OBVIOUS
    <2>5. start.indeg = [n \in N |-> Cardinality(edges[n] \ {})]
      BY <2>4
    <2> HIDE DEF start
    <2>6. Before(start) = {} /\ Cardinality(Before(start)) = 0
      BY <2>1, <2>2, FS_EmptySet
    <2> HIDE DEF Before
    <2>7. \A i \in 1..Len(start.lvls) : Levelled(start.lvls, N, edges, i)
      BY <2>1, <2>3
    <2>8. Cardinality(Before(start)) >= Len(start.lvls) - 1
      BY <2>1, <2>6
    <2>9. start.indeg = [n \in N |-> Cardinality(edges[n] \ Before(start))]
      BY <2>5, <2>6
    <2> HIDE DEF A
    <2> QED BY <1>3, <2>1, <2>7, <2>8, <2>9
  <1> DEFINE Turned(s) == [indeg |-> After(s), lvls |-> Append(s.lvls, Zero(s))]
  <1>6. ASSUME NEW s \in I, Last(s.lvls) # {}
        PROVE  Good(Turned(s)) /\ Len(Turned(s).lvls) = Len(s.lvls) + 1
    <2> DEFINE l == s.lvls
               m == Len(l)
               last == l[m]
               B == Earlier(l, m)
               C == Earlier(l, m + 1)
               l2 == Append(l, Zero(s))
    <2>1. /\ l \in Seq(SUBSET N) /\ m \in Nat \ {0} /\ Last(l) = last /\ last \in SUBSET N
          /\ s.indeg = [n \in N |-> Cardinality(edges[n] \ B)] /\ Cardinality(B) >= m - 1
          /\ \A i \in 1..m : Levelled(l, N, edges, i)
      BY DEF Last
    <2>2. C = B \union last /\ B \cap last = {} /\ B \in SUBSET N /\ C \in SUBSET N
      <3>1. C = B \union last
        BY <2>1, EarlierGrows
      <3>2. B \in SUBSET N
        BY <2>1 DEF Earlier
      <3>3. m \in 1..m
        BY <2>1
      <3>4. last = {n \in N : edges[n] \subseteq B} \ B
        BY <2>1, <3>3 DEF Levelled
      <3> QED BY <2>1, <3>1, <3>2, <3>4
    <2>3. After(s) = [n \in N |-> Cardinality(edges[n] \ C)]
      <3>1. ASSUME NEW n \in N
            PROVE  Cardinality(edges[n] \ B) - Cardinality(edges[n] \cap last) = Cardinality(edges[n] \ C)
        <4> DEFINE E == edges[n] \ B
        <4>1. E \ last = edges[n] \ C /\ E \cap last = edges[n] \cap last
          BY <2>2
        <4>2. E \in SUBSET N /\ edges[n] \cap last \in SUBSET N
          OBVIOUS
        <4>3. Cardinality(E \ last) = Cardinality(E) - Cardinality(E \cap last)
          BY <1>2, <4>2, FS_Difference
        <4> QED BY <4>1, <4>3
      <3>2. \A n \in N : s.indeg[n] = Cardinality(edges[n] \ B)
        BY <2>1
      <3> QED BY <2>1, <3>1, <3>2
    <2>4. \A n \in N : (s.indeg[n] > 0 <=> ~(edges[n] \subseteq B)) /\ (After(s)[n] = 0 <=> edges[n] \subseteq C)
      <3> SUFFICES ASSUME NEW n \in N
                   PROVE  (s.indeg[n] > 0 <=> ~(edges[n] \subseteq B)) /\ (After(s)[n] = 0 <=> edges[n] \subseteq C)
        OBVIOUS
      <3>1. \A S \in SUBSET N : Cardinality(S) = 0 <=> S = {}
        BY <1>2, FS_EmptySet
      <3>2. edges[n] \ B \in SUBSET N /\ edges[n] \ C \in SUBSET N
        OBVIOUS
      <3>3. s.indeg[n] = Cardinality(edges[n] \ B) /\ After(s)[n] = Cardinality(edges[n] \ C)
        BY <2>1, <2>3
      <3>4. (edges[n] \ B = {} <=> edges[n] \subseteq B) /\ (edges[n] \ C = {} <=> edges[n] \subseteq C)
        OBVIOUS
      <3>5. Cardinality(edges[n] \ B) \in Nat
        BY <1>2, <3>2
      <3>6. Cardinality(edges[n] \ B) = 0 <=> edges[n] \subseteq B
        BY <3>1, <3>2, <3>4, Zenon
      <3>7. Cardinality(edges[n] \ C) = 0 <=> edges[n] \subseteq C
        BY <3>1, <3>2, <3>4, Zenon
      <3> DEFINE b == Cardinality(edges[n] \ B)
      <3>8. b > 0 <=> b # 0
        <4>1. b \in Nat
          BY <3>5
        <4> HIDE DEF b
        <4> QED BY <4>1
      <3> HIDE DEF B, C, After
      <3> QED BY <3>3, <3>6, <3>7, <3>8
    <2>5. Zero(s) = {n \in N : edges[n] \subseteq C} \ C
      <3>1. ASSUME NEW n \in C PROVE edges[n] \subseteq B
        <4>1. PICK j \in 1..m : n \in l[j]
          BY <2>1 DEF Earlier
        <4>2. edges[n] \subseteq Earlier(l, j)
          BY <2>1, <4>1 DEF Levelled
        <4> QED BY <2>1, <4>1, <4>2, EarlierGrows
      <3>2. ASSUME NEW n \in N, edges[n] \subseteq B PROVE n \in C
        <4>1. m \in 1..m
          BY <2>1
        <4>2. last = {k \in N : edges[k] \subseteq B} \ B
          BY <2>1, <4>1 DEF Levelled
        <4> HIDE DEF B, C
        <4> QED BY <2>2, <3>2, <4>2
      <3>3. Zero(s) = {n \in N : ~(edges[n] \subseteq B) /\ edges[n] \subseteq C}
        BY <2>4
      <3> HIDE DEF B, C, Zero
      <3> QED BY <3>1, <3>2, <3>3
    <2>6. l2 \in Seq(SUBSET N) /\ Len(l2) = m + 1 /\ l2[m + 1] = Zero(s) /\ l2 # <<>>
          /\ \A i \in 1..m : l2[i] = l[i]
      <3>1. Zero(s) \in SUBSET N
        OBVIOUS
      <3> HIDE DEF Zero
      <3> QED BY <2>1, <3>1
    <2>7. \A i \in 1..(m + 1) : Earlier(l2, i) = Earlier(l, i)
      <3>1. Zero(s) \in SUBSET N
        OBVIOUS
      <3> HIDE DEF Zero
      <3> QED BY <2>1, <3>1, EarlierOfAppend
    <2>8. \A i \in 1..(m + 1) : Levelled(l2, N, edges, i)
      <3> SUFFICES ASSUME NEW i \in 1..(m + 1) PROVE Levelled(l2, N, edges, i)
        OBVIOUS
      <3>1. CASE i = m + 1
        <4> HIDE DEF l2, Zero
        <4> QED BY <2>5, <2>6, <2>7, <3>1 DEF Levelled
      <3>2. CASE i \in 1..m
        <4> HIDE DEF l2
        <4> QED BY <2>1, <2>6, <2>7, <3>2 DEF Levelled
      <3> QED BY <2>1, <3>1, <3>2
    <2>9. Cardinality(C) >= m
      <3>1. PICK x \in last : TRUE
        BY <1>6, <2>1
      <3>2. Cardinality(B \union {x}) = Cardinality(B) + 1
        BY <1>2, <2>2, <3>1, FS_AddElement
      <3>3. B \union {x} \in SUBSET C
        BY <2>2, <3>1
      <3>4. Cardinality(B \union {x}) <= Cardinality(C)
        BY <1>2, <2>2, <3>3, FS_Subset
      <3>5. Cardinality(B) \in Nat /\ Cardinality(C) \in Nat
        BY <1>2, <2>2
      <3> HIDE DEF B, C
      <3> QED BY <2>1, <3>2, <3>4, <3>5
    <2>10. Earlier(l2, m + 1) = C
      <3>1. m + 1 \in 1..(m + 1)
        BY <2>1
      <3> HIDE DEF l2
      <3> QED BY <2>7, <3>1
    <2>11. Turned(s).lvls = l2 /\ Turned(s).indeg = After(s)
      OBVIOUS
    <2> HIDE DEF Turned, l2, C, After, Zero
    <2>12. Before(Turned(s)) = C
      BY <2>6, <2>10, <2>11
    <2> HIDE DEF Before
    <2>13. Len(Turned(s).lvls) = m + 1 /\ (m + 1) - 1 = m
      BY <2>1, <2>6, <2>11
    <2> QED BY <2>3, <2>6, <2>8, <2>9, <2>11, <2>12, <2>13
  <1> HIDE DEF Good, Before, Turned, A, start
  <1>7. \A s \in A : body[s] = IF Last(s.lvls) = {} THEN s ELSE Turned(s)
    BY DEF Turned
  <1>8. \A s \in A : body[s] \in A
    BY <1>4
  <1> HIDE DEF body, turn
  <1>9. \A k \in Nat : turn(k) \in I
    <2>1. \A s \in A : s \in I => body[s] \in I
      BY <1>6, <1>7, <1>8
    <2> HIDE DEF I
    <2> QED BY <1>3, <1>4, <1>5, <2>1, Invariantly DEF turn
  <1>10. \A k \in Nat : turn(k + 1) = body[turn(k)]
    BY <1>3, <1>4, TurnsOf DEF turn
  <1> DEFINE Long == {k \in Nat : Last(turn(k).lvls) # {} => Len(turn(k).lvls) = k + 1}
  <1>11. Nat \subseteq Long
    <2>1. 0 \in Long
      <3>1. turn(0) = start
        BY <1>3, <1>4, TurnsOf DEF turn
      <3> QED BY <3>1 DEF start
    <2>2. ASSUME NEW k \in Nat, k \in Long PROVE k + 1 \in Long
      <3>1. turn(k + 1) = IF Last(turn(k).lvls) = {} THEN turn(k) ELSE Turned(turn(k))
        BY <1>7, <1>9, <1>10
      <3>2. CASE Last(turn(k).lvls) = {}
        BY <3>1, <3>2
      <3>3. CASE Last(turn(k).lvls) # {}
        <4>1. Len(Turned(turn(k)).lvls) = Len(turn(k).lvls) + 1
          BY <1>6, <1>9, <3>3
        <4>2. Len(turn(k).lvls) = k + 1
          BY <2>2, <3>3
        <4> QED BY <3>1, <3>3, <4>1, <4>2
      <3> QED BY <3>2, <3>3
    <2> HIDE DEF Long
    <2> QED BY <2>1, <2>2, NatSetInduction
  <1> DEFINE s == turn(size + 1)
             l == s.lvls
             m == Len(l)
  <1>12. /\ l \in Seq(SUBSET N) /\ m \in Nat \ {0} /\ Cardinality(Earlier(l, m)) >= m - 1
         /\ \A i \in 1..m : Levelled(l, N, edges, i)
    <2>1. s \in I
      BY <1>2, <1>9
    <2> HIDE DEF s
    <2> QED BY <2>1 DEF Good, Before, A
  <1>13. l[m] = {}
    <2>1. SUFFICES ASSUME Last(l) # {} PROVE FALSE
      BY DEF Last
    <2>2. m = (size + 1) + 1
      BY <1>2, <1>11, <2>1
    <2>3. Earlier(l, m) \in SUBSET N
      BY <1>12 DEF Earlier
    <2>4. Cardinality(Earlier(l, m)) <= size /\ Cardinality(Earlier(l, m)) \in Nat
      BY <1>2, <2>3, FS_Subset
    <2> HIDE DEF l
    <2> QED BY <1>2, <1>12, <2>2, <2>4
  <1> HIDE DEF s, l
  <1> DEFINE K == Front(l)
  <1>14. K \in Seq(SUBSET N) /\ Len(K) = m - 1 /\ \A i \in 1..(m - 1) : K[i] = l[i]
    <2>1. K = SubSeq(l, 1, m - 1) /\ m - 1 \in Nat
      BY <1>12 DEF Front
    <2> HIDE DEF K
    <2>2. l \in Seq(SUBSET N) /\ m = Len(l)
      BY <1>12
    <2>3. \A i \in 1..(m - 1) : l[i] \in SUBSET N
      BY <2>1, <2>2
    <2> HIDE DEF m
    <2>4. /\ SubSeq(l, 1, m - 1) \in Seq(SUBSET N)
          /\ Len(SubSeq(l, 1, m - 1)) = IF 1 <= m - 1 THEN (m - 1) - 1 + 1 ELSE 0
          /\ \A i \in 1..((m - 1) - 1 + 1) : SubSeq(l, 1, m - 1)[i] = l[1 + i - 1]
      BY <2>1, <2>3, SubSeqProperties
    <2>5. (m - 1) - 1 + 1 = m - 1 /\ \A i \in 1..(m - 1) : 1 + i - 1 = i
      BY <2>1
    <2>6. (IF 1 <= m - 1 THEN (m - 1) - 1 + 1 ELSE 0) = m - 1
      BY <2>1
    <2> QED BY <2>1, <2>4, <2>5, <2>6
  <1>15. \A i \in 1..m : Earlier(K, i) = Earlier(l, i)
    <2> SUFFICES ASSUME NEW i \in 1..m PROVE Earlier(K, i) = Earlier(l, i)
      OBVIOUS
    <2>1. \A j \in 1..(i - 1) : K[j] = l[j]
      BY <1>12, <1>14, SMTT(30)
    <2> HIDE DEF K
    <2> QED BY <2>1, Zenon DEF Earlier
  <1>16. KahnLevels(N, edges) = K
    BY <1>1 DEF s, l
  <1> HIDE DEF K
  <1>17. \A i \in 1..Len(K) : Levelled(K, N, edges, i)
    BY <1>12, <1>14, <1>15 DEF Levelled
  <1>18. \A n \in N : edges[n] \subseteq Earlier(K, Len(K) + 1) => n \in Earlier(K, Len(K) + 1)
    <2>1. Len(K) + 1 = m /\ m \in 1..m
      BY <1>12, <1>14
    <2>2. Earlier(K, Len(K) + 1) = Earlier(l, m)
      BY <1>15, <2>1
    <2>3. l[m] = {n \in N : edges[n] \subseteq Earlier(l, m)} \ Earlier(l, m)
      BY <1>12, <2>1 DEF Levelled
    <2> QED BY <1>13, <2>2, <2>3
  <1> QED BY <1>14, <1>16, <1>17, <1>18 DEF KahnResult

\* The levels are disjoint, and a node stands right after the last of its dependencies.
LEMMA LevelFacts ==
  ASSUME NEW N, NEW edges, NEW K, \A m \in N : edges[m] \in SUBSET N, KahnResult(K, N, edges)
  PROVE  \A i \in 1..Len(K) : \A n \in K[i] :
           /\ \A j \in 1..Len(K) : n \in K[j] => j = i
           /\ \A d \in edges[n] : \E j \in 1..(i - 1) : d \in K[j]
           /\ i > 1 => \E d \in edges[n] : d \in K[i - 1]
  <1> SUFFICES ASSUME NEW i \in 1..Len(K), NEW n \in K[i]
               PROVE  /\ \A j \in 1..Len(K) : n \in K[j] => j = i
                      /\ \A d \in edges[n] : \E j \in 1..(i - 1) : d \in K[j]
                      /\ i > 1 => \E d \in edges[n] : d \in K[i - 1]
    OBVIOUS
  <1>1. Len(K) \in Nat
    BY DEF KahnResult
  <1>2. \A j \in 1..Len(K) : K[j] = {m \in N : edges[m] \subseteq Earlier(K, j)} \ Earlier(K, j)
    BY DEF KahnResult, Levelled
  <1>3. ASSUME NEW a \in 1..Len(K), NEW b \in 1..Len(K), a < b, NEW m \in K[a], m \in K[b] PROVE FALSE
    <2>1. a \in 1..(b - 1)
      BY <1>1, <1>3
    <2>2. m \in Earlier(K, b)
      BY <1>3, <2>1 DEF Earlier
    <2> QED BY <1>2, <1>3, <2>2
  <1>4. ASSUME NEW j \in 1..Len(K), n \in K[j] PROVE j = i
    <2>1. j < i \/ i < j \/ j = i
      BY <1>1
    <2> QED BY <1>3, <1>4, <2>1
  <1>5. \A d \in edges[n] : \E j \in 1..(i - 1) : d \in K[j]
    BY <1>2 DEF Earlier
  <1>6. ASSUME i > 1 PROVE \E d \in edges[n] : d \in K[i - 1]
    <2>1. i - 1 \in Nat \ {0} /\ i - 1 \in 1..Len(K) /\ (i - 1) + 1 = i
      BY <1>1, <1>6
    <2>2. Earlier(K, i) = Earlier(K, i - 1) \union K[i - 1]
      BY <2>1, EarlierGrows
    <2> QED BY <1>2, <2>1, <2>2
  <1> QED BY <1>4, <1>5, <1>6

\* A nonempty set in which everything has a dependency contains a cycle.
LEMMA CycleExists ==
  ASSUME deps \in [RegistryNodes -> SUBSET RegistryNodes],
         NEW B \in SUBSET RegistryNodes, B # {}, \A n \in B : \E d \in deps[n] : d \in B
  PROVE  \E n \in B : DependsOn(n, n)
  <1> DEFINE Above(n) == {m \in RegistryNodes : DependsOn(n, m)}
             Size(n) == Cardinality(Above(n))
  <1>1. \A n : IsFiniteSet(Above(n)) /\ Size(n) \in Nat
    <2> TAKE n
    <2>1. Above(n) \in SUBSET RegistryNodes
      OBVIOUS
    <2> HIDE DEF Above
    <2> QED BY <2>1, RegistryAssumption, FS_Subset, FS_CardinalityType
  <1>2. PICK n \in B : \A m \in B : Size(n) <= Size(m)
    <2> HIDE DEF Size
    <2> DEFINE T == {Size(n) : n \in B}
    <2>1. T \in SUBSET Nat /\ T # {}
      BY <1>1
    <2>2. PICK k \in T : \A l \in T : k <= l
      BY <2>1, Least
    <2> QED BY <2>2
  <1>3. PICK d \in deps[n] : d \in B
    BY <1>2
  <1>4. Above(d) \in SUBSET Above(n) /\ d \in Above(n)
    BY <1>2, <1>3, DependsOnSteps
  <1>5. Above(d) = Above(n)
    <2>1. Size(d) <= Size(n) /\ (Size(n) = Size(d) => Above(n) = Above(d))
      <3> HIDE DEF Above
      <3> QED BY <1>1, <1>4, FS_Subset
    <2>2. Size(n) <= Size(d)
      BY <1>2, <1>3
    <2> HIDE DEF Size, Above
    <2> QED BY <1>1, <2>1, <2>2
  <1> QED BY <1>3, <1>4, <1>5

\* topo_sort lists nodes once and after their dependencies, and stops short of N only
\* where no node is ready.
Ordered(o, N, edges) ==
  /\ o \in Seq(N)
  /\ \A i, j \in 1..Len(o) : o[i] = o[j] => i = j
  /\ \A i \in 1..Len(o) : \A d \in edges[o[i]] : \E j \in 1..(i - 1) : o[j] = d
Stuck(o, N, edges) == \A n \in N \ ToSet(o) : ~ (edges[n] \subseteq ToSet(o))

\* Appending the least ready node computes this: a turn for each node of N is enough.
LEMMA KahnOrderCorrect ==
  ASSUME NEW N \in SUBSET Nat, IsFiniteSet(N), NEW edges, NEW o, o = KahnOrder(N, edges)
  PROVE  /\ Ordered(o, N, edges)
         /\ Len(o) = Cardinality(N) <=> ToSet(o) = N
         /\ Len(o) = Cardinality(N) \/ Stuck(o, N, edges)
  <1> DEFINE Ready(order) == {n \in N \ ToSet(order) : edges[n] \subseteq ToSet(order)}
             A == Seq(N)
             body == [order \in A |-> IF Ready(order) = {} THEN order ELSE Append(order, Min(Ready(order)))]
             turn(k) == Turns(body, <<>>, k)
             size == Cardinality(N)
             I == {s \in A : Ordered(s, N, edges)}
  <1>1. o = turn(size) /\ size \in Nat
    BY FS_CardinalityType DEF KahnOrder
  <1>2. ASSUME NEW s \in A, Ready(s) # {} PROVE Min(Ready(s)) \in Ready(s)
    <2> DEFINE R == Ready(s)
    <2>1. R \in SUBSET Nat /\ R # {}
      BY <1>2
    <2> HIDE DEF R
    <2>2. \E m \in R : \A k \in R : m =< k
      BY <2>1, Least
    <2>3. Min(R) \in R
      BY <2>2 DEF Min
    <2> QED BY <2>3 DEF R
  <1>3. body \in [A -> A] /\ <<>> \in A
    <2>1. ASSUME NEW s \in A, Ready(s) # {} PROVE Append(s, Min(Ready(s))) \in A
      <3>1. Min(Ready(s)) \in N
        BY <1>2, <2>1
      <3> QED BY <3>1
    <2> HIDE DEF Ready
    <2> QED BY <2>1
  <1>4. \A s \in A : ToSet(s) = {s[i] : i \in 1..Len(s)}
    BY DEF ToSet
  <1>5. ASSUME NEW s \in I, Ready(s) # {} PROVE Append(s, Min(Ready(s))) \in I
    <2> DEFINE x == Min(Ready(s))
               t == Append(s, x)
    <2>1. x \in N /\ x \notin ToSet(s) /\ edges[x] \subseteq ToSet(s) /\ s \in Seq(N)
      BY <1>2, <1>5
    <2>2. Ordered(s, N, edges)
      OBVIOUS
    <2> HIDE DEF x
    <2>3. t \in Seq(N) /\ Len(t) = Len(s) + 1 /\ t[Len(s) + 1] = x /\ \A i \in 1..Len(s) : t[i] = s[i]
      BY <2>1
    <2>4. \A i \in 1..Len(s) : s[i] # x
      BY <1>4, <2>1
    <2>5. \A d \in edges[x] : \E j \in 1..Len(s) : s[j] = d
      BY <1>4, <2>1
    <2>6. \A i \in 1..Len(t) : i \in 1..Len(s) \/ i = Len(s) + 1
      BY <2>1, <2>3
    <2> HIDE DEF t
    <2>7. \A i, j \in 1..Len(t) : t[i] = t[j] => i = j
      BY <2>2, <2>3, <2>4, <2>6, SMTT(30) DEF Ordered
    <2>8. ASSUME NEW i \in 1..Len(t), NEW d \in edges[t[i]] PROVE \E j \in 1..(i - 1) : t[j] = d
      <3>0. Len(s) \in Nat
        BY <2>1
      <3>1. CASE i \in 1..Len(s)
        <4>1. PICK j \in 1..(i - 1) : s[j] = d
          BY <2>2, <2>3, <2>8, <3>1 DEF Ordered
        <4>2. j \in 1..Len(s)
          BY <3>0, <3>1, <4>1
        <4> QED BY <2>3, <4>1, <4>2
      <3>2. CASE i = Len(s) + 1
        <4>1. (Len(s) + 1) - 1 = Len(s)
          BY <3>0
        <4> QED BY <2>3, <2>5, <2>8, <3>2, <4>1
      <3> QED BY <2>6, <3>1, <3>2
    <2>9. t \in I
      BY <2>3, <2>7, <2>8 DEF Ordered
    <2> QED BY <2>9 DEF x, t
  <1>6. \A s \in A : s \in I => body[s] \in I
    <2> HIDE DEF I, Ready
    <2> SUFFICES ASSUME NEW s \in A, s \in I PROVE body[s] \in I
      OBVIOUS
    <2>1. body[s] = IF Ready(s) = {} THEN s ELSE Append(s, Min(Ready(s)))
      OBVIOUS
    <2> QED BY <1>5, <2>1
  <1>7. <<>> \in I
    BY DEF Ordered
  <1> HIDE DEF I
  <1>8. \A k \in Nat : turn(k) \in A \cap I
    BY <1>3, <1>6, <1>7, Invariantly
  <1>9. \A k \in Nat : turn(0) = <<>> /\ turn(k) \in A /\ turn(k + 1) = body[turn(k)]
    <2> HIDE DEF body, A
    <2> QED BY <1>3, TurnsOf
  <1> DEFINE Full == {k \in Nat : Len(turn(k)) = k \/ Ready(turn(k)) = {}}
  <1>10. Nat \subseteq Full
    <2>1. 0 \in Full
      <3>1. turn(0) = <<>>
        BY <1>9
      <3> HIDE DEF turn, Ready
      <3> QED BY <3>1
    <2>2. ASSUME NEW k \in Nat, k \in Full PROVE k + 1 \in Full
      <3> DEFINE s == turn(k)
                 u == turn(k + 1)
      <3>1. s \in A /\ u = body[s]
        BY <1>9
      <3>2. Len(s) = k \/ Ready(s) = {}
        BY <2>2
      <3> HIDE DEF turn, s, u
      <3>3. u = IF Ready(s) = {} THEN s ELSE Append(s, Min(Ready(s)))
        BY <3>1
      <3> HIDE DEF body
      <3>4. CASE Ready(s) = {}
        <4>1. Ready(u) = {}
          BY <3>3, <3>4
        <4> QED BY <4>1 DEF u
      <3>5. CASE Ready(s) # {}
        <4>1. Min(Ready(s)) \in N
          BY <1>2, <3>1, <3>5
        <4> HIDE DEF Ready
        <4>2. Len(u) = Len(s) + 1
          BY <3>1, <3>3, <3>5, <4>1
        <4>3. Len(u) = k + 1
          BY <3>2, <3>5, <4>2
        <4> QED BY <4>3 DEF u
      <3> QED BY <3>4, <3>5
    <2> HIDE DEF Full
    <2> QED BY <2>1, <2>2, NatSetInduction
  <1>11. o \in A /\ Ordered(o, N, edges)
    BY <1>1, <1>8 DEF I
  <1>12. Len(o) = size \/ Ready(o) = {}
    <2>1. size \in Full
      BY <1>1, <1>10
    <2> HIDE DEF turn, Ready
    <2> QED BY <1>1, <2>1
  <1>13. Ready(o) = {} => Stuck(o, N, edges)
    BY DEF Stuck
  <1>14. Len(o) = size <=> ToSet(o) = N
    <2>1. o \in Injection(1..Len(o), N) /\ Len(o) \in Nat
      BY <1>11 DEF Ordered, Injection, IsInjective
    <2>2. Cardinality(1..Len(o)) = Len(o)
      BY <2>1, FS_Interval, SMTT(30)
    <2>3. Len(o) = size <=> o \in Surjection(1..Len(o), N)
      BY <2>1, <2>2, FS_Injection
    <2>4. o \in Surjection(1..Len(o), N) <=> ToSet(o) = N
      <3>1. o \in [1..Len(o) -> N]
        BY <1>11
      <3>2. ToSet(o) = {o[i] : i \in 1..Len(o)}
        BY <1>4, <1>11
      <3>3. ASSUME o \in Surjection(1..Len(o), N) PROVE ToSet(o) = N
        <4>1. \A n \in N : \E i \in 1..Len(o) : o[i] = n
          BY <3>3 DEF Surjection
        <4> QED BY <3>1, <3>2, <4>1
      <3>4. ASSUME ToSet(o) = N PROVE o \in Surjection(1..Len(o), N)
        <4>1. \A n \in N : \E i \in 1..Len(o) : o[i] = n
          BY <3>2, <3>4
        <4> QED BY <3>1, <4>1 DEF Surjection
      <3> QED BY <3>3, <3>4
    <2> QED BY <2>3, <2>4
  <1> HIDE DEF turn, Ready
  <1> QED BY <1>11, <1>12, <1>13, <1>14

\* A node outside a closed set that holds its dependencies is on no cycle.
LEMMA NoCycleNoSelf ==
  ASSUME deps \in [RegistryNodes -> SUBSET RegistryNodes], NEW n \in RegistryNodes,
         NEW S \in SUBSET RegistryNodes, deps[n] \subseteq S, Closed(S), n \notin S
  PROVE  ~ DependsOn(n, n)
  BY DEF DependsOn

\* What LevelsOf and TopoSort say of a set that lacks no dependency: there is a plan, and
\* an order, exactly when nothing in it depends on itself.
LEMMA CycleOrPlan ==
  ASSUME deps \in [RegistryNodes -> SUBSET RegistryNodes], NEW N \in SUBSET RegistryNodes,
         Dangling(N, deps) = {}
  PROVE  /\ LevelsOf(N, deps).error = IF \E n \in N : DependsOn(n, n) THEN "cycle" ELSE "none"
         /\ TopoSort(N, deps).error = LevelsOf(N, deps).error
  <1> DEFINE K == KahnLevels(N, deps)
             U == UNION {K[i] : i \in DOMAIN K}
             o == KahnOrder(N, deps)
             Cyclic == \E n \in N : DependsOn(n, n)
  <1>1. IsFiniteSet(N) /\ N \in SUBSET Nat
    BY RegistryAssumption, FS_Subset
  <1>2. \A n \in N : deps[n] \in SUBSET N
    BY DEF Dangling
  <1>3. KahnResult(K, N, deps)
    <2> HIDE DEF K
    <2> QED BY <1>1, <1>2, KahnLevelsCorrect DEF K
  <1>4. /\ Ordered(o, N, deps)
        /\ Len(o) = Cardinality(N) <=> ToSet(o) = N
        /\ Len(o) = Cardinality(N) \/ Stuck(o, N, deps)
    BY <1>1, KahnOrderCorrect
  <1>5. LevelsOf(N, deps).error = IF U # N THEN "cycle" ELSE "none"
    <2>1. CASE U # N
      <3>1. LevelsOf(N, deps) = [error |-> "cycle", levels |-> <<>>]
        BY <2>1 DEF LevelsOf
      <3> QED BY <2>1, <3>1
    <2>2. CASE U = N
      <3>1. LevelsOf(N, deps) = [error |-> "none", levels |-> [i \in DOMAIN K |-> Sorted(K[i])]]
        BY <2>2 DEF LevelsOf
      <3> QED BY <2>2, <3>1
    <2> QED BY <2>1, <2>2
  <1>6. TopoSort(N, deps).error = IF ToSet(o) # N THEN "cycle" ELSE "none"
    <2>1. CASE ToSet(o) # N
      <3>1. TopoSort(N, deps) = [error |-> "cycle", order |-> <<>>]
        BY <1>4, <2>1 DEF TopoSort
      <3> QED BY <2>1, <3>1
    <2>2. CASE ToSet(o) = N
      <3>1. TopoSort(N, deps) = [error |-> "none", order |-> o]
        BY <1>4, <2>2 DEF TopoSort
      <3> QED BY <2>2, <3>1
    <2> QED BY <2>1, <2>2
  <1> HIDE DEF K, o
  <1>7. Len(K) \in Nat /\ DOMAIN K = 1..Len(K) /\ U = Earlier(K, Len(K) + 1)
    <2>1. Len(K) \in Nat /\ DOMAIN K = 1..Len(K)
      BY <1>3 DEF KahnResult
    <2>2. (Len(K) + 1) - 1 = Len(K)
      BY <2>1
    <2> QED BY <2>1, <2>2 DEF Earlier
  <1>8. U \subseteq N
    BY <1>3, <1>7 DEF KahnResult
  <1>9. U # N => Cyclic
    <2> SUFFICES ASSUME U # N PROVE \E n \in N \ U : DependsOn(n, n)
      OBVIOUS
    <2>1. N \ U \in SUBSET RegistryNodes /\ N \ U # {}
      BY <1>8
    <2>2. ASSUME NEW n \in N \ U PROVE \E d \in deps[n] : d \in N \ U
      <3>1. ~ (deps[n] \subseteq U)
        BY <1>3, <1>7 DEF KahnResult
      <3> QED BY <1>2, <3>1
    <2> HIDE DEF U
    <2> QED BY <2>1, <2>2, CycleExists
  <1>10. ASSUME U = N, NEW n \in N PROVE ~ DependsOn(n, n)
    <2>1. PICK i \in 1..Len(K) : n \in K[i]
      BY <1>7, <1>10
    <2> DEFINE S == Earlier(K, i)
    <2>2. K[i] = {m \in N : deps[m] \subseteq S} \ S
      BY <1>3 DEF KahnResult, Levelled
    <2>3. S \subseteq N
      BY <1>3, <1>7 DEF KahnResult, Earlier
    <2>4. ASSUME NEW m \in S PROVE deps[m] \subseteq S
      <3>1. PICK j \in 1..(i - 1) : m \in K[j]
        BY DEF Earlier
      <3>2. j \in 1..Len(K) /\ i \in Nat \ {0} /\ j \in 1..i
        BY <1>7
      <3>3. deps[m] \subseteq Earlier(K, j)
        BY <1>3, <3>1, <3>2 DEF KahnResult, Levelled
      <3>4. Earlier(K, j) \subseteq Earlier(K, i)
        BY <3>2, EarlierGrows
      <3> QED BY <3>3, <3>4
    <2> HIDE DEF S
    <2>5. Closed(S)
      BY <2>4 DEF Closed
    <2> QED BY <2>1, <2>2, <2>3, <2>5, NoCycleNoSelf
  <1>11. ToSet(o) # N => Cyclic
    <2> SUFFICES ASSUME ToSet(o) # N PROVE \E n \in N \ ToSet(o) : DependsOn(n, n)
      OBVIOUS
    <2>1. ToSet(o) \subseteq N /\ Stuck(o, N, deps)
      BY <1>4 DEF Ordered, ToSet
    <2>2. N \ ToSet(o) \in SUBSET RegistryNodes /\ N \ ToSet(o) # {}
      BY <2>1
    <2>3. \A n \in N \ ToSet(o) : \E d \in deps[n] : d \in N \ ToSet(o)
      BY <1>2, <2>1 DEF Stuck
    <2> QED BY <2>2, <2>3, CycleExists
  <1>12. ASSUME ToSet(o) = N, NEW n \in N PROVE ~ DependsOn(n, n)
    <2>1. /\ o \in Seq(N) /\ Len(o) \in Nat
          /\ \A i, j \in 1..Len(o) : o[i] = o[j] => i = j
          /\ \A i \in 1..Len(o) : \A d \in deps[o[i]] : \E j \in 1..(i - 1) : o[j] = d
      BY <1>4 DEF Ordered
    <2>2. PICK i \in 1..Len(o) : n = o[i]
      BY <1>12, <2>1 DEF ToSet
    <2> DEFINE S == {o[j] : j \in 1..(i - 1)}
    <2>3. \A j \in 1..(i - 1) : j \in 1..Len(o) /\ 1..(j - 1) \subseteq 1..(i - 1) /\ j # i
      BY <2>1
    <2>4. S \subseteq N /\ n \notin S /\ deps[n] \subseteq S
      BY <2>1, <2>2, <2>3
    <2>5. Closed(S)
      <3> SUFFICES ASSUME NEW j \in 1..(i - 1), NEW d \in deps[o[j]] PROVE d \in S
        BY DEF Closed
      <3>1. PICK k \in 1..(j - 1) : o[k] = d
        BY <2>1, <2>3
      <3> QED BY <2>3, <3>1
    <2> HIDE DEF S
    <2> QED BY <2>4, <2>5, NoCycleNoSelf
  <1> HIDE DEF U
  <1> QED BY <1>5, <1>6, <1>9, <1>10, <1>11, <1>12

\* A plan lists Kahn's levels, each in the order of the names.
LEMMA PlanIsKahns ==
  ASSUME NEW N \in SUBSET RegistryNodes, NEW l, l = LevelsOf(N, deps).levels,
         LevelsOf(N, deps).error = "none",
         NEW K, K = KahnLevels(N, deps)
  PROVE  /\ Dangling(N, deps) = {} /\ UNION {K[i] : i \in DOMAIN K} = N
         /\ DOMAIN l = DOMAIN K
         /\ \A i \in DOMAIN K : l[i] \in [1..Cardinality(K[i]) -> K[i]] /\ ToSet(l[i]) = K[i]
              /\ \A a, b \in 1..Cardinality(K[i]) : l[i][a] = l[i][b] => a = b
  <1> DEFINE U == UNION {K[i] : i \in DOMAIN K}
             r == LevelsOf(N, deps)
  <1>1. Dangling(N, deps) = {}
    <2> SUFFICES ASSUME Dangling(N, deps) # {} PROVE FALSE
      OBVIOUS
    <2>1. r = [error |-> "missing", levels |-> <<>>]
      BY DEF LevelsOf
    <2> HIDE DEF r
    <2>2. r.error = "missing"
      BY <2>1
    <2> QED BY <2>2 DEF r
  <1>2. U = N
    <2> SUFFICES ASSUME U # N PROVE FALSE
      OBVIOUS
    <2>1. r = [error |-> "cycle", levels |-> <<>>]
      BY <1>1 DEF LevelsOf
    <2> HIDE DEF r
    <2>2. r.error = "cycle"
      BY <2>1
    <2> QED BY <2>2 DEF r
  <1>3. r = [error |-> "none", levels |-> [i \in DOMAIN K |-> Sorted(K[i])]]
    BY <1>1, <1>2 DEF LevelsOf
  <1>4. l = [i \in DOMAIN K |-> Sorted(K[i])]
    <2>1. l = r.levels
      OBVIOUS
    <2> HIDE DEF r
    <2> QED BY <1>3, <2>1
  <1>5. ASSUME NEW i \in DOMAIN K PROVE K[i] \in SUBSET Nat /\ IsFiniteSet(K[i])
    <2>1. K[i] \in SUBSET RegistryNodes
      BY <1>2, <1>5
    <2> QED BY <2>1, RegistryAssumption, FS_Subset
  <1>6. \A i \in DOMAIN K : l[i] = Sorted(K[i])
    BY <1>4
  <1>7. DOMAIN l = DOMAIN K
    BY <1>4
  <1> QED BY <1>1, <1>2, <1>5, <1>6, <1>7, SortedLists

\* The plan of a run has these levels.
LEMMA InEarliestLevel ==
  ASSUME PlanningInv PROVE LevelsAreEarliest
  <1> SUFFICES ASSUME phase = "end", outcome = "planned", targets = <<>>
               PROVE  /\ Planned = SubNodes
                      /\ \A n \in SubNodes :
                           /\ Cardinality({p \in (DOMAIN lvls) \X (1..Cardinality(RegistryNodes)) :
                                p[2] \in DOMAIN lvls[p[1]] /\ lvls[p[1]][p[2]] = n}) = 1
                           /\ \A d \in deps[n] : Level(d) < Level(n)
                           /\ Level(n) > 1 => \E d \in deps[n] : Level(d) = Level(n) - 1
    BY DEF LevelsAreEarliest
  <1> DEFINE N == SubNodes
             K == KahnLevels(N, deps)
  <1>1. N \in SUBSET RegistryNodes /\ IsFiniteSet(N) /\ N \in SUBSET Nat
    <2>1. N \in SUBSET RegistryNodes
      BY DEF SubNodes
    <2> QED BY <2>1, RegistryAssumption, FS_Subset
  <1> HIDE DEF N
  <1>2. lvls = LevelsOf(N, deps).levels /\ LevelsOf(N, deps).error = "none"
    BY <1>1, LevelsCover DEF PlanningInv, Outcome, N
  <1>3. /\ Dangling(N, deps) = {} /\ UNION {K[i] : i \in DOMAIN K} = N
        /\ DOMAIN lvls = DOMAIN K
        /\ \A i \in DOMAIN K : lvls[i] \in [1..Cardinality(K[i]) -> K[i]] /\ ToSet(lvls[i]) = K[i]
              /\ \A a, b \in 1..Cardinality(K[i]) : lvls[i][a] = lvls[i][b] => a = b
    <2>1. K = KahnLevels(N, deps)
      OBVIOUS
    <2> HIDE DEF K
    <2> QED BY <1>1, <1>2, <2>1, PlanIsKahns
  <1>4. \A n \in N : deps[n] \in SUBSET N
    BY <1>3 DEF Dangling
  <1>5. KahnResult(K, N, deps)
    <2> HIDE DEF K
    <2> QED BY <1>1, <1>4, KahnLevelsCorrect DEF K
  <1> HIDE DEF K
  <1>6. DOMAIN K = 1..Len(K) /\ Len(K) \in Nat
    BY <1>5 DEF KahnResult
  <1>7. \A i \in 1..Len(K) : \A n \in K[i] :
           /\ \A j \in 1..Len(K) : n \in K[j] => j = i
           /\ \A d \in deps[n] : \E j \in 1..(i - 1) : d \in K[j]
           /\ i > 1 => \E d \in deps[n] : d \in K[i - 1]
    BY <1>4, <1>5, LevelFacts
  <1>8. \A i \in 1..Len(K) : \A n \in K[i] : Level(n) = i
    <2> SUFFICES ASSUME NEW i \in 1..Len(K), NEW n \in K[i] PROVE Level(n) = i
      OBVIOUS
    <2>1. Level(n) = CHOOSE j \in 1..Len(K) : n \in ToSet(lvls[j])
      BY <1>3, <1>6 DEF Level
    <2>2. \A j \in 1..Len(K) : n \in ToSet(lvls[j]) <=> j = i
      BY <1>3, <1>6, <1>7
    <2> QED BY <2>1, <2>2
  <1>9. Planned = N
    BY <1>3 DEF Planned
  <1>10. ASSUME NEW n \in N
         PROVE  /\ Cardinality({p \in (DOMAIN lvls) \X (1..Cardinality(RegistryNodes)) :
                                p[2] \in DOMAIN lvls[p[1]] /\ lvls[p[1]][p[2]] = n}) = 1
                /\ \A d \in deps[n] : Level(d) < Level(n)
                /\ Level(n) > 1 => \E d \in deps[n] : Level(d) = Level(n) - 1
    <2>1. PICK i \in 1..Len(K) : n \in K[i]
      BY <1>3, <1>6
    <2>2. Level(n) = i /\ i \in Nat
      BY <1>6, <1>8, <2>1
    <2>3. \A d \in deps[n] : Level(d) < Level(n)
      <3> SUFFICES ASSUME NEW d \in deps[n] PROVE Level(d) < i
        BY <2>2
      <3>1. PICK j \in 1..(i - 1) : d \in K[j]
        BY <1>7, <2>1
      <3>2. j \in 1..Len(K) /\ j < i
        BY <1>6, <2>1
      <3>3. Level(d) = j
        BY <1>8, <3>1, <3>2
      <3> QED BY <3>2, <3>3
    <2>4. ASSUME Level(n) > 1 PROVE \E d \in deps[n] : Level(d) = Level(n) - 1
      <3>1. i > 1 /\ i - 1 \in 1..Len(K)
        BY <1>6, <2>1, <2>2, <2>4
      <3>2. PICK d \in deps[n] : d \in K[i - 1]
        BY <1>7, <2>1, <3>1
      <3>3. Level(d) = i - 1
        BY <1>8, <3>1, <3>2
      <3> QED BY <2>2, <3>3
    <2> DEFINE Positions == {p \in (DOMAIN lvls) \X (1..Cardinality(RegistryNodes)) :
                            p[2] \in DOMAIN lvls[p[1]] /\ lvls[p[1]][p[2]] = n}
    <2>5. \A j \in 1..Len(K) : Cardinality(K[j]) \in Nat /\ Cardinality(K[j]) <= Cardinality(RegistryNodes)
                                /\ Cardinality(RegistryNodes) \in Nat /\ DOMAIN lvls[j] = 1..Cardinality(K[j])
      <3> SUFFICES ASSUME NEW j \in 1..Len(K)
                   PROVE  Cardinality(K[j]) \in Nat /\ Cardinality(K[j]) <= Cardinality(RegistryNodes)
                                /\ Cardinality(RegistryNodes) \in Nat /\ DOMAIN lvls[j] = 1..Cardinality(K[j])
        OBVIOUS
      <3>1. K[j] \in SUBSET RegistryNodes
        <4>1. j \in DOMAIN K
          BY <1>6
        <4>2. K[j] \subseteq N
          BY <1>5 DEF KahnResult
        <4> QED BY <1>1, <4>2
      <3>2. Cardinality(K[j]) \in Nat /\ Cardinality(K[j]) <= Cardinality(RegistryNodes)
            /\ Cardinality(RegistryNodes) \in Nat
        BY <3>1, RegistryAssumption, FS_Subset, FS_CardinalityType
      <3> QED BY <1>3, <1>6, <3>2
    <2>6. PICK a \in 1..Cardinality(K[i]) : lvls[i][a] = n
      <3>1. n \in ToSet(lvls[i])
        BY <1>3, <1>6, <2>1
      <3> QED BY <2>5, <3>1 DEF ToSet
    <2>7. <<i, a>> \in Positions
      <3>1. a \in 1..Cardinality(RegistryNodes)
        BY <2>5
      <3> QED BY <1>3, <1>6, <2>5, <2>6, <3>1
    <2>8. ASSUME NEW p \in Positions PROVE p = <<i, a>>
      <3>1. p[1] \in 1..Len(K) /\ p[2] \in 1..Cardinality(K[p[1]]) /\ lvls[p[1]][p[2]] = n /\ p = <<p[1], p[2]>>
        BY <1>3, <1>6, <2>5
      <3>2. n \in K[p[1]]
        BY <1>3, <1>6, <3>1
      <3>3. p[1] = i
        BY <1>7, <2>1, <3>1, <3>2
      <3>4. p[2] = a
        BY <1>3, <1>6, <2>6, <3>1, <3>3
      <3> QED BY <3>1, <3>3, <3>4
    <2>9. Positions = {<<i, a>>}
      <3> HIDE DEF Positions
      <3> QED BY <2>7, <2>8
    <2>10. Cardinality(Positions) = 1
      BY <2>9, FS_Singleton
    <2> HIDE DEF Positions
    <2> QED BY <2>3, <2>4, <2>10 DEF Positions
  <1> QED BY <1>9, <1>10 DEF N

\* For every project and every mix of options a computed plan lists the wanted nodes once,
\* each after all it depends on and as early as that allows; a cycle among them, and
\* nothing else, keeps a closed selection from being planned, and topo_sort agrees
\* (dag.levels, dag.topo_sort, _levels_for_run).
THEOREM PlanInOrder == PlanningSpec => []PlanIsInOrder
  <1>1. ASSUME PlanningInv PROVE PlanIsInOrder
    <2> DEFINE N == SubNodes
    <2>1. N \in SUBSET RegistryNodes /\ IsFiniteSet(N) /\ N \in SUBSET Nat
      <3>1. N \in SUBSET RegistryNodes
        BY DEF SubNodes
      <3> QED BY <3>1, RegistryAssumption, FS_Subset
    <2>2. deps \in [RegistryNodes -> SUBSET RegistryNodes]
      BY <1>1 DEF PlanningInv, PlanningTypes
    <2>3. /\ LevelsOf(N, deps).error \in {"none", "missing", "cycle"}
          /\ LevelsOf(N, deps).error = "missing" <=> Dangling(N, deps) # {}
      BY <2>1, LevelsCover
    <2>4. ASSUME phase = "end", targets = <<>>, outcome # "empty"
          PROVE  outcome = IF LevelsOf(N, deps).error = "none" THEN "planned" ELSE LevelsOf(N, deps).error
      BY <1>1, <2>4 DEF PlanningInv, Outcome
    <2>5. Dangling(N, deps) = {} =>
            /\ LevelsOf(N, deps).error = IF \E n \in N : DependsOn(n, n) THEN "cycle" ELSE "none"
            /\ TopoSort(N, deps).error = LevelsOf(N, deps).error
      BY <2>1, <2>2, CycleOrPlan
    <2>6. CyclesAreRejected
      <3> SUFFICES ASSUME phase = "end", targets = <<>>, changed = Absent, outcome # "empty"
                   PROVE  outcome = IF \E n \in N : DependsOn(n, n) THEN "cycle" ELSE "planned"
        BY DEF CyclesAreRejected
      <3>1. wanted \subseteq RegistryNodes /\ \A n \in wanted : deps[n] \subseteq wanted
        BY <1>1 DEF PlanningInv, Selection
      <3>2. Dangling(N, deps) = {}
        BY <3>1 DEF Dangling, SubNodes
      <3> HIDE DEF N
      <3> QED BY <2>4, <2>5, <3>2
    <2>7. TopoSortAgrees
      <3> SUFFICES ASSUME phase = "end", targets = <<>>, outcome # "empty"
                   PROVE  /\ outcome = IF TopoSort(N, deps).error = "none" THEN "planned" ELSE TopoSort(N, deps).error
                          /\ TopoSort(N, deps).error = "none" =>
                               /\ ToSet(TopoSort(N, deps).order) = N
                               /\ \A i, j \in DOMAIN TopoSort(N, deps).order :
                                     TopoSort(N, deps).order[j] \in deps[TopoSort(N, deps).order[i]] => j < i
        BY Zenon DEF TopoSortAgrees
      <3> DEFINE t == TopoSort(N, deps)
                 o == KahnOrder(N, deps)
      <3>1. t.error = LevelsOf(N, deps).error
        <4>1. CASE Dangling(N, deps) # {}
          <5>1. t = [error |-> "missing", order |-> <<>>]
            BY <4>1 DEF TopoSort
          <5> HIDE DEF t
          <5>2. t.error = "missing"
            BY <5>1
          <5> QED BY <2>3, <4>1, <5>2
        <4>2. CASE Dangling(N, deps) = {}
          BY <2>5, <4>2
        <4> QED BY <4>1, <4>2
      <3>2. ASSUME t.error = "none"
            PROVE  ToSet(t.order) = N /\ \A i, j \in DOMAIN t.order : t.order[j] \in deps[t.order[i]] => j < i
        <4>0. Dangling(N, deps) = {}
          BY <2>3, <3>1, <3>2
        <4>1. /\ Ordered(o, N, deps)
              /\ Len(o) = Cardinality(N) <=> ToSet(o) = N
          BY <2>1, KahnOrderCorrect
        <4>2. Len(o) = Cardinality(N)
          <5> SUFFICES ASSUME Len(o) # Cardinality(N) PROVE FALSE
            OBVIOUS
          <5>1. t = [error |-> "cycle", order |-> <<>>]
            BY <4>0 DEF TopoSort
          <5> HIDE DEF t
          <5>2. t.error = "cycle"
            BY <5>1
          <5> QED BY <3>2, <5>2
        <4>3. t = [error |-> "none", order |-> o]
          BY <4>0, <4>2 DEF TopoSort
        <4> HIDE DEF t, o
        <4>4. t.order = o /\ DOMAIN o = 1..Len(o) /\ Len(o) \in Nat
          BY <4>1, <4>3 DEF Ordered
        <4>5. ASSUME NEW i \in 1..Len(o), NEW j \in 1..Len(o), o[j] \in deps[o[i]] PROVE j < i
          <5>1. PICK k \in 1..(i - 1) : o[k] = o[j]
            BY <4>1, <4>5 DEF Ordered
          <5>2. k \in 1..Len(o) /\ k < i
            BY <4>4
          <5> QED BY <4>1, <5>1, <5>2 DEF Ordered
        <4> QED BY <4>1, <4>2, <4>4, <4>5
      <3> HIDE DEF N
      <3> QED BY <2>4, <3>1, <3>2
    <2>8. LevelsAreEarliest
      BY <1>1, InEarliestLevel
    <2> QED BY <2>6, <2>7, <2>8 DEF PlanIsInOrder
  <1> QED BY <1>1, PlanningInvariance, PTL

-----------------------------------------------------------------------------
(* Batching: amounts, as numbers of units.                                 *)

Units(w, top, S) == {unit \in S \X (1..top) : unit[2] <= w[unit[1]]}
Amount(w, top, S) == Cardinality(Units(w, top, S))

\* The set {y \in S : a[y] = h}.
Share(S, a, h) == {y \in S : a[y] = h}

LEMMA IntervalSize ==
  ASSUME NEW n \in Nat PROVE IsFiniteSet(1..n) /\ Cardinality(1..n) = n
  <1>1. 1 \in Int /\ n \in Int
    OBVIOUS
  <1>2. IsFiniteSet(1..n) /\ Cardinality(1..n) = IF 1 > n THEN 0 ELSE n-1+1
    BY <1>1, FS_Interval, Zenon
  <1>3. (IF 1 > n THEN 0 ELSE n-1+1) = n
    OBVIOUS
  <1> QED BY <1>2, <1>3

LEMMA UnitsFinite ==
  ASSUME NEW S, IsFiniteSet(S), NEW top \in Nat, NEW w
  PROVE  IsFiniteSet(Units(w, top, S)) /\ Amount(w, top, S) \in Nat
  <1>1. IsFiniteSet(1..top)
    BY IntervalSize
  <1>2. IsFiniteSet(S \X (1..top))
    BY <1>1, FS_Product
  <1>3. Units(w, top, S) \in SUBSET (S \X (1..top))
    BY DEF Units
  <1>4. IsFiniteSet(Units(w, top, S))
    BY <1>2, <1>3, FS_Subset
  <1> QED BY <1>4, FS_CardinalityType DEF Amount

LEMMA AmountGrows ==
  ASSUME NEW S, IsFiniteSet(S), NEW T \in SUBSET S, NEW top \in Nat, NEW w
  PROVE  IsFiniteSet(T) /\ Amount(w, top, T) <= Amount(w, top, S)
  <1>1. IsFiniteSet(T)
    BY FS_Subset
  <1>2. Units(w, top, T) \in SUBSET Units(w, top, S)
    BY DEF Units
  <1>3. IsFiniteSet(Units(w, top, S))
    BY UnitsFinite
  <1>4. Cardinality(Units(w, top, T)) <= Cardinality(Units(w, top, S))
    BY <1>2, <1>3, FS_Subset
  <1> QED BY <1>1, <1>4 DEF Amount

LEMMA AmountOfNone ==
  ASSUME NEW w, NEW top PROVE Amount(w, top, {}) = 0
  <1>1. Units(w, top, {}) = {}
    BY DEF Units
  <1> QED BY <1>1, FS_EmptySet DEF Amount

\* One more element adds its own units.
LEMMA AmountAdds ==
  ASSUME NEW S, IsFiniteSet(S), NEW x, x \notin S, NEW top \in Nat, NEW w, w[x] \in 0..top
  PROVE  Amount(w, top, S \union {x}) = Amount(w, top, S) + w[x]
  <1> DEFINE U == Units(w, top, S)
             X == {x} \X (1..w[x])
  <1>1. Units(w, top, S \union {x}) = U \union X
    <2>1. \A u : u \in {x} \X (1..w[x]) <=> u \in {x} \X (1..top) /\ u[2] <= w[u[1]]
      BY SMT
    <2> QED BY <2>1 DEF Units
  <1>2. IsFiniteSet(U) /\ Cardinality(U) \in Nat
    BY UnitsFinite DEF Amount
  <1>3. IsFiniteSet({x}) /\ Cardinality({x}) = 1
    BY FS_Singleton
  <1>4. IsFiniteSet(1..w[x]) /\ Cardinality(1..w[x]) = w[x] /\ w[x] \in Nat
    BY IntervalSize
  <1>5. IsFiniteSet(X) /\ Cardinality(X) = w[x]
    <2>1. IsFiniteSet(X) /\ Cardinality(X) = Cardinality({x}) * Cardinality(1..w[x])
      BY <1>3, <1>4, FS_Product
    <2> QED BY <1>3, <1>4, <2>1
  <1>6. U \cap X = {}
    BY DEF Units
  <1> HIDE DEF U, X
  <1>7. Cardinality(U \union X) = Cardinality(U) + Cardinality(X) - Cardinality(U \cap X)
    BY <1>2, <1>5, FS_Union
  <1>8. Cardinality(U \cap X) = 0
    BY <1>6, FS_EmptySet
  <1>9. Cardinality(U \union X) = Cardinality(U) + w[x]
    BY <1>2, <1>4, <1>5, <1>7, <1>8
  <1> QED BY <1>1, <1>9, Zenon DEF Amount, U

LEMMA AmountOfOne ==
  ASSUME NEW x, NEW top \in Nat, NEW w, w[x] \in 0..top
  PROVE  IsFiniteSet({x}) /\ Amount(w, top, {x}) = w[x]
  <1>1. Amount(w, top, {} \union {x}) = Amount(w, top, {}) + w[x]
    BY AmountAdds, FS_EmptySet
  <1>2. {} \union {x} = {x} /\ Amount(w, top, {}) = 0 /\ IsFiniteSet({x})
    BY AmountOfNone, FS_Singleton
  <1> QED BY <1>1, <1>2

LEMMA AmountOfTwo ==
  ASSUME NEW x, NEW y, x # y, NEW top \in Nat, NEW w, w[x] \in 0..top, w[y] \in 0..top
  PROVE  IsFiniteSet({x, y}) /\ Amount(w, top, {x, y}) = w[x] + w[y]
  <1>1. Amount(w, top, {x} \union {y}) = Amount(w, top, {x}) + w[y]
    BY AmountAdds, FS_Singleton
  <1>2. {x} \union {y} = {x, y}
    OBVIOUS
  <1>3. IsFiniteSet({x} \union {y})
    BY FS_Singleton, FS_AddElement
  <1> QED BY <1>1, <1>2, <1>3, AmountOfOne

LEMMA AmountOfUnion ==
  ASSUME NEW S, IsFiniteSet(S), NEW T, IsFiniteSet(T), S \cap T = {}, NEW top \in Nat, NEW w
  PROVE  Amount(w, top, S \union T) = Amount(w, top, S) + Amount(w, top, T)
  <1> DEFINE U == Units(w, top, S)
             V == Units(w, top, T)
  <1>1. IsFiniteSet(U) /\ Cardinality(U) \in Nat /\ IsFiniteSet(V) /\ Cardinality(V) \in Nat
    BY UnitsFinite DEF Amount
  <1>2. Units(w, top, S \union T) = U \union V /\ U \cap V = {}
    BY DEF Units
  <1> HIDE DEF U, V
  <1>3. Cardinality(U \union V) = Cardinality(U) + Cardinality(V) - Cardinality(U \cap V)
    BY <1>1, FS_Union
  <1>4. Cardinality(U \cap V) = 0
    BY <1>2, FS_EmptySet
  <1>5. Cardinality(U \union V) = Cardinality(U) + Cardinality(V)
    BY <1>1, <1>3, <1>4
  <1> QED BY <1>2, <1>5, Zenon DEF Amount, U, V

\* k shares of at most C come to at most kC, and k shares of at least C to at least kC.
LEMMA AmountOfShares ==
  ASSUME NEW S, IsFiniteSet(S), NEW top \in Nat, NEW w, NEW k \in Nat, NEW a \in [S -> 1..k], NEW C \in Nat
  PROVE  /\ (\A h \in 1..k : Amount(w, top, Share(S, a, h)) <= C) => Amount(w, top, S) <= k * C
         /\ (\A h \in 1..k : C <= Amount(w, top, Share(S, a, h))) => k * C <= Amount(w, top, S)
  <1> DEFINE First(j) == {y \in S : a[y] <= j}
             Good == {j \in Nat : j <= k =>
                        /\ (\A h \in 1..k : Amount(w, top, Share(S, a, h)) <= C) => Amount(w, top, First(j)) <= j * C
                        /\ (\A h \in 1..k : C <= Amount(w, top, Share(S, a, h))) => j * C <= Amount(w, top, First(j))}
  <1>1. 0 \in Good
    <2>1. First(0) = {}
      OBVIOUS
    <2>2. Amount(w, top, First(0)) = 0
      BY <2>1, AmountOfNone
    <2> HIDE DEF First
    <2> QED BY <2>2
  <1>2. ASSUME NEW j \in Nat, j \in Good PROVE j + 1 \in Good
    <2> SUFFICES ASSUME j + 1 <= k
                 PROVE  /\ (\A h \in 1..k : Amount(w, top, Share(S, a, h)) <= C) => Amount(w, top, First(j + 1)) <= (j + 1) * C
                        /\ (\A h \in 1..k : C <= Amount(w, top, Share(S, a, h))) => (j + 1) * C <= Amount(w, top, First(j + 1))
      OBVIOUS
    <2>1. First(j + 1) = First(j) \union Share(S, a, j + 1) /\ First(j) \cap Share(S, a, j + 1) = {}
      BY DEF Share
    <2>2. First(j) \in SUBSET S /\ Share(S, a, j + 1) \in SUBSET S
      BY DEF Share
    <2> HIDE DEF First
    <2>3. IsFiniteSet(First(j)) /\ IsFiniteSet(Share(S, a, j + 1))
      BY <2>2, FS_Subset
    <2>4. Amount(w, top, First(j) \union Share(S, a, j + 1))
            = Amount(w, top, First(j)) + Amount(w, top, Share(S, a, j + 1))
      BY <2>1, <2>3, AmountOfUnion
    <2>5. Amount(w, top, First(j)) \in Nat /\ Amount(w, top, Share(S, a, j + 1)) \in Nat
      BY <2>3, UnitsFinite
    <2>6. (j + 1) * C = j * C + C /\ j * C \in Nat /\ j <= k /\ j + 1 \in 1..k
      OBVIOUS
    <2> DEFINE before == Amount(w, top, First(j))
               added == Amount(w, top, Share(S, a, j + 1))
               product == j * C
    <2>7. Amount(w, top, First(j + 1)) = before + added /\ before \in Nat /\ added \in Nat
      BY <2>1, <2>4, <2>5
    <2>8. ASSUME \A h \in 1..k : Amount(w, top, Share(S, a, h)) <= C PROVE before <= product /\ added <= C
      BY <1>2, <2>6, <2>8
    <2>9. ASSUME \A h \in 1..k : C <= Amount(w, top, Share(S, a, h)) PROVE product <= before /\ C <= added
      BY <1>2, <2>6, <2>9
    <2>10. (j + 1) * C = product + C /\ product \in Nat
      BY <2>6
    <2> HIDE DEF before, added, product
    <2> QED BY <2>7, <2>8, <2>9, <2>10
  <1>3. First(k) = S
    OBVIOUS
  <1> HIDE DEF First, Good
  <1>4. k \in Good
    BY <1>1, <1>2, NatSetInduction
  <1> QED BY <1>3, <1>4 DEF Good

\* Where nothing is lighter than a third of C, a set that fits C has at most two members,
\* and if it has two then each leaves room for the other.
Fitting(T, p, top, q, C, w) ==
    /\ IsFiniteSet(T) /\ Amount(p, top, T) <= C
    /\ \A y \in T : p[y] \in 0..top /\ q <= p[y]
    /\ \A y \in T : w[y] \in 1..2 /\ (p[y] <= C - q => w[y] = 1)

LEMMA FitsTwo ==
  ASSUME NEW top \in Nat, NEW q \in Nat, NEW C \in Nat, C < 3 * q,
         NEW T, NEW p, NEW w, Fitting(T, p, top, q, C, w)
  PROVE  Amount(w, 2, T) <= 2
  <1> USE DEF Fitting
  <1>0. ASSUME NEW D \in SUBSET T PROVE IsFiniteSet(D) /\ Amount(p, top, D) <= C
    <2>1. IsFiniteSet(D) /\ Amount(p, top, D) <= Amount(p, top, T)
      BY AmountGrows
    <2>2. Amount(p, top, D) \in Nat /\ Amount(p, top, T) \in Nat
      BY <2>1, UnitsFinite
    <2> QED BY <2>1, <2>2
  <1>1. \A y \in T : w[y] \in 0..2
    OBVIOUS
  <1>2. CASE T = {}
    BY <1>2, AmountOfNone
  <1>3. ASSUME NEW y \in T, T = {y} PROVE Amount(w, 2, T) <= 2
    <2>1. Amount(w, 2, {y}) = w[y]
      BY <1>1, AmountOfOne
    <2> QED BY <1>1, <1>3, <2>1
  <1>4. ASSUME NEW y \in T, NEW z \in T, y # z, T = {y, z} PROVE Amount(w, 2, T) <= 2
    <2>1. Amount(p, top, {y, z}) = p[y] + p[z]
      BY <1>4, AmountOfTwo
    <2>2. Amount(p, top, {y, z}) <= C
      BY <1>0, <1>4
    <2>3. w[y] = 1 /\ w[z] = 1
      BY <2>1, <2>2
    <2>4. Amount(w, 2, {y, z}) = w[y] + w[z]
      <3>1. 2 \in Nat /\ w[y] \in 0..2 /\ w[z] \in 0..2
        BY <1>1
      <3> QED BY <1>4, <3>1, AmountOfTwo, ZenonT(40)
    <2> QED BY <1>4, <2>3, <2>4
  <1>5. ASSUME NEW y \in T, NEW z \in T, y # z, NEW u \in T, u # y, u # z PROVE FALSE
    <2>1. IsFiniteSet({y, z}) /\ Amount(p, top, {y, z}) = p[y] + p[z]
      BY <1>5, AmountOfTwo
    <2>2. u \notin {y, z} /\ p[u] \in 0..top
      BY <1>5
    <2>3. Amount(p, top, {y, z} \union {u}) = Amount(p, top, {y, z}) + p[u]
      BY <2>1, <2>2, AmountAdds, ZenonT(40)
    <2>4. Amount(p, top, {y, z} \union {u}) <= C
      BY <1>0
    <2>5. p[y] \in 0..top /\ q <= p[y] /\ p[z] \in 0..top /\ q <= p[z] /\ p[u] \in 0..top /\ q <= p[u]
      OBVIOUS
    <2> DEFINE all == Amount(p, top, {y, z} \union {u})
               two == Amount(p, top, {y, z})
    <2>6. all = two + p[u] /\ two = p[y] + p[z] /\ all <= C
      BY <2>1, <2>3, <2>4
    <2> HIDE DEF all, two
    <2> QED BY <2>5, <2>6
  <1>6. \/ T = {}
        \/ \E y \in T : T = {y}
        \/ \E y, z \in T : y # z /\ T = {y, z}
        \/ \E y, z, u \in T : y # z /\ u # y /\ u # z
    <2> SUFFICES ASSUME T # {}, ~ \E y \in T : T = {y}
                 PROVE  \/ \E y, z \in T : y # z /\ T = {y, z}
                        \/ \E y, z, u \in T : y # z /\ u # y /\ u # z
      OBVIOUS
    <2>0. PICK y \in T : T # {y}
      OBVIOUS
    <2>1. PICK z \in T : z # y
      BY <2>0
    <2>2. CASE T = {y, z}
      BY <2>1, <2>2
    <2>3. CASE T # {y, z}
      <3>1. PICK u \in T : u \notin {y, z}
        BY <2>3
      <3> QED BY <2>1, <3>1
    <2> QED BY <2>2, <2>3
  <1> QED BY <1>2, <1>3, <1>4, <1>5, <1>6

\* A batch that leaves no room has two members, or one that leaves no room.
LEMMA FillsTwo ==
  ASSUME NEW T, IsFiniteSet(T), NEW top \in Nat, NEW p, NEW room \in Nat,
         \A y \in T : p[y] \in 0..top,
         room < Amount(p, top, T),
         NEW w, \A y \in T : w[y] \in 1..2 /\ (room < p[y] => w[y] = 2)
  PROVE  2 <= Amount(w, 2, T)
  <1>1. \A y \in T : w[y] \in 0..2 /\ w[y] >= 1
    OBVIOUS
  <1>2. CASE T = {}
    <2>1. Amount(p, top, T) = 0
      BY <1>2, AmountOfNone
    <2> QED BY <2>1
  <1>3. ASSUME NEW y \in T, T = {y} PROVE 2 <= Amount(w, 2, T)
    <2>1. Amount(w, 2, {y}) = w[y] /\ Amount(p, top, {y}) = p[y]
      BY <1>1, AmountOfOne
    <2>2. room < p[y]
      BY <1>3, <2>1
    <2>3. w[y] = 2
      BY <2>2
    <2> QED BY <1>3, <2>1, <2>3
  <1>4. ASSUME NEW y \in T, NEW z \in T, y # z PROVE 2 <= Amount(w, 2, T)
    <2>1. Amount(w, 2, {y, z}) = w[y] + w[z] /\ IsFiniteSet({y, z})
      <3>1. 2 \in Nat /\ w[y] \in 0..2 /\ w[z] \in 0..2
        BY <1>1
      <3> QED BY <1>4, <3>1, AmountOfTwo, ZenonT(40)
    <2>2. Amount(w, 2, {y, z}) <= Amount(w, 2, T)
      BY AmountGrows
    <2>3. Amount(w, 2, T) \in Nat
      BY UnitsFinite
    <2>4. w[y] \in 1..2 /\ w[z] \in 1..2
      BY <1>1
    <2> QED BY <2>1, <2>2, <2>3, <2>4
  <1>5. T = {} \/ (\E y \in T : T = {y}) \/ \E y, z \in T : y # z
    BY Zenon
  <1> QED BY <1>2, <1>3, <1>4, <1>5

\* The name x is no longer than those that were dealt before it and goes to a batch of the
\* least load L: whatever fits into k times C, that batch stays within (4k - 1) / 3k of C.
LEMMA LongestFirst ==
  ASSUME NEW N, IsFiniteSet(N), NEW top \in Nat, NEW p, \A y \in N : p[y] \in 0..top,
         NEW k \in Nat \ {0}, NEW X \in SUBSET N, NEW b \in [X -> 1..k], NEW L \in Nat,
         \A h \in 1..k : L <= Amount(p, top, Share(X, b, h)),
         NEW x \in N, x \notin X, \A y \in X : p[x] <= p[y],
         NEW a \in [N -> 1..k], NEW C \in Nat,
         \A h \in 1..k : Amount(p, top, Share(N, a, h)) <= C
  PROVE  3 * k * (L + p[x]) <= (4 * k - 1) * C
  <1> DEFINE q == p[x]
             Y == X \union {x}
             ay == [y \in Y |-> a[y]]
  <1>1. IsFiniteSet(X) /\ IsFiniteSet(Y) /\ q \in 0..top /\ q \in Nat
    BY FS_Subset, FS_AddElement
  <1>2. \A h \in 1..k : Share(Y, ay, h) \in SUBSET Share(N, a, h) /\ Share(N, a, h) \in SUBSET N
        /\ Share(Y, ay, h) \in SUBSET Y /\ ay \in [Y -> 1..k]
    BY DEF Share
  <1> HIDE DEF Y, ay
  <1>3. ASSUME NEW h \in 1..k
        PROVE  IsFiniteSet(Share(Y, ay, h)) /\ Amount(p, top, Share(Y, ay, h)) <= C
    <2>1. IsFiniteSet(Share(N, a, h))
      BY <1>2, FS_Subset
    <2>2. IsFiniteSet(Share(Y, ay, h)) /\ Amount(p, top, Share(Y, ay, h)) <= Amount(p, top, Share(N, a, h))
      BY <1>2, <2>1, AmountGrows
    <2>3. Amount(p, top, Share(Y, ay, h)) \in Nat /\ Amount(p, top, Share(N, a, h)) \in Nat
      BY <2>1, <2>2, UnitsFinite
    <2> QED BY <2>2, <2>3
  <1>4. k \in Nat /\ 1 \in 1..k /\ ay \in [Y -> 1..k]
    BY <1>2
  <1>5. k * L <= Amount(p, top, X)
    BY <1>1, <1>4, AmountOfShares
  <1>6. Amount(p, top, Y) <= k * C
    BY <1>1, <1>3, <1>4, AmountOfShares
  <1>7. Amount(p, top, Y) = Amount(p, top, X) + q
    BY <1>1, AmountAdds, SMTT(30) DEF Y
  <1>8. Amount(p, top, X) \in Nat /\ Amount(p, top, Y) \in Nat
    BY <1>1, UnitsFinite
  <1> DEFINE kL == k * L
             kC == k * C
             kq == k * q
  <1>9. kL \in Nat /\ kC \in Nat /\ kq \in Nat
    BY <1>1
  <1>10. kL + q <= kC
    <2> HIDE DEF kL, kC
    <2> QED BY <1>1, <1>5, <1>6, <1>7, <1>8, <1>9 DEF kL, kC
  <1>11. 3 * k * (L + q) = 3 * kL + 3 * kq /\ (4 * k - 1) * C = 4 * kC - C
    BY <1>1
  <1>12. CASE 3 * q <= C
    <2>1. 3 * (k - 1) * q <= (k - 1) * C
      <3>1. \A m, u, v \in Nat : u <= v => m * u <= m * v
        OBVIOUS
      <3>2. k - 1 \in Nat /\ 3 * q \in Nat /\ 3 * (k - 1) * q = (k - 1) * (3 * q)
        BY <1>1
      <3>3. (k - 1) * (3 * q) <= (k - 1) * C
        BY <1>12, <3>1, <3>2
      <3> QED BY <3>2, <3>3
    <2>2. 3 * (k - 1) * q = 3 * kq - 3 * q /\ (k - 1) * C = kC - C
      BY <1>1
    <2> HIDE DEF kL, kC, kq, q
    <2>3. 3 * kL + 3 * kq <= 4 * kC - C
      BY <1>1, <1>9, <1>10, <2>1, <2>2
    <2> QED BY <1>11, <2>3 DEF q
  <1>13. CASE C < 3 * q
    <2>1. L + q <= C
      <3> SUFFICES ASSUME C < L + q PROVE FALSE
        BY <1>1
      <3> DEFINE w == [y \in Y |-> IF p[y] > C - q THEN 2 ELSE 1]
      <3>1. \A y \in Y : w[y] = (IF p[y] > C - q THEN 2 ELSE 1) /\ p[y] \in 0..top /\ q <= p[y]
        BY <1>1 DEF Y
      <3>2. x \in Y /\ X \in SUBSET Y
        BY DEF Y
      <3>3. C - q \in Nat
        <4>1. a[x] \in 1..k /\ x \in Share(Y, ay, a[x])
          BY <3>2 DEF Share, ay
        <4>2. {x} \in SUBSET Share(Y, ay, a[x])
          BY <4>1
        <4>3. IsFiniteSet({x}) /\ Amount(p, top, {x}) = q
          BY <1>1, AmountOfOne
        <4>4. Amount(p, top, {x}) <= Amount(p, top, Share(Y, ay, a[x]))
          BY <1>3, <4>1, <4>2, AmountGrows
        <4>5. Amount(p, top, Share(Y, ay, a[x])) \in Nat
          BY <1>3, <4>1, UnitsFinite
        <4>6. Amount(p, top, Share(Y, ay, a[x])) <= C
          BY <1>3, <4>1
        <4> HIDE DEF q
        <4> QED BY <1>1, <4>3, <4>4, <4>5, <4>6
      <3> HIDE DEF w
      <3>11. \A y \in Y : w[y] \in 1..2 /\ (p[y] <= C - q => w[y] = 1) /\ (C - q < p[y] => w[y] = 2)
        BY <1>1, <3>1, <3>3
      <3>4. ASSUME NEW h \in 1..k PROVE Amount(w, 2, Share(Y, ay, h)) <= 2
        <4>1. IsFiniteSet(Share(Y, ay, h)) /\ Amount(p, top, Share(Y, ay, h)) <= C
          BY <1>3
        <4>2. /\ \A y \in Share(Y, ay, h) : p[y] \in 0..top /\ q <= p[y]
              /\ \A y \in Share(Y, ay, h) : w[y] \in 1..2 /\ (p[y] <= C - q => w[y] = 1)
          BY <1>2, <3>1, <3>11
        <4> HIDE DEF q
        <4>3. q \in Nat /\ C < 3 * q
          BY <1>1, <1>13
        <4>4. Fitting(Share(Y, ay, h), p, top, q, C, w)
          BY <4>1, <4>2 DEF Fitting
        <4> QED BY <4>3, <4>4, FitsTwo
      <3>5. ASSUME NEW h \in 1..k PROVE 2 <= Amount(w, 2, Share(X, b, h))
        <4>1. Share(X, b, h) \in SUBSET X
          BY DEF Share
        <4>2. IsFiniteSet(Share(X, b, h))
          BY <1>1, <4>1, FS_Subset
        <4>3. Amount(p, top, Share(X, b, h)) \in Nat
          BY <4>2, UnitsFinite
        <4>4. C - q < Amount(p, top, Share(X, b, h))
          <5> HIDE DEF q
          <5> QED BY <1>1, <4>3
        <4>5. /\ \A y \in Share(X, b, h) : p[y] \in 0..top
              /\ \A y \in Share(X, b, h) : w[y] \in 1..2 /\ (C - q < p[y] => w[y] = 2)
          BY <3>1, <3>2, <3>11, <4>1
        <4> HIDE DEF q
        <4> QED BY <3>3, <4>2, <4>4, <4>5, FillsTwo
      <3>6. k * 2 <= Amount(w, 2, X)
        BY <1>1, <1>4, <3>5, AmountOfShares
      <3>7. Amount(w, 2, Y) <= k * 2
        BY <1>1, <1>4, <3>4, AmountOfShares
      <3>8. w[x] \in 1..2 /\ w[x] \in 0..2
        BY <3>1, <3>2
      <3>9. Amount(w, 2, Y) = Amount(w, 2, X) + w[x]
        BY <1>1, <3>8, AmountAdds, ZenonT(40) DEF Y
      <3>10. Amount(w, 2, Y) \in Nat /\ Amount(w, 2, X) \in Nat
        BY <1>1, UnitsFinite
      <3> QED BY <3>6, <3>7, <3>8, <3>9, <3>10
    <2>2. k * (L + q) <= k * C
      <3>1. \A m, u, v \in Nat : u <= v => m * u <= m * v
        OBVIOUS
      <3>2. k \in Nat /\ L + q \in Nat
        BY <1>1
      <3> HIDE DEF q
      <3> QED BY <2>1, <3>1, <3>2
    <2>3. k * (L + q) = kL + kq
      BY <1>1
    <2>4. C <= kC
      <3>1. k - 1 \in Nat /\ (k - 1) * C = kC - C
        OBVIOUS
      <3>2. (k - 1) * C \in Nat
        BY <3>1
      <3> HIDE DEF kC
      <3> QED BY <1>9, <3>1, <3>2
    <2> HIDE DEF kL, kq, q
    <2>5. kL + kq <= kC
      BY <2>2, <2>3
    <2> HIDE DEF kC
    <2>6. 3 * kL + 3 * kq <= 4 * kC - C
      BY <1>9, <2>4, <2>5
    <2> QED BY <1>11, <2>6 DEF q
  <1>14. 3 * q <= C \/ C < 3 * q
    BY <1>1
  <1> QED BY <1>12, <1>13, <1>14

-----------------------------------------------------------------------------
(* Batching: the sort, and the two loops that deal.                        *)

\* A list of members of S, each with a duration.
Timed(n, S, ns, p) == n \in Nat /\ ns \in [1..n -> S] /\ \A i \in 1..n : p[ns[i]] \in Nat

\* The list names every member of S, and none twice.
Listed(n, S, list) ==
    /\ n \in Nat /\ list \in [1..n -> S]
    /\ \A i, j \in 1..n : list[i] = list[j] => i = j
    /\ \A x \in S : \E i \in 1..n : list[i] = x

\* Ranks are the numbers 1..n, in the order of precedence.
LEMMA Ranks ==
  ASSUME NEW n, NEW S, NEW ns, NEW p, Timed(n, S, ns, p)
  PROVE  /\ \A i \in 1..n : Rank(ns, p, i) \in 1..n
         /\ \A i, j \in 1..n : Precedes(ns, p, i, j) => Rank(ns, p, i) < Rank(ns, p, j)
         /\ \A i, j \in 1..n : i # j => Precedes(ns, p, i, j) \/ Precedes(ns, p, j, i)
  <1> USE DEF Timed
  <1> DEFINE Before(i) == {j \in 1..n : Precedes(ns, p, j, i)}
  <1>0. DOMAIN ns = 1..n /\ IsFiniteSet(1..n) /\ Cardinality(1..n) = n
    BY IntervalSize
  <1>1. \A i \in 1..n : Before(i) \in SUBSET (1..n) /\ i \notin Before(i) /\ Before(i) # 1..n
    BY DEF Precedes
  <1>2. \A i, j \in 1..n : Precedes(ns, p, i, j) =>
          Before(i) \in SUBSET Before(j) /\ i \in Before(j) /\ i \notin Before(i)
    BY DEF Precedes
  <1>3. \A i, j \in 1..n : i # j => Precedes(ns, p, i, j) \/ Precedes(ns, p, j, i)
    BY DEF Precedes
  <1>4. \A i \in 1..n : Rank(ns, p, i) = Cardinality(Before(i)) + 1
    BY <1>0 DEF Rank
  <1> HIDE DEF Before
  <1>5. \A i \in 1..n : IsFiniteSet(Before(i)) /\ Cardinality(Before(i)) \in Nat
    BY <1>0, <1>1, FS_Subset, FS_CardinalityType
  <1>6. \A i \in 1..n : Rank(ns, p, i) \in 1..n
    <2> TAKE i \in 1..n
    <2>1. Cardinality(Before(i)) <= n /\ Cardinality(Before(i)) # n
      BY <1>0, <1>1, FS_Subset
    <2> QED BY <1>4, <1>5, <2>1
  <1>7. \A i, j \in 1..n : Precedes(ns, p, i, j) => Rank(ns, p, i) < Rank(ns, p, j)
    <2> SUFFICES ASSUME NEW i \in 1..n, NEW j \in 1..n, Precedes(ns, p, i, j)
                 PROVE  Rank(ns, p, i) < Rank(ns, p, j)
      OBVIOUS
    <2>1. Before(i) \in SUBSET Before(j) /\ Before(i) # Before(j)
      BY <1>2
    <2>2. IsFiniteSet(Before(j))
      BY <1>5
    <2>3. Cardinality(Before(i)) <= Cardinality(Before(j)) /\ Cardinality(Before(i)) # Cardinality(Before(j))
      BY <2>1, <2>2, FS_Subset
    <2>4. Cardinality(Before(i)) \in Nat /\ Cardinality(Before(j)) \in Nat
      BY <1>5
    <2> QED BY <1>4, <2>3, <2>4
  <1> QED BY <1>3, <1>6, <1>7

\* Every rank is somebody's.
LEMMA RankReached ==
  ASSUME NEW n, NEW S, NEW ns, NEW p, Timed(n, S, ns, p)
  PROVE  \A r \in 1..n : \E i \in 1..n : Rank(ns, p, i) = r
  <1> n \in Nat
    BY DEF Timed
  <1> DEFINE rk == [i \in 1..n |-> Rank(ns, p, i)]
  <1>0. IsFiniteSet(1..n) /\ Cardinality(1..n) = n
    BY IntervalSize
  <1>1. \A i, j \in 1..n : i # j => Rank(ns, p, i) # Rank(ns, p, j)
    <2> SUFFICES ASSUME NEW i \in 1..n, NEW j \in 1..n, i # j PROVE Rank(ns, p, i) # Rank(ns, p, j)
      OBVIOUS
    <2>1. Rank(ns, p, i) \in 1..n /\ Rank(ns, p, j) \in 1..n
      BY Ranks
    <2>2. Rank(ns, p, i) < Rank(ns, p, j) \/ Rank(ns, p, j) < Rank(ns, p, i)
      BY Ranks
    <2> QED BY <2>1, <2>2
  <1>2. \A i \in 1..n : Rank(ns, p, i) \in 1..n
    BY Ranks
  <1>3. rk \in [1..n -> 1..n] /\ \A i, j \in 1..n : rk[i] = rk[j] => i = j
    BY <1>1, <1>2
  <1>4. \A i \in 1..n : rk[i] = Rank(ns, p, i)
    OBVIOUS
  <1> HIDE DEF rk
  <1>5. rk \in Injection(1..n, 1..n)
    BY <1>3 DEF Injection, IsInjective
  <1>6. rk \in Surjection(1..n, 1..n)
    BY <1>0, <1>5, FS_Injection
  <1> QED BY <1>4, <1>6 DEF Surjection

\* The sort lists what it was given, each entry once, longest first.
LEMMA SortedByDuration ==
  ASSUME NEW n, NEW S, NEW ns, NEW p, Timed(n, S, ns, p),
         Listed(n, S, ns)
  PROVE  /\ Listed(n, S, ByDuration(ns, p))
         /\ \A i, j \in 1..n : i < j => p[ByDuration(ns, p)[j]] <= p[ByDuration(ns, p)[i]]
  <1>a. \A r \in 1..n : \E i \in 1..n : Rank(ns, p, i) = r
    BY RankReached
  <1>b. n \in Nat /\ ns \in [1..n -> S] /\ (\A i \in 1..n : p[ns[i]] \in Nat)
        /\ (\A i, j \in 1..n : ns[i] = ns[j] => i = j) /\ \A x \in S : \E i \in 1..n : ns[i] = x
    BY DEF Timed, Listed
  <1> DEFINE sorted == ByDuration(ns, p)
             pos(r) == CHOOSE i \in 1..n : Rank(ns, p, i) = r
  <1>0. DOMAIN ns = 1..n
    BY <1>b
  <1>1. \A r \in 1..n : pos(r) \in 1..n /\ Rank(ns, p, pos(r)) = r
    BY <1>a, Zenon
  <1>2. sorted = [r \in 1..n |-> ns[pos(r)]]
    BY <1>0 DEF ByDuration
  <1> HIDE DEF pos, sorted
  <1>3. sorted \in [1..n -> S] /\ \A r \in 1..n : sorted[r] = ns[pos(r)]
    BY <1>b, <1>1, <1>2
  <1>4. \A i, j \in 1..n : sorted[i] = sorted[j] => i = j
    BY <1>1, <1>b, <1>3
  <1>5. \A i \in 1..n : \E j \in 1..n : sorted[j] = ns[i]
    <2> TAKE i \in 1..n
    <2> DEFINE r == Rank(ns, p, i)
    <2>1. r \in 1..n
      BY Ranks
    <2>2. pos(r) \in 1..n /\ Rank(ns, p, pos(r)) = r
      BY <1>1, <2>1
    <2>3. pos(r) = i
      <3> SUFFICES ASSUME pos(r) # i PROVE FALSE
        OBVIOUS
      <3>1. Rank(ns, p, pos(r)) < r \/ r < Rank(ns, p, pos(r))
        BY <2>2, Ranks
      <3> HIDE DEF r
      <3> QED BY <2>1, <2>2, <3>1
    <2> HIDE DEF r
    <2> QED BY <1>3, <2>1, <2>3
  <1>6. \A i, j \in 1..n : i < j => p[sorted[j]] <= p[sorted[i]]
    <2> SUFFICES ASSUME NEW i \in 1..n, NEW j \in 1..n, i < j PROVE p[sorted[j]] <= p[sorted[i]]
      OBVIOUS
    <2>1. pos(i) \in 1..n /\ pos(j) \in 1..n /\ Rank(ns, p, pos(i)) = i /\ Rank(ns, p, pos(j)) = j
      BY <1>1
    <2>2. ~ Precedes(ns, p, pos(j), pos(i))
      <3>1. Precedes(ns, p, pos(j), pos(i)) => Rank(ns, p, pos(j)) < Rank(ns, p, pos(i))
        BY <2>1, Ranks
      <3> QED BY <2>1, <3>1
    <2>3. p[ns[pos(i)]] \in Nat /\ p[ns[pos(j)]] \in Nat
      BY <1>b, <2>1
    <2>4. p[ns[pos(j)]] <= p[ns[pos(i)]]
      BY <2>2, <2>3 DEF Precedes
    <2> QED BY <1>3, <2>4
  <1>7. \A x \in S : \E i \in 1..n : sorted[i] = x
    BY <1>b, <1>5
  <1>8. Listed(n, S, sorted)
    BY <1>b, <1>3, <1>4, <1>7 DEF Listed
  <1> QED BY <1>6, <1>8 DEF sorted

\* Division with remainder.
LEMMA Quotient ==
  ASSUME NEW m \in Nat, NEW k \in Nat \ {0}
  PROVE  m = k * (m \div k) + (m % k) /\ m % k \in 0..(k - 1) /\ m \div k \in Nat
  OBVIOUS

\* A number has one remainder.
LEMMA SameRemainder ==
  ASSUME NEW k \in Nat \ {0}, NEW q \in Int, NEW d \in Int, NEW r \in 0..(k - 1), NEW t \in 0..(k - 1),
         k * q + r = k * d + t
  PROVE  r = t
  <1>1. k * (q - d) = t - r
    OBVIOUS
  <1>2. CASE q - d >= 1
    <2>1. k * (q - d) >= k
      BY <1>2
    <2> QED BY <1>1, <2>1
  <1>3. CASE q - d <= -1
    <2>1. k * (q - d) <= -k
      BY <1>3
    <2> QED BY <1>1, <2>1
  <1>4. CASE q = d
    BY <1>4
  <1> QED BY <1>2, <1>3, <1>4

\* One more turns the remainder by one.
LEMMA NextRemainder ==
  ASSUME NEW m \in Nat, NEW k \in Nat \ {0}
  PROVE  /\ m % k \in 0..(k - 1)
         /\ (m + 1) % k = IF (m % k) + 1 = k THEN 0 ELSE (m % k) + 1
  <1> DEFINE q == m \div k
             d == (m + 1) \div k
             r == m % k
             t == (m + 1) % k
  <1>1. m = k * q + r /\ r \in 0..(k - 1) /\ q \in Nat
    BY Quotient
  <1>2. m + 1 = k * d + t /\ t \in 0..(k - 1) /\ d \in Nat
    <2>1. m + 1 \in Nat
      OBVIOUS
    <2> QED BY <2>1, Quotient
  <1> HIDE DEF q, d, r, t
  <1>3. CASE r + 1 = k
    <2>1. k * (q + 1) + 0 = k * d + t
      BY <1>1, <1>2, <1>3
    <2>2. 0 = t
      BY <1>1, <1>2, <2>1, SameRemainder
    <2> QED BY <1>1, <1>3, <2>2 DEF t, r
  <1>4. CASE r + 1 # k
    <2>1. r + 1 \in 0..(k - 1) /\ k * q + (r + 1) = k * d + t
      BY <1>1, <1>2, <1>4
    <2>2. r + 1 = t
      BY <1>1, <1>2, <2>1, SameRemainder
    <2> QED BY <1>1, <1>4, <2>2 DEF t, r
  <1> QED BY <1>3, <1>4

\* The first m entries of a list have been dealt to k groups, each to one place.
Dealt(S, k, list, m, G) ==
    /\ G \in [1..k -> Seq(S)]
    /\ \A x \in S : (\E g \in 1..k : x \in ToSet(G[g])) <=> \E i \in 1..m : x = list[i]
    /\ \A g, h \in 1..k : \A i \in DOMAIN G[g], j \in DOMAIN G[h] : G[g][i] = G[h][j] => g = h /\ i = j

\* Before the first turn nothing has been dealt.
LEMMA NothingDealt ==
  ASSUME NEW S, NEW k \in Nat, NEW list
  PROVE  Dealt(S, k, list, 0, NoGroups(k)) /\ \A g \in 1..k : NoGroups(k)[g] = <<>>
  <1>1. NoGroups(k) \in [1..k -> Seq(S)] /\ \A g \in 1..k : NoGroups(k)[g] = <<>>
    BY DEF NoGroups
  <1>2. DOMAIN <<>> = {} /\ ToSet(<<>>) = {}
    BY DEF ToSet
  <1> QED BY <1>1, <1>2 DEF Dealt

\* A group grows by one name.
LEMMA PutType ==
  ASSUME NEW S, NEW k, NEW G \in [1..k -> Seq(S)], NEW g \in 1..k, NEW x \in S
  PROVE  Put(G, g, x) \in [1..k -> Seq(S)]
  <1>1. Append(G[g], x) \in Seq(S)
    BY Zenon, AppendProperties
  <1> QED BY <1>1 DEF Put

LEMMA PutNames ==
  ASSUME NEW S, NEW G, NEW g \in DOMAIN G, G[g] \in Seq(S), NEW x \in S
  PROVE  \A y : y \in ToSet(Put(G, g, x)[g]) <=> y \in ToSet(G[g]) \/ y = x
  <1> DEFINE s == G[g]
             t == Append(s, x)
  <1>1. Put(G, g, x)[g] = t
    BY DEF Put
  <1>2. s \in Seq(S)
    OBVIOUS
  <1> HIDE DEF s
  <1>3. /\ DOMAIN s = 1..Len(s) /\ DOMAIN t = 1..(Len(s) + 1) /\ Len(s) \in Nat
        /\ t[Len(s) + 1] = x /\ \A i \in 1..Len(s) : t[i] = s[i]
    BY <1>2
  <1> HIDE DEF t
  <1>4. \A y \in ToSet(t) : y \in ToSet(s) \/ y = x
    BY <1>3 DEF ToSet
  <1>5. \A y \in ToSet(s) : y \in ToSet(t)
    BY <1>3 DEF ToSet
  <1>6. x \in ToSet(t)
    <2>1. Len(s) + 1 \in DOMAIN t
      BY <1>3
    <2> QED BY <1>3, <2>1 DEF ToSet
  <1>7. \A y : y \in ToSet(t) <=> y \in ToSet(s) \/ y = x
    BY <1>4, <1>5, <1>6
  <1> QED BY <1>1, <1>7 DEF s

\* A turn deals the next one.
LEMMA NextDealt ==
  ASSUME NEW n, NEW S, NEW list, Listed(n, S, list),
         NEW k \in Nat, NEW m \in Nat, m < n, NEW G, Dealt(S, k, list, m, G), NEW g \in 1..k,
         NEW H, H = Put(G, g, list[m + 1])
  PROVE  /\ Dealt(S, k, list, m + 1, H)
         /\ \A h \in 1..k : list[m + 1] \notin ToSet(G[h]) /\ (h # g => H[h] = G[h])
         /\ Len(H[g]) = Len(G[g]) + 1
  <1> DEFINE x == list[m + 1]
  <1>1. x \in S /\ \A i \in 1..m : i \in 1..n /\ x # list[i]
    BY DEF Listed
  <1>2. G \in [1..k -> Seq(S)] /\ G[g] \in Seq(S) /\ Len(G[g]) \in Nat
    BY DEF Dealt
  <1>3. \A h \in 1..k : x \notin ToSet(G[h])
    BY <1>1 DEF Dealt
  <1>4. /\ Append(G[g], x) \in Seq(S) /\ Len(Append(G[g], x)) = Len(G[g]) + 1
        /\ \A i \in 1..Len(G[g]) : Append(G[g], x)[i] = G[g][i]
        /\ Append(G[g], x)[Len(G[g]) + 1] = x
    BY <1>1, <1>2
  <1> HIDE DEF x
  <1>5. H = [G EXCEPT ![g] = Append(@, x)]
    BY DEF Put, x
  <1>6. /\ H \in [1..k -> Seq(S)] /\ H[g] = Append(G[g], x)
        /\ \A h \in 1..k : h # g => H[h] = G[h]
    BY <1>2, <1>4, <1>5
  <1>a. DOMAIN G[g] = 1..Len(G[g])
    BY <1>2
  <1>b. DOMAIN H[g] = 1..(Len(G[g]) + 1)
    <2>1. DOMAIN Append(G[g], x) = 1..Len(Append(G[g], x))
      BY <1>4
    <2> QED BY <1>4, <1>6, <2>1, Zenon
  <1>c. (\A i \in 1..Len(G[g]) : H[g][i] = G[g][i]) /\ H[g][Len(G[g]) + 1] = x
    BY <1>4, <1>6, Zenon
  <1>d. /\ Len(G[g]) + 1 \in 1..(Len(G[g]) + 1)
        /\ \A i : i \in 1..(Len(G[g]) + 1) <=> i \in 1..Len(G[g]) \/ i = Len(G[g]) + 1
    BY <1>2
  <1>7. /\ \A i \in DOMAIN H[g] : \/ i \in DOMAIN G[g] /\ H[g][i] = G[g][i]
                                  \/ i = Len(G[g]) + 1 /\ H[g][i] = x
        /\ \A i \in DOMAIN G[g] : i \in DOMAIN H[g] /\ H[g][i] = G[g][i]
        /\ Len(G[g]) + 1 \in DOMAIN H[g]
    BY <1>a, <1>b, <1>c, <1>d, Zenon
  <1>8. ToSet(H[g]) = ToSet(G[g]) \union {x}
    <2>1. \A y : y \in ToSet(Put(G, g, x)[g]) <=> y \in ToSet(G[g]) \/ y = x
      <3>1. g \in DOMAIN G
        BY <1>2
      <3> QED BY <1>1, <1>2, <3>1, PutNames
    <2>2. H = Put(G, g, x)
      BY DEF x
    <2> QED BY <2>1, <2>2
  <1>9. ASSUME NEW y \in S PROVE (\E h \in 1..k : y \in ToSet(H[h])) <=> \E i \in 1..(m + 1) : y = list[i]
    <2>1. (\E h \in 1..k : y \in ToSet(H[h])) <=> y = x \/ \E h \in 1..k : y \in ToSet(G[h])
      BY <1>6, <1>8
    <2>2. (\E i \in 1..(m + 1) : y = list[i]) <=> y = x \/ \E i \in 1..m : y = list[i]
      BY DEF x
    <2>3. (\E h \in 1..k : y \in ToSet(G[h])) <=> \E i \in 1..m : y = list[i]
      BY DEF Dealt
    <2> QED BY <2>1, <2>2, <2>3
  <1>10. ASSUME NEW e \in 1..k, NEW h \in 1..k, NEW i \in DOMAIN H[e], NEW j \in DOMAIN H[h], H[e][i] = H[h][j]
         PROVE  e = h /\ i = j
    <2>1. \A f \in 1..k : \A l \in DOMAIN H[f] :
             \/ l \in DOMAIN G[f] /\ H[f][l] = G[f][l] /\ G[f][l] # x
             \/ f = g /\ l = Len(G[g]) + 1 /\ H[f][l] = x
      <3>1. \A f \in 1..k : \A l \in DOMAIN G[f] : G[f][l] # x
        BY <1>3 DEF ToSet
      <3>2. ASSUME NEW f \in 1..k, NEW l \in DOMAIN H[f], f # g
            PROVE  l \in DOMAIN G[f] /\ H[f][l] = G[f][l] /\ G[f][l] # x
        BY <1>6, <3>1, <3>2
      <3>3. ASSUME NEW l \in DOMAIN H[g]
            PROVE  \/ l \in DOMAIN G[g] /\ H[g][l] = G[g][l] /\ G[g][l] # x
                   \/ l = Len(G[g]) + 1 /\ H[g][l] = x
        BY <1>2, <1>7, <3>1, ZenonT(40)
      <3> QED BY <3>2, <3>3, ZenonT(40)
    <2>2. CASE i \in DOMAIN G[e] /\ H[e][i] = G[e][i] /\ G[e][i] # x
      <3>1. j \in DOMAIN G[h] /\ H[h][j] = G[h][j]
        BY <1>10, <2>1, <2>2
      <3>2. G[e][i] = G[h][j]
        BY <1>10, <2>2, <3>1
      <3>3. \A f, l \in 1..k : \A u \in DOMAIN G[f], v \in DOMAIN G[l] : G[f][u] = G[l][v] => f = l /\ u = v
        BY Zenon DEF Dealt
      <3> QED BY <2>2, <3>1, <3>2, <3>3
    <2>3. CASE e = g /\ i = Len(G[g]) + 1 /\ H[e][i] = x
      BY <1>10, <2>1, <2>3
    <2> QED BY <2>1, <2>2, <2>3
  <1>11. Dealt(S, k, list, m + 1, H)
    BY <1>6, <1>9, <1>10 DEF Dealt
  <1> QED BY <1>3, <1>4, <1>6, <1>8, <1>11 DEF x

\* The least of the loads.
LEMMA LeastLoad ==
  ASSUME NEW k \in Nat \ {0}, NEW l \in [1..k -> Nat]
  PROVE  LeastLoaded(l) \in 1..k /\ \A h \in 1..k : l[LeastLoaded(l)] <= l[h]
  <1> DEFINE Loads == {l[h] : h \in 1..k}
  <1>1. Loads \in SUBSET Nat /\ Loads # {}
    <2>1. 1 \in 1..k
      OBVIOUS
    <2> QED BY <2>1
  <1>2. PICK least \in Loads : \A v \in Loads : least <= v
    BY <1>1, Least
  <1> DEFINE Groups == {h \in 1..k : l[h] = least}
  <1>3. Groups \in SUBSET Nat /\ Groups # {}
    BY <1>2
  <1>4. PICK g \in Groups : \A h \in Groups : g <= h
    BY <1>3, Least
  <1>5. /\ g \in 1..k /\ l[g] = least /\ \A h \in 1..k : l[h] \in Nat /\ l[g] <= l[h]
        /\ \A h \in 1..k : l[h] = l[g] => g <= h
    BY <1>2, <1>4
  <1>6. \A h \in 1..(g - 1) : l[g] < l[h]
    <2> SUFFICES ASSUME NEW h \in 1..(g - 1) PROVE l[g] < l[h]
      OBVIOUS
    <2>1. h \in 1..k /\ h < g
      BY <1>5
    <2> QED BY <1>5, <2>1
  <1> HIDE DEF Loads, Groups
  <1>7. DOMAIN l = 1..k
    OBVIOUS
  <1>8. \E f \in DOMAIN l : (\A h \in DOMAIN l : l[f] <= l[h]) /\ \A h \in 1..(f - 1) : l[f] < l[h]
    BY <1>5, <1>6, <1>7
  <1> QED BY <1>7, <1>8 DEF LeastLoaded

\* A loop that counts to n has n turns.
LEMMA CountedTurns ==
  ASSUME NEW n \in Nat, NEW A, NEW body \in [A -> A], NEW start \in A, start.next = 0,
         \A s \in A : s.next \in 0..n /\ (s.next # n => body[s].next = s.next + 1)
  PROVE  Turns(body, start, n).next = n
  <1> DEFINE Good == {j \in Nat : j <= n => Turns(body, start, j).next = j}
  <1>1. 0 \in Good
    BY TurnsOf
  <1>2. ASSUME NEW j \in Nat, j \in Good PROVE j + 1 \in Good
    <2>1. Turns(body, start, j) \in A /\ Turns(body, start, j + 1) = body[Turns(body, start, j)]
      BY TurnsOf
    <2> QED BY <1>2, <2>1
  <1> HIDE DEF Good
  <1>3. n \in Good
    BY <1>1, <1>2, NatSetInduction
  <1> QED BY <1>3 DEF Good

\* Round robin deals the whole list, and no two groups differ by more than one.
LEMMA RoundRobinDeals ==
  ASSUME NEW n, NEW S, NEW ns, Listed(n, S, ns), ToSet(ns) = S, Len(ns) = n,
         NEW k \in Nat \ {0}
  PROVE  /\ Dealt(S, k, ns, n, RoundRobin(ns, k))
         /\ \A g, h \in 1..k : Len(RoundRobin(ns, k)[g]) <= Len(RoundRobin(ns, k)[h]) + 1
  <1>0. n \in Nat /\ ns \in [1..n -> S]
    BY DEF Listed
  <1> DEFINE A == [next : 0..n, groups : [1..k -> Seq(S)]]
             target(s) == (s.next % k) + 1
             dealt(s) == Put(s.groups, target(s), ns[s.next + 1])
             body == [s \in A |-> IF s.next = n THEN s ELSE [next |-> s.next + 1, groups |-> dealt(s)]]
             start == [next |-> 0, groups |-> NoGroups(k)]
             end == Turns(body, start, n)
             Spread(s, c) == \A g \in 1..k : Len(s.groups[g]) = c + (IF g <= s.next % k THEN 1 ELSE 0)
             I == {s \in A : Dealt(S, k, ns, s.next, s.groups) /\ \E c \in Nat : Spread(s, c)}
  <1>1. RoundRobin(ns, k) = end.groups
    BY Zenon DEF RoundRobin, GroupsOf
  <1>2. \A s \in A : s.next % k \in 0..(k - 1) /\ target(s) \in 1..k
    <2> SUFFICES ASSUME NEW s \in A PROVE s.next % k \in 0..(k - 1)
      OBVIOUS
    <2>1. s.next \in Nat
      BY <1>0
    <2> QED BY <2>1, NextRemainder
  <1> HIDE DEF target
  <1>3. \A s \in A : s.next # n => dealt(s) \in [1..k -> Seq(S)]
    <2> SUFFICES ASSUME NEW s \in A, s.next # n PROVE dealt(s) \in [1..k -> Seq(S)]
      OBVIOUS
    <2>1. s.groups \in [1..k -> Seq(S)] /\ ns[s.next + 1] \in S /\ target(s) \in 1..k
      BY <1>0, <1>2
    <2> QED BY <2>1, PutType, Zenon
  <1>4. start \in A
    <2>1. NoGroups(k) \in [1..k -> Seq(S)]
      BY NothingDealt DEF Dealt
    <2> QED BY <1>0, <2>1
  <1> HIDE DEF dealt
  <1>5. body \in [A -> A]
    <2> SUFFICES ASSUME NEW s \in A PROVE body[s] \in A
      BY Zenon
    <2>1. CASE s.next = n
      BY <2>1
    <2>2. CASE s.next # n
      <3>1. s.next + 1 \in 0..n /\ dealt(s) \in [1..k -> Seq(S)]
        BY <1>0, <1>3, <2>2
      <3> QED BY <2>2, <3>1
    <2> QED BY <2>1, <2>2
  <1>6. \A s \in A : s.next \in 0..n /\ (s.next # n => body[s].next = s.next + 1 /\ body[s].groups = dealt(s))
    OBVIOUS
  <1>7. start.next = 0 /\ start.groups = NoGroups(k)
    OBVIOUS
  <1>8. start \in I
    <2>1. Dealt(S, k, ns, 0, NoGroups(k)) /\ \A g \in 1..k : NoGroups(k)[g] = <<>>
      BY NothingDealt
    <2>2. 0 % k = 0
      OBVIOUS
    <2>3. Spread(start, 0)
      BY <1>7, <2>1, <2>2
    <2> HIDE DEF start, Spread, A
    <2> QED BY <1>4, <1>7, <2>1, <2>3
  <1>9. \A s \in A : s.next = n => body[s] = s
    OBVIOUS
  <1> HIDE DEF body, start
  <1>10. ASSUME NEW s \in A, s \in I PROVE body[s] \in I
    <2>1. CASE s.next = n
      BY <1>9, <1>10, <2>1
    <2>2. CASE s.next # n
      <3> DEFINE t == body[s]
                 g == target(s)
      <3>1. t \in A /\ t.next = s.next + 1 /\ t.groups = dealt(s) /\ g \in 1..k /\ s.next \in Nat /\ s.next < n
        <4>1. g \in 1..k
          BY <1>2
        <4>2. s.next \in 0..n
          BY <1>6
        <4>3. t.next = s.next + 1 /\ t.groups = dealt(s)
          BY <1>6, <2>2
        <4> HIDE DEF A
        <4>4. t \in A
          BY <1>5
        <4> QED BY <1>0, <2>2, <4>1, <4>2, <4>3, <4>4
      <3>2. Dealt(S, k, ns, s.next, s.groups)
        BY <1>10
      <3>3. dealt(s) = Put(s.groups, g, ns[s.next + 1])
        BY DEF dealt
      <3> HIDE DEF A, t, g
      <3>4. /\ Dealt(S, k, ns, s.next + 1, t.groups)
            /\ \A h \in 1..k : h # g => t.groups[h] = s.groups[h]
            /\ Len(t.groups[g]) = Len(s.groups[g]) + 1
        <4>1. k \in Nat /\ t.groups = Put(s.groups, g, ns[s.next + 1])
          BY <3>1, <3>3
        <4> DEFINE m == s.next
                   G == s.groups
                   H == t.groups
        <4>2. m \in Nat /\ m < n /\ H = Put(G, g, ns[m + 1]) /\ Dealt(S, k, ns, m, G) /\ g \in 1..k
          BY <3>1, <3>2, <4>1
        <4> HIDE DEF m, G, H
        <4>3. Dealt(S, k, ns, m + 1, H)
          BY <4>1, <4>2, NextDealt
        <4>4. \A h \in 1..k : h # g => H[h] = G[h]
          BY <4>1, <4>2, NextDealt
        <4>5. Len(H[g]) = Len(G[g]) + 1
          BY <4>1, <4>2, NextDealt
        <4> QED BY <4>3, <4>4, <4>5 DEF m, G, H
      <3>5. PICK c \in Nat : Spread(s, c)
        BY <1>10
      <3>6. /\ s.next % k \in 0..(k - 1) /\ g = (s.next % k) + 1
            /\ t.next % k = IF (s.next % k) + 1 = k THEN 0 ELSE (s.next % k) + 1
        BY <3>1, NextRemainder, ZenonT(40) DEF g, target
      <3>7. \E d \in Nat : Spread(t, d)
        <4> DEFINE r == s.next % k
                   u == t.next % k
        <4>1. \A h \in 1..k : Len(s.groups[h]) = c + (IF h <= r THEN 1 ELSE 0)
          BY <3>5
        <4>2. r \in 0..(k - 1) /\ g = r + 1 /\ u = IF r + 1 = k THEN 0 ELSE r + 1
          BY <3>6
        <4> HIDE DEF r, u
        <4>3. \A h \in 1..k : Len(t.groups[h]) = c + (IF h <= r + 1 THEN 1 ELSE 0)
          <5> SUFFICES ASSUME NEW h \in 1..k PROVE Len(t.groups[h]) = c + (IF h <= r + 1 THEN 1 ELSE 0)
            OBVIOUS
          <5>1. CASE h = g
            <6>1. Len(s.groups[g]) = c + 0
              BY <3>1, <4>1, <4>2
            <6> QED BY <3>4, <4>2, <5>1, <6>1
          <5>2. CASE h # g
            <6>1. h <= r <=> h <= r + 1
              BY <4>2, <5>2
            <6>2. t.groups[h] = s.groups[h]
              BY <3>4, <5>2
            <6>3. Len(s.groups[h]) = c + (IF h <= r THEN 1 ELSE 0)
              BY <4>1
            <6> QED BY <6>1, <6>2, <6>3
          <5> QED BY <5>1, <5>2
        <4>4. CASE r + 1 = k
          <5>1. \A h \in 1..k : Len(t.groups[h]) = (c + 1) + (IF h <= u THEN 1 ELSE 0)
            BY <4>2, <4>3, <4>4
          <5>2. c + 1 \in Nat
            OBVIOUS
          <5> QED BY <5>1, <5>2 DEF u
        <4>5. CASE r + 1 # k
          <5>1. \A h \in 1..k : Len(t.groups[h]) = c + (IF h <= u THEN 1 ELSE 0)
            BY <4>2, <4>3, <4>5
          <5> QED BY <5>1 DEF u
        <4> QED BY <4>4, <4>5
      <3> HIDE DEF Spread
      <3> QED BY <3>1, <3>4, <3>7 DEF t
    <2> QED BY <2>1, <2>2
  <1> HIDE DEF A, I
  <1>11. end \in A \cap I
    BY <1>0, <1>4, <1>5, <1>8, <1>10, Invariantly
  <1>12. end.next = n
    BY <1>0, <1>4, <1>5, <1>6, <1>7, CountedTurns
  <1> HIDE DEF end
  <1>13. PICK c \in Nat : Spread(end, c)
    BY <1>11 DEF I
  <1>14. Dealt(S, k, ns, n, end.groups)
    BY <1>11, <1>12 DEF I
  <1>15. \A g, h \in 1..k : Len(end.groups[g]) <= Len(end.groups[h]) + 1
    BY <1>13
  <1> QED BY <1>1, <1>14, <1>15

\* Every batch of the deal a stays within C.
Fits(S, k, p, top, a, C) ==
    a \in [S -> 1..k] /\ C \in Nat /\ \A h \in 1..k : Amount(p, top, Share(S, a, h)) <= C

\* A group only holds members of S.
LEMMA DealtNames ==
  ASSUME NEW S, NEW k, NEW list, NEW m, NEW G, Dealt(S, k, list, m, G), NEW g \in 1..k
  PROVE  ToSet(G[g]) \in SUBSET S /\ G[g] \in Seq(S)
  <1>1. G[g] \in Seq(S)
    BY DEF Dealt
  <1>2. \A i \in DOMAIN G[g] : G[g][i] \in S
    BY <1>1
  <1> QED BY <1>1, <1>2 DEF ToSet

\* With the longest first, the turn of Greedy keeps the group it picks in bounds.
LEMMA GreedyTurn ==
  ASSUME NEW n, NEW S, NEW list, Listed(n, S, list), IsFiniteSet(S),
         NEW top \in Nat, NEW p, \A y \in S : p[y] \in 0..top,
         \A i, j \in 1..n : i < j => p[list[j]] <= p[list[i]],
         NEW k \in Nat \ {0}, NEW m \in Nat, m < n, NEW G, Dealt(S, k, list, m, G),
         NEW g \in 1..k, NEW L \in Nat, \A h \in 1..k : L <= Amount(p, top, ToSet(G[h])),
         NEW a, NEW C, Fits(S, k, p, top, a, C)
  PROVE  3 * k * (L + p[list[m + 1]]) <= (4 * k - 1) * C
  <1> DEFINE X == {list[i] : i \in 1..m}
             x == list[m + 1]
             b == [y \in X |-> CHOOSE h \in 1..k : y \in ToSet(G[h])]
  <1>1. n \in Nat /\ list \in [1..n -> S] /\ \A i, j \in 1..n : list[i] = list[j] => i = j
    BY DEF Listed
  <1>2. m + 1 \in 1..n /\ \A i \in 1..m : i \in 1..n /\ i < m + 1
    BY <1>1
  <1>3. X \in SUBSET S /\ x \in S
    BY <1>1, <1>2
  <1>4. x \notin X /\ \A y \in X : p[x] <= p[y]
    <2>1. \A i \in 1..m : list[i] # list[m + 1] /\ p[list[m + 1]] <= p[list[i]]
      BY <1>1, <1>2
    <2> QED BY <2>1
  <1>5. \A y \in S : (\E h \in 1..k : y \in ToSet(G[h])) <=> y \in X
    BY DEF Dealt
  <1> HIDE DEF X, x
  <1>6. \A h \in 1..k : ToSet(G[h]) \in SUBSET X
    BY <1>5, DealtNames
  <1>7. b \in [X -> 1..k] /\ \A y \in X : y \in ToSet(G[b[y]])
    BY <1>3, <1>5
  <1> HIDE DEF b
  <1>8. \A e, h \in 1..k : \A y \in ToSet(G[e]) : y \in ToSet(G[h]) => e = h
    <2>1. \A e, h \in 1..k : \A i \in DOMAIN G[e], j \in DOMAIN G[h] : G[e][i] = G[h][j] => e = h
      BY Zenon DEF Dealt
    <2> QED BY <2>1 DEF ToSet
  <1>9. \A h \in 1..k : Share(X, b, h) = ToSet(G[h])
    BY <1>6, <1>7, <1>8 DEF Share
  <1>10. \A h \in 1..k : L <= Amount(p, top, Share(X, b, h))
    BY <1>9
  <1>11. a \in [S -> 1..k] /\ C \in Nat /\ \A h \in 1..k : Amount(p, top, Share(S, a, h)) <= C
    BY DEF Fits
  <1>12. 3 * k * (L + p[x]) <= (4 * k - 1) * C
    BY <1>3, <1>4, <1>7, <1>10, <1>11, LongestFirst
  <1> QED BY <1>12 DEF x

\* 3k times the load is at most 4k - 1 times C.
Within(k, load, C) == 3 * k * load <= (4 * k - 1) * C

\* Greedy deals the whole list, and whatever deal into k batches fits C, its own batches
\* stay within (4k - 1) / 3k of C.
LEMMA GreedyDeals ==
  ASSUME NEW n, NEW S, NEW ns, Listed(n, S, ns), ToSet(ns) = S, Len(ns) = n, IsFiniteSet(S),
         NEW top \in Nat, NEW p, \A y \in S : p[y] \in 0..top,
         NEW k \in Nat \ {0}
  PROVE  /\ Listed(n, S, ByDuration(ns, p))
         /\ Dealt(S, k, ByDuration(ns, p), n, Greedy(ns, k, p))
         /\ \A a, C : Fits(S, k, p, top, a, C) =>
              \A g \in 1..k : Within(k, Amount(p, top, ToSet(Greedy(ns, k, p)[g])), C)
  <1> DEFINE A == [next : 0..n, groups : [1..k -> Seq(S)], loads : [1..k -> Nat]]
             sorted == ByDuration(ns, p)
             target(s) == LeastLoaded(s.loads)
             dealt(s) == Put(s.groups, target(s), sorted[s.next + 1])
             added(s) == [s.loads EXCEPT ![target(s)] = @ + p[sorted[s.next + 1]]]
             body == [s \in A |-> IF s.next = n THEN s
                                  ELSE [next |-> s.next + 1, groups |-> dealt(s), loads |-> added(s)]]
             start == [next |-> 0, groups |-> NoGroups(k), loads |-> [g \in 1..k |-> 0]]
             end == Turns(body, start, n)
             Counted(s) == \A g \in 1..k : s.loads[g] = Amount(p, top, ToSet(s.groups[g]))
             Fine(s) == \A a, C : Fits(S, k, p, top, a, C) => \A g \in 1..k : Within(k, s.loads[g], C)
             I == {s \in A : Dealt(S, k, sorted, s.next, s.groups) /\ Counted(s) /\ Fine(s)}
  <1>0. n \in Nat /\ ns \in [1..n -> S] /\ (\A i, j \in 1..n : ns[i] = ns[j] => i = j)
        /\ \A x \in S : \E i \in 1..n : ns[i] = x
    BY DEF Listed
  <1>1. Greedy(ns, k, p) = end.groups
    <2>1. Greedy(ns, k, p) =
            LET f == [s \in [next : 0..n, groups : [1..k -> Seq(S)], loads : [1..k -> Nat]] |->
                        IF s.next = n THEN s
                        ELSE LET g == LeastLoaded(s.loads)
                                 name == sorted[s.next + 1]
                             IN  [next |-> s.next + 1, groups |-> Put(s.groups, g, name),
                                  loads |-> [s.loads EXCEPT ![g] = @ + p[name]]]]
            IN  Turns(f, [next |-> 0, groups |-> NoGroups(k), loads |-> [g \in 1..k |-> 0]], n).groups
      BY Zenon DEF Greedy, GroupsOf
    <2> QED BY <2>1, Zenon
  <1>2. Timed(n, S, ns, p)
    <2>1. \A i \in 1..n : ns[i] \in S /\ p[ns[i]] \in Nat
      BY <1>0
    <2> QED BY <1>0, <2>1 DEF Timed
  <1>3. Listed(n, S, sorted) /\ \A i, j \in 1..n : i < j => p[sorted[j]] <= p[sorted[i]]
    BY <1>2, SortedByDuration
  <1> HIDE DEF sorted
  <1>4. sorted \in [1..n -> S]
    BY <1>3 DEF Listed
  <1>5. \A s \in A : target(s) \in 1..k /\ \A h \in 1..k : s.loads[target(s)] <= s.loads[h]
    BY LeastLoad
  <1> HIDE DEF target
  <1>6. \A s \in A : s.next # n => dealt(s) \in [1..k -> Seq(S)] /\ added(s) \in [1..k -> Nat]
    <2> SUFFICES ASSUME NEW s \in A, s.next # n
                 PROVE  dealt(s) \in [1..k -> Seq(S)] /\ added(s) \in [1..k -> Nat]
      OBVIOUS
    <2>1. s.groups \in [1..k -> Seq(S)] /\ sorted[s.next + 1] \in S /\ target(s) \in 1..k
      <3>1. s.groups \in [1..k -> Seq(S)] /\ target(s) \in 1..k
        BY <1>5
      <3>2. s.next + 1 \in 1..n
        BY <1>0
      <3> QED BY <1>4, <3>1, <3>2
    <2>2. dealt(s) \in [1..k -> Seq(S)]
      BY <2>1, PutType, Zenon
    <2>3. p[sorted[s.next + 1]] \in Nat /\ s.loads \in [1..k -> Nat] /\ s.loads[target(s)] \in Nat
      <3>1. s.loads \in [1..k -> Nat]
        OBVIOUS
      <3> HIDE DEF A
      <3> QED BY <2>1, <3>1
    <2>4. added(s) \in [1..k -> Nat]
      <3> DEFINE sum == s.loads[target(s)] + p[sorted[s.next + 1]]
      <3>1. sum \in Nat
        BY <2>3, SMTT(30)
      <3>2. added(s) = [s.loads EXCEPT ![target(s)] = sum]
        OBVIOUS
      <3> HIDE DEF sum, added
      <3> QED BY <2>1, <2>3, <3>1, <3>2
    <2> QED BY <2>2, <2>4
  <1>7. start \in A
    <2>1. NoGroups(k) \in [1..k -> Seq(S)]
      BY NothingDealt DEF Dealt
    <2> QED BY <1>0, <2>1
  <1>8. \A s \in A : s.next # n => dealt(s) = Put(s.groups, target(s), sorted[s.next + 1])
    OBVIOUS
  <1>9. \A s \in A : s.next # n =>
          added(s) = [s.loads EXCEPT ![target(s)] = @ + p[sorted[s.next + 1]]]
    OBVIOUS
  <1> HIDE DEF dealt, added
  <1>10. body \in [A -> A]
    <2> SUFFICES ASSUME NEW s \in A PROVE body[s] \in A
      BY Zenon
    <2>1. CASE s.next = n
      BY <2>1
    <2>2. CASE s.next # n
      <3>1. s.next + 1 \in 0..n /\ dealt(s) \in [1..k -> Seq(S)] /\ added(s) \in [1..k -> Nat]
        BY <1>0, <1>6, <2>2
      <3> QED BY <2>2, <3>1
    <2> QED BY <2>1, <2>2
  <1>11. \A s \in A : s.next \in 0..n /\ (s.next # n => body[s].next = s.next + 1)
    OBVIOUS
  <1>12. \A s \in A : s.next # n => body[s].groups = dealt(s) /\ body[s].loads = added(s)
    OBVIOUS
  <1>13. start.next = 0 /\ start.groups = NoGroups(k) /\ \A g \in 1..k : start.loads[g] = 0
    OBVIOUS
  <1>14. \A s \in A : s.next = n => body[s] = s
    OBVIOUS
  <1>15. \A s \in A : s.loads \in [1..k -> Nat]
    OBVIOUS
  <1> HIDE DEF A, body, start
  <1>16. start \in I
    <2>1. Dealt(S, k, sorted, 0, NoGroups(k)) /\ \A g \in 1..k : NoGroups(k)[g] = <<>>
      BY NothingDealt
    <2>2. ToSet(<<>>) = {} /\ Amount(p, top, {}) = 0
      BY AmountOfNone DEF ToSet
    <2>3. Counted(start)
      BY <1>13, <2>1, <2>2
    <2>4. Fine(start)
      <3>1. \A C \in Nat : Within(k, 0, C)
        <4> TAKE C \in Nat
        <4>1. (4 * k - 1) * C \in Nat /\ 3 * k * 0 = 0
          OBVIOUS
        <4> QED BY <4>1 DEF Within
      <3> QED BY <1>13, <3>1 DEF Fits
    <2> HIDE DEF Counted, Fine
    <2> QED BY <1>7, <1>13, <2>1, <2>3, <2>4
  <1>17. ASSUME NEW s \in A, s \in I PROVE body[s] \in I
    <2>1. CASE s.next = n
      BY <1>14, <1>17, <2>1
    <2>2. CASE s.next # n
      <3> DEFINE t == body[s]
                 g == target(s)
                 m == s.next
                 G == s.groups
                 H == t.groups
                 x == sorted[m + 1]
      <3>1. m \in Nat /\ m < n /\ k \in Nat
        BY <1>0, <1>11, <2>2
      <3>2. t \in A /\ t.next = m + 1 /\ H = Put(G, g, x) /\ t.loads = added(s)
        BY <1>8, <1>10, <1>11, <1>12, <2>2
      <3>3. g \in 1..k /\ \A h \in 1..k : s.loads[g] <= s.loads[h]
        BY <1>5
      <3>4. Dealt(S, k, sorted, m, G) /\ Counted(s) /\ Fine(s)
        BY <1>17
      <3>5. x \in S /\ p[x] \in 0..top
        BY <1>4, <3>1
      <3>6. s.loads \in [1..k -> Nat] /\ t.loads = [s.loads EXCEPT ![g] = @ + p[x]]
        BY <1>9, <1>15, <2>2, <3>2
      <3> HIDE DEF t, g, m, G, H
      <3>7. \A h \in 1..k : t.loads[h] = IF h = g THEN s.loads[h] + p[x] ELSE s.loads[h]
        BY <3>3, <3>6
      <3>8. Dealt(S, k, sorted, m + 1, H)
        BY <1>3, <3>1, <3>2, <3>3, <3>4, NextDealt
      <3>9. \A h \in 1..k : x \notin ToSet(G[h]) /\ (h # g => H[h] = G[h])
        BY <1>3, <3>1, <3>2, <3>3, <3>4, NextDealt
      <3>10. ToSet(H[g]) = ToSet(G[g]) \union {x}
        <4>1. G \in [1..k -> Seq(S)]
          BY <3>4 DEF Dealt
        <4> HIDE DEF x
        <4>2. \A y : y \in ToSet(Put(G, g, x)[g]) <=> y \in ToSet(G[g]) \/ y = x
          <5>1. g \in DOMAIN G /\ G[g] \in Seq(S)
            BY <3>3, <4>1
          <5> QED BY <3>5, <5>1, PutNames
        <4> QED BY <3>2, <4>2
      <3> HIDE DEF x
      <3>11. Counted(t)
        <4> SUFFICES ASSUME NEW h \in 1..k PROVE t.loads[h] = Amount(p, top, ToSet(H[h]))
          BY DEF H
        <4>1. s.loads[h] = Amount(p, top, ToSet(G[h]))
          BY <3>4 DEF G
        <4>2. CASE h = g
          <5>1. IsFiniteSet(ToSet(G[g]))
            BY <3>3, <3>4, DealtNames, FS_Subset
          <5>2. x \notin ToSet(G[g])
            BY <3>3, <3>9
          <5>3. Amount(p, top, ToSet(G[g]) \union {x}) = Amount(p, top, ToSet(G[g])) + p[x]
            BY <3>5, <5>1, <5>2, AmountAdds
          <5> QED BY <3>7, <3>10, <4>1, <4>2, <5>3
        <4>3. CASE h # g
          BY <3>7, <3>9, <4>1, <4>3
        <4> QED BY <4>2, <4>3
      <3>12. Fine(t)
        <4> SUFFICES ASSUME NEW a, NEW C, Fits(S, k, p, top, a, C), NEW h \in 1..k
                     PROVE  Within(k, t.loads[h], C)
          OBVIOUS
        <4>1. CASE h # g
          BY <3>4, <3>7, <4>1
        <4>2. CASE h = g
          <5> DEFINE L == s.loads[g]
          <5>1. L \in Nat /\ \A e \in 1..k : L <= Amount(p, top, ToSet(G[e]))
            BY <3>3, <3>4, <3>6 DEF G
          <5> HIDE DEF L
          <5>2. 3 * k * (L + p[x]) <= (4 * k - 1) * C
            BY <1>3, <3>1, <3>3, <3>4, <5>1, GreedyTurn DEF x
          <5>3. t.loads[h] = L + p[x]
            BY <3>3, <3>7, <4>2 DEF L
          <5> QED BY <5>2, <5>3 DEF Within
        <4> QED BY <4>1, <4>2
      <3> HIDE DEF Counted, Fine
      <3>13. Dealt(S, k, sorted, t.next, t.groups)
        BY <3>2, <3>8 DEF H
      <3>14. t \in I
        BY <3>2, <3>11, <3>12, <3>13
      <3> QED BY <3>14 DEF t
    <2> QED BY <2>1, <2>2
  <1> HIDE DEF I
  <1>18. end \in A \cap I
    BY <1>0, <1>7, <1>10, <1>16, <1>17, Invariantly
  <1>19. end.next = n
    BY <1>0, <1>7, <1>10, <1>11, <1>13, CountedTurns
  <1> HIDE DEF end
  <1>20. Dealt(S, k, sorted, n, end.groups) /\ Counted(end) /\ Fine(end)
    BY <1>18, <1>19 DEF I
  <1> QED BY <1>1, <1>3, <1>20 DEF sorted

-----------------------------------------------------------------------------
(* Batching: the number of workers, and what Deal leaves.                  *)

LEMMA MinOfTwo ==
  ASSUME NEW a \in Int, NEW b \in Int
  PROVE  Min({a, b}) = IF a <= b THEN a ELSE b
  <1> DEFINE c == IF a <= b THEN a ELSE b
  <1>1. c \in {a, b} /\ \A y \in {a, b} : c <= y
    OBVIOUS
  <1>2. \A x \in {a, b} : (\A y \in {a, b} : x <= y) => x = c
    OBVIOUS
  <1> HIDE DEF c
  <1>3. Min({a, b}) = c
    BY <1>1, <1>2 DEF Min
  <1> QED BY <1>3 DEF c

LEMMA MaxOfTwo ==
  ASSUME NEW a \in Int, NEW b \in Int
  PROVE  Max({a, b}) = IF a >= b THEN a ELSE b
  <1> DEFINE c == IF a >= b THEN a ELSE b
  <1>1. c \in {a, b} /\ \A y \in {a, b} : c >= y
    OBVIOUS
  <1>2. \A x \in {a, b} : (\A y \in {a, b} : x >= y) => x = c
    OBVIOUS
  <1> HIDE DEF c
  <1>3. Max({a, b}) = c
    BY <1>1, <1>2 DEF Max
  <1> QED BY <1>3 DEF c

LEMMA AutoBasePositive ==
  ASSUME NEW e PROVE AutoBase(e) \in Nat \ {0}
  <1>1. Cpus \in Nat \ {0} /\ Cpus \in Int /\ Cpus * 2 \in Nat \ {0} /\ Cpus * 2 \in Int
    BY BatchingAssumption
  <1>2. Min({Cpus, 4}) \in Nat \ {0} /\ Min({Cpus, 8}) \in Nat \ {0} /\ Min({Cpus * 2, 16}) \in Nat \ {0}
    BY <1>1, MinOfTwo
  <1> QED BY <1>1, <1>2 DEF AutoBase

\* A level of at least one node gets at least one worker and no more than it has nodes, or
\* than --jobs asks for.
LEMMA WorkersInRange ==
  ASSUME NEW j \in Int \union {AutoJobs}, NEW n \in Nat, NEW e
  PROVE  /\ n = 0 => ResolveJobs(j, n, e) = 0
         /\ n # 0 => /\ ResolveJobs(j, n, e) \in 1..n
                     /\ ResolveJobs(j, n, e) <= Max({1, IF j = AutoJobs THEN AutoBase(e) ELSE j})
  <1> DEFINE a == AutoBase(e)
             w == ResolveJobs(j, n, e)
  <1>1. a \in Nat \ {0} /\ AutoJobs \notin Int
    BY AutoBasePositive, BatchingAssumption
  <1> HIDE DEF a
  <1>2. CASE n = 0
    BY <1>2 DEF ResolveJobs
  <1>3. CASE n # 0 /\ j = AutoJobs
    <2>1. w = Max({1, Min({a, n})})
      BY <1>3 DEF ResolveJobs, a
    <2> HIDE DEF w
    <2>2. Min({a, n}) = (IF a <= n THEN a ELSE n) /\ Max({1, a}) = IF 1 >= a THEN 1 ELSE a
      BY <1>1, MinOfTwo, MaxOfTwo
    <2>3. Min({a, n}) \in Int
      BY <1>1, <2>2
    <2>4. Max({1, Min({a, n})}) = IF 1 >= Min({a, n}) THEN 1 ELSE Min({a, n})
      BY <2>3, MaxOfTwo
    <2>5. w \in 1..n /\ w <= Max({1, a})
      BY <1>1, <1>3, <2>1, <2>2, <2>4
    <2> QED BY <1>3, <2>5 DEF a, w
  <1>4. CASE n # 0 /\ j # AutoJobs
    <2>1. j \in Int /\ Max({1, j}) = (IF 1 >= j THEN 1 ELSE j) /\ Min({j, n}) = IF j <= n THEN j ELSE n
      BY <1>4, MaxOfTwo, MinOfTwo
    <2>2. w = IF j <= 0 THEN 1 ELSE Min({j, n})
      BY <1>4 DEF ResolveJobs
    <2> HIDE DEF w
    <2>3. w \in 1..n /\ w <= Max({1, j})
      BY <1>4, <2>1, <2>2
    <2> QED BY <1>4, <2>3 DEF w
  <1> QED BY <1>2, <1>3, <1>4

\* A list of k batches that holds every member of S once.
Cuts(S, k, B) ==
    /\ k \in Nat \ {0} /\ B \in [1..k -> Seq(S)] /\ Len(B) = k
    /\ \A x \in S : \E g \in 1..k : x \in ToSet(B[g])
    /\ \A g, h \in 1..k : \A i \in DOMAIN B[g], j \in DOMAIN B[h] : B[g][i] = B[h][j] => g = h /\ i = j

\* Whatever deal into k batches fits C, the batches B stay within (4k - 1) / 3k of C.
Balances(S, k, p, top, B) ==
    \A a, C : Fits(S, k, p, top, a, C) => \A g \in 1..k : Within(k, Amount(p, top, ToSet(B[g])), C)

\* A list that is dealt out is cut.
LEMMA DealtCuts ==
  ASSUME NEW n, NEW S, NEW list, Listed(n, S, list), NEW k \in Nat \ {0}, NEW B, Dealt(S, k, list, n, B)
  PROVE  Cuts(S, k, B)
  <1>1. B \in [1..k -> Seq(S)]
    BY DEF Dealt
  <1>2. Len(B) = k
    <2>1. DOMAIN B = 1..k /\ k \in Nat
      BY <1>1
    <2>2. B \in Seq(Seq(S))
      BY <1>1
    <2> QED BY <2>1, <2>2
  <1>3. \A x \in S : \E g \in 1..k : x \in ToSet(B[g])
    <2>1. \A x \in S : \E i \in 1..n : x = list[i]
      BY DEF Listed
    <2>2. \A x \in S : (\E g \in 1..k : x \in ToSet(B[g])) <=> \E i \in 1..n : x = list[i]
      BY DEF Dealt
    <2> QED BY <2>1, <2>2
  <1>4. \A g, h \in 1..k : \A i \in DOMAIN B[g], j \in DOMAIN B[h] : B[g][i] = B[h][j] => g = h /\ i = j
    BY Zenon DEF Dealt
  <1> QED BY <1>1, <1>2, <1>3, <1>4 DEF Cuts

\* One batch holds what there is, and there is no other deal.
LEMMA OneBatch ==
  ASSUME NEW n, NEW S, NEW ns, Listed(n, S, ns), ToSet(ns) = S, IsFiniteSet(S), NEW top \in Nat, NEW p
  PROVE  Cuts(S, 1, <<ns>>) /\ Balances(S, 1, p, top, <<ns>>)
  <1>1. n \in Nat /\ ns \in [1..n -> S] /\ DOMAIN ns = 1..n /\ \A i, j \in 1..n : ns[i] = ns[j] => i = j
    BY DEF Listed
  <1>2. ns \in Seq(S)
    BY <1>1
  <1>3. 1..1 = {1} /\ <<ns>>[1] = ns /\ Len(<<ns>>) = 1 /\ <<ns>> \in [1..1 -> Seq(S)]
    BY <1>2
  <1>4. Cuts(S, 1, <<ns>>)
    <2> DEFINE B == <<ns>>
    <2>1. B \in [1..1 -> Seq(S)] /\ Len(B) = 1 /\ \A g \in 1..1 : g = 1 /\ B[g] = ns
      BY <1>3
    <2> HIDE DEF B
    <2>2. \A g, h \in 1..1 : \A i \in DOMAIN B[g], j \in DOMAIN B[h] : B[g][i] = B[h][j] => g = h /\ i = j
      BY <1>1, <2>1
    <2>3. \A x \in S : \E g \in 1..1 : x \in ToSet(B[g])
      BY <2>1
    <2>4. 1 \in Nat \ {0}
      OBVIOUS
    <2>5. Cuts(S, 1, B)
      BY <2>1, <2>2, <2>3, <2>4, Zenon DEF Cuts
    <2> QED BY <2>5 DEF B
  <1>5. ASSUME NEW a, NEW C, Fits(S, 1, p, top, a, C)
        PROVE  \A g \in 1..1 : Within(1, Amount(p, top, ToSet(<<ns>>[g])), C)
    <2>1. a \in [S -> 1..1] /\ C \in Nat /\ \A h \in 1..1 : Amount(p, top, Share(S, a, h)) <= C
      BY <1>5 DEF Fits
    <2>2. Share(S, a, 1) = S
      BY <1>3, <2>1 DEF Share
    <2>3. Amount(p, top, S) <= C /\ Amount(p, top, S) \in Nat
      BY <1>3, <2>1, <2>2, UnitsFinite
    <2>4. Within(1, Amount(p, top, S), C)
      BY <2>1, <2>3 DEF Within
    <2> QED BY <1>3, <2>4
  <1> QED BY <1>4, <1>5 DEF Balances

\* No two of k batches differ by more than one name.
EvenSizes(k, B) == \A g, h \in 1..k : Len(B[g]) <= Len(B[h]) + 1

\* A good deal of S to at most w workers.
GoodDeal(S, w, p, top, B) ==
    \E k \in 1..w : /\ Cuts(S, k, B)
                    /\ IF p = <<>> THEN EvenSizes(k, B) ELSE Balances(S, k, p, top, B)

LEMMA PartitionIsGood ==
  ASSUME NEW n, NEW S, NEW ns, Listed(n, S, ns), ToSet(ns) = S, Len(ns) = n, n # 0, IsFiniteSet(S),
         NEW top \in Nat, NEW p, p # <<>> => \A y \in S : p[y] \in 0..top, NEW w \in 1..n
  PROVE  GoodDeal(S, w, p, top, PartitionGroups(ns, w, p))
  <1> DEFINE B == PartitionGroups(ns, w, p)
  <1>1. n \in Nat /\ ns # <<>> /\ w \in Nat \ {0}
    BY DEF Listed
  <1>2. CASE w <= 1 \/ n = 1
    <2>1. B = <<ns>>
      BY <1>1, <1>2 DEF PartitionGroups
    <2>2. Cuts(S, 1, <<ns>>) /\ Balances(S, 1, p, top, <<ns>>)
      BY OneBatch
    <2>3. EvenSizes(1, <<ns>>)
      <3> SUFFICES ASSUME NEW g \in 1..1, NEW h \in 1..1 PROVE Len(<<ns>>[g]) <= Len(<<ns>>[h]) + 1
        BY DEF EvenSizes
      <3>1. g = h /\ <<ns>>[g] = ns
        OBVIOUS
      <3> QED BY <1>1, <3>1
    <2>4. 1 \in 1..w
      BY <1>1
    <2> HIDE DEF B
    <2>5. GoodDeal(S, w, p, top, B)
      BY <2>1, <2>2, <2>3, <2>4 DEF GoodDeal
    <2> QED BY <2>5 DEF B
  <1>3. CASE ~ (w <= 1 \/ n = 1)
    <2>1. Min({w, n}) = w
      BY <1>1, MinOfTwo
    <2>2. B = IF p = <<>> THEN RoundRobin(ns, w) ELSE Greedy(ns, w, p)
      BY <1>1, <1>3, <2>1 DEF PartitionGroups
    <2>3. w \in 1..w
      BY <1>1
    <2> HIDE DEF B
    <2>4. CASE p = <<>>
      <3>1. B = RoundRobin(ns, w)
        BY <2>2, <2>4
      <3>2. Dealt(S, w, ns, n, B)
        BY <1>1, <3>1, RoundRobinDeals
      <3>3. EvenSizes(w, B)
        BY <1>1, <3>1, RoundRobinDeals DEF EvenSizes
      <3>4. Cuts(S, w, B)
        BY <1>1, <3>2, DealtCuts
      <3>5. GoodDeal(S, w, p, top, B)
        BY <2>3, <2>4, <3>3, <3>4 DEF GoodDeal
      <3> QED BY <3>5 DEF B
    <2>5. CASE p # <<>>
      <3> DEFINE sorted == ByDuration(ns, p)
      <3>1. B = Greedy(ns, w, p)
        BY <2>2, <2>5
      <3>2. \A y \in S : p[y] \in 0..top
        BY <2>5
      <3> HIDE DEF sorted
      <3>3. /\ Listed(n, S, sorted) /\ Dealt(S, w, sorted, n, Greedy(ns, w, p))
            /\ \A a, C : Fits(S, w, p, top, a, C) =>
                 \A g \in 1..w : Within(w, Amount(p, top, ToSet(Greedy(ns, w, p)[g])), C)
        BY <1>1, <3>2, GreedyDeals DEF sorted
      <3>4. Cuts(S, w, B)
        BY <1>1, <3>1, <3>3, DealtCuts
      <3>5. Balances(S, w, p, top, B)
        BY <3>1, <3>3 DEF Balances
      <3>6. GoodDeal(S, w, p, top, B)
        BY <2>3, <2>5, <3>4, <3>5 DEF GoodDeal
      <3> QED BY <3>6 DEF B
    <2> QED BY <2>4, <2>5
  <1> QED BY <1>2, <1>3

\* What was dealt out is what _partition_groups makes of the input.
DealInv ==
  /\ \E n \in 0..MaxNames : /\ names = [i \in 1..n |-> i]
                            /\ dur \in [1..n -> 0..MaxDuration] \union {<<>>}
  /\ jobs \in JobValues
  /\ workers \in {None, ResolveJobs(jobs, Len(names), engine)}
  /\ batches # <<>> => workers > 0 /\ batches = PartitionGroups(names, workers, dur)

LEMMA DealInvStep == DealInv /\ [DealNext]_dealing => DealInv'
  <1> SUFFICES ASSUME DealInv, [DealNext]_dealing PROVE DealInv'
    OBVIOUS
  <1>1. CASE UNCHANGED dealing
    BY <1>1 DEF DealInv, dealing, input
  <1>2. CASE Resolve
    BY <1>2 DEF DealInv, Resolve, input, None
  <1>3. CASE Deal
    BY <1>3 DEF DealInv, Deal, input
  <1> QED BY <1>1, <1>2, <1>3 DEF DealNext, NothingToDeal, Submitted

\* What _run_level submits is what _partition_groups makes of the level it was given.
THEOREM DealInvariance == DealSpec => []DealInv
  <1>1. DealInit => DealInv
    BY DEF DealInit, DealInv
  <1> QED BY <1>1, DealInvStep, PTL DEF DealSpec

\* In every deal there is a longest batch.
LEMMA LongestBatch ==
  ASSUME NEW S, IsFiniteSet(S), NEW k \in Nat \ {0}, NEW a \in [S -> 1..k], NEW p, NEW top \in Nat
  PROVE  \E h \in 1..k : Fits(S, k, p, top, a, Amount(p, top, Share(S, a, h)))
  <1> DEFINE load(h) == Amount(p, top, Share(S, a, h))
             Bounds == {c \in Nat : \A h \in 1..k : load(h) <= c}
  <1>1. Amount(p, top, S) \in Nat
    BY UnitsFinite
  <1>2. \A h \in 1..k : load(h) \in Nat /\ load(h) <= Amount(p, top, S)
    <2> TAKE h \in 1..k
    <2>1. Share(S, a, h) \in SUBSET S
      BY DEF Share
    <2>2. IsFiniteSet(Share(S, a, h)) /\ load(h) <= Amount(p, top, S)
      BY <2>1, AmountGrows
    <2> QED BY <2>2, UnitsFinite
  <1> HIDE DEF load
  <1>3. Amount(p, top, S) \in Bounds
    BY <1>1, <1>2
  <1>4. Bounds \in SUBSET Nat /\ Bounds # {}
    BY <1>3
  <1>5. PICK c \in Bounds : \A d \in Bounds : c <= d
    BY <1>4, Least
  <1>6. \E h \in 1..k : load(h) = c
    <2> SUFFICES ASSUME \A h \in 1..k : load(h) # c PROVE FALSE
      OBVIOUS
    <2>1. c \in Nat /\ \A h \in 1..k : load(h) <= c /\ load(h) # c /\ load(h) \in Nat
      BY <1>2
    <2>2. 1 \in 1..k
      OBVIOUS
    <2>3. c - 1 \in Nat /\ \A h \in 1..k : load(h) <= c - 1
      BY <2>1, <2>2
    <2>4. c - 1 \in Bounds
      BY <2>3
    <2>5. c <= c - 1
      BY <1>5, <2>4
    <2> QED BY <2>1, <2>5
  <1>7. PICK h \in 1..k : load(h) = c
    BY <1>6
  <1>8. \A e \in 1..k : load(e) <= load(h)
    BY <1>7
  <1>9. load(h) \in Nat
    BY <1>2
  <1> QED BY <1>8, <1>9 DEF Fits, load

\* A level is dealt out completely and evenly: with any --jobs, on any engine, every name
\* is in one place of one batch, there are no more batches than names or than --jobs allows,
\* and no batch takes longer than (4k - 1) / 3k times the longest of any other deal.
THEOREM LevelDealt == DealSpec => []LevelIsDealtOut
  <1>1. DealInv => LevelIsDealtOut
    <2> SUFFICES ASSUME DealInv PROVE BatchesPartitionLevel /\ BatchesAreBalanced
      BY DEF LevelIsDealtOut
    <2> DEFINE S == ToSet(names)
               B == batches
    <2>1. PICK n \in 0..MaxNames : /\ names = [i \in 1..n |-> i]
                                   /\ dur \in [1..n -> 0..MaxDuration] \union {<<>>}
      BY DEF DealInv
    <2>2. n \in Nat /\ MaxDuration \in Nat /\ names \in [1..n -> S] /\ DOMAIN names = 1..n
      BY <2>1, BatchingAssumption DEF ToSet
    <2>3. S = 1..n /\ IsFiniteSet(S)
      <3>1. \A i \in 1..n : names[i] = i
        BY <2>1
      <3>2. {names[i] : i \in DOMAIN names} = 1..n
        BY <2>2, <3>1
      <3> QED BY <2>2, <3>2, IntervalSize DEF ToSet
    <2>4. Len(names) = n
      BY <2>1, <2>2
    <2>5. Listed(n, S, names)
      BY <2>1, <2>2, <2>3 DEF Listed
    <2>6. dur # <<>> => \A y \in S : dur[y] \in 0..MaxDuration
      BY <2>1, <2>3
    <2>7. names # <<>> <=> n # 0
      BY <2>2, <2>4
    <2> DEFINE limit == Max({1, IF jobs = AutoJobs THEN AutoBase(engine) ELSE jobs})
    <2>8. workers # None =>
            /\ n = 0 => workers = 0
            /\ n # 0 => workers \in 1..n /\ workers <= limit
      <3>1. jobs \in Int \union {AutoJobs}
        BY BatchingAssumption DEF DealInv
      <3>2. workers # None => workers = ResolveJobs(jobs, n, engine)
        BY <2>4 DEF DealInv
      <3> QED BY <2>2, <3>1, <3>2, WorkersInRange
    <2> HIDE DEF S, limit
    <2>9. ASSUME B # <<>> PROVE n # 0 /\ workers \in 1..n /\ workers <= limit /\ GoodDeal(S, workers, dur, MaxDuration, B)
      <3>1. workers > 0 /\ B = PartitionGroups(names, workers, dur)
        BY <2>9 DEF DealInv
      <3>2. workers # None
        BY <3>1 DEF None
      <3>3. n # 0 /\ workers \in 1..n /\ workers <= limit
        BY <2>8, <3>1, <3>2
      <3>4. GoodDeal(S, workers, dur, MaxDuration, PartitionGroups(names, workers, dur))
        BY <2>2, <2>3, <2>4, <2>5, <2>6, <3>3, PartitionIsGood DEF S
      <3> QED BY <3>1, <3>3, <3>4
    <2>10. BatchesPartitionLevel
      <3>1. (names # <<>> /\ workers # None) => workers \in 1..Len(names)
        BY <2>4, <2>7, <2>8
      <3>2. ASSUME B # <<>>
            PROVE  /\ UNION {ToSet(B[g]) : g \in DOMAIN B} = S
                   /\ \A g, h \in DOMAIN B : \A i \in DOMAIN B[g], j \in DOMAIN B[h] :
                        B[g][i] = B[h][j] => g = h /\ i = j
                   /\ Len(B) <= limit
        <4>1. PICK k \in 1..workers : Cuts(S, k, B)
          BY <2>9, <3>2 DEF GoodDeal
        <4>2. DOMAIN B = 1..k /\ Len(B) = k /\ B \in [1..k -> Seq(S)]
          BY <4>1 DEF Cuts
        <4>3. \A g \in 1..k : ToSet(B[g]) \subseteq S
          <5> SUFFICES ASSUME NEW g \in 1..k, NEW i \in DOMAIN B[g] PROVE B[g][i] \in S
            BY DEF ToSet
          <5>1. B[g] \in Seq(S)
            BY <4>2
          <5> QED BY <5>1
        <4>4. \A x \in S : \E g \in 1..k : x \in ToSet(B[g])
          BY <4>1 DEF Cuts
        <4>5. \A g, h \in 1..k : \A i \in DOMAIN B[g], j \in DOMAIN B[h] : B[g][i] = B[h][j] => g = h /\ i = j
          BY <4>1, Zenon DEF Cuts
        <4>6. Len(B) <= limit
          <5>1. workers \in Nat /\ k <= workers /\ workers <= limit
            BY <2>9, <3>2
          <5>2. limit \in Int
            <6>1. AutoBase(engine) \in Int /\ AutoJobs \notin Int /\ jobs \in Int \union {AutoJobs}
              BY AutoBasePositive, BatchingAssumption DEF DealInv
            <6>2. (IF jobs = AutoJobs THEN AutoBase(engine) ELSE jobs) \in Int
              BY <6>1
            <6> QED BY <6>2, MaxOfTwo DEF limit
          <5> QED BY <4>2, <5>1, <5>2
        <4>7. UNION {ToSet(B[g]) : g \in DOMAIN B} = S
          BY <4>2, <4>3, <4>4
        <4> QED BY <4>2, <4>5, <4>6, <4>7
      <3> QED BY <3>1, <3>2 DEF BatchesPartitionLevel, S, limit
    <2>11. BatchesAreBalanced
      <3> SUFFICES ASSUME B # <<>>
                   PROVE  IF dur = <<>>
                          THEN \A g, h \in DOMAIN B : Len(B[g]) <= Len(B[h]) + 1
                          ELSE LET k == Len(B)
                               IN  \A other \in [S -> 1..k] : \E h \in 1..k : \A g \in 1..k :
                                     3 * k * Work(ToSet(B[g]))
                                       <= (4 * k - 1) * Work({y \in S : other[y] = h})
        BY DEF BatchesAreBalanced, S
      <3>1. PICK k \in 1..workers : /\ Cuts(S, k, B)
                                    /\ IF dur = <<>> THEN EvenSizes(k, B) ELSE Balances(S, k, dur, MaxDuration, B)
        BY <2>9 DEF GoodDeal
      <3>2. k \in Nat \ {0} /\ DOMAIN B = 1..k /\ Len(B) = k
        BY <3>1 DEF Cuts
      <3>3. CASE dur = <<>>
        BY <3>1, <3>2, <3>3 DEF EvenSizes
      <3>4. CASE dur # <<>>
        <4> SUFFICES ASSUME NEW other \in [S -> 1..k]
                     PROVE  \E h \in 1..k : \A g \in 1..k :
                              3 * k * Work(ToSet(B[g])) <= (4 * k - 1) * Work({y \in S : other[y] = h})
          BY <3>2, <3>4
        <4>1. \A T : Work(T) = Amount(dur, MaxDuration, T)
          BY DEF Work, Amount, Units
        <4>2. PICK h \in 1..k : Fits(S, k, dur, MaxDuration, other, Amount(dur, MaxDuration, Share(S, other, h)))
          BY <2>2, <2>3, <3>2, LongestBatch
        <4>3. \A g \in 1..k : Within(k, Amount(dur, MaxDuration, ToSet(B[g])), Amount(dur, MaxDuration, Share(S, other, h)))
          BY <3>1, <3>4, <4>2 DEF Balances
        <4>4. Share(S, other, h) = {y \in S : other[y] = h}
          BY DEF Share
        <4> QED BY <4>1, <4>3, <4>4 DEF Within
      <3> QED BY <3>3, <3>4
    <2> QED BY <2>10, <2>11
  <1> QED BY <1>1, DealInvariance, PTL
=============================================================================
