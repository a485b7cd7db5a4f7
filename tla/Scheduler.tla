----------------------------- MODULE Scheduler -----------------------------
(***************************************************************************)
(* The level scheduler of run_executor.py: schedule() runs the levels one  *)
(* after the other; _run_level() cuts a level into batches, submits every  *)
(* batch to a thread pool that has one worker per batch, and collects the  *)
(* futures with as_completed().                                            *)
(*                                                                         *)
(* Processes: the main thread (Enter, Collect, EndLevel) and one worker    *)
(* per batch (PickUp, StartNode, NodeOk, NodeFails, FinishEmpty).          *)
(*                                                                         *)
(* A plan is what schedule() is called with, after _partition_groups:      *)
(* plan.batches[l][g] is the g-th batch (a sequence of nodes) of level l,  *)
(* and plan.deps the dependencies of the nodes, which schedule() itself    *)
(* never reads.                                                            *)
(***************************************************************************)
EXTENDS Integers, Sequences

CONSTANTS
    Nodes,      \* names of the models of the project
    Plans       \* the plans a behaviour may start with

FailPolicies == {"fail_fast", "keep_going"}

\* The places of level l of plan p, and the nodes that stand there.
Places(p, l) == UNION {{g} \X (1..Len(p.batches[l][g])) : g \in 1..Len(p.batches[l])}
LevelNodes(p, l) == {p.batches[l][pl[1]][pl[2]] : pl \in Places(p, l)}
PlanLevels(p) == 1..Len(p.batches)
PlanNodes(p) == UNION {LevelNodes(p, l) : l \in PlanLevels(p)}

WellFormed(p) ==
    /\ p.deps \in [Nodes -> SUBSET Nodes]
    /\ p.batches \in Seq(Seq(Seq(Nodes)))
    \* a node is listed once: in one level, one batch, one position
    /\ \A l \in PlanLevels(p), m \in PlanLevels(p) :
         l # m => LevelNodes(p, l) \cap LevelNodes(p, m) = {}
    /\ \A l \in PlanLevels(p) : \A a, b \in Places(p, l) :
         p.batches[l][a[1]][a[2]] = p.batches[l][b[1]][b[2]] => a = b

\* What dag.levels() establishes: the dependencies of a node that are part of
\* the run stand in an earlier level.
Layered(p) ==
    \A l \in PlanLevels(p) : \A n \in LevelNodes(p, l) :
      \A d \in p.deps[n] \cap PlanNodes(p) :
        \E k \in 1..(l - 1) : d \in LevelNodes(p, k)

ASSUME PlansWellFormed == \A p \in Plans : WellFormed(p)

VARIABLES
    plan,       \* the levels, batches and dependencies of this run
    policy,     \* fail_policy
    lvl,        \* index of the current level
    main,       \* main thread: "enter", "collect" or "done"
    fut,        \* state of the future of every batch of the current level
    at,         \* position of the batch in its list of nodes
    seen,       \* futures that as_completed() has yielded
    hadError,   \* level_had_error
    status,     \* what happened to every node
    perNode,    \* keys of per_node
    failed,     \* node names that are keys of failed
    failedLvl   \* levels l for which "<level-l>" is a key of failed

vars == <<plan, policy, lvl, main, fut, at, seen, hadError, status, perNode,
          failed, failedLvl>>
workerVars == <<fut, at, status, perNode>>
mainVars == <<lvl, main, seen, hadError, failed, failedLvl>>

FutStates == {"pending", "running", "cancelled", "notified", "ok", "error"}
NodeStates == {"idle", "running", "ok", "failed"}

Batch(g) == plan.batches[lvl][g]
Futures == DOMAIN fut

Init ==
    /\ plan \in Plans
    /\ policy \in FailPolicies
    /\ lvl = 1
    /\ main = "enter"
    /\ fut = <<>>
    /\ at = <<>>
    /\ seen = {}
    /\ hadError = FALSE
    /\ status = [n \in Nodes |-> "idle"]
    /\ perNode = {}
    /\ failed = {}
    /\ failedLvl = {}

-----------------------------------------------------------------------------
(* Main thread                                                             *)

\* Submit every batch of the level.  A batch that is not yet submitted cannot
\* be told from a pending one: the main thread cancels nothing before
\* as_completed().  A level without nodes submits nothing and ends at once.
Enter ==
    /\ main = "enter"
    /\ lvl <= Len(plan.batches)
    /\ main' = "collect"
    /\ fut' = [g \in 1..Len(plan.batches[lvl]) |-> "pending"]
    /\ at' = [g \in 1..Len(plan.batches[lvl]) |-> 1]
    /\ seen' = {}
    /\ hadError' = FALSE
    /\ UNCHANGED <<plan, policy, lvl, status, perNode, failed, failedLvl>>

Completed(g) == fut[g] \in {"notified", "ok", "error"}

\* `for f in futures: if not f.done(): f.cancel()`: cancel() succeeds only on a
\* future no worker has picked up.
CancelPending ==
    [g \in Futures |-> IF fut[g] = "pending" THEN "cancelled" ELSE fut[g]]

\* Altered AfterError: cancels under keep_going too, and never.
AfterErrorAlways == CancelPending
AfterErrorNever == fut

AfterError == IF policy = "fail_fast" THEN CancelPending ELSE fut

\* The node whose exception the future of batch g carries (_NodeFailed.name).
Culprit(g) == Batch(g)[at[g]]

\* Altered Collect: forgets the name of the failed node, and files every error
\* under the synthetic key.
CollectNameless(g) ==
    /\ main = "collect" /\ g \in Futures \ seen /\ Completed(g)
    /\ seen' = seen \union {g}
    /\ hadError' = (hadError \/ fut[g] # "ok")
    /\ fut' = IF fut[g] = "ok" THEN fut ELSE AfterError
    /\ failedLvl' = IF fut[g] = "notified" THEN failedLvl \union {lvl} ELSE failedLvl
    /\ UNCHANGED <<plan, policy, lvl, main, at, status, perNode, failed>>
CollectSynthetic(g) ==
    /\ main = "collect" /\ g \in Futures \ seen /\ Completed(g)
    /\ seen' = seen \union {g}
    /\ hadError' = (hadError \/ fut[g] # "ok")
    /\ fut' = IF fut[g] = "ok" THEN fut ELSE AfterError
    /\ failedLvl' = IF fut[g] # "ok" THEN failedLvl \union {lvl} ELSE failedLvl
    /\ UNCHANGED <<plan, policy, lvl, main, at, status, perNode, failed>>

Collect(g) ==
    /\ main = "collect"
    /\ g \in Futures \ seen
    /\ Completed(g)
    /\ seen' = seen \union {g}
    /\ \/ /\ fut[g] = "ok"
          /\ UNCHANGED <<fut, hadError, failed, failedLvl>>
       \/ /\ fut[g] = "error"
          /\ hadError' = TRUE
          /\ failed' = failed \union {Culprit(g)}
          /\ fut' = AfterError
          /\ UNCHANGED failedLvl
       \/ /\ fut[g] = "notified"         \* fut.result() raises CancelledError
          /\ hadError' = TRUE
          /\ failedLvl' = failedLvl \union {lvl}
          /\ fut' = AfterError
          /\ UNCHANGED failed
    /\ UNCHANGED <<plan, policy, lvl, main, at, status, perNode>>

\* Altered EndLevel: goes on after an error, and does not wait for the futures
\* that are still running.
EndLevelGoesOn ==
    /\ main = "collect" /\ seen = Futures
    /\ main' = "enter" /\ lvl' = lvl + 1
    /\ UNCHANGED <<plan, policy, seen, hadError, failed, failedLvl>>
    /\ UNCHANGED workerVars
EndLevelEarly ==
    /\ main = "collect" /\ (hadError \/ seen = Futures)
    /\ main' = (IF hadError THEN "done" ELSE "enter")
    /\ lvl' = (IF hadError THEN lvl ELSE lvl + 1)
    /\ UNCHANGED <<plan, policy, seen, hadError, failed, failedLvl>>
    /\ UNCHANGED workerVars

\* The pool is shut down; schedule() stops after a level with an error,
\* whatever the policy.
EndLevel ==
    /\ main = "collect"
    /\ seen = Futures
    /\ main' = IF hadError THEN "done" ELSE "enter"
    /\ lvl' = IF hadError THEN lvl ELSE lvl + 1
    /\ UNCHANGED <<plan, policy, seen, hadError, failed, failedLvl>>
    /\ UNCHANGED workerVars

EndRun ==
    /\ main = "enter"
    /\ lvl > Len(plan.batches)
    /\ main' = "done"
    /\ UNCHANGED <<plan, policy, lvl, seen, hadError, failed, failedLvl>>
    /\ UNCHANGED workerVars

Main == Enter \/ (\E g \in Futures : Collect(g)) \/ EndLevel \/ EndRun

-----------------------------------------------------------------------------
(* Workers: _group_task, one per batch.                                    *)

\* Altered PickUp: a cancelled work item is dropped without a notification.
PickUpSilent(g) ==
    /\ fut[g] = "pending"
    /\ fut' = [fut EXCEPT ![g] = "running"]
    /\ UNCHANGED <<plan, policy, at, status, perNode>>
    /\ UNCHANGED mainVars

\* A worker takes the work item: set_running_or_notify_cancel().
PickUp(g) ==
    /\ \/ /\ fut[g] = "pending"
          /\ fut' = [fut EXCEPT ![g] = "running"]
       \/ /\ fut[g] = "cancelled"
          /\ fut' = [fut EXCEPT ![g] = "notified"]
    /\ UNCHANGED <<plan, policy, at, status, perNode>>
    /\ UNCHANGED mainVars

\* _partition_groups() may return a batch without nodes.
FinishEmpty(g) ==
    /\ fut[g] = "running"
    /\ Len(Batch(g)) = 0
    /\ fut' = [fut EXCEPT ![g] = "ok"]
    /\ UNCHANGED <<plan, policy, at, status, perNode>>
    /\ UNCHANGED mainVars

StartNode(g) ==
    /\ fut[g] = "running"
    /\ at[g] <= Len(Batch(g))
    /\ status[Batch(g)[at[g]]] = "idle"
    /\ status' = [status EXCEPT ![Batch(g)[at[g]]] = "running"]
    /\ UNCHANGED <<plan, policy, fut, at, perNode>>
    /\ UNCHANGED mainVars

\* run_node(nm) returns: the batch goes on to its next node or ends.
NodeOk(g) ==
    /\ fut[g] = "running"
    /\ at[g] <= Len(Batch(g))
    /\ status[Batch(g)[at[g]]] = "running"
    /\ status' = [status EXCEPT ![Batch(g)[at[g]]] = "ok"]
    /\ perNode' = perNode \union {Batch(g)[at[g]]}
    /\ at' = [at EXCEPT ![g] = @ + 1]
    /\ fut' = IF at[g] = Len(Batch(g)) THEN [fut EXCEPT ![g] = "ok"] ELSE fut
    /\ UNCHANGED <<plan, policy>>
    /\ UNCHANGED mainVars

\* run_node(nm) raises: _NodeFailed leaves the loop over the batch, so the
\* nodes behind nm are never started, under either policy.
NodeFails(g) ==
    /\ fut[g] = "running"
    /\ at[g] <= Len(Batch(g))
    /\ status[Batch(g)[at[g]]] = "running"
    /\ status' = [status EXCEPT ![Batch(g)[at[g]]] = "failed"]
    /\ perNode' = perNode \union {Batch(g)[at[g]]}
    /\ fut' = [fut EXCEPT ![g] = "error"]
    /\ UNCHANGED <<plan, policy, at>>
    /\ UNCHANGED mainVars

Worker(g) ==
    PickUp(g) \/ FinishEmpty(g) \/ StartNode(g) \/ NodeOk(g) \/ NodeFails(g)

\* schedule() has returned.
Terminating == main = "done" /\ UNCHANGED vars

Next == Main \/ (\E g \in Futures : Worker(g)) \/ Terminating

Spec == Init /\ [][Next]_vars

\* The pool keeps its threads running and the main thread waits in
\* as_completed(): neither is ever descheduled for good.  That run_node() returns
\* or raises is an assumption about the engine.
FairSpec ==
    /\ Spec
    /\ WF_vars(Main)
    /\ WF_vars(\E g \in Futures : Worker(g))

-----------------------------------------------------------------------------
(* Properties                                                              *)

TypeOK ==
    /\ WellFormed(plan)
    /\ policy \in FailPolicies
    /\ lvl \in 1..(Len(plan.batches) + 1)
    /\ main \in {"enter", "collect", "done"}
    /\ DOMAIN at = DOMAIN fut
    /\ \A g \in Futures : fut[g] \in FutStates /\ at[g] \in Nat
    /\ main = "collect" =>
         /\ lvl <= Len(plan.batches)
         /\ Futures = 1..Len(plan.batches[lvl])
         /\ \A g \in Futures : at[g] \in 1..(Len(Batch(g)) + 1)
    /\ seen \subseteq Futures
    /\ hadError \in BOOLEAN
    /\ status \in [Nodes -> NodeStates]
    /\ perNode \subseteq Nodes
    /\ failed \subseteq Nodes
    /\ failedLvl \subseteq Nat

\* A level is started only when every node of every earlier level has
\* succeeded, under both policies.
LevelBarrier ==
    \A l \in PlanLevels(plan) : \A n \in LevelNodes(plan, l) :
        status[n] # "idle" =>
            \A k \in 1..(l - 1) : \A m \in LevelNodes(plan, k) : status[m] = "ok"

\* A node is started only after every dependency that is part of the run has
\* succeeded, when the levels come from dag.levels().
DependencyOrder ==
    Layered(plan) =>
        \A n \in PlanNodes(plan) : status[n] # "idle" =>
            \A d \in plan.deps[n] \cap PlanNodes(plan) : status[d] = "ok"

\* When schedule() returns, no worker is still at a node, every node that
\* raised is a key of failed, every key of failed is a node that raised, and
\* per_node has exactly the nodes that were started.
ResultIsComplete ==
    main = "done" =>
        /\ \A n \in Nodes : status[n] # "running"
        /\ failed = {n \in Nodes : status[n] = "failed"}
        /\ perNode = {n \in Nodes : status[n] # "idle"}

\* run() takes an empty `failed` for success: then every node of the plan has
\* been built, so nothing was cancelled or skipped silently.
EmptyFailedMeansBuilt ==
    (main = "done" /\ failed = {}) =>
        /\ failedLvl = {}
        /\ \A n \in PlanNodes(plan) : status[n] = "ok"

\* The synthetic key "<level-l>" only ever joins the name of a real node, so
\* on_error, which looks the first key up in the registry, finds one.
SyntheticKeyNeedsFailure == failedLvl # {} => failed # {}

\* keep_going loses nothing but the nodes behind a failed one in its own batch.
KeepGoingOnlySkipsBehindFailure ==
    (main = "done" /\ policy = "keep_going" /\ lvl <= Len(plan.batches)) =>
        \A pl \in Places(plan, lvl) :
            status[plan.batches[lvl][pl[1]][pl[2]]] = "idle" =>
                \E i \in 1..(pl[2] - 1) : status[plan.batches[lvl][pl[1]][i]] = "failed"

\* What schedule() returns is what has happened: nothing still runs, no node is
\* unaccounted for, and only what the failure policy allows was left out.
ResultTellsWhatRan ==
    ResultIsComplete /\ SyntheticKeyNeedsFailure /\ KeepGoingOnlySkipsBehindFailure

\* What has happened to a node never changes again: no retry, no second run,
\* no failure that is overwritten by a success.
OutcomesAreFinal ==
    [][\A n \in Nodes :
        /\ status[n] \in {"ok", "failed"} => status'[n] = status[n]
        /\ status[n] = "idle" => status'[n] \in {"idle", "running"}
        /\ status[n] = "running" => status'[n] # "idle"]_vars

\* Under fail_fast no batch is started after the main thread has seen an error.
FailFastStopsBatches ==
    [][(policy = "fail_fast" /\ main = "collect" /\ hadError) =>
        \A g \in Futures : fut[g] # "running" => fut'[g] # "running"]_vars

\* schedule() returns.
Returns == <>(main = "done")

\* What a run promises in terms of models only.
AbstractRun == INSTANCE DagRun WITH
    deps <- [n \in Nodes |-> plan.deps[n] \cap PlanNodes(plan)]
RefinesDagRun == AbstractRun!Spec

-----------------------------------------------------------------------------
(* The inductive invariant behind the theorems of SchedulerProofs.         *)

EarlierLevelsOk ==
    \A k \in 1..(lvl - 1) : \A m \in LevelNodes(plan, k) : status[m] = "ok"

LaterLevelsIdle ==
    \A k \in PlanLevels(plan) :
        (k > lvl \/ (k = lvl /\ main = "enter")) =>
            \A m \in LevelNodes(plan, k) : status[m] = "idle"

\* A batch has succeeded up to the place it is at; it ends behind its last node
\* or at the node that failed.
BatchProgress ==
    main = "collect" =>
        \A g \in Futures :
            /\ \A i \in 1..(at[g] - 1) : status[Batch(g)[i]] = "ok"
            /\ fut[g] = "ok" => at[g] = Len(Batch(g)) + 1
            /\ fut[g] = "error" => at[g] <= Len(Batch(g))

SeenWithoutError == (main = "collect" /\ ~hadError) => \A g \in seen : fut[g] = "ok"

\* A batch is cancelled, and a level counts as failed, only once a node is known
\* to have failed.
ErrorsHaveCulprit ==
    /\ hadError => failed # {}
    /\ failedLvl # {} => failed # {}
    /\ main = "collect" =>
         \A g \in Futures : fut[g] \in {"cancelled", "notified"} => failed # {}

\* Between two levels no worker has anything left to do.
QuietBetweenLevels ==
    /\ \A g \in seen : Completed(g)
    /\ main # "collect" => seen = Futures

DoneMeansOver == main = "done" => hadError \/ lvl = Len(plan.batches) + 1

IInv ==
    /\ TypeOK
    /\ EarlierLevelsOk
    /\ LaterLevelsIdle
    /\ BatchProgress
    /\ SeenWithoutError
    /\ ErrorsHaveCulprit
    /\ QuietBetweenLevels
    /\ DoneMeansOver
=============================================================================
