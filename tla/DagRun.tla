------------------------------ MODULE DagRun ------------------------------
(***************************************************************************)
(* What a run promises about the order of the models, whatever the levels, *)
(* the batches and the policy: a model is started at most once, and only   *)
(* after every model of the run it depends on has succeeded.               *)
(***************************************************************************)
CONSTANT Nodes

VARIABLES
    deps,       \* deps[n]: the models of this run that n depends on
    status      \* what happened to every model

vars == <<deps, status>>

Init ==
    /\ deps \in [Nodes -> SUBSET Nodes]
    /\ status = [n \in Nodes |-> "idle"]

Start(n) ==
    /\ status[n] = "idle"
    /\ \A d \in deps[n] : status[d] = "ok"
    /\ status' = [status EXCEPT ![n] = "running"]
    /\ UNCHANGED deps

Finish(n, result) ==
    /\ status[n] = "running"
    /\ status' = [status EXCEPT ![n] = result]
    /\ UNCHANGED deps

Next == \E n \in Nodes : Start(n) \/ Finish(n, "ok") \/ Finish(n, "failed")

Spec == Init /\ [][Next]_vars
=============================================================================
