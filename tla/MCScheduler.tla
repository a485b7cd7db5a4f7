---------------------------- MODULE MCScheduler ----------------------------
(***************************************************************************)
(* Instances of Scheduler whose plans are what the code would hand to      *)
(* schedule(): the levels of dag.levels() for a set of graphs, cut into    *)
(* batches by _partition_groups.                                           *)
(***************************************************************************)
EXTENDS Scheduler

CONSTANTS Jobs, Cpus, AutoJobs, Durations

D == INSTANCE Dag
P == INSTANCE Partition

MCNodes == 1..4

BatchesOf(levels, jobs, dur) ==
    [l \in DOMAIN levels |->
        P!PartitionGroups(levels[l], P!ResolveJobs(jobs, Len(levels[l]), "DUCK"), dur)]

PlansOf(N, graphs) ==
    {[deps |-> d, batches |-> BatchesOf(D!LevelsOf(N, d).levels, j, dur)] :
        d \in graphs, j \in Jobs, dur \in Durations}

\* Every acyclic graph, up to renaming that numbers a node above its
\* dependencies.
OrderedGraphs(N) == {d \in [N -> SUBSET N] : \A n \in N : d[n] \subseteq 1..(n - 1)}

MCPlans == PlansOf(MCNodes, OrderedGraphs(MCNodes))

\* Node 4 is not in the results of the previous run.
SomeDurations == {<<>>, [n \in MCNodes |-> IF n = 4 THEN 0 ELSE n]}
=============================================================================
