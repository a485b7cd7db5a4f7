------------------------------ MODULE Batching ------------------------------
(***************************************************************************)
(* What _run_level (run_executor.py) does with a level before anything of  *)
(* it runs: _resolve_jobs, then _partition_groups.  A behaviour deals out  *)
(* one level; its names are the numbers 1..n, in the order of the level.   *)
(***************************************************************************)
EXTENDS Partition

CONSTANTS MaxNames,      \* size of a level
          MaxDuration,   \* of a node, in units of time
          JobValues,     \* --jobs
          Engines

ASSUME BatchingAssumption ==
    /\ Cpus \in Nat \ {0} /\ MaxNames \in Nat /\ MaxDuration \in Nat
    /\ JobValues \subseteq Int \union {AutoJobs} /\ AutoJobs \notin Int

VARIABLES names, jobs, engine,
          dur,       \* durations_s: of every name, <<>> if there are none
          workers,   \* max_workers
          batches    \* groups

input == <<names, jobs, engine, dur>>
dealing == <<input, workers, batches>>

None == -1

DealInit ==
    /\ \E n \in 0..MaxNames :
         /\ names = [i \in 1..n |-> i]
         /\ dur \in [1..n -> 0..MaxDuration] \union {<<>>}
    /\ jobs \in JobValues
    /\ engine \in Engines
    /\ workers = None
    /\ batches = <<>>

Resolve ==
    /\ workers = None
    /\ workers' = ResolveJobs(jobs, Len(names), engine)
    /\ UNCHANGED <<input, batches>>

Deal ==
    /\ workers > 0
    /\ batches = <<>>
    /\ batches' = PartitionGroups(names, workers, dur)
    /\ UNCHANGED <<input, workers>>

\* max_workers <= 0: the level is a no-op.
NothingToDeal == workers = 0 /\ UNCHANGED dealing
Submitted == batches # <<>> /\ UNCHANGED dealing

DealNext == Resolve \/ Deal \/ NothingToDeal \/ Submitted
DealSpec == DealInit /\ [][DealNext]_dealing

-----------------------------------------------------------------------------
\* Whatever --jobs says, every node of a level is handed to a worker exactly
\* once: no worker count turns a level into a no-op, and no deal loses or doubles
\* a node or uses more threads than --jobs allows.
BatchesPartitionLevel ==
    /\ (names # <<>> /\ workers # None) => workers \in 1..Len(names)
    /\ batches # <<>> =>
         /\ UNION {ToSet(batches[g]) : g \in DOMAIN batches} = ToSet(names)
         /\ \A g, h \in DOMAIN batches : \A i \in DOMAIN batches[g], j \in DOMAIN batches[h] :
              batches[g][i] = batches[h][j] => g = h /\ i = j
         /\ Len(batches) <= Max({1, IF jobs = AutoJobs THEN AutoBase(engine) ELSE jobs})

\* The units of time a set of nodes takes, one after the other.
Work(S) == Cardinality({unit \in S \X (1..MaxDuration) : unit[2] <= dur[unit[1]]})

\* "Greedy bin-packing to balance total estimated time per batch": whatever other
\* deal into k batches there is, no batch takes longer than (4k - 1) / 3k times its
\* longest one.  Without durations no two batches differ by more than one node.
BatchesAreBalanced ==
    batches # <<>> =>
        IF dur = <<>>
        THEN \A g, h \in DOMAIN batches : Len(batches[g]) <= Len(batches[h]) + 1
        ELSE LET k == Len(batches)
             IN  \A other \in [ToSet(names) -> 1..k] :
                   \E h \in 1..k : \A g \in 1..k :
                     3 * k * Work(ToSet(batches[g])) <= (4 * k - 1) * Work({n \in ToSet(names) : other[n] = h})

\* Every level is dealt out completely and evenly.
LevelIsDealtOut == BatchesPartitionLevel /\ BatchesAreBalanced
=============================================================================
