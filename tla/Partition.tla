----------------------------- MODULE Partition -----------------------------
(***************************************************************************)
(* How run_executor.py cuts a level into batches: _resolve_jobs decides    *)
(* how many workers the level gets, _partition_groups deals the nodes out  *)
(* to them.  Durations are whole time units; an unknown duration is 0.     *)
(***************************************************************************)
EXTENDS Integers, Sequences, FiniteSetsExt, SequencesExt, Loops

CONSTANTS
    Cpus,           \* os.cpu_count()
    AutoJobs        \* the value of --jobs that asks for the heuristic

AutoBase(engine) ==
    CASE engine = "BQ" -> Min({Cpus, 4})
      [] engine = "SPK" -> Min({Cpus * 2, 16})
      [] engine \in {"DUCK", "PG", "SNOW"} -> Min({Cpus, 8})
      [] OTHER -> Cpus

\* Altered ResolveJobs: a number is capped but not raised to 1.
ResolveJobsUnfloored(jobs, size, engine) ==
    IF size <= 0 THEN 0
    ELSE IF jobs = AutoJobs THEN Max({1, Min({AutoBase(engine), size})})
    ELSE Min({jobs, size})

\* _resolve_jobs: jobs is AutoJobs or an integer (text that is no number counts
\* as 1 before it gets here).
ResolveJobs(jobs, size, engine) ==
    IF size <= 0 THEN 0
    ELSE IF jobs = AutoJobs THEN Max({1, Min({AutoBase(engine), size})})
    ELSE IF jobs <= 0 THEN 1
    ELSE Min({jobs, size})

Put(groups, g, name) == [groups EXCEPT ![g] = Append(@, name)]
NoGroups(k) == [g \in 1..k |-> <<>>]
GroupsOf(names, k) == [1..k -> Seq(ToSet(names))]

\* `next` names have been dealt out.
RoundRobin(names, k) ==
    LET body == [s \in [next : 0..Len(names), groups : GroupsOf(names, k)] |->
                   IF s.next = Len(names) THEN s
                   ELSE [next |-> s.next + 1,
                         groups |-> Put(s.groups, (s.next % k) + 1, names[s.next + 1])]]
    IN  Turns(body, [next |-> 0, groups |-> NoGroups(k)], Len(names)).groups

\* Altered ByDuration: the names are not sorted.
ByDurationUnsorted(names, dur) == names

\* Stable sort by descending duration, as sorted(..., reverse=True) does: equal
\* durations keep the order they have in names.
Precedes(names, dur, i, j) ==
    \/ dur[names[i]] > dur[names[j]]
    \/ dur[names[i]] = dur[names[j]] /\ i < j
Rank(names, dur, i) == Cardinality({j \in DOMAIN names : Precedes(names, dur, j, i)}) + 1
ByDuration(names, dur) ==
    [r \in DOMAIN names |-> names[CHOOSE i \in DOMAIN names : Rank(names, dur, i) = r]]

\* loads.index(min(loads)): the first of the least loaded groups.
LeastLoaded(loads) ==
    CHOOSE g \in DOMAIN loads : /\ \A h \in DOMAIN loads : loads[g] <= loads[h]
                                /\ \A h \in 1..(g - 1) : loads[g] < loads[h]

Greedy(names, k, dur) ==
    LET sorted == ByDuration(names, dur)
        body == [s \in [next : 0..Len(names), groups : GroupsOf(names, k), loads : [1..k -> Nat]] |->
                   IF s.next = Len(names) THEN s
                   ELSE LET g == LeastLoaded(s.loads)
                            name == sorted[s.next + 1]
                        IN  [next |-> s.next + 1,
                             groups |-> Put(s.groups, g, name),
                             loads |-> [s.loads EXCEPT ![g] = @ + dur[name]]]]
    IN  Turns(body, [next |-> 0, groups |-> NoGroups(k), loads |-> [g \in 1..k |-> 0]], Len(names)).groups

\* _partition_groups: dur is a function on the names, or <<>> when no previous
\* run left durations.
PartitionGroups(names, workers, dur) ==
    IF names = <<>> THEN <<>>
    ELSE IF workers <= 1 \/ Len(names) = 1 THEN <<names>>
    ELSE LET k == Min({workers, Len(names)})
         IN  IF dur = <<>> THEN RoundRobin(names, k) ELSE Greedy(names, k, dur)
=============================================================================
