-------------------------------- MODULE Dag --------------------------------
(***************************************************************************)
(* The graph algorithms of dag.py, cli/selectors.py and                    *)
(* ci/changed_since.py, as operators.  A graph is a set N of node names    *)
(* (natural numbers, whose order is the order of the names) and a function *)
(* deps that gives every node the set of names it refers to.               *)
(***************************************************************************)
EXTENDS Integers, Sequences, FiniteSets, SequencesExt, Loops

Sorted(S) == CHOOSE s \in SetToSeqs(S) : \A i, j \in DOMAIN s : i < j => s[i] < s[j]

\* Names some node of N refers to although N lacks them.
Dangling(N, deps) == UNION {deps[n] \ N : n \in N}

-----------------------------------------------------------------------------
(* dag.py                                                                  *)

\* Altered KahnLevels: a node follows as soon as one of its dependencies is done.
KahnLevelsEager(N, deps) ==
    LET body == [lvls \in Seq(SUBSET N) |->
                   Append(lvls, {n \in N : deps[n] \cap Last(lvls) # {}}
                                    \ UNION {lvls[i] : i \in DOMAIN lvls})]
        Filled(level) == level # {}
    IN  SelectSeq(Turns(body, <<{n \in N : deps[n] = {}}>>, Cardinality(N)), Filled)

\* levels(): Kahn's algorithm one level at a time, on in-degrees, until a level is
\* empty.
KahnLevels(N, deps) ==
    LET start == [indeg |-> [n \in N |-> Cardinality(deps[n])],
                  lvls |-> <<{n \in N : deps[n] = {}}>>]
        After(s) == [n \in N |-> s.indeg[n] - Cardinality(deps[n] \cap Last(s.lvls))]
        Zero(s) == {n \in N : s.indeg[n] > 0 /\ After(s)[n] = 0}
        body == [s \in [indeg : [N -> Int], lvls : Seq(SUBSET N)] |->
                   IF Last(s.lvls) = {} THEN s
                   ELSE [indeg |-> After(s), lvls |-> Append(s.lvls, Zero(s))]]
    IN  Front(Turns(body, start, Cardinality(N) + 1).lvls)

LevelsOf(N, deps) ==
    IF Dangling(N, deps) # {} THEN [error |-> "missing", levels |-> <<>>]
    ELSE LET lvls == KahnLevels(N, deps)
         IN  IF UNION {lvls[i] : i \in DOMAIN lvls} # N
             THEN [error |-> "cycle", levels |-> <<>>]
             ELSE [error |-> "none",
                   levels |-> [i \in DOMAIN lvls |-> Sorted(lvls[i])]]

\* topo_sort(): the heap always yields the least node that is ready.
KahnOrder(N, deps) ==
    LET Ready(order) == {n \in N \ ToSet(order) : deps[n] \subseteq ToSet(order)}
        body == [order \in Seq(N) |->
                   IF Ready(order) = {} THEN order ELSE Append(order, Min(Ready(order)))]
    IN  Turns(body, <<>>, Cardinality(N))

TopoSort(N, deps) ==
    IF Dangling(N, deps) # {} THEN [error |-> "missing", order |-> <<>>]
    ELSE LET order == KahnOrder(N, deps)
         IN  IF Len(order) # Cardinality(N) THEN [error |-> "cycle", order |-> <<>>]
             ELSE [error |-> "none", order |-> order]

-----------------------------------------------------------------------------
(* Worklist closures.                                                      *)

\* The loop `while stack: cur = stack.pop(); for n in next[cur]: if n not in
\* out: add and push n`, started from `frontier` with `out` already marked.  The
\* result does not depend on the order in which the stack is served, so the
\* whole frontier is served at once; N bounds the number of rounds.
Worklist(N, out, frontier, next) ==
    LET body == [s \in [out : SUBSET N, frontier : SUBSET N] |->
                   LET new == (UNION {next[n] : n \in s.frontier}) \ s.out
                   IN  [out |-> s.out \union new, frontier |-> new]]
    IN  Turns(body, [out |-> out, frontier |-> frontier], Cardinality(N)).out

Dependents(N, deps) == [n \in N |-> {m \in N : n \in deps[m]}]

\* selectors._downstream_closure
DownstreamClosure(N, deps, S) == Worklist(N, S, S, Dependents(N, deps))

\* selectors._selected_subgraph_names, with seed_names given
SelectedSubgraph(N, deps, seeds, excluded) ==
    LET removed == DownstreamClosure(N, deps, excluded)
        kept == (seeds \cap N) \ removed
    IN  Worklist(N, kept, kept, [n \in N |-> deps[n] \cap (N \ removed)])

\* changed_since.compute_affected_models: the walk down starts from the changed
\* models with their ancestors already marked, so it does not pass through them.
AffectedModels(N, deps, changed) ==
    LET names == N \union changed
        Known(next) == [n \in names |-> IF n \in N THEN next[n] ELSE {}]
        up == Worklist(names, changed, changed, Known([n \in N |-> deps[n] \cap N]))
    IN  Worklist(names, up, changed, Known(Dependents(N, deps)))
=============================================================================
