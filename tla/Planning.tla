------------------------------ MODULE Planning ------------------------------
(***************************************************************************)
(* What `fft run` decides before it schedules anything (cli/run.py): the   *)
(* nodes --select matches, the closed subgraph after --exclude, the        *)
(* restriction of --changed-since, the explicit targets of --rebuild and   *)
(* --rebuild-only, the forced nodes and the levels.  One action per step of *)
(* run(); every combination of options and graphs that the constants allow *)
(* is an initial state.                                                    *)
(***************************************************************************)
EXTENDS Dag

CONSTANTS
    RegistryNodes,  \* the names in REGISTRY.nodes, as numbers
    Graphs,         \* the dependency functions a project may have
    Snapshots,      \* the sets of nodes with materialized='snapshot'
    Selects,        \* what --select matches, or All when it is absent
    Excludes,       \* what --exclude matches ({} when absent)
    Changes,        \* models changed since the git ref, or the names in
                    \* FF_CI_CHANGED_MODELS, which may be no nodes; or Absent
    Rebuilds,       \* values of --rebuild
    RebuildOnlys    \* values of --rebuild-only: sequences of tokens

CONSTANTS All, Absent     \* --select, --changed-since not given

\* Registry._validate_dependencies refuses a project with a dangling reference; tokens
\* match nodes.
ASSUME RegistryAssumption ==
    /\ IsFiniteSet(RegistryNodes) /\ RegistryNodes \subseteq Nat
    /\ Graphs \subseteq [RegistryNodes -> SUBSET RegistryNodes]
    /\ Selects \ {All} \subseteq SUBSET RegistryNodes
    /\ Excludes \subseteq SUBSET RegistryNodes

\* A token of --rebuild-only: the name of a node, or the alias that
\* Registry.get_node accepts for it (the name without ".ff").
\* A name the registry does not know is node Unknown.
Unknown == 0
Tokens == [node : RegistryNodes \union {Unknown}, alias : BOOLEAN]

VARIABLES
    deps, snapshots,                    \* the project
    select, exclude, changed, rebuild, rebuildOnly,     \* the options
    phase,      \* next step of run()
    raw,        \* raw_selected
    wanted,
    targets,    \* explicit_targets, a sequence
    force,      \* engine_.force_rebuild
    lvls,       \* what is handed to schedule()
    outcome     \* "none", "planned", "empty", "missing" or "cycle"

project == <<deps, snapshots>>
options == <<select, exclude, changed, rebuild, rebuildOnly>>
results == <<raw, wanted, targets, force, lvls, outcome>>
planningVars == <<project, options, phase, results>>

Phases == {"select", "subgraph", "changed", "targets", "levels", "end"}

PlanningInit ==
    /\ deps \in Graphs
    /\ snapshots \in Snapshots
    /\ select \in Selects
    /\ exclude \in Excludes
    /\ changed \in Changes
    /\ rebuild \in Rebuilds
    /\ rebuildOnly \in RebuildOnlys
    /\ phase = "select"
    /\ raw = {}
    /\ wanted = {}
    /\ targets = <<>>
    /\ force = {}
    /\ lvls = <<>>
    /\ outcome = "none"

\* _select_predicate_and_raw: snapshot models are no seeds of fft run.
SelectRaw ==
    /\ phase = "select"
    /\ raw' = (IF select = All THEN RegistryNodes ELSE select) \ snapshots
    /\ phase' = "subgraph"
    /\ UNCHANGED <<project, options, wanted, targets, force, lvls, outcome>>

\* _wanted_names
Subgraph ==
    /\ phase = "subgraph"
    /\ wanted' = SelectedSubgraph(RegistryNodes, deps, raw, exclude)
    /\ phase' = "changed"
    /\ UNCHANGED <<project, options, raw, targets, force, lvls, outcome>>

\* Altered ChangedSince: --exclude alone does not count as a selector.
ChangedSinceSelectOnly ==
    /\ phase = "changed"
    /\ wanted' =
         IF changed = Absent THEN wanted
         ELSE LET affected == AffectedModels(RegistryNodes, deps, changed)
              IN  IF select # All THEN wanted \cap affected ELSE affected
    /\ phase' = "targets"
    /\ UNCHANGED <<project, options, raw, targets, force, lvls, outcome>>

\* _apply_changed_since_filter
ChangedSince ==
    /\ phase = "changed"
    /\ wanted' =
         IF changed = Absent THEN wanted
         ELSE LET affected == AffectedModels(RegistryNodes, deps, changed)
              IN  IF select # All \/ exclude # {} THEN wanted \cap affected
                  ELSE affected
    /\ phase' = "targets"
    /\ UNCHANGED <<project, options, raw, targets, force, lvls, outcome>>

\* _normalize_node_names_or_warn: an alias is resolved; unknown names and
\* snapshots are left out with a warning.
Normalized == {rebuildOnly[i].node : i \in DOMAIN rebuildOnly} \ (snapshots \union {Unknown})

\* `[n for n in rebuild_only if n in REGISTRY.nodes]`: the tokens as they were
\* typed, so an alias is dropped and a snapshot is kept.
TypedNames ==
    LET Exact(t) == ~t.alias /\ t.node \in RegistryNodes
        typed == SelectSeq(rebuildOnly, Exact)
    IN  [i \in DOMAIN typed |-> typed[i].node]

\* _explicit_targets
ExplicitTargets ==
    IF Normalized # {} THEN TypedNames
    ELSE IF rebuild /\ select # All THEN Sorted(raw)
    ELSE <<>>

\* _explicit_targets, _maybe_exit_if_empty, _compute_force_rebuild
Targets ==
    /\ phase = "targets"
    /\ targets' = ExplicitTargets
    /\ IF wanted = {} /\ ExplicitTargets = <<>>
       THEN phase' = "end" /\ outcome' = "empty" /\ UNCHANGED force
       ELSE /\ phase' = "levels"
            /\ force' = IF ExplicitTargets # <<>> THEN ToSet(ExplicitTargets)
                        ELSE IF rebuild THEN wanted ELSE {}
            /\ UNCHANGED outcome
    /\ UNCHANGED <<project, options, raw, wanted, lvls>>

SubNodes == wanted \cap RegistryNodes

\* _levels_for_run: explicit targets form one level, in the order typed.
Levels ==
    /\ phase = "levels"
    /\ phase' = "end"
    /\ IF targets # <<>>
       THEN lvls' = <<targets>> /\ outcome' = "planned"
       ELSE LET l == LevelsOf(SubNodes, deps)
            IN  /\ lvls' = l.levels
                /\ outcome' = IF l.error = "none" THEN "planned" ELSE l.error
    /\ UNCHANGED <<project, options, raw, wanted, targets, force>>

\* run() goes on to schedule(), or has exited.
Ended == phase = "end" /\ UNCHANGED planningVars

PlanningNext == SelectRaw \/ Subgraph \/ ChangedSince \/ Targets \/ Levels \/ Ended

PlanningSpec == PlanningInit /\ [][PlanningNext]_planningVars

-----------------------------------------------------------------------------
(* Reference definitions: reachability in the dependency relation.         *)

\* m is among the dependencies of n at some distance: it is in every set of nodes that
\* holds n's dependencies and those of its members.
Closed(S) == \A n \in S : deps[n] \subseteq S
DependsOn(n, m) == \A S \in SUBSET RegistryNodes : deps[n] \subseteq S /\ Closed(S) => m \in S

Upstream(S) == {m \in RegistryNodes : \E n \in S : DependsOn(n, m)}
Downstream(S) == {m \in RegistryNodes : \E n \in S : DependsOn(m, n)}

Planned == UNION {ToSet(lvls[i]) : i \in DOMAIN lvls}
Level(n) == CHOOSE i \in DOMAIN lvls : n \in ToSet(lvls[i])

-----------------------------------------------------------------------------
(* Properties                                                              *)

\* _selected_subgraph_names computes what its docstring promises: the selected
\* nodes that do not depend, at any distance, on an excluded one, together with
\* everything they depend on.
SubgraphIsClosed ==
    phase = "changed" =>
        LET removed == exclude \union Downstream(exclude)
            kept == raw \ removed
        IN  wanted = kept \union Upstream(kept)

\* A plan of computed levels lists every wanted node once, after everything it
\* depends on and in the earliest level that allows this.
LevelsAreEarliest ==
    (phase = "end" /\ outcome = "planned" /\ targets = <<>>) =>
        /\ Planned = SubNodes
        /\ \A n \in SubNodes :
             /\ Cardinality({p \in (DOMAIN lvls) \X (1..Cardinality(RegistryNodes)) :
                              p[2] \in DOMAIN lvls[p[1]] /\ lvls[p[1]][p[2]] = n}) = 1
             /\ \A d \in deps[n] : Level(d) < Level(n)
             /\ Level(n) > 1 => \E d \in deps[n] : Level(d) = Level(n) - 1

\* Without --changed-since the selection can always be levelled, unless a
\* selected node depends on itself; with a cycle there is never a plan.
CyclesAreRejected ==
    (phase = "end" /\ targets = <<>> /\ changed = Absent /\ outcome # "empty") =>
        outcome = IF \E n \in SubNodes : DependsOn(n, n) THEN "cycle" ELSE "planned"

\* The order of topo_sort() agrees with the levels: it succeeds on the same
\* graphs and never puts a node before a dependency.
TopoSortAgrees ==
    (phase = "end" /\ targets = <<>> /\ outcome # "empty") =>
        LET t == TopoSort(SubNodes, deps)
        IN  /\ outcome = IF t.error = "none" THEN "planned" ELSE t.error
            /\ t.error = "none" =>
                 /\ ToSet(t.order) = SubNodes
                 /\ \A i, j \in DOMAIN t.order : t.order[j] \in deps[t.order[i]] => j < i

\* --exclude holds for every plan that does not consist of explicit targets:
\* no planned node is excluded or depends on an excluded one.  With
\* --changed-since alone this needs an absent --exclude only.
ExcludeHolds ==
    targets = <<>> =>
        Planned \cap (exclude \union Downstream(exclude)) = {}

\* levels() finds a dependency missing only when --changed-since has cut the
\* selection down: every other selection is closed.
MissingOnlyWithChangedSince == outcome = "missing" => changed # Absent

\* What fft run takes is what was asked for, closed under dependencies.
SelectionIsExact == SubgraphIsClosed /\ ExcludeHolds /\ MissingOnlyWithChangedSince

\* What it takes is run in order, or not at all.
PlanIsInOrder == LevelsAreEarliest /\ CyclesAreRejected /\ TopoSortAgrees

-----------------------------------------------------------------------------
(* What the documentation says and the code does not do.                   *)

\* "Dependencies are never violated" (docs/Cache_and_Parallelism.md:26): a
\* planned dependency of a planned node stands in an earlier level.
DependenciesNeverViolated ==
    \A i \in DOMAIN lvls : \A n \in ToSet(lvls[i]) : \A d \in deps[n] \cap Planned :
        \E k \in 1..(i - 1) : d \in ToSet(lvls[k])

\* compute_affected_models returns "all their downstream dependents"
\* (ci/changed_since.py:116).
AffectedCoversDependents ==
    (phase = "targets" /\ changed # Absent /\ select = All /\ exclude = {}) =>
        Downstream(changed) \subseteq wanted
=============================================================================
