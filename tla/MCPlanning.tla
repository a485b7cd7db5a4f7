----------------------------- MODULE MCPlanning -----------------------------
(* Instances of Planning for TLC, and the levels of Batching: a behaviour    *)
(* plans a run or deals out one level.                                       *)
EXTENDS Planning, Batching

MCNodes == 1..3

\* Every dependency function on three nodes, self-references included.
AllGraphs == [MCNodes -> SUBSET MCNodes]

\* Every acyclic graph on the nodes, up to renaming that keeps a node's number
\* above those of its dependencies.
Ordered(N) == {d \in [N -> SUBSET N] : \A n \in N : d[n] \subseteq 1..(n - 1)}
OrderedGraphs3 == Ordered(MCNodes)

Subsets == SUBSET MCNodes
Singletons3 == {{}} \union {{n} : n \in MCNodes}
SelectsAndAll == (SUBSET MCNodes \ {{}}) \union {All}
SelectsSome == {{1}, {2, 3}, All}
ChangesSome == {{2}, {9}, Absent}
SomeTokens == {t \in Tokens : t.node = Unknown => ~t.alias}
UpToTwoTokens == UNION {[1..k -> SomeTokens] : k \in 0..2}

-----------------------------------------------------------------------------
\* No level to deal out.
NoLevel ==
    /\ names = <<>> /\ dur = <<>> /\ batches = <<>> /\ workers = 0
    /\ jobs = 1 /\ engine = CHOOSE e \in Engines : TRUE

\* --select and --exclude on every graph of three nodes, cyclic ones included,
\* the other options absent.
SelectionInit ==
    /\ deps \in AllGraphs /\ snapshots = {}
    /\ select \in SelectsAndAll /\ exclude \in Subsets
    /\ changed = Absent /\ rebuild = FALSE /\ rebuildOnly = <<>>
    /\ PlanningInit

\* Every mix of the options on the acyclic graphs of three nodes.
OptionsInit ==
    /\ deps \in OrderedGraphs3 /\ snapshots \in Singletons3
    /\ select \in SelectsSome /\ exclude \in Singletons3
    /\ changed \in ChangesSome
    /\ PlanningInit

\* A run that has nothing to plan: only a level to deal out.
NothingToPlan ==
    /\ deps = [n \in MCNodes |-> {}] /\ snapshots = {} /\ select = All /\ exclude = {}
    /\ changed = Absent /\ rebuild = FALSE /\ rebuildOnly = <<>>
    /\ phase = "end" /\ raw = {} /\ wanted = {} /\ targets = <<>> /\ force = {}
    /\ lvls = <<>> /\ outcome = "empty"

MCInit ==
    \/ (SelectionInit \/ OptionsInit) /\ NoLevel
    \/ NothingToPlan /\ DealInit

MCNext ==
    \/ PlanningNext /\ UNCHANGED dealing
    \/ DealNext /\ UNCHANGED planningVars

MCSpec == MCInit /\ [][MCNext]_<<planningVars, dealing>>
=============================================================================
