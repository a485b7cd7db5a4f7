--------------------------- MODULE MCRunLifecycle ---------------------------
(* Two models, two threads, two invocations.                               *)
EXTENDS RunLifecycle, TLC

CONSTANTS n1, n2, w1, w2

MCNodes == {n1, n2}
MCWorkers == {w1, w2}
Symmetry == Permutations(MCNodes) \union Permutations(MCWorkers)

Plain == [selected |-> MCNodes, reads |-> TRUE, saves |-> TRUE, shared |-> FALSE,
          sqlHooks |-> FALSE, mode |-> "files", catalog |-> TRUE, limit |-> 0]

\* A budget of one unit holds when the other model is skipped; a budget of two
\* is just met by two models.
MCOptions ==
    { Plain,
      [Plain EXCEPT !.selected = {}],
      [Plain EXCEPT !.limit = 1],
      [Plain EXCEPT !.limit = 2, !.mode = "db", !.catalog = FALSE, !.saves = FALSE],
      [Plain EXCEPT !.sqlHooks = TRUE],
      [Plain EXCEPT !.shared = TRUE, !.mode = "both", !.reads = FALSE] }

\* Executors of their own per thread, as with DuckDB on a file.
ThreadOptions == {[Plain EXCEPT !.sqlHooks = TRUE]}
=============================================================================
