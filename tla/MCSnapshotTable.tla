-------------------------- MODULE MCSnapshotTable --------------------------
(* Two keys for the join on unique_key; every event takes a tick of the clock. *)
EXTENDS SnapshotTable, TLC

CONSTANTS k1, k2, v1, v2

MCKeys == {k1, k2}
MCValues == {v1, v2}
Symmetry == Permutations(MCKeys) \union Permutations(MCValues)
=============================================================================
