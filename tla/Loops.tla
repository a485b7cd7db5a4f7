------------------------------- MODULE Loops -------------------------------
(***************************************************************************)
(* The for-loops of the algorithms in Dag and Partition, without the       *)
(* RECURSIVE operators the provers cannot take.                            *)
(***************************************************************************)
EXTENDS Naturals

\* What a loop has made of `start` after k turns; its body is a function on the states
\* the loop can be in.
Turns(body, start, k) ==
    LET run[i \in Nat] == IF i = 0 THEN start ELSE body[run[i - 1]]
    IN  run[k]
=============================================================================
