------------------------------- MODULE MCRebalance ------------------------------
(* Rebalance on up to five machines next to each other on a ring of six places:  *)
(* a hash only matters for the two machines it lies between.  The values are     *)
(* interchangeable.                                                              *)
EXTENDS Rebalance, TLC

CONSTANTS v, w

MCMachine == 1..5
MCIP      == {"a", "b", "c", "d", "e"}
MCIPOf    == <<"a", "b", "c", "d", "e">>
MCValue   == {v, w}

Starting(ring, j, f) ==
    [start |-> ring, joins |-> j, failures |-> f]

\* Five machines of which four fail; two machines, and two that join.
MCScenario == {Starting(MCMachine, 0, 4), Starting({1, 3}, 2, 0)}

\* Five machines of which two fail.
MCGap == {Starting(MCMachine, 0, 2)}

Symmetry == Permutations(Value)
================================================================================
