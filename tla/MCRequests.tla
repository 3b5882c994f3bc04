------------------------------- MODULE MCRequests -------------------------------
(* Requests for one key (keys do not share any state) with two values.  The      *)
(* requests are interchangeable, and so are the values.                          *)
EXTENDS Requests, TLC

CONSTANTS r1, r2, r3, v, w

MCKey     == {"k"}
MCValue   == {v, w}
MCRequest == {r1, r2}
MCRequest3 == {r1, r2, r3}

Symmetry == Permutations(Value) \cup Permutations(Request)

\* Where symmetry is not sound, the requests are made in one order, and one at level
\* ONE is made alone.
InOrder ==
    /\ pc[r1] = "unborn" => pc[r2] = "unborn"
    /\ pc[r2] = "unborn" => pc[r3] = "unborn"
    /\ level[r1] = "ONE" => pc[r2] = "unborn"
    /\ level[r2] # "ONE" /\ level[r3] # "ONE"
================================================================================
