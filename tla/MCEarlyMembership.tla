---------------------------- MODULE MCEarlyMembership ---------------------------
(* EarlyMembership with two other machines, one of which has beaten once and the   *)
(* other one twice.                                                              *)
EXTENDS EarlyMembership

MCBeats == [x \in Other |-> IF x = "a" THEN 1 ELSE 2]
================================================================================
