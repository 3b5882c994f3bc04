------------------------------ MODULE MCEarlyStore ------------------------------
(* EarlyStore on three machines, of which the middle one starts, on a ring with a   *)
(* place for a key below, between and above them.  One machine joins before it and  *)
(* one, on the map, after it: both branches of checkAndTransferKeys.  The value     *)
(* looks like the end of a command.  (A second value would tell nothing apart: no   *)
(* two machines have the key, so no insert finds an older one.)                     *)
EXTENDS EarlyStore

MCValue == {<<",", ")", "w">>}

\* KeyAssumption, for more keys than the one of this instance.
ASSUME KeysAssumption == \A n \in 0..1100 : Atoi(IntToString[n]) = n
================================================================================
