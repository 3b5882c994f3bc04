------------------------------- MODULE MCRingView -------------------------------
(* RingView on rings of up to six members at uneven places of an eight-place    *)
(* ring: sizes 2, 3 and 4 are special cases of the code, 5 and 6 are not.       *)
EXTENDS RingView

MCId       == {"a", "b", "c", "d", "e", "f"}
MCIP       == {"ipa", "ipb", "ipc", "ipd", "ipe", "ipf"}
MCNodeHash == [i \in MCId |-> CASE i = "a" -> 0 [] i = "b" -> 1 [] i = "c" -> 3
                                [] i = "d" -> 4 [] i = "e" -> 6 [] i = "f" -> 7]
MCIPOf     == [i \in MCId |-> CASE i = "a" -> "ipa" [] i = "b" -> "ipb"
                                [] i = "c" -> "ipc" [] i = "d" -> "ipd"
                                [] i = "e" -> "ipe" [] i = "f" -> "ipf"]
================================================================================
