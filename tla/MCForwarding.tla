------------------------------ MODULE MCForwarding -------------------------------
(* Forwarding on up to three machines.  The buffers of Stream hold five characters, *)
(* so that texts take one to four blocks; the first length on which sendData       *)
(* throws is 14.                                                                  *)
EXTENDS Forwarding, TLC

CONSTANT r1

MCMachine == 1..3
MCStart   == {2, 3}

Ask4(level, name, key, value) ==
    [level |-> level, name |-> name, key |-> key, value |-> value]

\* Brackets and dashes in keys and values; two commands whose forced texts are of
\* length 14, one at level ALL and one at level ONE; one which is forced already.
MCQuestion ==
    {Ask4(<<>>, <<"insert">>, <<"k", "-">>, <<"(", "-", ")">>),
     Ask4(<<>>, <<"update">>, <<"j", "(">>, <<"v", "v", ")", "v", "v", "v", "v">>),
     Ask4(<<"o", "-">>, <<"update">>, <<"k">>, <<"v", "v", "-", "v", "v", "v", "v", "v">>),
     Ask4(<<"q", "-">>, <<"lookup">>, <<"j">>, <<>>),
     Ask4(<<>>, <<"f", "delete">>, <<"k">>, <<>>)}

MCReplies == {<<"ok">>, [i \in 1..14 |-> "x"]}

\* Keys at two places: below all machines, and between them.
MCHashOf(key) == IF key # <<>> /\ key[1] = "k" THEN 0 ELSE 2
================================================================================
