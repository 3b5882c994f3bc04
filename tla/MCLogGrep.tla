-------------------------------- MODULE MCLogGrep --------------------------------
(* LogGrep on three machines with logs of one or two lines, one of which has two   *)
(* separators.                                                                    *)
EXTENDS LogGrep, TLC

MCMachine == 1..3

Filter3(spec, text, anchored) == [spec |-> spec, text |-> text, anchored |-> anchored]

MCQuestion ==
    <<{<<Filter3("key", "NETWORK_ERROR", TRUE), Filter3("value", "Check", FALSE)>>},
      {<<Filter3("plain", "NETWORK_ERROR", FALSE), Filter3("value", "Check", TRUE)>>}>>

MCMaxLogged == <<0, 1, 0>>

MCEntry == <<{1}, {1, 2}>>

MCOldLog ==
    <<<<<<"NETWORK_ERROR", "Check", ":", "code">>, <<"Check", ":", "NETWORK_ERROR">>>>,
      <<<<"NETWORK_ERROR", ":", "Check">>>>,
      <<<<"NETWORK_ERROR", ":", "Check", ":", "NETWORK_ERROR">>,
        <<"Check", "NETWORK_ERROR", ":", "code", "Check">>>>>>
================================================================================
