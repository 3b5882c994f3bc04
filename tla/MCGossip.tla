-------------------------------- MODULE MCGossip --------------------------------
(* Gossip between the master, which may stop for good, and another machine, which *)
(* may stop and start again once; or between both after a third one has crashed,  *)
(* with datagrams that arrive at once or never.                                  *)
EXTENDS GossipForget

MCNode    == {"m", "b", "c"}
MCRunning == {"m", "b"}
MCLeavers == {"b"}
MCMaxInc  == [n \in MCNode |-> IF n = "b" THEN 2 ELSE 1]
MCMaxBeat == [n \in MCNode |-> 10]

\* Two machines, and a few heartbeats of each.
Few ==
    /\ ~up["c"]
    /\ beats[<<"m", 1>>] <= 4 /\ beats[<<"b", 1>>] <= 2 /\ beats[<<"b", 2>>] <= 1

\* Two turns of a timer thread a second are more than it takes.
Timely ==
    since # Never =>
        /\ \A id \in Id : beats[id] <= since + 3
        /\ \A d \in net : d.age = 0

MCSpec ==
    /\ (Init /\ since = Never) \/ InitForget
    /\ [][\/ since = Never /\ Next /\ Few' /\ UNCHANGED since
          \/ since # Never /\ NextForget]_forgetVars
================================================================================
