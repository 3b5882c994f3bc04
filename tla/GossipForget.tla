------------------------------ MODULE GossipForget ------------------------------
(* How long the others remember a machine that is gone.  Gossip can bring a dead *)
(* member back: a machine that has already dropped it hears of it from one that  *)
(* has not.  A suspected entry stays for TTC seconds and is never taken over     *)
(* into another list, and that is what makes this come to an end.                *)
(*                                                                               *)
(* Gossip from its beginning, or from the moment in which one machine crashed     *)
(* right after the master heard from it, with a clock that runs since.           *)
EXTENDS Gossip

CONSTANTS Dead,           \* the machine that has crashed
          ForgetBound     \* seconds after which nobody may list it any more

ASSUME ForgetAssumption ==
    /\ Dead \in Node \ {Master} /\ ForgetBound \in Nat
    /\ \A n \in Node : MaxInc[n] > 0

Never == -1

VARIABLE since            \* seconds since the crash, up to ForgetBound + 1

forgetVars == <<vars, since>>

First(n) == <<n, 1>>

\* Every survivor has had one heartbeat that all of them know of.  The one
\* heartbeat of the dead machine reached the master, which may have passed it on.
InitForget ==
    /\ up = [n \in Node |-> n # Dead]
    /\ inc = [n \in Node |-> 1]
    /\ \E knowing \in SUBSET (Node \ {Dead}) :
        /\ Master \in knowing
        /\ list = [n \in Node |->
                     [id \in {First(x) : x \in IF n = Dead THEN {}
                                               ELSE IF n \in knowing THEN Node
                                               ELSE Node \ {Dead}} |-> NewEntry(1)]]
    /\ pending = [n \in Node |-> {}]
    /\ pc = [n \in Node |-> "sleep"]
    /\ slept = [n \in Node |-> 0]
    /\ leave = [n \in Node |-> FALSE]
    /\ leaveAge = [n \in Node |-> 0]
    /\ net = {}
    /\ beats = [id \in Id |-> IF id[2] = 1 THEN 1 ELSE 0]
    /\ since = 0

NextForget ==
    \/ /\ Tick
       /\ since' = IF since <= ForgetBound THEN since + 1 ELSE since
    \/ /\ \E n \in Node : TimerThread(n) \/ Receive(n)
       /\ UNCHANGED since
    \/ Lose /\ UNCHANGED since

SpecForget == InitForget /\ [][NextForget]_forgetVars

\* Once ForgetBound seconds have passed since the crash the dead machine is in no
\* list, suspected or not, whatever was lost and whoever gossiped with whom in the
\* meantime.  That needs datagrams which come in time, and few survivors for the
\* time that a silence is borne: each of them may hand on what it heard late.
DeadIsForgotten ==
    since > ForgetBound => \A n \in Node : First(Dead) \notin DOMAIN list[n]
================================================================================
