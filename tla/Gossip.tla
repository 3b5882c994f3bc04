--------------------------------- MODULE Gossip ---------------------------------
(* Membership by gossip: machines that start, fail, restart and leave, each      *)
(* with a timer thread that sends its membership list to a few others, and       *)
(* threads that merge the lists that arrive.                                     *)
(*                                                                               *)
(* The timer thread runs ConnectionHandler::executeCb.  Up to its sends it is    *)
(* one step: the other threads only merge lists, which do not touch the          *)
(* machine's own entry, and a merge in between is one just before or just after. *)
(* Then it works through the Coordinator queue (pc "drain"), and that takes as   *)
(* long as moving the keys takes.  A merge holds the list's mutex from beginning *)
(* to end and is one step as well.                                               *)
EXTENDS MembershipList

CONSTANTS Node,           \* machines, named by their IP
          Master,         \* the machine at MASTER_IP, machine number 1
          MaxInc,         \* bound on the incarnations of each machine
          MaxBeat,        \* bound on the heartbeats of each machine's incarnations
          Leavers,        \* bound: the machines SIGTERM is sent to
          Crashers,       \* bound: the machines that may crash
          MaxNet,         \* bound on the datagrams in flight
          Interval,       \* a timer thread never sleeps longer, in seconds
          MaxDelay        \* a datagram that arrives at all is not older, in seconds

ASSUME GossipAssumption ==
    /\ Master \in Node
    /\ MaxInc \in [Node -> Nat] /\ MaxBeat \in [Node -> Nat] /\ MaxNet \in Nat
    /\ Leavers \subseteq Node /\ Crashers \subseteq Node
    /\ Interval \in Nat /\ MaxDelay \in Nat

\* A network id is "ip:start time".  Incarnations are numbered: two starts of one
\* machine within the same second are left out.
Id == UNION {{n} \X (1..MaxInc[n]) : n \in Node}

VARIABLES up,             \* is the process of the machine running?
          inc,            \* number of its last incarnation, 0 before the first
          list,           \* its MembershipList::memList
          pending,        \* ids whose join messages may wait in its Coordinator queue
                          \* (every new member; handleJoin pushes for some of them)
          pc,             \* where its timer thread is: "sleep" or "drain"
          slept,          \* seconds since its last callback began
          leave,          \* SIGTERM was received
          leaveAge,       \* seconds since leaveTimeStamp
          net,            \* datagrams in flight
          beats           \* how often each incarnation has called incrementHeartbeat

vars == <<up, inc, list, pending, pc, slept, leave, leaveAge, net, beats>>

Self(n) == <<n, inc[n]>>

EmptyList == [id \in {} |-> NewEntry(0)]

--------------------------------------------------------------------------------
Init ==
    /\ up = [n \in Node |-> FALSE]
    /\ inc = [n \in Node |-> 0]
    /\ list = [n \in Node |-> EmptyList]
    /\ pending = [n \in Node |-> {}]
    /\ pc = [n \in Node |-> "sleep"]
    /\ slept = [n \in Node |-> 0]
    /\ leave = [n \in Node |-> FALSE]
    /\ leaveAge = [n \in Node |-> 0]
    /\ net = {}
    /\ beats = [id \in Id |-> 0]

\* Main and the constructors: a new network id, a list that holds only itself.
Start(n) ==
    /\ ~up[n]
    /\ inc[n] < MaxInc[n]
    /\ up' = [up EXCEPT ![n] = TRUE]
    /\ inc' = [inc EXCEPT ![n] = @ + 1]
    /\ list' = [list EXCEPT ![n] = [id \in {<<n, inc[n] + 1>>} |-> NewEntry(0)]]
    /\ UNCHANGED <<pending, pc, slept, leave, leaveAge, net, beats>>

\* The process is gone, and all it knew with it.
Stop(n) ==
    /\ up' = [up EXCEPT ![n] = FALSE]
    /\ list' = [list EXCEPT ![n] = EmptyList]
    /\ pending' = [pending EXCEPT ![n] = {}]
    /\ pc' = [pc EXCEPT ![n] = "sleep"]
    /\ slept' = [slept EXCEPT ![n] = 0]
    /\ leave' = [leave EXCEPT ![n] = FALSE]
    /\ leaveAge' = [leaveAge EXCEPT ![n] = 0]

Crash(n) ==
    /\ up[n] /\ n \in Crashers
    /\ Stop(n)
    /\ UNCHANGED <<inc, net, beats>>

\* sendLeaveMsg, the handler of SIGTERM
Sigterm(n) ==
    /\ up[n] /\ n \in Leavers
    /\ leave' = [leave EXCEPT ![n] = TRUE]
    /\ leaveAge' = [leaveAge EXCEPT ![n] = 0]
    /\ UNCHANGED <<up, inc, list, pending, pc, slept, net, beats>>

--------------------------------------------------------------------------------
(* The timer thread                                                             *)

\* The list after executeCb and sendMemberList have worked on it.  A master with
\* nobody to send to fails to read its backup file, and the error code that is
\* left over makes requestRetirement give up.
CallbackList(n) ==
    LET lone == n = Master /\ Eligible(list[n], Self(n)) = {}
        l1   == IF leave[n] /\ ~lone THEN RequestRetirement(list[n], Self(n))
                                     ELSE list[n]
        l2   == IncrementHeartbeat(l1, Self(n))
    IN  IF leave[n] THEN l2 ELSE ProcessList(l2)

\* The IPs getListOfMachinesToSendTo may return: with nobody eligible a machine
\* turns to the master; the master's own backup file is never there to be read
\* (MasterBackup.tla).
Destinations(n) ==
    IF Eligible(list[n], Self(n)) = {}
    THEN {IF n = Master THEN {} ELSE {Master}}
    ELSE {{id[1] : id \in s} : s \in Chosen(list[n], Self(n))}

\* executeCb up to the sends: choose targets, retire if asked to, beat, look for
\* silent members, serialize the list and send a datagram to each target.  The
\* datagrams the network loses are left out of net here.
Callback(n) ==
    /\ up[n] /\ pc[n] = "sleep"
    /\ beats[Self(n)] < MaxBeat[n]
    /\ ~(leave[n] /\ leaveAge[n] > TTC)
    /\ list' = [list EXCEPT ![n] = CallbackList(n)]
    /\ \E ips \in Destinations(n) : \E arriving \in SUBSET ips :
          net' = net \cup {[to |-> ip, list |-> AsRemote(list'[n]), age |-> 0] : ip \in arriving}
    /\ Cardinality(net') <= MaxNet
    /\ beats' = [beats EXCEPT ![Self(n)] = @ + 1]
    /\ slept' = [slept EXCEPT ![n] = 0]
    /\ pc' = [pc EXCEPT ![n] = "drain"]
    /\ UNCHANGED <<up, inc, pending, leave, leaveAge>>

\* executeCb when it is time to go: handleLeaveEvent, exit(0) before the sends.
\* What it did to its own list dies with it.
Retire(n) ==
    /\ up[n] /\ pc[n] = "sleep"
    /\ leave[n] /\ leaveAge[n] > TTC
    /\ Stop(n)
    /\ UNCHANGED <<inc, net, beats>>

\* One popMessage and its handler.  Which work the message asks for is in
\* RingView.tla; here it matters that a join message is looked up in the map.
HandleJoin(n) ==
    /\ up[n] /\ pc[n] = "drain"
    /\ \E id \in pending[n] :
          pending' = [pending EXCEPT ![n] = @ \ {id}]
    /\ UNCHANGED <<up, inc, list, pc, slept, leave, leaveAge, net, beats>>

\* hasMessage is false: back to Timer::addTask, which sleeps.
Sleep(n) ==
    /\ up[n] /\ pc[n] = "drain"
    /\ pending[n] = {}
    /\ pc' = [pc EXCEPT ![n] = "sleep"]
    /\ UNCHANGED <<up, inc, list, pending, slept, leave, leaveAge, net, beats>>

--------------------------------------------------------------------------------
(* Datagrams                                                                    *)

\* UDPSocketHandler and the thread it starts for the datagram, which merges it.
\* Each datagram has its own thread, so they are merged in any order; the network
\* may deliver one again.
Receive(n) ==
    /\ up[n]
    /\ \E d \in net :
        /\ d.to = n
        /\ list' = [list EXCEPT ![n] = MergeList(@, d.list)]
        /\ pending' = [pending EXCEPT ![n] = @ \cup Joining(list[n], d.list)]
        /\ net' \in {net, net \ {d}}
    /\ UNCHANGED <<up, inc, pc, slept, leave, leaveAge, beats>>

\* A datagram for a machine that no longer runs goes nowhere.  (The others that are
\* lost never entered net.)
Lose ==
    /\ \E d \in net : ~up[d.to] /\ net' = net \ {d}
    /\ UNCHANGED <<up, inc, list, pending, pc, slept, leave, leaveAge, beats>>

--------------------------------------------------------------------------------
\* A second passes.  No timer thread oversleeps and no datagram is overdue.
Tick ==
    /\ \A n \in Node : up[n] => slept[n] < Interval
    /\ \A d \in net : d.age < MaxDelay
    /\ list' = [n \in Node |-> [id \in DOMAIN list[n] |-> Aged(list[n][id])]]
    /\ net' = {[d EXCEPT !.age = @ + 1] : d \in net}
    /\ slept' = [n \in Node |-> IF up[n] THEN slept[n] + 1 ELSE 0]
    /\ leaveAge' = [n \in Node |-> IF leave[n] /\ leaveAge[n] <= TTC
                               THEN leaveAge[n] + 1 ELSE leaveAge[n]]
    /\ UNCHANGED <<up, inc, pending, pc, leave, beats>>

TimerThread(n) == Callback(n) \/ Retire(n) \/ HandleJoin(n) \/ Sleep(n)

Next ==
    \/ \E n \in Node : Start(n) \/ Crash(n) \/ Sigterm(n) \/ TimerThread(n) \/ Receive(n)
    \/ Lose
    \/ Tick

Spec == Init /\ [][Next]_vars

--------------------------------------------------------------------------------
(* Properties                                                                   *)

ListOK(l) == DOMAIN l \subseteq Id /\ \A id \in DOMAIN l : l[id] \in Entry

DatagramOK(d) ==
    /\ d = [to |-> d.to, list |-> d.list, age |-> d.age]
    /\ d.to \in Node
    /\ d.age \in 0..MaxDelay
    /\ DOMAIN d.list \subseteq Id
    /\ \A id \in DOMAIN d.list : d.list[id] \in Remote

TypeOK ==
    /\ up \in [Node -> BOOLEAN]
    /\ inc \in [Node -> Nat] /\ \A n \in Node : inc[n] <= MaxInc[n]
    /\ DOMAIN list = Node /\ \A n \in Node : ListOK(list[n])
    /\ pending \in [Node -> SUBSET Id]
    /\ pc \in [Node -> {"sleep", "drain"}]
    /\ slept \in [Node -> Nat]
    /\ leave \in [Node -> BOOLEAN]
    /\ leaveAge \in [Node -> 0..TTC+1]
    /\ \A d \in net : DatagramOK(d)
    /\ beats \in [Id -> Nat]
    /\ \A n \in Node : up[n] => inc[n] > 0

\* Nobody ever attributes to a member more heartbeats than it has had: not in a
\* list and not in a datagram, however old, repeated or out of order, across
\* restarts of the machine.  It is what keeps incoming lists off a machine's own
\* entry: mergeEntries would take over "leaving" for it.
HeartbeatNeverAhead ==
    /\ \A n \in Node : \A id \in DOMAIN list[n] : list[n][id].beat <= beats[id]
    /\ \A d \in net : \A id \in DOMAIN d.list : d.list[id].beat <= beats[id]

\* A running machine is on its own list with its own count, it never suspects
\* itself, and it is marked as leaving only if it was asked to leave.  Otherwise
\* incrementHeartbeat ends in SELF_ENTRY_NOT_FOUND and the walk round the ring in
\* getMachineAtDistance starts from the end iterator.
SelfPresent ==
    \A n \in Node : up[n] =>
        /\ Self(n) \in DOMAIN list[n]
        /\ list[n][Self(n)].beat = beats[Self(n)]
        /\ ~list[n][Self(n)].failed
        /\ list[n][Self(n)].leaving => leave[n]

\* While the timer thread works through the Coordinator queue, every new member a
\* join message names is still in the map: handleJoinEventAsSuccessor and
\* ...AsPredecessor use getIPFromHash, which does not check.  It takes two turns
\* of the timer thread to lose a member, provided no turn is over TTC seconds late.
JoinsResolvable ==
    \A n \in Node : pc[n] = "drain" => pending[n] \subseteq DOMAIN list[n]

\* A member is dropped only after TTF + TTC seconds without a higher heartbeat, or
\* TTC seconds after its wish to leave became known: no merge, suspicion or
\* restart in between may cut that short (processEntry, mergeEntries).
RemovedOnlyWhenDue ==
    \A n \in Node : up[n] /\ up'[n] =>
        \A id \in DOMAIN list[n] \ DOMAIN list'[n] :
            LET e == list[n][id]
            IN  \/ e.leaving /\ e.age > TTC
                \/ e.failed /\ e.age > TTF + TTC

RemovedOnlyWhenDueSteps == [][RemovedOnlyWhenDue]_vars
================================================================================
