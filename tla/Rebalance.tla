------------------------------- MODULE Rebalance --------------------------------
(* The key-value stores of all machines while the ring changes.  Every machine   *)
(* notices joins and failures in its own time; its Coordinator queues what there *)
(* is to do, and its timer thread works through the queue and moves keys with    *)
(* commands over TCP, whose answers it ignores.                                  *)
(*                                                                               *)
(* The stores hold one key, of any hash: the handlers treat keys one by one, and *)
(* what other keys cost is time, which a step may take anyway.  A machine is     *)
(* named by its hash.  Members change when the last change has been dealt with,  *)
(* except for failures that come together; a member which was dropped is not     *)
(* heard of again (Gossip.tla says when that holds).                             *)
EXTENDS Ring, KeyValueStore

CONSTANTS Machine,        \* the hashes of all machines there may be
          IP, IPOf,       \* their addresses
          Scenario,       \* the rings the system may start with, each with bounds
                          \* on the machines that join and on those that fail
          k,              \* the key
          Together        \* is a second failure only looked at when it comes
                          \* before anybody has dropped the first machine?

ASSUME RebalanceAssumption ==
    /\ Machine \subseteq Hash
    /\ \A s \in Scenario : /\ s.start \subseteq Machine /\ s.start # {}
                          /\ s.joins \in Nat /\ s.failures \in Nat
    /\ NoIP \notin IP /\ IPOf \in [Machine -> IP]
    /\ \A a, b \in Machine : IPOf[a] = IPOf[b] => a = b
    /\ Key = {k} /\ NoValue \notin Value
    /\ Together \in BOOLEAN

VARIABLES keyHash,        \* Hash::calculateKeyHash(k), fixed
          scenario,       \* fixed
          up,             \* the machines that run
          map,            \* keyToIPMap of each machine
          queue,          \* Coordinator::messages of each machine
          job,            \* what its timer thread is doing
          stores,         \* its key-value store
          current,        \* what clients have last stored under k, if anything
          joins,          \* how many machines have joined
          failures,       \* how many have failed
          recent          \* failures since the system was last settled

membership == <<joins, failures, recent>>
fixed == <<keyHash, scenario>>
vars == <<fixed, up, map, queue, job, stores, current, membership>>

At(ip)     == CHOOSE m \in Machine : IPOf[m] = ip
View(ring) == [h \in ring |-> IPOf[h]]

Holds(m) == k \in DOMAIN stores[m]
Owns(m)  == Holds(m) /\ stores[m][k].owner

\* getIPofFirstReplica, getIPofSecondReplica on the ring of m
FirstReplica(m)  == HashAtDistance(DOMAIN map[m], m, 1)
SecondReplica(m) == HashAtDistance(DOMAIN map[m], m, 2)

\* isReplicatedKeysDeletingRequiredForJoin
DeletingRequired(m) == Cardinality(DOMAIN map[m]) > 3

\* The timer thread is between two ticks or in processList; it drains the queue,
\* between two messages; or it works on a message: the commands it still has to
\* send to a machine, and those it has prepared for its second replica.
Idle     == [at |-> "idle"]
Draining == [at |-> "draining"]

Working(msg, to, todo, later) ==
    [at |-> "working", message |-> msg, to |-> to, todo |-> todo, later |-> later]

Busy(m) == job[m].at = "working"

\* Everybody knows who is there, and nothing is left to do.
Settled == \A m \in up : DOMAIN map[m] = up /\ queue[m] = <<>> /\ job[m] = Idle

Owner == OwnerHash(up, keyHash)

\* The stores as they should be in a settled system.
Placed(ring, value) ==
    [m \in Machine |->
        IF value # NoValue /\ m \in ring /\ m \in Copies(ring, keyHash)
        THEN Put(EmptyStore, k, MakeItem(value, m = OwnerHash(ring, keyHash)))
        ELSE EmptyStore]

Init ==
    /\ keyHash \in Hash
    /\ scenario \in Scenario
    /\ up = scenario.start
    /\ map = [m \in Machine |-> IF m \in up THEN View(up) ELSE View({})]
    /\ queue = [m \in Machine |-> <<>>]
    /\ job = [m \in Machine |-> Idle]
    /\ current \in Value
    /\ stores = Placed(up, current)
    /\ joins = 0 /\ failures = 0 /\ recent = 0

--------------------------------------------------------------------------------
(* Members come and go                                                          *)

\* A machine starts alone, with an empty store.  Its hash is a new one.
Join(m) ==
    /\ Settled
    /\ joins < scenario.joins
    /\ m \in Machine \ up
    /\ map[m] = View({})
    /\ up' = up \cup {m}
    /\ map' = [map EXCEPT ![m] = View({m})]
    /\ joins' = joins + 1
    /\ recent' = 0
    /\ UNCHANGED <<fixed, current, queue, job, stores, failures>>

\* A machine is lost with its store.  Somebody is left.
Fail(m) ==
    /\ m \in up
    /\ up # {m}
    /\ failures < scenario.failures
    /\ \/ Settled /\ recent' = 1
       \/ /\ recent = 1 /\ recent' = 2
          /\ Together => \A x \in up : DOMAIN map[x] # up
    /\ up' = up \ {m}
    /\ stores' = [stores EXCEPT ![m] = EmptyStore]
    /\ queue' = [queue EXCEPT ![m] = <<>>]
    /\ job' = [job EXCEPT ![m] = Idle]
    /\ failures' = failures + 1
    /\ UNCHANGED <<fixed, current, map, joins>>

\* addToList: a receiver thread of m hears of a new member, whatever the timer
\* thread is doing.
AddToList(m, new) ==
    /\ m \in up
    /\ new \in up \ DOMAIN map[m]
    /\ map' = [map EXCEPT ![m] = View(DOMAIN @ \cup {new})]
    /\ queue' = [queue EXCEPT ![m] = @ \o JoinMessages(DOMAIN map'[m], m, new)]
    /\ UNCHANGED <<fixed, current, up, job, stores, membership>>

\* removeFromList: m drops a member that has failed.  It is called by processList,
\* on the timer thread, before that turns to the messages.
RemoveFromList(m, lost) ==
    /\ m \in up
    /\ job[m] = Idle
    /\ lost \in DOMAIN map[m] \ up
    /\ map' = [map EXCEPT ![m] = View(DOMAIN @ \ {lost})]
    /\ queue' = [queue EXCEPT ![m] = @ \o FailureMessages(map[m], m, lost)]
    /\ UNCHANGED <<fixed, current, up, job, stores, membership>>

--------------------------------------------------------------------------------
(* Commands                                                                     *)

Send(op, value) == [op |-> op, value |-> value]

\* What gives a replica the key as m has it (getCommandsToReplicateOwnedKeys, and
\* the end of getCommandsToReplicateNewOwnedKeysAtFailOrLeave).
Replicate(m) == <<Send("fdelete", NoValue), Send("finsert", stores[m][k].value)>>

\* Mutant: the commands are built after the keys have been deleted.
TransferAfterDeletion(m) == <<Send("replicate", NoValue), Send("insert", NoValue)>>

\* Mutant: the new member passes the insert on and does not execute it.
TransferUnexecuted(m) == <<Send("replicate", stores[m][k].value)>>

\* The insert that gives the new member the key.  It is no forced command: the new
\* member first passes it on to the replicas it knows of (sendForceOperations) and
\* then executes it (performOperationLocally), and that makes two steps.
Transfer(m) ==
    <<Send("replicate", stores[m][k].value), Send("insert", stores[m][k].value)>>

\* The forced deletes for the second replica.  A range that wraps is cut in two,
\* and those of the lower part are overwritten by those of the upper.
DeleteCommands(start, end) ==
    IF start > end /\ keyHash < end THEN <<>> ELSE <<Send("fdelete", NoValue)>>

\* The stores after a machine which runs has executed a command.
Executed(to, c) ==
    LET insert(store, owned) == Insert(store, k, c.value, owned).store
    IN  CASE c.op = "fdelete"   -> [stores EXCEPT ![to] = Delete(@, k).store]
          [] c.op = "finsert"   -> [stores EXCEPT ![to] = insert(@, FALSE)]
          [] c.op = "insert"    -> [stores EXCEPT ![to] = insert(@, TRUE)]
          [] c.op = "replicate" ->
                [m \in Machine |->
                    IF m \in up /\ IsReplica(DOMAIN map[to], to, m)
                    THEN insert(stores[m], FALSE) ELSE stores[m]]

--------------------------------------------------------------------------------
(* The timer thread works on one message at a time.                             *)

\* popMessage, and the choice of the handler
Pop(m, reason, role) ==
    /\ m \in up
    /\ ~Busy(m)
    /\ queue[m] # <<>>
    /\ Head(queue[m]).reason = reason
    /\ Head(queue[m]).role = role
    /\ queue' = [queue EXCEPT ![m] = Tail(@)]
    /\ UNCHANGED <<fixed, current, up, map, membership>>

\* handleJoinEventAsPredecessor
JoinEventAsPredecessor(m) ==
    /\ Pop(m, "join", "predecessor")
    /\ LET msg == Head(queue[m])
       IN  job' = [job EXCEPT ![m] =
                     Working(msg, msg.newMember, IF Owns(m) THEN Replicate(m) ELSE <<>>, <<>>)]
    /\ UNCHANGED stores

\* Mutant: the range ends at this machine and not at the new member.
MovesToSelf(m, msg) == Owns(m) /\ InRange(keyHash, msg.ownedStart, m)

\* getCommandsToTransferOwnedKeysAtJoin selects an owned key of the range.
Moves(m, msg) == Owns(m) /\ InRange(keyHash, msg.ownedStart, msg.newMember)

\* handleJoinEventAsSuccessor up to the sends.  The key has left the store before
\* the first command is sent.
JoinEventAsSuccessor(m) ==
    /\ Pop(m, "join", "successor")
    /\ LET msg == Head(queue[m])
       IN  IF Moves(m, msg)
           THEN /\ job' = [job EXCEPT ![m] =
                     Working(msg, msg.newMember, Transfer(m),
                             DeleteCommands(msg.ownedStart, msg.newMember))]
                /\ stores' = [stores EXCEPT ![m] = Delete(@, k).store]
           ELSE /\ job' = [job EXCEPT ![m] = Working(msg, msg.newMember, <<>>, <<>>)]
                /\ UNCHANGED stores

\* handleFailOrLeaveEventAsPredecessor
FailureEventAsPredecessor(m) ==
    /\ Pop(m, "failure", "predecessor")
    /\ LET msg  == Head(queue[m])
           some == msg.newSecondReplica # NoIP
       IN  job' = [job EXCEPT ![m] =
                     Working(msg, IF some THEN At(msg.newSecondReplica) ELSE NoHash,
                             IF some /\ Owns(m) THEN Replicate(m) ELSE <<>>, <<>>)]
    /\ UNCHANGED stores

\* Mutant: any replica is owned from now on.
TakesOverAll(m, msg) == Holds(m) /\ ~Owns(m)

\* getCommandsToReplicateNewOwnedKeysAtFailOrLeave selects a replica of the range.
TakesOver(m, msg) ==
    Holds(m) /\ ~Owns(m) /\ InRange(keyHash, msg.ownedStart, msg.failedMember)

\* changeKeyToOwned
ChangedToOwned(m) == [stores EXCEPT ![m][k].owner = TRUE]

\* handleFailOrLeaveEventAsSuccessor up to the sends
FailureEventAsSuccessor(m) ==
    /\ Pop(m, "failure", "successor")
    /\ LET msg   == Head(queue[m])
           first == FirstReplica(m)
       IN  IF TakesOver(m, msg)
           THEN /\ stores' = ChangedToOwned(m)
                /\ job' = [job EXCEPT ![m] =
                     Working(msg, first, IF first = NoHash THEN <<>> ELSE Replicate(m),
                             Replicate(m))]
           ELSE /\ job' = [job EXCEPT ![m] = Working(msg, first, <<>>, <<>>)]
                /\ UNCHANGED stores

\* tcpConnectSocket, its answer ignored: nothing happens if the machine is gone.
SendCommand(m) ==
    /\ m \in up
    /\ Busy(m) /\ job[m].todo # <<>>
    /\ stores' = IF job[m].to \in up THEN Executed(job[m].to, Head(job[m].todo)) ELSE stores
    /\ job' = [job EXCEPT ![m].todo = Tail(@)]
    /\ UNCHANGED <<fixed, current, up, map, queue, membership>>

\* The second half of the two handlers for a successor: the machine that is the
\* second replica by now gets what was prepared for it.
ContactSecondReplica(m) ==
    LET second   == SecondReplica(m)
        required == job[m].message.reason = "join" => DeletingRequired(m)
    IN  /\ m \in up
        /\ Busy(m) /\ job[m].todo = <<>> /\ job[m].later # <<>>
        /\ job' = [job EXCEPT ![m].to = second, ![m].later = <<>>,
                     ![m].todo = IF required /\ second # NoHash THEN job[m].later ELSE <<>>]
        /\ UNCHANGED <<fixed, current, up, map, queue, stores, membership>>

\* deleteReplicatedKeys
Dropped(m, msg) ==
    IF Holds(m) /\ ~Owns(m) /\ InRange(keyHash, msg.deleteStart, msg.deleteEnd)
    THEN Delete(stores[m], k).store ELSE stores[m]

\* The handler returns, that of a join for a successor after it has dropped the
\* replicas it need not keep; the thread goes on if there is another message.
Return(m) ==
    /\ m \in up
    /\ Busy(m) /\ job[m].todo = <<>> /\ job[m].later = <<>>
    /\ job' = [job EXCEPT ![m] = IF queue[m] = <<>> THEN Idle ELSE Draining]
    /\ LET msg == job[m].message
       IN  stores' = IF msg.reason = "join" /\ msg.role = "successor"
                     THEN [stores EXCEPT ![m] = Dropped(m, msg)] ELSE stores
    /\ UNCHANGED <<fixed, current, up, map, queue, membership>>

TimerThread(m) ==
    \/ JoinEventAsPredecessor(m) \/ JoinEventAsSuccessor(m)
    \/ FailureEventAsPredecessor(m) \/ FailureEventAsSuccessor(m)
    \/ SendCommand(m) \/ ContactSecondReplica(m) \/ Return(m)

--------------------------------------------------------------------------------
\* A client's command at level ALL while nothing else happens (Requests.tla says
\* what becomes of it otherwise): the owner executes it, and the replicas its
\* forced form.
ClientCommand(c) ==
    LET after(m) == Perform(stores[m], Command(c, m # Owner)).store
    IN  /\ Settled
        /\ stores' = [m \in Machine |-> IF m \in up /\ m \in Copies(up, keyHash)
                                        THEN after(m) ELSE stores[m]]
        /\ current' = Lookup(after(Owner), k).reply
        /\ UNCHANGED <<fixed, up, map, queue, job, membership>>

Next ==
    \/ \E m \in Machine : Join(m) \/ Fail(m) \/ TimerThread(m)
    \/ \E m, x \in Machine : AddToList(m, x) \/ RemoveFromList(m, x)
    \/ \E c \in Question : ClientCommand(c)

Spec == Init /\ [][Next]_vars

--------------------------------------------------------------------------------
(* Properties                                                                   *)

TodoOK(todo) ==
    \A i \in DOMAIN todo :
        IF todo[i].op = "fdelete" THEN todo[i].value = NoValue
        ELSE todo[i].op \in {"finsert", "insert", "replicate"} /\ todo[i].value \in Value

JobOK(j) ==
    \/ j \in {Idle, Draining}
    \/ /\ j.at = "working"
       /\ j.message \in Messages(IP)
       /\ j.to \in Machine \cup {NoHash}
       /\ j.todo # <<>> => j.to # NoHash
       /\ TodoOK(j.todo) /\ TodoOK(j.later)

\* The types of the variables: no command without the value it needs or without a
\* machine to go to (what the handlers of ConnectionHandler send), and nothing but
\* values in the stores.
TypeOK ==
    /\ keyHash \in Hash /\ scenario \in Scenario
    /\ up \subseteq Machine
    /\ \A m \in up : m \in DOMAIN map[m] /\ map[m] = View(DOMAIN map[m] \cap Machine)
    /\ \A m \in Machine : \A i \in DOMAIN queue[m] : queue[m][i] \in Messages(IP)
    /\ \A m \in Machine : JobOK(job[m])
    /\ \A m \in Machine : Holds(m) => DOMAIN stores[m] = {k} /\ stores[m][k] \in Item
    /\ current \in Value \cup {NoValue}

\* Two machines may fail at once, and when the others have dealt with it another
\* two: as long as nobody has joined, the key is back with its owner, marked as owned
\* only there, and on its two replicas, all with the value clients stored last, and
\* nowhere else (handleFailOrLeaveEventAsPredecessor and -AsSuccessor).
PlacedWhenSettled == Settled /\ joins = 0 => stores = Placed(up, current)

\* At every moment, also while machines replicate or hand over the key, somebody
\* who runs has what clients stored last, or is about to be given it
\* (getCommandsToTransferOwnedKeysAtJoin deletes before it sends).
CopySurvives ==
    current # NoValue =>
        \E m \in up :
            \/ Lookup(stores[m], k).reply = current
            \/ Busy(m) /\ Send("insert", current) \in {job[m].todo[i] : i \in DOMAIN job[m].todo}

\* Once machines have joined, the one clients are sent to has the key, with the
\* value they stored last, and no other considers itself the owner
\* (handleJoinEventAsSuccessor, getIPToSendToFromKeyHash).
OwnerServesWhenSettled ==
    Settled =>
        /\ Lookup(stores[Owner], k).reply = current
        /\ {m \in up : Owns(m)} = IF current = NoValue THEN {} ELSE {Owner}

\* The insert of a transfer reaches a machine that takes itself for the owner, so
\* that updateKeyValue executes it there and does not send it on.
TransfersReachOwner ==
    \A m \in up :
        Busy(m) /\ job[m].todo # <<>> /\ Head(job[m].todo).op \in {"replicate", "insert"} =>
            OwnerHash(DOMAIN map[job[m].to], keyHash) = job[m].to

\* "Tolerates upto 2 simultaneous failures" (src/README.md): the key does not
\* disappear with the second machine.
ToleratesTwoFailures ==
    failures <= 2 /\ current # NoValue => \E m \in up : Holds(m)
================================================================================
