-------------------------------- MODULE Requests --------------------------------
(* Client requests at the machine that owns their keys, and the replication of   *)
(* each of them to the next two machines on the ring.                            *)
(*                                                                               *)
(* Every request has a server thread (ConnectionHandler::updateKeyValue), which   *)
(* starts one thread for each replica (sendForceCommand), waits for as many of    *)
(* their answers as the consistency level asks for (sendForceOperations), and     *)
(* only then executes the command on the owner's own store.  All of these         *)
(* threads run at once.  The ring does not change; replicas may crash.            *)
EXTENDS KeyValueStore, FiniteSets

CONSTANTS Request,        \* requests, each made at most once
          Level,          \* consistency levels in use, out of "ONE", "QUORUM", "ALL"
          Replicas,       \* how many replicas the ring has room for: 0, 1 or 2
          MaxOpen,        \* bound on the requests served at once
          MaxCrashes      \* bound on the crashes of replicas

ASSUME RequestsAssumption ==
    /\ Level \subseteq {"ONE", "QUORUM", "ALL"}
    /\ Replicas \in 0..2
    /\ MaxOpen \in Nat /\ MaxCrashes \in Nat

Owner   == 0                   \* machines by their distance from the owner
Replica == 1..Replicas
Machine == {Owner} \cup Replica

VARIABLES stores,         \* the key-value store of each machine
          alive,          \* the replicas that have not crashed
          pc,             \* where the server thread of a request is
          command,        \* the command it parsed
          level,          \* and its consistency level
          thread,         \* where the thread for each replica is
          said,           \* what the replica answered to that thread
          result,         \* ReplicationDetails::result, "" until it is set
          replicaMsg,     \* what sendForceOperations returned ...
          consistent,     \* ... and its *consistentReplicas
          answer          \* what the client is sent

vars == <<stores, alive, pc, command, level, thread, said, result, replicaMsg,
          consistent, answer>>

Disagree  == "Agreement Failure"
NoConnect == "Failed to Connect"
NoReceive == "Failed to receive reply"
NoResult  == ""
NoCommand == [op |-> "none"]
NoLevel   == "none"

Reply == {Succeeded, Failed, NoValue} \cup Value

Init ==
    /\ stores = [m \in Machine |-> EmptyStore]
    /\ alive = Replica
    /\ pc = [r \in Request |-> "unborn"]
    /\ command = [r \in Request |-> NoCommand]
    /\ level = [r \in Request |-> NoLevel]
    /\ thread = [r \in Request |-> [i \in Replica |-> "none"]]
    /\ said = [r \in Request |-> [i \in Replica |-> NoResult]]
    /\ result = [r \in Request |-> [i \in Replica |-> NoResult]]
    /\ replicaMsg = [r \in Request |-> NoResult]
    /\ consistent = [r \in Request |-> TRUE]
    /\ answer = [r \in Request |-> NoValue]

Open == {r \in Request : pc[r] \notin {"unborn", "answered"}}

--------------------------------------------------------------------------------
(* The server thread of a request                                               *)

\* updateKeyValue up to the call of sendForceOperations, which starts a thread
\* for each replica of the ring.
Ask(r) ==
    /\ pc[r] = "unborn"
    /\ Cardinality(Open) < MaxOpen
    /\ \E c \in Question, l \in Level :
          /\ command' = [command EXCEPT ![r] = c]
          /\ level' = [level EXCEPT ![r] = l]
    /\ pc' = [pc EXCEPT ![r] = "collect"]
    /\ thread' = [thread EXCEPT ![r] = [i \in Replica |-> "connect"]]
    /\ UNCHANGED <<stores, alive, said, result, replicaMsg, consistent, answer>>

\* Mutant: the owner leaves the execution to its replicas.
CollectedByReplicas(r, msg, same) ==
    /\ pc' = [pc EXCEPT ![r] = "executed"]
    /\ answer' = [answer EXCEPT ![r] = msg]
    /\ UNCHANGED <<stores, alive, command, level, thread, said, result, replicaMsg, consistent>>

\* sendForceOperations returns.
Collected(r, msg, same) ==
    /\ pc' = [pc EXCEPT ![r] = "perform"]
    /\ replicaMsg' = [replicaMsg EXCEPT ![r] = msg]
    /\ consistent' = [consistent EXCEPT ![r] = same]
    /\ UNCHANGED <<stores, alive, command, level, thread, said, result, answer>>

\* Level ONE waits for nobody; neither does QUORUM when there is no replica.
CollectNone(r) ==
    /\ pc[r] = "collect"
    /\ \/ level[r] = "ONE"
       \/ level[r] = "QUORUM" /\ Replica = {}
    /\ Collected(r, NoResult, TRUE)

\* Mutant: the two results are not compared.
CollectAllUncompared(r) ==
    /\ pc[r] = "collect"
    /\ level[r] = "ALL"
    /\ \A i \in Replica : thread[r][i] = "finished"
    /\ Collected(r, IF Replica = {} THEN NoResult ELSE result[r][1], TRUE)

\* Mutant: it goes on only with an answer from every replica.
CollectAllReplies(r) ==
    /\ pc[r] = "collect"
    /\ level[r] = "ALL"
    /\ \A i \in Replica : thread[r][i] = "finished" /\ result[r][i] \notin {NoConnect, NoReceive}
    /\ Collected(r, IF Replica = {} THEN NoResult ELSE result[r][1],
                    Replicas = 2 => result[r][1] = result[r][2])

\* Level ALL joins every thread and compares the two results if there are two.
CollectAll(r) ==
    /\ pc[r] = "collect"
    /\ level[r] = "ALL"
    /\ \A i \in Replica : thread[r][i] = "finished"
    /\ Collected(r, IF Replica = {} THEN NoResult ELSE result[r][1],
                    Replicas = 2 => result[r][1] = result[r][2])

\* Level QUORUM takes the mutex and waits on the condition, without looking at
\* what is there already.
BeginWait(r) ==
    /\ pc[r] = "collect"
    /\ level[r] = "QUORUM"
    /\ Replica # {}
    /\ pc' = [pc EXCEPT ![r] = "waiting"]
    /\ UNCHANGED <<stores, alive, command, level, thread, said, result, replicaMsg,
                   consistent, answer>>

\* pthread_cond_wait may return without a signal.
SpuriousWakeup(r) ==
    /\ pc[r] = "waiting"
    /\ pc' = [pc EXCEPT ![r] = "woken"]
    /\ UNCHANGED <<stores, alive, command, level, thread, said, result, replicaMsg,
                   consistent, answer>>

\* The woken thread takes the last result that is not "".
CollectQuorum(r) ==
    /\ pc[r] = "woken"
    /\ LET there == {i \in Replica : result[r][i] # NoResult}
       IN  Collected(r, IF there = {} THEN NoResult
                        ELSE IF 2 \in there THEN result[r][2] ELSE result[r][1],
                     TRUE)

\* Mutant: the reply is compared at level ALL only.
DisagreesAtAll(r, reply) ==
    /\ level[r] = "ALL"
    /\ reply # Failed
    /\ Replica # {}
    /\ ~consistent[r] \/ reply # replicaMsg[r]

\* updateKeyValue replaces the reply if the copies were not seen to agree on it.
Disagrees(r, reply) ==
    /\ level[r] # "ONE"
    /\ reply # Failed
    /\ Replica # {}
    /\ ~consistent[r] \/ reply # replicaMsg[r]

\* performOperationLocally on the owner's store, then the check for agreement.
\* The two locals are of no use afterwards.
Execute(r) ==
    /\ pc[r] = "perform"
    /\ LET did == Perform(stores[Owner], Command(command[r], FALSE))
       IN  /\ stores' = [stores EXCEPT ![Owner] = did.store]
           /\ answer' = [answer EXCEPT ![r] =
                           IF Disagrees(r, did.reply) THEN Disagree ELSE did.reply]
    /\ pc' = [pc EXCEPT ![r] = "executed"]
    /\ replicaMsg' = [replicaMsg EXCEPT ![r] = NoResult]
    /\ consistent' = [consistent EXCEPT ![r] = TRUE]
    /\ UNCHANGED <<alive, command, level, thread, said, result>>

\* sendData to the client
Answer(r) ==
    /\ pc[r] = "executed"
    /\ pc' = [pc EXCEPT ![r] = "answered"]
    /\ UNCHANGED <<stores, alive, command, level, thread, said, result, replicaMsg,
                   consistent, answer>>

--------------------------------------------------------------------------------
(* The thread which sends the command to replica i                              *)

\* tcpConnectSocket: a replica that runs executes the force command.
Connect(r, i) ==
    /\ thread[r][i] = "connect"
    /\ thread' = [thread EXCEPT ![r][i] = "receive"]
    /\ IF i \in alive
       THEN LET did == Perform(stores[i], Command(command[r], TRUE))
            IN  /\ stores' = [stores EXCEPT ![i] = did.store]
                /\ said' = [said EXCEPT ![r][i] = did.reply]
       ELSE /\ said' = [said EXCEPT ![r][i] = NoConnect]
            /\ UNCHANGED stores
    /\ UNCHANGED <<alive, pc, command, level, result, replicaMsg, consistent, answer>>

\* The answer arrives, or is lost with the replica: rcvData reports that, or reads
\* an uninitialized length and returns nothing.  What there is is stored and the
\* server thread is signalled, which does nothing unless it is waiting.
Finish(r, i) ==
    /\ thread[r][i] = "receive"
    /\ thread' = [thread EXCEPT ![r][i] = "finished"]
    /\ \E reply \in {said[r][i]} \cup (IF i \in alive THEN {} ELSE {NoReceive, NoResult}) :
          result' = [result EXCEPT ![r][i] = reply]
    /\ pc' = IF pc[r] = "waiting" THEN [pc EXCEPT ![r] = "woken"] ELSE pc
    /\ UNCHANGED <<stores, alive, command, level, said, replicaMsg, consistent, answer>>

\* A replica is gone with all its keys.  The ring takes seconds to notice.
Crash(i) ==
    /\ i \in alive
    /\ Cardinality(Replica \ alive) < MaxCrashes
    /\ alive' = alive \ {i}
    /\ stores' = [stores EXCEPT ![i] = EmptyStore]
    /\ UNCHANGED <<pc, command, level, thread, said, result, replicaMsg, consistent, answer>>

--------------------------------------------------------------------------------
ServerThread(r) ==
    \/ CollectNone(r) \/ CollectAll(r) \/ BeginWait(r) \/ CollectQuorum(r)
    \/ Execute(r) \/ Answer(r)

ReplicaThread(r, i) == Connect(r, i) \/ Finish(r, i)

Next ==
    \/ \E r \in Request : Ask(r) \/ ServerThread(r) \/ SpuriousWakeup(r)
    \/ \E r \in Request, i \in Replica : ReplicaThread(r, i)
    \/ \E i \in Replica : Crash(i)

Spec == Init /\ [][Next]_vars

\* Threads run: each of them takes its next step if it can.  Nothing makes a
\* client ask, a replica crash or pthread_cond_wait return on its own.
Fairness ==
    /\ \A r \in Request : WF_vars(ServerThread(r))
    /\ \A r \in Request, i \in Replica : WF_vars(ReplicaThread(r, i))

FairSpec == Spec /\ Fairness

--------------------------------------------------------------------------------
(* Properties                                                                   *)

IsStore(s) == DOMAIN s \subseteq Key /\ \A k \in DOMAIN s : s[k] \in Item

TypeOK ==
    /\ DOMAIN stores = Machine /\ \A m \in Machine : IsStore(stores[m])
    /\ alive \subseteq Replica
    /\ pc \in [Request -> {"unborn", "collect", "waiting", "woken", "perform",
                           "executed", "answered"}]
    /\ DOMAIN command = Request /\ DOMAIN level = Request
    /\ \A r \in Request : pc[r] # "unborn" => command[r] \in Question /\ level[r] \in Level
    /\ thread \in [Request -> [Replica -> {"none", "connect", "receive", "finished"}]]
    /\ said \in [Request -> [Replica -> Reply \cup {NoResult, NoConnect}]]
    /\ result \in [Request -> [Replica -> Reply \cup {NoResult, NoConnect, NoReceive}]]
    /\ replicaMsg \in [Request -> Reply \cup {NoResult, NoConnect, NoReceive}]
    /\ consistent \in [Request -> BOOLEAN]
    /\ answer \in [Request -> Reply \cup {Disagree}]

\* The machines that have executed a request's command and said so with success.
Confirmed(r) == {i \in Replica : thread[r][i] # "connect" /\ said[r][i] = Succeeded}

Done(r) == pc[r] \in {"executed", "answered"}

\* A client that is told "Command succeeded" at level ALL has its command executed
\* by every replica of the ring, also when replicas crash meanwhile and whatever
\* other requests do.
AllMeansEveryReplica ==
    \A r \in Request :
        Done(r) /\ answer[r] = Succeeded /\ level[r] = "ALL"
            => Confirmed(r) = Replica

\* A client that is told "Command succeeded" at level QUORUM has its command
\* executed by at least one replica beside the owner, if there is one.
QuorumMeansOneReplica ==
    \A r \in Request :
        Done(r) /\ answer[r] = Succeeded /\ level[r] = "QUORUM" /\ Replica # {}
            => Confirmed(r) # {}

\* Every request so far was at level ALL, and no replica has crashed.
Strict == alive = Replica /\ \A r \in Request : level[r] \in {NoLevel, "ALL"}

\* Requests at level ALL that do not overlap: between two of them all copies hold
\* the same values, and no client is told of a disagreement.  (For runs with
\* MaxOpen = 1.)
CopiesAgree ==
    Strict =>
        /\ \A r \in Request : answer[r] # Disagree
        /\ Open = {} => \A i \in Replica :
               /\ DOMAIN stores[i] = DOMAIN stores[Owner]
               /\ \A k \in DOMAIN stores[i] : stores[i][k].value = stores[Owner][k].value

\* The owner holds its keys as owner, the replicas as replicas: the flags decide
\* which keys a machine hands over, takes over and replicates when the ring changes.
FlagsTellRoles ==
    \A m \in Machine : \A k \in DOMAIN stores[m] : stores[m][k].owner = (m = Owner)

\* Every request at level ONE or ALL is answered, also when replicas crash: the
\* joins of sendForceOperations end.  (For runs without level QUORUM.)
EveryRequestAnswered ==
    \A r \in Request : pc[r] = "collect" ~> pc[r] = "answered"

\* Level QUORUM: the wakeup call that the server thread sleeps for arrives.
WakeupCallArrives ==
    \A r \in Request : pc[r] = "waiting" ~> pc[r] # "waiting"

\* The requests take effect one at a time, on the owner's store.
AbstractPhase(at) ==
    IF at \in {"unborn", "executed", "answered"} THEN at ELSE "open"

Atomic == INSTANCE AtomicStore WITH
    store   <- stores[Owner],
    phase   <- [r \in Request |-> AbstractPhase(pc[r])]

TakesEffectOnce == Atomic!Spec
================================================================================
