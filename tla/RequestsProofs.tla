----------------------------- MODULE RequestsProofs ------------------------------
(* The safety properties of Requests for any number of requests, keys, values    *)
(* and crashes, and the refinement of AtomicStore.                               *)
(*                                                                               *)
(* The inductive invariant Inv follows an answer on its way: a result a server   *)
(* thread looks at was said by the replica, what sendForceOperations returns was *)
(* among the results, and what the client is told was compared with that.        *)
(*                                                                               *)
(* SequentialInv, for one request at a time, follows the copies: which of them    *)
(* have executed the command of the request that is open.                        *)
EXTENDS Requests, FiniteSetTheorems, TLAPS

\* Only level QUORUM waits on the condition.
QuorumWaits == \A r \in Request : pc[r] \in {"waiting", "woken"} => level[r] = "QUORUM"

\* Nobody has connected for a request that nobody has made.
NoThreadBeforeAsk ==
    \A r \in Request : pc[r] = "unborn" => \A i \in Replica : thread[r][i] = "none"

\* A replica says something only to a thread that has connected.
SaidWhenConnected ==
    \A r \in Request, i \in Replica :
        said[r][i] = Succeeded => thread[r][i] \in {"receive", "finished"}

\* A thread stores only what its replica said, or that it was not told.
ResultWasSaid ==
    \A r \in Request, i \in Replica :
        result[r][i] = Succeeded => i \in Confirmed(r)

\* What sendForceOperations returns is backed by the replicas the level asks for.
CollectedIsBacked ==
    \A r \in Request : pc[r] = "perform" /\ replicaMsg[r] = Succeeded =>
        /\ level[r] = "QUORUM" => Confirmed(r) # {}
        /\ level[r] = "ALL" /\ consistent[r] => Confirmed(r) = Replica

Inv ==
    /\ TypeOK
    /\ FlagsTellRoles
    /\ QuorumWaits
    /\ NoThreadBeforeAsk
    /\ SaidWhenConnected
    /\ ResultWasSaid
    /\ CollectedIsBacked
    /\ AllMeansEveryReplica
    /\ QuorumMeansOneReplica

--------------------------------------------------------------------------------
(* The operators on stores                                                      *)

Flagged(s, owner) == \A k \in DOMAIN s : s[k].owner = owner

\* A command leaves a store a store, whose items all keep their role if the
\* command was meant for that role.
LEMMA PerformOK ==
    ASSUME NEW s, IsStore(s), NEW c \in Question, NEW b \in BOOLEAN, Flagged(s, ~b)
    PROVE  /\ IsStore(Perform(s, Command(c, b)).store)
           /\ Flagged(Perform(s, Command(c, b)).store, ~b)
           /\ Perform(s, Command(c, b)).reply \in Reply
<1> DEFINE f == Command(c, b)
           p == Perform(s, f)
<1> SUFFICES IsStore(p.store) /\ Flagged(p.store, ~b) /\ p.reply \in Reply
  OBVIOUS
<1>1. /\ f.op = c.op /\ f.key = c.key /\ f.value = c.value /\ f.force = b
      /\ c.op \in Operation /\ c.key \in Key
      /\ c.op \in {"insert", "update"} => c.value \in Value
  BY DEF Command, Question
<1> HIDE DEF f
<1>2. CASE c.op = "insert"
  <2>1. p = Insert(s, c.key, c.value, ~b)
    BY <1>1, <1>2 DEF Perform
  <2>2. MakeItem(c.value, ~b) \in Item /\ MakeItem(c.value, ~b).owner = ~b
    BY <1>1, <1>2 DEF MakeItem, Item
  <2>3. CASE c.key \in DOMAIN s
    BY <2>1, <2>3 DEF Insert, Reply
  <2>4. CASE c.key \notin DOMAIN s
    <3>1. /\ p.store = Put(s, c.key, MakeItem(c.value, ~b))
          /\ p.reply = Succeeded
      BY <2>1, <2>4 DEF Insert
    <3> QED BY <1>1, <2>2, <3>1 DEF Put, IsStore, Flagged, Reply
  <2> QED BY <2>3, <2>4
<1>3. CASE c.op = "delete"
  <2>1. p.store = Drop(s, c.key) /\ p.reply = Succeeded
    BY <1>1, <1>3 DEF Perform, Delete
  <2> QED BY <2>1 DEF Drop, IsStore, Flagged, Reply
<1>4. CASE c.op = "update"
  <2>1. p = Update(s, c.key, c.value)
    BY <1>1, <1>4 DEF Perform
  <2>2. CASE c.key \in DOMAIN s
    <3> DEFINE item == [s[c.key] EXCEPT !.value = c.value]
    <3>1. s[c.key] \in Item
      BY <2>2 DEF IsStore
    <3>2. item \in Item /\ item.owner = s[c.key].owner
      BY <1>1, <1>4, <3>1 DEF Item
    <3>3. p.store = [s EXCEPT ![c.key] = item] /\ p.reply = Succeeded
      BY <2>1, <2>2 DEF Update
    <3> HIDE DEF item
    <3> QED BY <2>2, <3>2, <3>3 DEF IsStore, Flagged, Reply
  <2>3. CASE c.key \notin DOMAIN s
    BY <2>1, <2>3 DEF Update, Reply
  <2> QED BY <2>2, <2>3
<1>5. CASE c.op = "lookup"
  <2>1. /\ p.store = s
        /\ p.reply = IF c.key \in DOMAIN s THEN s[c.key].value ELSE NoValue
    BY <1>1, <1>5 DEF Perform, Lookup
  <2> QED BY <2>1 DEF IsStore, Item, Reply
<1> QED BY <1>1, <1>2, <1>3, <1>4, <1>5 DEF Operation

LEMMA MachineIsNat == Machine \subseteq Nat /\ Owner \in Machine
                      /\ \A i \in Replica : i \in Machine /\ i # Owner
BY RequestsAssumption DEF Machine, Owner, Replica

--------------------------------------------------------------------------------
(* Inductiveness                                                                *)

LEMMA InitInv == Init => Inv
<1> SUFFICES ASSUME Init PROVE Inv
  OBVIOUS
<1>1. TypeOK
  BY DEF Init, TypeOK, IsStore, EmptyStore, Reply
<1>2. FlagsTellRoles
  BY DEF Init, FlagsTellRoles, EmptyStore
<1>3. QuorumWaits /\ NoThreadBeforeAsk /\ SaidWhenConnected /\ ResultWasSaid
  BY DEF Init, QuorumWaits, NoThreadBeforeAsk, SaidWhenConnected, ResultWasSaid, NoResult, Succeeded
<1>4. CollectedIsBacked /\ AllMeansEveryReplica /\ QuorumMeansOneReplica
  BY DEF Init, CollectedIsBacked, AllMeansEveryReplica, QuorumMeansOneReplica, Done
<1> QED BY <1>1, <1>2, <1>3, <1>4 DEF Inv

LEMMA AskInv ==
    ASSUME Inv, NEW r \in Request, Ask(r)
    PROVE  Inv'
<1> USE DEF Inv, Ask
<1>1. TypeOK'
  BY DEF TypeOK
<1>2. FlagsTellRoles'
  BY DEF FlagsTellRoles
<1>3. \A i \in Replica : thread[r][i] = "none" /\ said[r][i] # Succeeded /\ result[r][i] # Succeeded
  BY DEF NoThreadBeforeAsk, SaidWhenConnected, ResultWasSaid, Confirmed
<1>4. /\ pc'[r] = "collect" /\ \A x \in Request \ {r} : pc'[x] = pc[x]
      /\ \A x \in Request \ {r} : thread'[x] = thread[x] /\ level'[x] = level[x]
      /\ \A x \in Request \ {r} : Confirmed(x)' = Confirmed(x)
  BY DEF TypeOK, Confirmed
<1>5. NoThreadBeforeAsk' /\ QuorumWaits'
  BY <1>4 DEF NoThreadBeforeAsk, QuorumWaits
<1>6. SaidWhenConnected' /\ ResultWasSaid'
  BY <1>3, <1>4 DEF SaidWhenConnected, ResultWasSaid
<1>7. CollectedIsBacked'
  BY <1>4 DEF CollectedIsBacked
<1>8. AllMeansEveryReplica' /\ QuorumMeansOneReplica'
  BY <1>4 DEF AllMeansEveryReplica, QuorumMeansOneReplica, Done
<1> QED BY <1>1, <1>2, <1>5, <1>6, <1>7, <1>8

\* sendForceOperations returns something that is backed.
LEMMA CollectedInv ==
    ASSUME Inv, NEW r \in Request, NEW msg, NEW same \in BOOLEAN, Collected(r, msg, same),
           pc[r] \in {"collect", "woken"},
           msg \in Reply \cup {NoResult, NoConnect, NoReceive},
           msg = Succeeded /\ level[r] = "QUORUM" => Confirmed(r) # {},
           msg = Succeeded /\ level[r] = "ALL" /\ same => Confirmed(r) = Replica
    PROVE  Inv'
<1> USE DEF Inv, Collected
<1>1. TypeOK'
  BY DEF TypeOK
<1>2. FlagsTellRoles'
  BY DEF FlagsTellRoles
<1>3. /\ pc'[r] = "perform" /\ \A x \in Request \ {r} : pc'[x] = pc[x]
      /\ replicaMsg'[r] = msg /\ consistent'[r] = same
      /\ \A x \in Request \ {r} : replicaMsg'[x] = replicaMsg[x] /\ consistent'[x] = consistent[x]
      /\ \A x \in Request : Confirmed(x)' = Confirmed(x)
  BY DEF TypeOK, Confirmed
<1>4. QuorumWaits' /\ NoThreadBeforeAsk' /\ SaidWhenConnected' /\ ResultWasSaid'
  BY <1>3 DEF QuorumWaits, NoThreadBeforeAsk, SaidWhenConnected, ResultWasSaid
<1>5. CollectedIsBacked'
  BY <1>3 DEF CollectedIsBacked
<1>6. AllMeansEveryReplica' /\ QuorumMeansOneReplica'
  BY <1>3 DEF AllMeansEveryReplica, QuorumMeansOneReplica, Done
<1> QED BY <1>1, <1>2, <1>4, <1>5, <1>6

LEMMA CollectNoneInv ==
    ASSUME Inv, NEW r \in Request, CollectNone(r)
    PROVE  Inv'
BY CollectedInv DEF CollectNone, NoResult, Succeeded

LEMMA CollectAllInv ==
    ASSUME Inv, NEW r \in Request, CollectAll(r)
    PROVE  Inv'
<1> DEFINE msg  == IF Replica = {} THEN NoResult ELSE result[r][1]
           same == Replicas = 2 => result[r][1] = result[r][2]
<1>1. /\ Collected(r, msg, same)
      /\ pc[r] = "collect" /\ level[r] = "ALL"
  BY DEF CollectAll
<1>2. msg \in Reply \cup {NoResult, NoConnect, NoReceive}
  BY RequestsAssumption DEF Inv, TypeOK, Replica
<1>3. ASSUME msg = Succeeded, same PROVE Confirmed(r) = Replica
  <2>1. Replica # {} /\ result[r][1] = Succeeded
    BY <1>3 DEF NoResult, Succeeded
  <2>2. \A i \in Replica : result[r][i] = Succeeded
    BY <1>3, <2>1, RequestsAssumption DEF Replica
  <2> QED BY <2>2 DEF Inv, ResultWasSaid, Confirmed
<1> HIDE DEF msg
<1> QED BY <1>1, <1>2, <1>3, CollectedInv

LEMMA CollectQuorumInv ==
    ASSUME Inv, NEW r \in Request, CollectQuorum(r)
    PROVE  Inv'
<1> DEFINE there == {i \in Replica : result[r][i] # NoResult}
           msg   == IF there = {} THEN NoResult
                    ELSE IF 2 \in there THEN result[r][2] ELSE result[r][1]
<1>1. Collected(r, msg, TRUE) /\ pc[r] = "woken"
  BY DEF CollectQuorum
<1>2. there # {} /\ 2 \notin there => 1 \in there
  BY RequestsAssumption DEF Replica
<1>3. msg \in Reply \cup {NoResult, NoConnect, NoReceive}
  BY <1>2 DEF Inv, TypeOK
<1>4. msg = Succeeded => Confirmed(r) # {}
  BY <1>2 DEF Inv, ResultWasSaid, NoResult, Succeeded
<1>5. level[r] # "ALL"
  BY <1>1 DEF Inv, QuorumWaits
<1> HIDE DEF msg
<1> QED BY <1>1, <1>3, <1>4, <1>5, CollectedInv

\* BeginWait, SpuriousWakeup, Answer: one server thread goes on.
LEMMA PcInv ==
    ASSUME Inv, NEW r \in Request, NEW to,
           pc' = [pc EXCEPT ![r] = to],
           UNCHANGED <<stores, alive, command, level, thread, said, result, replicaMsg,
                       consistent, answer>>,
           \/ to = "waiting" /\ pc[r] = "collect" /\ level[r] = "QUORUM"
           \/ to = "woken" /\ pc[r] = "waiting"
           \/ to = "answered" /\ pc[r] = "executed"
    PROVE  Inv'
<1>1. /\ pc'[r] = to /\ \A x \in Request \ {r} : pc'[x] = pc[x]
      /\ \A x \in Request : Confirmed(x)' = Confirmed(x)
  BY DEF Inv, TypeOK, Confirmed
<1>2. TypeOK' /\ FlagsTellRoles'
  BY DEF Inv, TypeOK, FlagsTellRoles
<1>3. QuorumWaits' /\ NoThreadBeforeAsk' /\ SaidWhenConnected' /\ ResultWasSaid'
  BY <1>1 DEF Inv, QuorumWaits, NoThreadBeforeAsk, SaidWhenConnected, ResultWasSaid
<1>4. CollectedIsBacked'
  BY <1>1 DEF Inv, CollectedIsBacked
<1>5. AllMeansEveryReplica' /\ QuorumMeansOneReplica'
  BY <1>1 DEF Inv, AllMeansEveryReplica, QuorumMeansOneReplica, Done
<1> QED BY <1>2, <1>3, <1>4, <1>5 DEF Inv

\* The answer is a success only if the returned reply is one, or nobody asked.
LEMMA ExecuteInv ==
    ASSUME Inv, NEW r \in Request, Execute(r)
    PROVE  Inv'
<1> DEFINE did == Perform(stores[Owner], Command(command[r], FALSE))
<1>1. /\ pc[r] = "perform" /\ command[r] \in Question /\ level[r] \in Level
      /\ IsStore(stores[Owner]) /\ Flagged(stores[Owner], TRUE)
  BY MachineIsNat DEF Inv, TypeOK, Execute, FlagsTellRoles, Flagged
<1>2. IsStore(did.store) /\ Flagged(did.store, TRUE) /\ did.reply \in Reply
  BY <1>1, PerformOK
<1>3. /\ stores' = [stores EXCEPT ![Owner] = did.store]
      /\ answer' = [answer EXCEPT ![r] = IF Disagrees(r, did.reply) THEN Disagree ELSE did.reply]
  BY DEF Execute
<1> HIDE DEF did
<1>4. /\ pc'[r] = "executed" /\ \A x \in Request \ {r} : pc'[x] = pc[x]
      /\ answer'[r] = IF Disagrees(r, did.reply) THEN Disagree ELSE did.reply
      /\ \A x \in Request \ {r} : answer'[x] = answer[x]
      /\ \A x \in Request \ {r} : replicaMsg'[x] = replicaMsg[x] /\ consistent'[x] = consistent[x]
      /\ \A x \in Request : Confirmed(x)' = Confirmed(x)
      /\ UNCHANGED <<level, thread, said, result>>
  BY <1>3 DEF Inv, TypeOK, Execute, Confirmed
<1>5. TypeOK'
  <2>1. answer' \in [Request -> Reply \cup {Disagree}]
    BY <1>2, <1>3 DEF Inv, TypeOK
  <2>2. DOMAIN stores' = Machine /\ \A m \in Machine : IsStore(stores'[m])
    BY <1>2, <1>3 DEF Inv, TypeOK
  <2> QED BY <2>1, <2>2 DEF Inv, TypeOK, Execute
<1>6. FlagsTellRoles'
  BY <1>2, <1>3 DEF Inv, TypeOK, FlagsTellRoles, Flagged
<1>7. QuorumWaits' /\ NoThreadBeforeAsk' /\ SaidWhenConnected' /\ ResultWasSaid'
  BY <1>4 DEF Inv, QuorumWaits, NoThreadBeforeAsk, SaidWhenConnected, ResultWasSaid
<1>8. CollectedIsBacked'
  BY <1>4 DEF Inv, CollectedIsBacked
<1>9. answer'[r] = Succeeded /\ level[r] # "ONE" /\ Replica # {} =>
        replicaMsg[r] = Succeeded /\ consistent[r]
  BY <1>4 DEF Disagrees, Disagree, Succeeded, Failed, Inv, TypeOK
<1>10. AllMeansEveryReplica'
  <2>1. answer'[r] = Succeeded /\ level[r] = "ALL" => Confirmed(r) = Replica
    BY <1>1, <1>9 DEF Inv, CollectedIsBacked, Confirmed
  <2> QED BY <1>4, <2>1 DEF Inv, AllMeansEveryReplica, Done
<1>11. QuorumMeansOneReplica'
  <2>1. answer'[r] = Succeeded /\ level[r] = "QUORUM" /\ Replica # {} => Confirmed(r) # {}
    BY <1>1, <1>9 DEF Inv, CollectedIsBacked
  <2> QED BY <1>4, <2>1 DEF Inv, QuorumMeansOneReplica, Done
<1> QED BY <1>5, <1>6, <1>7, <1>8, <1>10, <1>11 DEF Inv

\* The threads of the replicas only ever add confirmations.
LEMMA MoreConfirmed ==
    ASSUME Inv, UNCHANGED <<level, replicaMsg, consistent, answer>>,
           \A r \in Request :
              /\ Confirmed(r) \subseteq Confirmed(r)'
              /\ pc'[r] = pc[r] \/ (pc[r] = "waiting" /\ pc'[r] = "woken")
    PROVE  CollectedIsBacked' /\ AllMeansEveryReplica' /\ QuorumMeansOneReplica' /\ QuorumWaits'
<1>1. \A r \in Request : Confirmed(r)' \subseteq Replica
  BY DEF Confirmed
<1>2. CollectedIsBacked'
  BY <1>1 DEF Inv, CollectedIsBacked
<1>3. AllMeansEveryReplica' /\ QuorumMeansOneReplica'
  BY <1>1 DEF Inv, AllMeansEveryReplica, QuorumMeansOneReplica, Done
<1>4. QuorumWaits'
  BY DEF Inv, QuorumWaits
<1> QED BY <1>2, <1>3, <1>4

LEMMA ConnectInv ==
    ASSUME Inv, NEW r \in Request, NEW i \in Replica, Connect(r, i)
    PROVE  Inv'
<1> DEFINE did == Perform(stores[i], Command(command[r], TRUE))
<1>1. /\ command[r] \in Question /\ i \in Machine /\ i # Owner
      /\ IsStore(stores[i]) /\ Flagged(stores[i], FALSE)
  BY MachineIsNat DEF Inv, TypeOK, Connect, FlagsTellRoles, Flagged, NoThreadBeforeAsk
<1>2. IsStore(did.store) /\ Flagged(did.store, FALSE) /\ did.reply \in Reply
  BY <1>1, PerformOK
<1>3. \/ /\ stores' = [stores EXCEPT ![i] = did.store]
         /\ said' = [said EXCEPT ![r][i] = did.reply]
      \/ /\ stores' = stores
         /\ said' = [said EXCEPT ![r][i] = NoConnect]
  BY DEF Connect
<1> HIDE DEF did
<1>4. /\ thread' = [thread EXCEPT ![r][i] = "receive"] /\ thread[r][i] = "connect"
      /\ UNCHANGED <<alive, pc, command, level, result, replicaMsg, consistent, answer>>
  BY DEF Connect
<1>5. TypeOK'
  <2>1. DOMAIN stores' = Machine /\ \A m \in Machine : IsStore(stores'[m])
    BY <1>2, <1>3 DEF Inv, TypeOK
  <2>2. said' \in [Request -> [Replica -> Reply \cup {NoResult, NoConnect}]]
    <3>1. PICK reply \in Reply \cup {NoConnect} : said' = [said EXCEPT ![r][i] = reply]
      BY <1>2, <1>3
    <3> QED BY <3>1 DEF Inv, TypeOK
  <2>3. thread' \in [Request -> [Replica -> {"none", "connect", "receive", "finished"}]]
    BY <1>4 DEF Inv, TypeOK
  <2> QED BY <1>4, <2>1, <2>2, <2>3 DEF Inv, TypeOK
<1>6. FlagsTellRoles'
  <2>1. \A m \in Machine : stores'[m] = stores[m] \/ (m = i /\ stores'[m] = did.store)
    BY <1>3 DEF Inv, TypeOK
  <2>2. \A m \in Machine : \A k \in DOMAIN stores[m] : stores[m][k].owner = (m = Owner)
    BY DEF Inv, FlagsTellRoles
  <2>3. \A k \in DOMAIN did.store : did.store[k].owner = (i = Owner)
    BY <1>1, <1>2, Zenon DEF Flagged
  <2> SUFFICES ASSUME NEW m \in Machine, NEW k \in DOMAIN stores'[m]
               PROVE  stores'[m][k].owner = (m = Owner)
    BY DEF FlagsTellRoles
  <2>4. CASE stores'[m] = stores[m]
    BY <2>2, <2>4
  <2>5. CASE m = i /\ stores'[m] = did.store
    BY <2>3, <2>5
  <2> QED BY <2>1, <2>4, <2>5
<1>7. /\ thread'[r][i] = "receive"
      /\ \A x \in Request, j \in Replica : x # r \/ j # i =>
            thread'[x][j] = thread[x][j] /\ said'[x][j] = said[x][j]
  BY <1>3, <1>4 DEF Inv, TypeOK
<1>8. \A x \in Request : Confirmed(x) \subseteq Confirmed(x)'
  BY <1>4, <1>7 DEF Confirmed
<1>9. NoThreadBeforeAsk' /\ SaidWhenConnected'
  BY <1>4, <1>7 DEF Inv, NoThreadBeforeAsk, SaidWhenConnected
<1>10. ResultWasSaid'
  BY <1>4, <1>8 DEF Inv, ResultWasSaid
<1> QED BY <1>4, <1>5, <1>6, <1>8, <1>9, <1>10, MoreConfirmed DEF Inv

LEMMA FinishInv ==
    ASSUME Inv, NEW r \in Request, NEW i \in Replica, Finish(r, i)
    PROVE  Inv'
<1>1. PICK reply \in {said[r][i], NoReceive, NoResult} : result' = [result EXCEPT ![r][i] = reply]
  BY DEF Finish
<1>2. /\ thread' = [thread EXCEPT ![r][i] = "finished"] /\ thread[r][i] = "receive"
      /\ pc' = IF pc[r] = "waiting" THEN [pc EXCEPT ![r] = "woken"] ELSE pc
      /\ UNCHANGED <<stores, alive, command, level, said, replicaMsg, consistent, answer>>
  BY DEF Finish
<1>3. /\ pc[r] # "unborn"
      /\ \A x \in Request : pc'[x] = pc[x] \/ (pc[x] = "waiting" /\ pc'[x] = "woken")
      /\ \A x \in Request \ {r} : pc'[x] = pc[x]
  BY <1>2 DEF Inv, TypeOK, NoThreadBeforeAsk
<1>4. /\ thread'[r][i] = "finished" /\ result'[r][i] = reply
      /\ \A x \in Request, j \in Replica : x # r \/ j # i =>
            thread'[x][j] = thread[x][j] /\ result'[x][j] = result[x][j]
  BY <1>1, <1>2 DEF Inv, TypeOK
<1>5. TypeOK'
  <2>1. result' \in [Request -> [Replica -> Reply \cup {NoResult, NoConnect, NoReceive}]]
    BY <1>1 DEF Inv, TypeOK
  <2>2. thread' \in [Request -> [Replica -> {"none", "connect", "receive", "finished"}]]
    BY <1>2 DEF Inv, TypeOK
  <2>3. pc' \in [Request -> {"unborn", "collect", "waiting", "woken", "perform",
                             "executed", "answered"}]
    BY <1>2 DEF Inv, TypeOK
  <2> QED BY <1>2, <1>3, <2>1, <2>2, <2>3 DEF Inv, TypeOK
<1>6. FlagsTellRoles'
  BY <1>2 DEF Inv, FlagsTellRoles
<1>7. \A x \in Request : Confirmed(x) \subseteq Confirmed(x)'
  BY <1>2, <1>4 DEF Confirmed
<1>8. NoThreadBeforeAsk' /\ SaidWhenConnected'
  BY <1>2, <1>3, <1>4 DEF Inv, NoThreadBeforeAsk, SaidWhenConnected
<1>9. ResultWasSaid'
  <2>1. reply = Succeeded => i \in Confirmed(r)
    BY <1>2 DEF Confirmed, NoReceive, NoResult, Succeeded
  <2> QED BY <1>4, <1>7, <2>1 DEF Inv, ResultWasSaid
<1> QED BY <1>2, <1>3, <1>5, <1>6, <1>7, <1>8, <1>9, MoreConfirmed DEF Inv

LEMMA CrashInv ==
    ASSUME Inv, NEW i \in Replica, Crash(i)
    PROVE  Inv'
<1>1. /\ stores' = [stores EXCEPT ![i] = EmptyStore] /\ alive' = alive \ {i}
      /\ UNCHANGED <<pc, command, level, thread, said, result, replicaMsg, consistent, answer>>
  BY DEF Crash
<1>2. TypeOK' /\ FlagsTellRoles'
  BY <1>1 DEF Inv, TypeOK, FlagsTellRoles, IsStore, EmptyStore
<1>3. \A x \in Request : Confirmed(x)' = Confirmed(x)
  BY <1>1 DEF Confirmed
<1>4. NoThreadBeforeAsk' /\ SaidWhenConnected' /\ ResultWasSaid'
  BY <1>1, <1>3 DEF Inv, NoThreadBeforeAsk, SaidWhenConnected, ResultWasSaid
<1> QED BY <1>1, <1>2, <1>3, <1>4, MoreConfirmed DEF Inv

LEMMA NextInv == Inv /\ [Next]_vars => Inv'
<1> SUFFICES ASSUME Inv, [Next]_vars PROVE Inv'
  OBVIOUS
<1>1. ASSUME NEW r \in Request, Ask(r) PROVE Inv'
  BY <1>1, AskInv
<1>2. ASSUME NEW r \in Request, CollectNone(r) PROVE Inv'
  BY <1>2, CollectNoneInv
<1>3. ASSUME NEW r \in Request, CollectAll(r) PROVE Inv'
  BY <1>3, CollectAllInv
<1>4. ASSUME NEW r \in Request, BeginWait(r) PROVE Inv'
  BY <1>4, PcInv DEF BeginWait
<1>5. ASSUME NEW r \in Request, SpuriousWakeup(r) PROVE Inv'
  BY <1>5, PcInv DEF SpuriousWakeup
<1>6. ASSUME NEW r \in Request, CollectQuorum(r) PROVE Inv'
  BY <1>6, CollectQuorumInv
<1>7. ASSUME NEW r \in Request, Execute(r) PROVE Inv'
  BY <1>7, ExecuteInv
<1>8. ASSUME NEW r \in Request, Answer(r) PROVE Inv'
  BY <1>8, PcInv DEF Answer
<1>9. ASSUME NEW r \in Request, NEW i \in Replica, Connect(r, i) PROVE Inv'
  BY <1>9, ConnectInv
<1>10. ASSUME NEW r \in Request, NEW i \in Replica, Finish(r, i) PROVE Inv'
  BY <1>10, FinishInv
<1>11. ASSUME NEW i \in Replica, Crash(i) PROVE Inv'
  BY <1>11, CrashInv
<1>12. ASSUME UNCHANGED vars PROVE Inv'
  <2>1. \A r \in Request : Confirmed(r)' = Confirmed(r)
    BY <1>12 DEF vars, Confirmed
  <2>2. TypeOK' /\ FlagsTellRoles'
    BY <1>12 DEF vars, Inv, TypeOK, FlagsTellRoles
  <2>3. NoThreadBeforeAsk' /\ SaidWhenConnected' /\ ResultWasSaid'
    BY <1>12, <2>1 DEF vars, Inv, NoThreadBeforeAsk, SaidWhenConnected, ResultWasSaid
  <2> QED BY <1>12, <2>1, <2>2, <2>3, MoreConfirmed DEF vars, Inv
<1> QED BY <1>1, <1>2, <1>3, <1>4, <1>5, <1>6, <1>7, <1>8, <1>9, <1>10, <1>11, <1>12
           DEF Next, ServerThread, ReplicaThread

THEOREM InvAlways == Spec => []Inv
BY InitInv, NextInv, PTL DEF Spec

\* Every variable of Requests keeps its type.
THEOREM TypeCorrect == Spec => []TypeOK
BY InvAlways, PTL DEF Inv

\* The ownership flags of the stores tell who owns and who replicates.
THEOREM FlagsAlwaysTellRoles == Spec => []FlagsTellRoles
BY InvAlways, PTL DEF Inv

\* Success at level ALL means that every replica executed the command.
THEOREM AllAlwaysMeansEveryReplica == Spec => []AllMeansEveryReplica
BY InvAlways, PTL DEF Inv

\* Success at level QUORUM means that some replica executed the command.
THEOREM QuorumAlwaysMeansOneReplica == Spec => []QuorumMeansOneReplica
BY InvAlways, PTL DEF Inv

--------------------------------------------------------------------------------
(* Requests implements AtomicStore                                              *)

\* The abstract store is the owner's; replicas and their threads do not show.
phaseBar == [r \in Request |-> AbstractPhase(pc[r])]

LEMMA SamePerform ==
    ASSUME NEW s, NEW c
    PROVE  /\ Atomic!Perform(s, c) = Perform(s, c)
           /\ Atomic!Command(c, FALSE) = Command(c, FALSE)
BY DEF Atomic!Perform, Perform, Atomic!Insert, Insert, Atomic!Delete, Delete,
       Atomic!Update, Update, Atomic!Lookup, Lookup, Atomic!Put, Put, Atomic!Drop, Drop,
       Atomic!MakeItem, MakeItem, Atomic!NoValue, NoValue, Atomic!Succeeded, Succeeded,
       Atomic!Failed, Failed, Atomic!Command, Command

LEMMA InitRefines == Init => Atomic!Init
<1> SUFFICES ASSUME Init PROVE Atomic!Init
  OBVIOUS
<1>1. stores[Owner] = EmptyStore
  BY MachineIsNat DEF Init
<1>2. phaseBar = [r \in Request |-> "unborn"]
  BY DEF Init, phaseBar, AbstractPhase
<1> QED BY <1>1, <1>2 DEF Init, Atomic!Init, phaseBar, EmptyStore, Atomic!EmptyStore,
          NoCommand, Atomic!NoCommand, NoValue, Atomic!NoValue

\* How a step of one server thread moves the abstract phases.
LEMMA PhaseStep ==
    ASSUME TypeOK, NEW r \in Request, NEW to, pc' = [pc EXCEPT ![r] = to]
    PROVE  phaseBar' = [phaseBar EXCEPT ![r] = AbstractPhase(to)]
BY DEF phaseBar, TypeOK

LEMMA Stutter ==
    ASSUME TypeOK, NEW r \in Request, UNCHANGED <<command, answer>>,
           stores'[Owner] = stores[Owner],
           \/ pc' = pc
           \/ \E to \in {"waiting", "woken", "perform"} :
                /\ pc' = [pc EXCEPT ![r] = to]
                /\ pc[r] \in {"collect", "waiting", "woken"}
    PROVE  UNCHANGED Atomic!vars
<1>1. phaseBar' = phaseBar
  <2>1. CASE pc' = pc
    BY <2>1 DEF phaseBar, AbstractPhase
  <2>2. ASSUME NEW to \in {"waiting", "woken", "perform"},
               pc' = [pc EXCEPT ![r] = to], pc[r] \in {"collect", "waiting", "woken"}
        PROVE  phaseBar' = phaseBar
    <3>1. phaseBar' = [phaseBar EXCEPT ![r] = AbstractPhase(to)]
      BY <2>2, PhaseStep
    <3>2. AbstractPhase(to) = "open" /\ AbstractPhase(pc[r]) = "open"
      BY <2>2 DEF AbstractPhase
    <3> QED BY <3>1, <3>2 DEF phaseBar
  <2> QED BY <2>1, <2>2
<1> QED BY <1>1 DEF Atomic!vars, phaseBar

LEMMA NextRefines == Inv /\ [Next]_vars => [Atomic!Next]_(Atomic!vars)
<1> SUFFICES ASSUME Inv, [Next]_vars
             PROVE  Atomic!Next \/ UNCHANGED Atomic!vars
  OBVIOUS
<1>1. TypeOK
  BY DEF Inv
<1>2. ASSUME NEW r \in Request, Ask(r) PROVE Atomic!Next
  <2>1. phaseBar' = [phaseBar EXCEPT ![r] = "open"] /\ phaseBar[r] = "unborn"
    <3>1. pc[r] = "unborn" /\ pc' = [pc EXCEPT ![r] = "collect"]
      BY <1>2 DEF Ask
    <3>2. AbstractPhase("collect") = "open" /\ AbstractPhase("unborn") = "unborn"
      BY DEF AbstractPhase
    <3> QED BY <1>1, <3>1, <3>2, PhaseStep DEF phaseBar
  <2>2. PICK c \in Question : command' = [command EXCEPT ![r] = c]
    BY <1>2 DEF Ask
  <2>3. c \in Atomic!Question
    BY <2>2 DEF Question, Atomic!Question, Operation, Atomic!Operation, NoValue, Atomic!NoValue
  <2>4. UNCHANGED <<stores[Owner], answer>>
    BY <1>2 DEF Ask
  <2>5. Atomic!Ask(r)
    BY <2>1, <2>2, <2>3, <2>4 DEF Atomic!Ask, phaseBar
  <2> QED BY <2>5 DEF Atomic!Next
<1>3. ASSUME NEW r \in Request, Execute(r) PROVE Atomic!Next
  <2> DEFINE did == Perform(stores[Owner], Command(command[r], FALSE))
  <2>1. phaseBar' = [phaseBar EXCEPT ![r] = "executed"] /\ phaseBar[r] = "open"
    BY <1>1, <1>3, PhaseStep DEF Execute, phaseBar, AbstractPhase
  <2>2. /\ stores'[Owner] = did.store
        /\ \E a \in {did.reply, Disagree} : answer' = [answer EXCEPT ![r] = a]
        /\ UNCHANGED command
    BY <1>1, <1>3, MachineIsNat DEF Execute, TypeOK
  <2>3. did = Atomic!Perform(stores[Owner], Atomic!Command(command[r], FALSE))
    BY SamePerform
  <2>4. Atomic!Execute(r)
    BY <2>1, <2>2, <2>3 DEF Atomic!Execute, phaseBar, Atomic!Disagree, Disagree
  <2> QED BY <2>4 DEF Atomic!Next
<1>4. ASSUME NEW r \in Request, Answer(r) PROVE Atomic!Next
  <2>1. phaseBar' = [phaseBar EXCEPT ![r] = "answered"] /\ phaseBar[r] = "executed"
    BY <1>1, <1>4, PhaseStep DEF Answer, phaseBar, AbstractPhase
  <2>2. Atomic!Answer(r)
    BY <1>4, <2>1 DEF Answer, Atomic!Answer, phaseBar
  <2> QED BY <2>2 DEF Atomic!Next
<1>5. ASSUME NEW r \in Request,
             CollectNone(r) \/ CollectAll(r) \/ BeginWait(r) \/ CollectQuorum(r) \/ SpuriousWakeup(r)
      PROVE  UNCHANGED Atomic!vars
  <2>1. \E to \in {"waiting", "woken", "perform"} :
          /\ pc' = [pc EXCEPT ![r] = to]
          /\ pc[r] \in {"collect", "waiting", "woken"}
    BY <1>5 DEF CollectNone, CollectAll, BeginWait, CollectQuorum, SpuriousWakeup, Collected
  <2>2. UNCHANGED <<stores, command, answer>>
    BY <1>5 DEF CollectNone, CollectAll, BeginWait, CollectQuorum, SpuriousWakeup, Collected
  <2> QED BY <1>1, <2>1, <2>2, Stutter
<1>6. ASSUME NEW r \in Request, NEW i \in Replica, Connect(r, i) PROVE UNCHANGED Atomic!vars
  <2>1. UNCHANGED <<pc, command, answer>> /\ stores'[Owner] = stores[Owner]
    BY <1>1, <1>6, MachineIsNat DEF Connect, TypeOK
  <2> QED BY <1>1, <2>1, Stutter
<1>7. ASSUME NEW r \in Request, NEW i \in Replica, Finish(r, i) PROVE UNCHANGED Atomic!vars
  <2>1. UNCHANGED <<stores, command, answer>>
    BY <1>7 DEF Finish
  <2>2. pc' = pc \/ (pc[r] = "waiting" /\ pc' = [pc EXCEPT ![r] = "woken"])
    BY <1>7 DEF Finish
  <2> QED BY <1>1, <2>1, <2>2, Stutter
<1>8. ASSUME NEW i \in Replica, Crash(i) PROVE UNCHANGED Atomic!vars
  <2>1. UNCHANGED <<pc, command, answer>> /\ stores'[Owner] = stores[Owner]
    BY <1>1, <1>8, MachineIsNat DEF Crash, TypeOK
  <2>2. phaseBar' = phaseBar
    BY <2>1 DEF phaseBar, AbstractPhase
  <2> QED BY <2>1, <2>2 DEF Atomic!vars, phaseBar
<1>9. ASSUME UNCHANGED vars PROVE UNCHANGED Atomic!vars
  <2>1. phaseBar' = phaseBar
    BY <1>9 DEF vars, phaseBar, AbstractPhase
  <2> QED BY <1>9, <2>1 DEF vars, Atomic!vars, phaseBar
<1> QED BY <1>2, <1>3, <1>4, <1>5, <1>6, <1>7, <1>8, <1>9
           DEF Next, ServerThread, ReplicaThread

\* Whatever the level, and whichever replicas crash, every request takes effect on
\* the owner's store exactly once between the question and the answer.
THEOREM Refinement == Spec => TakesEffectOnce
<1>1. Inv /\ [Next]_vars => [Atomic!Next]_(Atomic!vars)
  BY NextRefines
<1> QED BY <1>1, InitRefines, InvAlways, PTL DEF Spec, Atomic!Spec, TakesEffectOnce

--------------------------------------------------------------------------------
(* Copies agree, if requests do not overlap                                     *)

\* Two stores with the same values; who owns them is another matter.
SameValues(s, t) == DOMAIN s = DOMAIN t /\ \A k \in DOMAIN s : s[k].value = t[k].value

\* What the owner is going to do with the command of r.
Coming(r) == Perform(stores[Owner], Command(command[r], FALSE))

\* Replica i is where the owner is before it has heard of r, and where the owner
\* will be afterwards.  It ignores an insert that the owner is going to refuse.
Follows(r, i) ==
    /\ thread[r][i] \in {"connect", "receive", "finished"}
    /\ thread[r][i] = "connect" => SameValues(stores[i], stores[Owner])
    /\ thread[r][i] # "connect" =>
          /\ SameValues(stores[i], Coming(r).store)
          /\ Coming(r).reply # Failed => said[r][i] = Coming(r).reply

\* Every replica has answered, and the server thread has its answers.
AllSaid(r) ==
    /\ \A i \in Replica : thread[r][i] = "finished"
    /\ Replica # {} => replicaMsg[r] = result[r][1]
    /\ consistent[r] = (Replicas = 2 => result[r][1] = result[r][2])

InStep(r) ==
    /\ pc[r] \in {"collect", "perform"} => \A i \in Replica : Follows(r, i)
    /\ pc[r] = "perform" => AllSaid(r)
    /\ pc[r] = "executed" =>
          \A i \in Replica : thread[r][i] = "finished" /\ SameValues(stores[i], stores[Owner])

\* One request at a time.
OneOpen == \A r, q \in Open : r = q

\* What holds of the copies while all requests are at level ALL and no replica fails.
Copies ==
    /\ \A r \in Request : answer[r] # Disagree
    /\ \A r \in Open : InStep(r)
    /\ \A r \in Request \ Open, i \in Replica : thread[r][i] \in {"none", "finished"}
    /\ Open = {} => \A i \in Replica : SameValues(stores[i], stores[Owner])
    /\ \A r \in Request, i \in Replica : thread[r][i] = "finished" => result[r][i] = said[r][i]

\* The level of a request is not known before it is made.
LevelUnset == \A r \in Request : pc[r] = "unborn" => level[r] = NoLevel

SequentialInv == OneOpen /\ LevelUnset /\ (Strict => Copies)

\* The same command takes two stores with the same values to two stores with the
\* same values.  The replies are the same unless the owner refuses the command.
LEMMA PerformAgrees ==
    ASSUME NEW s, NEW t, IsStore(s), IsStore(t), SameValues(s, t), NEW c \in Question
    PROVE  /\ SameValues(Perform(s, Command(c, TRUE)).store, Perform(t, Command(c, FALSE)).store)
           /\ Perform(t, Command(c, FALSE)).reply # Failed =>
                 Perform(s, Command(c, TRUE)).reply = Perform(t, Command(c, FALSE)).reply
<1> DEFINE f == Command(c, TRUE)
           g == Command(c, FALSE)
           p == Perform(s, f)
           q == Perform(t, g)
<1> SUFFICES SameValues(p.store, q.store) /\ (q.reply # Failed => p.reply = q.reply)
  OBVIOUS
<1>1. /\ f.op = c.op /\ f.key = c.key /\ f.value = c.value /\ f.force = TRUE
      /\ g.op = c.op /\ g.key = c.key /\ g.value = c.value /\ g.force = FALSE
      /\ c.op \in Operation
  BY DEF Command, Question
<1>2. DOMAIN s = DOMAIN t /\ \A k \in DOMAIN s : s[k].value = t[k].value
  BY DEF SameValues
<1> HIDE DEF f, g
<1>3. CASE c.op = "insert"
  <2>1. p = Insert(s, c.key, c.value, FALSE) /\ q = Insert(t, c.key, c.value, TRUE)
    BY <1>1, <1>3 DEF Perform
  <2>2. CASE c.key \in DOMAIN s
    BY <1>2, <2>1, <2>2 DEF Insert, SameValues
  <2>3. CASE c.key \notin DOMAIN s
    <3>1. /\ p.store = Put(s, c.key, MakeItem(c.value, FALSE)) /\ p.reply = Succeeded
          /\ q.store = Put(t, c.key, MakeItem(c.value, TRUE)) /\ q.reply = Succeeded
      BY <1>2, <2>1, <2>3 DEF Insert
    <3>2. MakeItem(c.value, FALSE).value = c.value /\ MakeItem(c.value, TRUE).value = c.value
      BY DEF MakeItem
    <3>3. /\ DOMAIN p.store = DOMAIN s \cup {c.key} /\ DOMAIN q.store = DOMAIN t \cup {c.key}
          /\ \A k \in DOMAIN s \cup {c.key} :
                /\ p.store[k].value = IF k = c.key THEN c.value ELSE s[k].value
                /\ q.store[k].value = IF k = c.key THEN c.value ELSE t[k].value
      BY <1>2, <3>1, <3>2 DEF Put
    <3> QED BY <1>2, <3>1, <3>3 DEF SameValues
  <2> QED BY <2>2, <2>3
<1>4. CASE c.op = "delete"
  <2>1. p.store = Drop(s, c.key) /\ q.store = Drop(t, c.key) /\ p.reply = q.reply
    BY <1>1, <1>4 DEF Perform, Delete
  <2> QED BY <1>2, <2>1 DEF Drop, SameValues
<1>5. CASE c.op = "update"
  <2>1. p = Update(s, c.key, c.value) /\ q = Update(t, c.key, c.value)
    BY <1>1, <1>5 DEF Perform
  <2>2. CASE c.key \in DOMAIN s
    <3> DEFINE one == [s[c.key] EXCEPT !.value = c.value]
               two == [t[c.key] EXCEPT !.value = c.value]
    <3>1. one.value = c.value /\ two.value = c.value
      BY <1>2, <2>2 DEF IsStore, Item
    <3>2. /\ p.store = [s EXCEPT ![c.key] = one] /\ p.reply = Succeeded
          /\ q.store = [t EXCEPT ![c.key] = two] /\ q.reply = Succeeded
      BY <1>2, <2>1, <2>2 DEF Update
    <3> HIDE DEF one, two
    <3> QED BY <1>2, <2>2, <3>1, <3>2 DEF SameValues
  <2>3. CASE c.key \notin DOMAIN s
    BY <1>2, <2>1, <2>3 DEF Update, SameValues
  <2> QED BY <2>2, <2>3
<1>6. CASE c.op = "lookup"
  BY <1>1, <1>2, <1>6 DEF Perform, Lookup, SameValues
<1> QED BY <1>1, <1>3, <1>4, <1>5, <1>6 DEF Operation


LEMMA SameAsItself == \A s : SameValues(s, s)
BY DEF SameValues

\* A request that is open while all are at level ALL is at level ALL.
LEMMA OpenAtAll ==
    ASSUME Inv, Strict, NEW r \in Open
    PROVE  /\ r \in Request /\ level[r] = "ALL" /\ command[r] \in Question
           /\ pc[r] \in {"collect", "perform", "executed"}
<1>1. r \in Request /\ pc[r] # "unborn" /\ pc[r] # "answered"
  BY DEF Open
<1>2. level[r] \in Level /\ command[r] \in Question
  BY <1>1 DEF Inv, TypeOK
<1>3. level[r] = "ALL"
  BY <1>1, <1>2, RequestsAssumption DEF Strict, NoLevel
<1>4. pc[r] \notin {"waiting", "woken"}
  BY <1>1, <1>3 DEF Inv, QuorumWaits
<1> QED BY <1>1, <1>2, <1>3, <1>4 DEF Inv, TypeOK

\* A replica that fails, or a request at another level, is there for good.
LEMMA StrictBefore ==
    ASSUME Inv, LevelUnset, [Next]_vars, Strict'
    PROVE  Strict
<1> USE DEF Strict
<1>1. ASSUME NEW r \in Request, Ask(r) PROVE Strict
  <2>1. level[r] = NoLevel /\ alive' = alive
        /\ \A q \in Request \ {r} : level'[q] = level[q]
    BY <1>1 DEF Ask, Inv, TypeOK, LevelUnset
  <2> QED BY <2>1
<1>2. ASSUME NEW i \in Replica, Crash(i) PROVE Strict
  BY <1>2 DEF Crash
<1>3. ASSUME UNCHANGED <<alive, level>> PROVE Strict
  BY <1>3
<1> QED BY <1>1, <1>2, <1>3 DEF Next, vars, ServerThread, ReplicaThread, SpuriousWakeup,
           CollectNone, CollectAll, BeginWait, CollectQuorum, Collected, Execute, Answer,
           Connect, Finish

LEMMA AskSequential ==
    ASSUME Inv, SequentialInv, MaxOpen = 1, NEW r \in Request, Ask(r)
    PROVE  OneOpen' /\ LevelUnset' /\ (Strict /\ Strict' => Copies')
<1>1. Open = {}
  <2>1. SUFFICES ASSUME NEW q \in Open PROVE FALSE
    OBVIOUS
  <2>2. Open = {q}
    BY DEF SequentialInv, OneOpen
  <2>3. Cardinality(Open) = 1
    BY <2>2, FS_Singleton
  <2> QED BY <2>3 DEF Ask
<1>2. /\ pc'[r] = "collect" /\ \A q \in Request \ {r} : pc'[q] = pc[q]
      /\ thread'[r] = [i \in Replica |-> "connect"]
      /\ \A q \in Request \ {r} : thread'[q] = thread[q] /\ level'[q] = level[q]
      /\ UNCHANGED <<stores, said, result, answer>>
  BY DEF Ask, Inv, TypeOK
<1>3. Open' = {r}
  BY <1>1, <1>2 DEF Open
<1>4. OneOpen' /\ LevelUnset'
  BY <1>2, <1>3 DEF OneOpen, LevelUnset, SequentialInv
<1>5. ASSUME Strict PROVE Copies'
  <2>1. Copies
    BY <1>5 DEF SequentialInv
  <2>2. \A i \in Replica : Follows(r, i)'
    BY <1>1, <1>2, <2>1 DEF Copies, Follows
  <2>3. InStep(r)'
    BY <1>2, <2>2 DEF InStep
  <2>4. \A q \in Request \ {r} : q \notin Open
    BY <1>1
  <2> QED BY <1>2, <1>3, <2>1, <2>3, <2>4 DEF Copies
<1> QED BY <1>4, <1>5

LEMMA CollectAllCopies ==
    ASSUME Inv, OneOpen, Strict, Copies, NEW r \in Request, CollectAll(r)
    PROVE  Copies'
<1>1. /\ pc[r] = "collect" /\ r \in Open
      /\ pc' = [pc EXCEPT ![r] = "perform"]
      /\ \A i \in Replica : thread[r][i] = "finished"
      /\ replicaMsg' = [replicaMsg EXCEPT ![r] = IF Replica = {} THEN NoResult ELSE result[r][1]]
      /\ consistent' = [consistent EXCEPT ![r] = (Replicas = 2 => result[r][1] = result[r][2])]
      /\ UNCHANGED <<stores, alive, command, level, thread, said, result, answer>>
  BY DEF CollectAll, Collected, Open
<1>2. /\ pc'[r] = "perform" /\ \A q \in Request \ {r} : pc'[q] = pc[q]
      /\ replicaMsg'[r] = IF Replica = {} THEN NoResult ELSE result[r][1]
      /\ consistent'[r] = (Replicas = 2 => result[r][1] = result[r][2])
  BY <1>1 DEF Inv, TypeOK
<1>3. Open' = Open /\ Open = {r}
  BY <1>1, <1>2 DEF Open, OneOpen
<1>4. \A i \in Replica : Follows(r, i)'
  BY <1>1 DEF Copies, InStep, Follows, Coming
<1>5. AllSaid(r)'
  BY <1>1, <1>2 DEF AllSaid
<1>6. InStep(r)'
  BY <1>2, <1>4, <1>5 DEF InStep
<1> QED BY <1>1, <1>3, <1>6 DEF Copies

\* The owner executes what all its replicas have executed, or refuses it.
LEMMA ExecuteCopies ==
    ASSUME Disagree \notin Value, Inv, OneOpen, Strict, Copies, NEW r \in Request, Execute(r)
    PROVE  Copies'
<1> DEFINE did == Coming(r)
<1>1. /\ pc[r] = "perform" /\ r \in Open
      /\ pc' = [pc EXCEPT ![r] = "executed"]
      /\ stores' = [stores EXCEPT ![Owner] = did.store]
      /\ answer' = [answer EXCEPT ![r] = IF Disagrees(r, did.reply) THEN Disagree ELSE did.reply]
      /\ UNCHANGED <<level, thread, said, result>>
  BY DEF Execute, Open, Coming
<1>2. IsStore(stores[Owner]) /\ Flagged(stores[Owner], TRUE) /\ command[r] \in Question
  BY <1>1, MachineIsNat DEF Inv, TypeOK, FlagsTellRoles, Flagged
<1>3. did.reply \in Reply
  BY <1>2, PerformOK DEF Coming
<1>4. AllSaid(r) /\ \A i \in Replica : Follows(r, i)
  BY <1>1 DEF Copies, InStep
<1>5. \A i \in Replica : result[r][i] = said[r][i]
  BY <1>4 DEF Copies, AllSaid
<1>6. \A i \in Replica : /\ SameValues(stores[i], did.store)
                         /\ did.reply # Failed => result[r][i] = did.reply
  BY <1>4, <1>5 DEF AllSaid, Follows
<1>7. ~Disagrees(r, did.reply)
  <2>1. SUFFICES ASSUME did.reply # Failed, Replica # {}
                 PROVE  consistent[r] /\ did.reply = replicaMsg[r]
    BY <1>4 DEF Disagrees
  <2>2. 1 \in Replica /\ (Replicas = 2 => 2 \in Replica)
    BY <2>1, RequestsAssumption DEF Replica
  <2>3. result[r][1] = did.reply /\ (Replicas = 2 => result[r][2] = did.reply)
    BY <1>6, <2>1, <2>2
  <2> QED BY <1>4, <2>1, <2>3 DEF AllSaid
<1> HIDE DEF did
<1>8. /\ answer'[r] = did.reply /\ \A q \in Request \ {r} : answer'[q] = answer[q]
      /\ pc'[r] = "executed" /\ \A q \in Request \ {r} : pc'[q] = pc[q]
      /\ stores'[Owner] = did.store /\ \A i \in Replica : stores'[i] = stores[i]
  BY <1>1, <1>7, MachineIsNat DEF Inv, TypeOK
<1>9. did.reply # Disagree
  BY <1>3 DEF Reply, Disagree, Succeeded, Failed, NoValue
<1>10. Open' = Open /\ Open = {r}
  BY <1>1, <1>8 DEF Open, OneOpen
<1>11. InStep(r)'
  BY <1>1, <1>4, <1>6, <1>8 DEF InStep, AllSaid
<1> QED BY <1>1, <1>8, <1>9, <1>10, <1>11 DEF Copies

LEMMA AnswerCopies ==
    ASSUME Inv, OneOpen, Strict, Copies, NEW r \in Request, Answer(r)
    PROVE  Copies'
<1>1. /\ pc[r] = "executed" /\ r \in Open
      /\ pc'[r] = "answered" /\ \A q \in Request \ {r} : pc'[q] = pc[q]
      /\ UNCHANGED <<stores, thread, said, result, answer>>
  BY DEF Answer, Open, Inv, TypeOK
<1>2. Open = {r} /\ Open' = {}
  BY <1>1 DEF Open, OneOpen
<1>3. \A i \in Replica : thread[r][i] = "finished" /\ SameValues(stores[i], stores[Owner])
  BY <1>1 DEF Copies, InStep
<1> QED BY <1>1, <1>2, <1>3 DEF Copies

LEMMA ConnectCopies ==
    ASSUME Inv, OneOpen, Strict, Copies, NEW r \in Request, NEW i \in Replica, Connect(r, i)
    PROVE  Copies'
<1> DEFINE did == Perform(stores[i], Command(command[r], TRUE))
<1>1. r \in Open
  BY DEF Connect, Copies
<1>2. command[r] \in Question /\ pc[r] = "collect"
  BY <1>1, OpenAtAll DEF Connect, Copies, InStep, AllSaid
<1>3. /\ stores' = [stores EXCEPT ![i] = did.store]
      /\ said' = [said EXCEPT ![r][i] = did.reply]
      /\ thread' = [thread EXCEPT ![r][i] = "receive"]
      /\ UNCHANGED <<pc, command, result, answer>>
  BY DEF Connect, Strict
<1>4. \A j \in Replica : Follows(r, j)
  BY <1>1, <1>2 DEF Copies, InStep
<1>5. IsStore(stores[i]) /\ IsStore(stores[Owner]) /\ SameValues(stores[i], stores[Owner])
  BY <1>4, MachineIsNat DEF Inv, TypeOK, Follows, Connect
<1>6. /\ SameValues(did.store, Coming(r).store)
      /\ Coming(r).reply # Failed => did.reply = Coming(r).reply
  BY <1>2, <1>5, PerformAgrees DEF Coming
<1> HIDE DEF did
<1>7. /\ stores'[i] = did.store /\ said'[r][i] = did.reply /\ thread'[r][i] = "receive"
      /\ stores'[Owner] = stores[Owner]
      /\ \A j \in Replica \ {i} : /\ stores'[j] = stores[j] /\ said'[r][j] = said[r][j]
                                  /\ thread'[r][j] = thread[r][j]
      /\ \A q \in Request \ {r} : said'[q] = said[q] /\ thread'[q] = thread[q]
  BY <1>3, MachineIsNat DEF Inv, TypeOK
<1>8. Coming(r)' = Coming(r)
  BY <1>3, <1>7 DEF Coming
<1>9. \A j \in Replica : Follows(r, j)'
  <2>1. Follows(r, i)'
    BY <1>6, <1>7, <1>8 DEF Follows
  <2>2. \A j \in Replica \ {i} : Follows(r, j)'
    BY <1>4, <1>7, <1>8 DEF Follows
  <2> QED BY <2>1, <2>2
<1>10. InStep(r)'
  BY <1>2, <1>3, <1>9 DEF InStep
<1>11. Open' = Open /\ Open = {r}
  BY <1>1, <1>3 DEF Open, OneOpen
<1> QED BY <1>3, <1>7, <1>10, <1>11 DEF Copies

LEMMA FinishCopies ==
    ASSUME Inv, OneOpen, Strict, Copies, NEW r \in Request, NEW i \in Replica, Finish(r, i)
    PROVE  Copies'
<1>1. r \in Open /\ thread[r][i] = "receive"
  BY DEF Finish, Copies
<1>2. pc[r] = "collect"
  BY <1>1, OpenAtAll DEF Copies, InStep, AllSaid
<1>3. /\ result' = [result EXCEPT ![r][i] = said[r][i]]
      /\ thread' = [thread EXCEPT ![r][i] = "finished"]
      /\ UNCHANGED <<stores, pc, command, said, answer>>
  BY <1>2 DEF Finish, Strict
<1>4. /\ result'[r][i] = said[r][i] /\ thread'[r][i] = "finished"
      /\ \A j \in Replica \ {i} : /\ result'[r][j] = result[r][j]
                                  /\ thread'[r][j] = thread[r][j]
      /\ \A q \in Request \ {r} : result'[q] = result[q] /\ thread'[q] = thread[q]
  BY <1>3 DEF Inv, TypeOK
<1>5. \A j \in Replica : Follows(r, j)'
  <2>1. \A j \in Replica : Follows(r, j)
    BY <1>1, <1>2 DEF Copies, InStep
  <2>2. Coming(r)' = Coming(r)
    BY <1>3 DEF Coming
  <2> QED BY <1>1, <1>3, <1>4, <2>1, <2>2 DEF Follows
<1>6. InStep(r)'
  BY <1>2, <1>3, <1>5 DEF InStep
<1>7. Open' = Open /\ Open = {r}
  BY <1>1, <1>3 DEF Open, OneOpen
<1> QED BY <1>3, <1>4, <1>6, <1>7 DEF Copies

LEMMA NextSequential ==
    ASSUME MaxOpen = 1, Disagree \notin Value, Inv, SequentialInv, [Next]_vars
    PROVE  SequentialInv'
<1>1. OneOpen /\ LevelUnset
  BY DEF SequentialInv
<1>2. SUFFICES OneOpen' /\ LevelUnset' /\ (Strict /\ Strict' => Copies')
  BY <1>1, StrictBefore DEF SequentialInv
<1>3. ASSUME NEW r \in Request, Ask(r)
      PROVE  OneOpen' /\ LevelUnset' /\ (Strict /\ Strict' => Copies')
  BY <1>3, AskSequential
<1>4. CASE \E r \in Request : Ask(r)
  BY <1>3, <1>4
<1>5. CASE ~\E r \in Request : Ask(r)
  <2>1. level' = level /\ DOMAIN pc' = DOMAIN pc
        /\ \A r \in Request : /\ pc'[r] = "unborn" <=> pc[r] = "unborn"
                              /\ pc[r] = "answered" => pc'[r] = "answered"
    <3>1. ASSUME NEW r \in Request, NEW to, to # "unborn", pc' = [pc EXCEPT ![r] = to],
                 pc[r] \notin {"unborn", "answered"}
          PROVE  DOMAIN pc' = DOMAIN pc
                 /\ \A q \in Request : /\ pc'[q] = "unborn" <=> pc[q] = "unborn"
                                       /\ pc[q] = "answered" => pc'[q] = "answered"
      BY <3>1 DEF Inv, TypeOK
    <3>2. level' = level
      BY <1>5 DEF Next, vars, ServerThread, ReplicaThread, SpuriousWakeup, CollectNone,
         CollectAll, BeginWait, CollectQuorum, Collected, Execute, Answer, Connect, Finish, Crash
    <3>3. \/ pc' = pc
          \/ \E r \in Request, to \in {"waiting", "woken", "perform", "executed", "answered"} :
                pc[r] \notin {"unborn", "answered"} /\ pc' = [pc EXCEPT ![r] = to]
      <4>1. ASSUME NEW r \in Request, ServerThread(r) \/ SpuriousWakeup(r)
            PROVE  \E to \in {"waiting", "woken", "perform", "executed", "answered"} :
                      pc[r] \notin {"unborn", "answered"} /\ pc' = [pc EXCEPT ![r] = to]
        BY <4>1 DEF ServerThread, SpuriousWakeup, CollectNone,
           CollectAll, BeginWait, CollectQuorum, Collected, Execute, Answer
      <4>2. ASSUME NEW r \in Request, NEW i \in Replica, ReplicaThread(r, i)
            PROVE  pc' = pc \/ (pc[r] = "waiting" /\ pc' = [pc EXCEPT ![r] = "woken"])
        BY <4>2 DEF ReplicaThread, Connect, Finish
      <4>3. ASSUME NEW i \in Replica, Crash(i) PROVE pc' = pc
        BY <4>3 DEF Crash
      <4> QED BY <1>5, <4>1, <4>2, <4>3 DEF Next, vars
    <3> QED BY <3>1, <3>2, <3>3
  <2>2. Open' \subseteq Open
    BY <2>1 DEF Open
  <2>3. OneOpen' /\ LevelUnset'
    BY <1>1, <2>1, <2>2 DEF OneOpen, LevelUnset
  <2>4. ASSUME Strict, Strict' PROVE Copies'
    <3>1. Copies
      BY <2>4 DEF SequentialInv
    <3>2. \A r \in Open : level[r] = "ALL" /\ pc[r] \in {"collect", "perform", "executed"}
      BY <2>4, OpenAtAll
    <3>3. \A r \in Request : pc[r] \notin {"unborn", "answered"} => r \in Open
      BY DEF Open
    <3>4. ASSUME NEW r \in Request, CollectAll(r) PROVE Copies'
      BY <1>1, <2>4, <3>1, <3>4, CollectAllCopies
    <3>5. ASSUME NEW r \in Request, Execute(r) PROVE Copies'
      BY <1>1, <2>4, <3>1, <3>5, ExecuteCopies
    <3>6. ASSUME NEW r \in Request, Answer(r) PROVE Copies'
      BY <1>1, <2>4, <3>1, <3>6, AnswerCopies
    <3>7. ASSUME NEW r \in Request, NEW i \in Replica, Connect(r, i) PROVE Copies'
      BY <1>1, <2>4, <3>1, <3>7, ConnectCopies
    <3>8. ASSUME NEW r \in Request, NEW i \in Replica, Finish(r, i) PROVE Copies'
      BY <1>1, <2>4, <3>1, <3>8, FinishCopies
    <3>9. ASSUME NEW r \in Request, CollectNone(r) \/ BeginWait(r) PROVE FALSE
      BY <3>2, <3>3, <3>9 DEF CollectNone, BeginWait
    <3>10. ASSUME NEW r \in Request, CollectQuorum(r) \/ SpuriousWakeup(r) PROVE FALSE
      BY <3>2, <3>3, <3>10 DEF CollectQuorum, SpuriousWakeup
    <3>11. ASSUME NEW i \in Replica, Crash(i) PROVE FALSE
      BY <2>4, <3>11 DEF Crash, Strict
    <3>12. ASSUME UNCHANGED vars PROVE Copies'
      <4>1. /\ \A r \in Request : Coming(r)' = Coming(r)
            /\ Open' = Open
        BY <3>12 DEF vars, Coming, Open
      <4>2. \A r \in Request : InStep(r) => InStep(r)'
        BY <3>12, <4>1 DEF vars, InStep, Follows, AllSaid
      <4>3. Open \subseteq Request
        BY DEF Open
      <4> QED BY <3>1, <3>12, <4>1, <4>2, <4>3 DEF vars, Copies
    <3> QED BY <1>5, <3>4, <3>5, <3>6, <3>7, <3>8, <3>9, <3>10, <3>11, <3>12
               DEF Next, ServerThread, ReplicaThread
  <2> QED BY <2>3, <2>4
<1> QED BY <1>4, <1>5

LEMMA InitSequential == Init => SequentialInv
<1> SUFFICES ASSUME Init PROVE SequentialInv
  OBVIOUS
<1>1. Open = {} /\ \A i \in Replica : stores[i] = EmptyStore /\ stores[Owner] = EmptyStore
  BY MachineIsNat DEF Init, Open
<1>2. \A i \in Replica : SameValues(stores[i], stores[Owner])
  BY <1>1, SameAsItself
<1> QED BY <1>1, <1>2 DEF Init, SequentialInv, OneOpen, LevelUnset, Copies, Disagree, NoValue

\* Whatever the number of requests, keys and values: as long as requests at level ALL
\* come one after the other and no replica crashes, no client is told of a
\* disagreement and the replicas hold the owner's values between requests.  No value
\* may read like the message about a disagreement, which a lookup would return.
THEOREM CopiesAlwaysAgree ==
    ASSUME MaxOpen = 1, Disagree \notin Value
    PROVE  Spec => []CopiesAgree
<1>1. Inv /\ SequentialInv /\ [Next]_vars => SequentialInv'
  BY NextSequential
<1>2. SequentialInv => CopiesAgree
  BY DEF SequentialInv, Copies, CopiesAgree, SameValues
<1> QED BY <1>1, <1>2, InitSequential, InvAlways, PTL DEF Spec

================================================================================
