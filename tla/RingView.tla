-------------------------------- MODULE RingView --------------------------------
(* One machine's view of the ring: the keyToIPMap of its MembershipList and the *)
(* Coordinator queue which carries work from the membership list to the thread  *)
(* that runs the key-value store's join and failure handlers.                   *)
(*                                                                              *)
(* Which members come and go is left open here (Gossip.tla says how they do):   *)
(* the module is about the ranges a machine hands over, drops, takes over and   *)
(* replicates at every size and shape of the ring.                              *)
EXTENDS Ring

CONSTANTS Id,             \* network ids, one per incarnation of a machine
          IP,             \* the machines' addresses
          NodeHash,       \* Hash::calculateNodeHash on Id
          IPOf,           \* the address inside a network id
          MaxQueue        \* bound on the messages waiting in the queue

\* Two ids never share a hash.  The code does not guarantee it (a hash is one
\* byte), and what it does when they do share one is outside this module.
ASSUME IdAssumption ==
    /\ NodeHash \in [Id -> Hash]
    /\ IPOf \in [Id -> IP]
    /\ NoIP \notin IP
    /\ \A a, b \in Id : NodeHash[a] = NodeHash[b] => a = b
    /\ MaxQueue \in Nat

VARIABLES self,           \* selfHash: fixed by the constructor
          map,            \* keyToIPMap, a function from the ring's hashes to IPs
          queue           \* Coordinator::messages

vars == <<self, map, queue>>

ring == DOMAIN map

Message == Messages(IP)

--------------------------------------------------------------------------------
\* The constructor: a machine starts alone on its ring.
Init ==
    \E id \in Id :
        /\ self = NodeHash[id]
        /\ map = [h \in {NodeHash[id]} |-> IPOf[id]]
        /\ queue = <<>>

\* addToList: the map takes the new member, then handleJoin looks at the new ring.
AddToList(id) ==
    /\ NodeHash[id] \notin ring
    /\ map' = [h \in ring \cup {NodeHash[id]} |->
                 IF h = NodeHash[id] THEN IPOf[id] ELSE map[h]]
    /\ queue' = queue \o JoinMessages(DOMAIN map', self, NodeHash[id])
    /\ Len(queue') <= MaxQueue
    /\ UNCHANGED self

\* removeFromList: handleFailOrLeave looks at the old ring, then the entry goes.
\* A machine never removes itself (Gossip's SelfPresent).
RemoveFromList(id) ==
    /\ NodeHash[id] \in ring \ {self}
    /\ queue' = queue \o FailureMessages(map, self, NodeHash[id])
    /\ map' = [h \in ring \ {NodeHash[id]} |-> map[h]]
    /\ Len(queue') <= MaxQueue
    /\ UNCHANGED self

\* popMessage: the timer thread takes the message at the head.
PopMessage ==
    /\ queue # <<>>
    /\ queue' = Tail(queue)
    /\ UNCHANGED <<self, map>>

Next ==
    \/ \E id \in Id : AddToList(id) \/ RemoveFromList(id)
    \/ PopMessage

Spec == Init /\ [][Next]_vars

--------------------------------------------------------------------------------
(* Properties                                                                   *)

\* The machine is always on its own ring, and the queue holds well-formed work:
\* a range that is handed over or taken over always has both of its ends (the
\* membership list's -1 for "no such machine" never reaches the store there).
TypeOK ==
    /\ self \in Hash
    /\ self \in ring
    /\ ring \subseteq Hash
    /\ map \in [ring -> IP]
    /\ queue \in Seq(Message)

\* The messages a step pushed.
Pushed == {queue'[i] : i \in Len(queue)+1..Len(queue')}

PushedWith(reason, role) ==
    {m \in Pushed : m.reason = reason /\ m.role = role}

Joined == (DOMAIN map') \ ring
Lost   == ring \ DOMAIN map'

\* handleJoin, role SUCCESSOR: the range named in the message is exactly the set
\* of hashes this machine owned before the join and the new member owns after it;
\* a machine that is handed no such message loses none of its own keys.
JoinMovesOwnedRange ==
    \A k \in Hash, new \in Joined :
        (OwnerHash(ring, k) = self /\ OwnerHash(DOMAIN map', k) # self)
        <=> \E m \in PushedWith("join", "successor") :
              InRange(k, m.ownedStart, m.newMember)

\* handleJoin, role SUCCESSOR: the delete range is exactly the hashes whose copy
\* the successor of the new member no longer has to keep.
JoinDropsLostCopies ==
    \A k \in Hash, new \in Joined : Predecessor(DOMAIN map', self) = new =>
        ((self \in Copies(ring, k) /\ self \notin Copies(DOMAIN map', k))
         <=> \E m \in PushedWith("join", "successor") :
               InRange(k, m.deleteStart, m.deleteEnd))

\* handleJoin, role PREDECESSOR: a machine is told to replicate its keys on the
\* new member exactly when the new member is now one of their replicas.
JoinReplicatesToNewHolder ==
    \A k \in Hash, new \in Joined : OwnerHash(DOMAIN map', k) = self =>
        (new \in Copies(DOMAIN map', k)
         <=> \E m \in PushedWith("join", "predecessor") : m.newMember = new)

\* handleFailOrLeave, role SUCCESSOR: the range named in the message is exactly
\* the set of hashes the lost member owned and this machine owns now.
FailureTakesOverRange ==
    \A k \in Hash, lost \in Lost :
        (OwnerHash(ring, k) = lost /\ OwnerHash(DOMAIN map', k) = self)
        <=> \E m \in PushedWith("failure", "successor") :
              InRange(k, m.ownedStart, m.failedMember)

\* handleFailOrLeave, role PREDECESSOR: of the keys this machine goes on owning,
\* the only machine which newly has to hold a copy is the one the message names.
FailureFindsNewHolder ==
    \A k \in Hash, lost \in Lost :
        (OwnerHash(ring, k) = self) =>
        {map[h] : h \in Copies(DOMAIN map', k) \ Copies(ring, k)}
        = {m.newSecondReplica : m \in PushedWith("failure", "predecessor")} \ {NoIP}

JoinMovesOwnedRangeSteps       == [][JoinMovesOwnedRange]_vars
JoinDropsLostCopiesSteps       == [][JoinDropsLostCopies]_vars
JoinReplicatesToNewHolderSteps == [][JoinReplicatesToNewHolder]_vars
FailureTakesOverSteps          == [][FailureTakesOverRange /\ FailureFindsNewHolder]_vars
================================================================================
