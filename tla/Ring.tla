---------------------------------- MODULE Ring ----------------------------------
(* The ring of Helenus: every member sits at the hash of its network id, a key  *)
(* belongs to the first member whose hash is greater than the key's own, and    *)
(* the next two members on the ring keep replicas of it.                        *)
(*                                                                              *)
(* A ring is the set of hashes in one machine's keyToIPMap.  The operators are  *)
(* the position functions of MembershipList (headers/membershipList.h) and the  *)
(* two functions which turn a change of the ring into work for the key-value    *)
(* store, handleJoin and handleFailOrLeave.                                     *)
EXTENDS Integers, Sequences, FiniteSets, FiniteSetsExt

CONSTANT MaxHash          \* MAX_HASH: one byte of a SHA1 digest, 255 in the code

ASSUME MaxHashAssumption == MaxHash \in Nat

Hash   == 0..MaxHash
NoHash == -1              \* what getHashAtDistance returns when the ring is too small
NoIP   == ""              \* what getIPAtDistance returns when the ring is too small

--------------------------------------------------------------------------------
(* Positions                                                                    *)

\* The member responsible for hash k: the first one above k, else the first one.
OwnerHash(ring, k) ==
    LET above == {h \in ring : h > k}
    IN  IF above # {} THEN Min(above) ELSE Min(ring)

\* The iterator of the map moved one place forward or back, wrapping at the ends.
Successor(ring, h) == OwnerHash(ring, h)

Predecessor(ring, h) ==
    LET below == {x \in ring : x < h}
    IN  IF below # {} THEN Max(below) ELSE Max(ring)

\* getMachineAtDistance, its loop unrolled to the distances it is called with.
\* A ring of n members has no machine at distance n or more, in either direction.
HashAtDistance(ring, self, d) ==
    LET next(h) == Successor(ring, h)
        prev(h) == Predecessor(ring, h)
    IN  IF Cardinality(ring) < (IF d < 0 THEN -d ELSE d) + 1 THEN NoHash
        ELSE CASE d =  1 -> next(self)
               [] d =  2 -> next(next(self))
               [] d =  3 -> next(next(next(self)))
               [] d = -1 -> prev(self)
               [] d = -2 -> prev(prev(self))
               [] d = -3 -> prev(prev(prev(self)))
               [] d = -4 -> prev(prev(prev(prev(self))))

\* map is the keyToIPMap: a function from the hashes of the ring to IPs.
IPAtDistance(map, self, d) ==
    LET h == HashAtDistance(DOMAIN map, self, d)
    IN  IF h = NoHash THEN NoIP ELSE map[h]

IsPredecessor(ring, self, h) == h = HashAtDistance(ring, self, -1)

\* Mutant: only the first of the two replicas counts.
IsFirstReplica(ring, self, h) == h = HashAtDistance(ring, self, 1)

IsReplica(ring, self, h) ==
    h = HashAtDistance(ring, self, 1) \/ h = HashAtDistance(ring, self, 2)

--------------------------------------------------------------------------------
(* Work for the key-value store                                                 *)

\* The keys a range of a message selects: [start, end) on the ring, empty when
\* either end is missing.  A range that wraps is split at MAX_HASH + 1.
InRange(k, start, end) ==
    /\ start >= 0
    /\ end >= 0
    /\ IF start > end THEN k < end \/ start <= k
                      ELSE start <= k /\ k < end

\* class Message, with the fields each kind of it has.
Messages(ips) ==
    [reason : {"join"}, role : {"successor"}, newMember : Hash,
     ownedStart : Hash, deleteStart : Hash \cup {NoHash},
     deleteEnd : Hash \cup {NoHash}]
    \cup [reason : {"join"}, role : {"predecessor"}, newMember : Hash]
    \cup [reason : {"failure"}, role : {"successor"}, failedMember : Hash,
          ownedStart : Hash]
    \cup [reason : {"failure"}, role : {"predecessor"}, failedMember : Hash,
          newSecondReplica : ips \cup {NoIP}]

\* Mutant: a ring of two is no special case.
JoinAsSuccessorNotOfTwo(ring, self, new) ==
    [reason      |-> "join",
     role        |-> "successor",
     newMember   |-> new,
     ownedStart  |-> HashAtDistance(ring, self, -2),
     deleteStart |-> IF Cardinality(ring) = 4 THEN self ELSE HashAtDistance(ring, self, -4),
     deleteEnd   |-> HashAtDistance(ring, self, -3)]

\* Mutant: a ring of four is no special case.
JoinAsSuccessorNotOfFour(ring, self, new) ==
    [reason      |-> "join",
     role        |-> "successor",
     newMember   |-> new,
     ownedStart  |-> IF Cardinality(ring) = 2 THEN self ELSE HashAtDistance(ring, self, -2),
     deleteStart |-> HashAtDistance(ring, self, -4),
     deleteEnd   |-> HashAtDistance(ring, self, -3)]

\* Mutant: the range begins at the new member itself.
JoinAsSuccessorTooNear(ring, self, new) ==
    [reason      |-> "join",
     role        |-> "successor",
     newMember   |-> new,
     ownedStart  |-> IF Cardinality(ring) = 2 THEN self ELSE HashAtDistance(ring, self, -1),
     deleteStart |-> IF Cardinality(ring) = 4 THEN self ELSE HashAtDistance(ring, self, -4),
     deleteEnd   |-> HashAtDistance(ring, self, -3)]

\* What the successor of a new member has to do: hand over the range the new
\* member owns now, and drop the replicas which are one machine too far away.
JoinAsSuccessor(ring, self, new) ==
    LET n == Cardinality(ring)
    IN  [reason      |-> "join",
         role        |-> "successor",
         newMember   |-> new,
         ownedStart  |-> IF n = 2 THEN self ELSE HashAtDistance(ring, self, -2),
         deleteStart |-> IF n = 4 THEN self ELSE HashAtDistance(ring, self, -4),
         deleteEnd   |-> HashAtDistance(ring, self, -3)]

\* What a predecessor of a new member has to do: replicate its own keys there.
JoinAsPredecessor(new) ==
    [reason |-> "join", role |-> "predecessor", newMember |-> new]

\* handleJoin: the messages pushed when new is already in the ring.  In a small
\* ring a machine is successor and predecessor of the new member at once.
JoinMessages(ring, self, new) ==
    IF Cardinality(ring) < 2 THEN <<>>
    ELSE (IF IsPredecessor(ring, self, new)
            THEN <<JoinAsSuccessor(ring, self, new)>> ELSE <<>>)
      \o (IF IsReplica(ring, self, new)
            THEN <<JoinAsPredecessor(new)>> ELSE <<>>)

\* Mutant: a ring of two is no special case.
FailureAsSuccessorNotOfTwo(ring, self, lost) ==
    [reason |-> "failure", role |-> "successor", failedMember |-> lost,
     ownedStart |-> HashAtDistance(ring, self, -2)]

\* Mutant: the range begins one machine too far back.
FailureAsSuccessorTooFar(ring, self, lost) ==
    [reason |-> "failure", role |-> "successor", failedMember |-> lost,
     ownedStart |-> IF Cardinality(ring) <= 3 THEN self ELSE HashAtDistance(ring, self, -3)]

\* What the successor of a lost member has to do: own the range it had.
FailureAsSuccessor(ring, self, lost) ==
    [reason       |-> "failure",
     role         |-> "successor",
     failedMember |-> lost,
     ownedStart   |-> IF Cardinality(ring) = 2
                        THEN self ELSE HashAtDistance(ring, self, -2)]

\* Mutant: distance 2, which is right only once the lost member is off the map.
FailureAsPredecessorAfter(map, self, lost) ==
    [reason |-> "failure", role |-> "predecessor", failedMember |-> lost,
     newSecondReplica |-> IPAtDistance(map, self, 2)]

\* What a predecessor of a lost member has to do: find another second replica.
FailureAsPredecessor(map, self, lost) ==
    [reason           |-> "failure",
     role             |-> "predecessor",
     failedMember     |-> lost,
     newSecondReplica |-> IPAtDistance(map, self, 3)]

\* handleFailOrLeave: the message pushed while lost is still in the map.
FailureMessages(map, self, lost) ==
    LET ring == DOMAIN map
    IN  CASE IsPredecessor(ring, self, lost) ->
               <<FailureAsSuccessor(ring, self, lost)>>
          [] ~IsPredecessor(ring, self, lost) /\ IsReplica(ring, self, lost) ->
               <<FailureAsPredecessor(map, self, lost)>>
          [] OTHER -> <<>>

--------------------------------------------------------------------------------
(* The placement the messages have to establish, used by the properties only.   *)

\* The members that should hold a copy of the key with hash k: its owner and the
\* machines at distance 1 and 2 from it.
Copies(ring, k) ==
    LET owner == OwnerHash(ring, k)
        first == Successor(ring, owner)
    IN  {owner, first, Successor(ring, first)}
================================================================================
