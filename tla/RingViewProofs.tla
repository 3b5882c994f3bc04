----------------------------- MODULE RingViewProofs ------------------------------
(* Proofs about RingView: that the work handed to the key-value store when a      *)
(* member joins or leaves is the right work, on rings of every size and shape.    *)
(*                                                                               *)
(* TypeOK is inductive as it stands; each step property follows from it and from *)
(* what OperatorProofs says of a ring that gains or loses one member.                *)
EXTENDS RingView, OperatorProofs

USE MaxHashAssumption

--------------------------------------------------------------------------------
(* The messages                                                                 *)

\* The messages a step pushed are the ones it appended to the queue.
LEMMA PushedAre ==
    ASSUME queue \in Seq(Message), NEW M \in Seq(Message), queue' = queue \o M
    PROVE  Pushed = {M[i] : i \in 1..Len(M)}
<1>1. Len(queue') = Len(queue) + Len(M)
  BY ConcatProperties
<1>2. \A i \in 1..Len(M) : queue'[Len(queue) + i] = M[i]
  BY ConcatProperties
<1>3. Len(queue) \in Nat /\ Len(M) \in Nat
  OBVIOUS
<1>4. ASSUME NEW j \in Len(queue)+1..Len(queue')
      PROVE  j - Len(queue) \in 1..Len(M) /\ queue'[j] = M[j - Len(queue)]
  <2>1. j - Len(queue) \in 1..Len(M) /\ Len(queue) + (j - Len(queue)) = j
    BY <1>1, <1>3
  <2>2. QED
    BY <1>2, <2>1
<1>5. ASSUME NEW i \in 1..Len(M)
      PROVE  Len(queue) + i \in Len(queue)+1..Len(queue')
  BY <1>1, <1>3
<1>6. Pushed \subseteq {M[i] : i \in 1..Len(M)}
  BY <1>4 DEF Pushed
<1>7. {M[i] : i \in 1..Len(M)} \subseteq Pushed
  BY <1>2, <1>5 DEF Pushed
<1>8. QED
  BY <1>6, <1>7

--------------------------------------------------------------------------------
(* The invariant                                                                *)

\* A join, in the terms of the ring.
LEMMA AddToListMeans ==
    ASSUME IdAssumption, TypeOK, NEW id \in Id, AddToList(id)
    PROVE  LET x == NodeHash[id]
               M == JoinMessages(ring \cup {x}, self, x)
           IN  /\ x \in Hash \ ring
               /\ DOMAIN map' = ring \cup {x}
               /\ map' \in [ring \cup {x} -> IP]
               /\ M \in Seq(Message)
               /\ queue' = queue \o M
               /\ self' = self
<1> DEFINE x == NodeHash[id]
           R == ring \cup {x}
<1>1. x \in Hash \ ring /\ IPOf[id] \in IP
  BY DEF IdAssumption, AddToList
<1>2. DOMAIN map' = R /\ map' \in [R -> IP]
  BY <1>1 DEF AddToList, TypeOK
<1>3. R \in SUBSET Hash /\ self \in R /\ x \in R \ {self}
  BY <1>1 DEF TypeOK
<1>4. JoinMessages(R, self, x) \in Seq(Message)
  BY <1>3, JoinMessagesMean DEF Message
<1>5. queue' = queue \o JoinMessages(R, self, x)
  BY <1>2 DEF AddToList
<1>6. QED
  BY <1>1, <1>2, <1>4, <1>5 DEF AddToList

\* A failure or a leave, in the terms of the ring.
LEMMA RemoveFromListMeans ==
    ASSUME IdAssumption, TypeOK, NEW id \in Id, RemoveFromList(id)
    PROVE  LET x == NodeHash[id]
               M == FailureMessages(map, self, x)
           IN  /\ x \in ring \ {self}
               /\ DOMAIN map' = ring \ {x}
               /\ map' \in [ring \ {x} -> IP]
               /\ M \in Seq(Message)
               /\ queue' = queue \o M
               /\ self' = self
<1> DEFINE x == NodeHash[id]
<1>1. x \in ring \ {self}
  BY DEF RemoveFromList
<1>2. DOMAIN map' = ring \ {x} /\ map' \in [ring \ {x} -> IP]
  BY DEF RemoveFromList, TypeOK
<1>3. FailureMessages(map, self, x) \in Seq(Message)
  BY <1>1, FailureMessagesMean DEF TypeOK, ring, Message
<1>4. QED
  BY <1>1, <1>2, <1>3 DEF RemoveFromList

\* Every reachable state is well typed: a range which is handed over or taken over
\* always has both of its ends, whatever the size of the ring.
THEOREM TypeCorrect == Spec => []TypeOK
<1>1. Init => TypeOK
  <2> SUFFICES ASSUME NEW id \in Id,
                      self = NodeHash[id],
                      map = [h \in {NodeHash[id]} |-> IPOf[id]],
                      queue = <<>>
               PROVE  TypeOK
    BY DEF Init
  <2>1. NodeHash[id] \in Hash /\ IPOf[id] \in IP
    BY IdAssumption
  <2>2. queue \in Seq(Message)
    OBVIOUS
  <2>3. QED
    BY <2>1, <2>2 DEF TypeOK, ring
<1>2. TypeOK /\ [Next]_vars => TypeOK'
  <2> SUFFICES ASSUME TypeOK, [Next]_vars PROVE TypeOK'
    OBVIOUS
  <2>1. ASSUME NEW id \in Id, AddToList(id) PROVE TypeOK'
    <3> DEFINE M == JoinMessages(ring \cup {NodeHash[id]}, self, NodeHash[id])
    <3>1. /\ NodeHash[id] \in Hash \ ring
          /\ DOMAIN map' = ring \cup {NodeHash[id]}
          /\ map' \in [ring \cup {NodeHash[id]} -> IP]
          /\ M \in Seq(Message)
          /\ queue' = queue \o M
          /\ self' = self
      BY <2>1, IdAssumption, AddToListMeans
    <3> HIDE DEF M
    <3>2. queue' \in Seq(Message)
      BY <3>1 DEF TypeOK
    <3>3. QED
      BY <3>1, <3>2 DEF TypeOK, ring
  <2>2. ASSUME NEW id \in Id, RemoveFromList(id) PROVE TypeOK'
    <3> DEFINE M == FailureMessages(map, self, NodeHash[id])
    <3>1. /\ NodeHash[id] \in ring \ {self}
          /\ DOMAIN map' = ring \ {NodeHash[id]}
          /\ map' \in [ring \ {NodeHash[id]} -> IP]
          /\ M \in Seq(Message)
          /\ queue' = queue \o M
          /\ self' = self
      BY <2>2, IdAssumption, RemoveFromListMeans
    <3> HIDE DEF M
    <3>2. queue' \in Seq(Message)
      BY <3>1 DEF TypeOK
    <3>3. QED
      BY <3>1, <3>2 DEF TypeOK, ring
  <2>3. CASE PopMessage
    <3>1. queue' \in Seq(Message)
      BY <2>3, HeadTailProperties DEF PopMessage, TypeOK
    <3>2. QED
      BY <2>3, <3>1 DEF PopMessage, TypeOK, ring
  <2>4. CASE UNCHANGED vars
    BY <2>4 DEF vars, TypeOK, ring
  <2>5. QED
    BY <2>1, <2>2, <2>3, <2>4 DEF Next
<1>3. QED
  BY <1>1, <1>2, PTL DEF Spec

\* A step that brings or takes no member pushes no work of that kind.
LEMMA OnlyOneKind ==
    ASSUME IdAssumption, TypeOK, [Next]_vars
    PROVE  /\ Joined # {} => \E id \in Id : AddToList(id)
           /\ Lost # {} => \E id \in Id : RemoveFromList(id)
<1>1. ASSUME NEW id \in Id, AddToList(id) PROVE Lost = {}
  BY <1>1, AddToListMeans DEF Lost
<1>2. ASSUME NEW id \in Id, RemoveFromList(id) PROVE Joined = {}
  BY <1>2, RemoveFromListMeans DEF Joined
<1>3. PopMessage \/ UNCHANGED vars => Joined = {} /\ Lost = {}
  BY DEF PopMessage, vars, Joined, Lost, ring
<1>4. QED
  BY <1>1, <1>2, <1>3 DEF Next

--------------------------------------------------------------------------------
(* Joins                                                                        *)

\* The messages of each role that handleJoin pushes.
LEMMA PushedByJoin ==
    ASSUME queue \in Seq(Message), NEW R \in SUBSET Hash, self \in R,
           NEW x \in R \ {self}, queue' = queue \o JoinMessages(R, self, x)
    PROVE  /\ PushedWith("join", "successor") =
                IF x = Predecessor(R, self) THEN {JoinAsSuccessor(R, self, x)} ELSE {}
           /\ PushedWith("join", "predecessor") =
                IF x \in {Successor(R, self), Successor(R, Successor(R, self))}
                  THEN {JoinAsPredecessor(x)} ELSE {}
<1> DEFINE M == JoinMessages(R, self, x)
           a == JoinAsSuccessor(R, self, x)
           b == JoinAsPredecessor(x)
           A == IF x = Predecessor(R, self) THEN {a} ELSE {}
           B == IF x \in {Successor(R, self), Successor(R, Successor(R, self))}
                  THEN {b} ELSE {}
<1>1. /\ M \in Seq(Message)
      /\ {M[i] : i \in 1..Len(M)} =
           (IF IsPredecessor(R, self, x) THEN {a} ELSE {})
           \cup (IF IsReplica(R, self, x) THEN {b} ELSE {})
  BY JoinMessagesMean DEF Message
<1>2. IsPredecessor(R, self, x) <=> x = Predecessor(R, self)
  BY IsPredecessorMeans
<1>3. IsReplica(R, self, x)
        <=> x \in {Successor(R, self), Successor(R, Successor(R, self))}
  BY IsReplicaMeans
<1>4. x = Predecessor(R, self) => a.reason = "join" /\ a.role = "successor"
  BY JoinAsSuccessorMeans
<1>5. b.reason = "join" /\ b.role = "predecessor"
  BY DEF JoinAsPredecessor
<1>6. Pushed = {M[i] : i \in 1..Len(M)}
  BY <1>1, PushedAre
<1>7. Pushed = A \cup B
  BY <1>1, <1>2, <1>3, <1>6
<1>8. /\ \A m \in A : m.reason = "join" /\ m.role = "successor"
      /\ \A m \in B : m.reason = "join" /\ m.role = "predecessor"
  BY <1>4, <1>5
<1> HIDE DEF A, B
<1>9. PushedWith("join", "successor") = A /\ PushedWith("join", "predecessor") = B
  <2>1. "successor" # "predecessor"
    OBVIOUS
  <2>2. QED
    BY <1>7, <1>8, <2>1 DEF PushedWith
<1>10. QED
  BY <1>9 DEF A, B

\* The messages of each role a join pushed.
LEMMA JoinPushes ==
    ASSUME IdAssumption, TypeOK, NEW id \in Id, AddToList(id)
    PROVE  LET x == NodeHash[id]
               R == ring \cup {x}
           IN  /\ x \in Hash \ ring /\ DOMAIN map' = R /\ Joined = {x}
               /\ ring \in SUBSET Hash /\ R \in SUBSET Hash /\ self \in ring
               /\ self \in R /\ x \in R \ {self}
               /\ PushedWith("join", "successor") =
                    IF x = Predecessor(R, self)
                      THEN {JoinAsSuccessor(R, self, x)} ELSE {}
               /\ PushedWith("join", "predecessor") =
                    IF x \in {Successor(R, self), Successor(R, Successor(R, self))}
                      THEN {JoinAsPredecessor(x)} ELSE {}
<1> DEFINE x == NodeHash[id]
           R == ring \cup {x}
<1>1. /\ x \in Hash \ ring /\ DOMAIN map' = R
      /\ queue' = queue \o JoinMessages(R, self, x)
  BY AddToListMeans
<1>2. Joined = {x}
  BY <1>1 DEF Joined
<1>3. ring \in SUBSET Hash /\ R \in SUBSET Hash /\ self \in ring /\ self \in R
      /\ x \in R \ {self} /\ queue \in Seq(Message)
  BY <1>1 DEF TypeOK
<1> HIDE DEF x, R
<1>4. /\ PushedWith("join", "successor") =
           IF x = Predecessor(R, self) THEN {JoinAsSuccessor(R, self, x)} ELSE {}
      /\ PushedWith("join", "predecessor") =
           IF x \in {Successor(R, self), Successor(R, Successor(R, self))}
             THEN {JoinAsPredecessor(x)} ELSE {}
  BY <1>1, <1>3, PushedByJoin
<1>5. QED
  BY <1>1, <1>2, <1>3, <1>4 DEF x, R

\* Every join hands over exactly the range that changes its owner.
LEMMA JoinMoves ==
    ASSUME IdAssumption, TypeOK, [Next]_vars
    PROVE  JoinMovesOwnedRange
<1> SUFFICES ASSUME NEW k \in Hash, NEW new \in Joined
             PROVE  (OwnerHash(ring, k) = self /\ OwnerHash(DOMAIN map', k) # self)
                    <=> \E m \in PushedWith("join", "successor") :
                          InRange(k, m.ownedStart, m.newMember)
  BY DEF JoinMovesOwnedRange
<1>1. PICK id \in Id : AddToList(id)
  BY OnlyOneKind
<1> DEFINE x == NodeHash[id]
           R == ring \cup {x}
           a == JoinAsSuccessor(R, self, x)
<1>2. /\ x \in Hash \ ring /\ DOMAIN map' = R
      /\ ring \in SUBSET Hash /\ R \in SUBSET Hash /\ self \in ring
      /\ PushedWith("join", "successor") =
           IF x = Predecessor(R, self) THEN {a} ELSE {}
  BY <1>1, JoinPushes
<1>3. x = Predecessor(R, self)
        => a.ownedStart = Predecessor(R, x) /\ a.newMember = x
  <2>1. self \in R /\ x \in R \ {self}
    BY <1>2
  <2>2. QED
    BY <1>2, <2>1, JoinAsSuccessorMeans
<1>4. OwnerHash(R, k) \in {OwnerHash(ring, k), x}
  BY <1>2, OwnerAfterAdding
<1>5. OwnerHash(ring, k) = self /\ OwnerHash(R, k) = x
        <=> Predecessor(R, self) = x /\ InRange(k, Predecessor(R, x), x)
  BY <1>2, OwnedRangeMoves
<1>6. x # self
  BY <1>2
<1> HIDE DEF x, R, a
<1>7. QED
  BY <1>2, <1>3, <1>4, <1>5, <1>6

\* A join makes exactly the machines two places before it replicate their keys there.
LEMMA JoinReplicates ==
    ASSUME IdAssumption, TypeOK, [Next]_vars
    PROVE  JoinReplicatesToNewHolder
<1> SUFFICES ASSUME NEW k \in Hash, NEW new \in Joined,
                    OwnerHash(DOMAIN map', k) = self
             PROVE  new \in Copies(DOMAIN map', k)
                    <=> \E m \in PushedWith("join", "predecessor") : m.newMember = new
  BY DEF JoinReplicatesToNewHolder
<1>1. PICK id \in Id : AddToList(id)
  BY OnlyOneKind
<1> DEFINE x == NodeHash[id]
           R == ring \cup {x}
           s1 == Successor(R, self)
           s2 == Successor(R, s1)
<1>2. /\ x \in Hash \ ring /\ DOMAIN map' = R /\ Joined = {x} /\ self \in ring
      /\ PushedWith("join", "predecessor") =
           IF x \in {s1, s2} THEN {JoinAsPredecessor(x)} ELSE {}
  BY <1>1, JoinPushes
<1>3. Copies(R, k) = {self, s1, s2}
  BY <1>2 DEF Copies
<1>4. JoinAsPredecessor(x).newMember = x
  BY DEF JoinAsPredecessor
<1>5. new = x /\ x # self
  BY <1>2
<1> HIDE DEF x, R, s1, s2
<1>6. QED
  BY <1>2, <1>3, <1>4, <1>5

\* A join makes its successor drop exactly the copies it need not keep any more.
LEMMA JoinDrops ==
    ASSUME IdAssumption, TypeOK, [Next]_vars
    PROVE  JoinDropsLostCopies
<1> SUFFICES ASSUME NEW k \in Hash, NEW new \in Joined,
                    Predecessor(DOMAIN map', self) = new
             PROVE  (self \in Copies(ring, k) /\ self \notin Copies(DOMAIN map', k))
                    <=> \E m \in PushedWith("join", "successor") :
                          InRange(k, m.deleteStart, m.deleteEnd)
  BY DEF JoinDropsLostCopies
<1>1. PICK id \in Id : AddToList(id)
  BY OnlyOneKind
<1> DEFINE x  == NodeHash[id]
           R  == ring \cup {x}
           a  == JoinAsSuccessor(R, self, x)
           n  == Cardinality(R)
           p2 == Predecessor(R, x)
           p3 == Predecessor(R, p2)
           p4 == Predecessor(R, p3)
           o  == OwnerHash(ring, k)
           o1 == OwnerHash(R, k)
<1>2. /\ x \in Hash \ ring /\ DOMAIN map' = R /\ Joined = {x}
      /\ ring \in SUBSET Hash /\ R \in SUBSET Hash /\ self \in ring
      /\ PushedWith("join", "successor") =
           IF x = Predecessor(R, self) THEN {a} ELSE {}
  BY <1>1, JoinPushes
<1>3. x = Predecessor(R, self) /\ self \in R /\ x \in R \ {self}
  BY <1>2
<1>4. /\ a.deleteStart = IF n < 4 THEN NoHash ELSE p4
      /\ a.deleteEnd = IF n < 4 THEN NoHash ELSE p3
  BY <1>2, <1>3, JoinAsSuccessorMeans
<1>5. /\ n \in Nat \ {0} /\ {p2, p3, p4} \subseteq R /\ n >= 2
      /\ n >= 3 => p2 # self /\ p2 # x
      /\ n >= 4 => p3 # self /\ p3 # x /\ p3 # p2
      /\ n = 2 => p2 = self
      /\ n = 3 => p3 = self
  BY <1>2, <1>3, RingSize, RingOfTwo
<1>6. /\ self \in Copies(ring, k)
           <=> o \in {self, Predecessor(ring, self),
                      Predecessor(ring, Predecessor(ring, self))}
      /\ self \in Copies(R, k) <=> o1 \in {self, x, p2}
  BY <1>2, <1>3, CopyHolders
<1>7. o1 \in R /\ o1 \in {o, x} /\ o \in ring
  BY <1>2, OwnerOnRing, OwnerAfterAdding
<1>8. Predecessor(ring, self) = p2
  BY <1>2, <1>3, PredecessorAfterAdding
<1>9. CASE n < 4
  <2>1. self \in Copies(R, k)
    <3>1. R = {self, x, p2}
      BY <1>2, <1>3, <1>9, SmallRing
    <3>2. QED
      BY <1>6, <1>7, <3>1
  <2>2. ~ InRange(k, a.deleteStart, a.deleteEnd)
    BY <1>4, <1>9 DEF InRange, NoHash
  <2> HIDE DEF a
  <2>3. QED
    BY <1>2, <2>1, <2>2
<1>10. CASE n >= 4
  <2>1. p2 \in ring /\ p2 # self /\ p2 # x /\ p3 # self /\ p3 # x /\ p3 # p2
    BY <1>5, <1>10
  <2>2. Predecessor(ring, p2) = p3
    <3> HIDE DEF p2, x
    <3>1. \A p : p = Predecessor(R, p2) => Predecessor(ring, p2) = IF p = x THEN p2 ELSE p
      BY <1>2, <2>1, PredecessorAfterAdding DEF p2
    <3>2. QED
      BY <2>1, <3>1
  <2>3. self \in Copies(ring, k) /\ self \notin Copies(R, k) <=> o1 = p3
    <3>1. self \in Copies(ring, k) <=> o \in {self, p2, p3}
      BY <1>6, <1>8, <2>2
    <3> HIDE DEF o, o1, p2, p3
    <3>2. self \in Copies(ring, k) /\ self \notin Copies(R, k) => o1 = p3
      BY <1>6, <1>7, <3>1
    <3>3. o1 = p3 => self \in Copies(ring, k) /\ self \notin Copies(R, k)
      BY <1>6, <1>7, <2>1, <3>1
    <3>4. QED
      BY <3>2, <3>3
  <2>4. p4 # p3
    <3>1. p4 = p3 => p3 = p2
      BY <1>2, <1>5, PredecessorInjective
    <3>2. QED
      BY <2>1, <3>1
  <2>5. o1 = p3 <=> InRange(k, p4, p3)
    BY <1>2, <1>5, <2>4, OwnedRange
  <2>6. a.deleteStart = p4 /\ a.deleteEnd = p3
    BY <1>4, <1>5, <1>10
  <2> HIDE DEF a, p3, p4, o1
  <2>7. QED
    BY <1>2, <1>3, <2>3, <2>5, <2>6
<1>11. QED
  BY <1>5, <1>9, <1>10

--------------------------------------------------------------------------------
(* Failures and leaves                                                          *)

\* The messages of each role that handleFailOrLeave pushes.
LEMMA PushedByFailure ==
    ASSUME IdAssumption, TypeOK, NEW x \in ring \ {self},
           queue' = queue \o FailureMessages(map, self, x)
    PROVE  LET s1 == Successor(ring, self)
               s2 == Successor(ring, s1)
               s3 == Successor(ring, s2)
           IN  /\ PushedWith("failure", "successor") =
                    IF x = Predecessor(ring, self)
                      THEN {[reason |-> "failure", role |-> "successor",
                             failedMember |-> x, ownedStart |-> Predecessor(ring, x)]}
                      ELSE {}
               /\ {m.newSecondReplica : m \in PushedWith("failure", "predecessor")} =
                    IF x # Predecessor(ring, self) /\ x \in {s1, s2}
                      THEN {IF Cardinality(ring) < 4 THEN NoIP ELSE map[s3]}
                      ELSE {}
<1> DEFINE M  == FailureMessages(map, self, x)
           s1 == Successor(ring, self)
           s2 == Successor(ring, s1)
           ip == IF Cardinality(ring) < 4 THEN NoIP ELSE map[Successor(ring, s2)]
           a  == [reason |-> "failure", role |-> "successor",
                  failedMember |-> x, ownedStart |-> Predecessor(ring, x)]
           b  == [reason |-> "failure", role |-> "predecessor",
                  failedMember |-> x, newSecondReplica |-> ip]
           A  == IF x = Predecessor(ring, self) THEN {a} ELSE {}
           B  == IF x # Predecessor(ring, self) /\ x \in {s1, s2} THEN {b} ELSE {}
<1>1. M \in Seq(Message) /\ {M[i] : i \in 1..Len(M)} = A \cup B
  <2>1. /\ DOMAIN map \in SUBSET Hash /\ map \in [DOMAIN map -> IP]
        /\ self \in DOMAIN map /\ x \in (DOMAIN map) \ {self}
    BY DEF TypeOK, ring
  <2>2. /\ M \in Seq(Message)
        /\ x = Predecessor(ring, self) => M = <<a>>
        /\ x # Predecessor(ring, self) /\ x \in {s1, s2} => M = <<b>>
        /\ x # Predecessor(ring, self) /\ x \notin {s1, s2} => M = << >>
    BY <2>1, FailureMessagesMean, Zenon DEF ring, Message
  <2> HIDE DEF M, a, b
  <2>3. CASE x = Predecessor(ring, self)
    <3>1. Len(M) = 1 /\ M[1] = a
      BY <2>2, <2>3
    <3>2. {M[i] : i \in 1..Len(M)} = {a}
      BY <3>1
    <3>3. QED
      BY <2>2, <2>3, <3>2
  <2>4. CASE x # Predecessor(ring, self) /\ x \in {s1, s2}
    <3>1. Len(M) = 1 /\ M[1] = b
      BY <2>2, <2>4
    <3>2. {M[i] : i \in 1..Len(M)} = {b}
      BY <3>1
    <3>3. QED
      BY <2>2, <2>4, <3>2
  <2>5. CASE x # Predecessor(ring, self) /\ x \notin {s1, s2}
    <3>1. M = << >>
      BY <2>2, <2>5
    <3>2. QED
      BY <2>5, <3>1
  <2>6. QED
    BY <2>3, <2>4, <2>5
<1>2. Pushed = {M[i] : i \in 1..Len(M)}
  BY <1>1, PushedAre DEF TypeOK
<1>3. /\ a.reason = "failure" /\ a.role = "successor"
      /\ b.reason = "failure" /\ b.role = "predecessor" /\ b.newSecondReplica = ip
  OBVIOUS
<1> HIDE DEF a, b
<1>4. /\ \A m \in A : m.reason = "failure" /\ m.role = "successor"
      /\ \A m \in B : m.reason = "failure" /\ m.role = "predecessor"
  BY <1>3
<1>5. {m.newSecondReplica : m \in B} =
        IF x # Predecessor(ring, self) /\ x \in {s1, s2} THEN {ip} ELSE {}
  BY <1>3
<1> HIDE DEF A, B
<1>6. PushedWith("failure", "successor") = A /\ PushedWith("failure", "predecessor") = B
  <2>1. "successor" # "predecessor"
    OBVIOUS
  <2>2. QED
    BY <1>1, <1>2, <1>4, <2>1 DEF PushedWith
<1>7. QED
  BY <1>5, <1>6 DEF A, a

\* A failure or a leave, with the messages of each role it pushed.
LEMMA FailurePushes ==
    ASSUME IdAssumption, TypeOK, NEW id \in Id, RemoveFromList(id)
    PROVE  LET x  == NodeHash[id]
               s1 == Successor(ring, self)
               s2 == Successor(ring, s1)
               s3 == Successor(ring, s2)
           IN  /\ x \in ring \ {self} /\ Lost = {x} /\ DOMAIN map' = ring \ {x}
               /\ ring \in SUBSET Hash /\ ring \ {x} \in SUBSET Hash
               /\ x \in Hash \ (ring \ {x}) /\ self \in ring \ {x}
               /\ ring = (ring \ {x}) \cup {x}
               /\ PushedWith("failure", "successor") =
                    IF x = Predecessor(ring, self)
                      THEN {[reason |-> "failure", role |-> "successor",
                             failedMember |-> x, ownedStart |-> Predecessor(ring, x)]}
                      ELSE {}
               /\ {m.newSecondReplica : m \in PushedWith("failure", "predecessor")} =
                    IF x # Predecessor(ring, self) /\ x \in {s1, s2}
                      THEN {IF Cardinality(ring) < 4 THEN NoIP ELSE map[s3]}
                      ELSE {}
<1> DEFINE x == NodeHash[id]
<1>1. /\ x \in ring \ {self} /\ DOMAIN map' = ring \ {x}
      /\ queue' = queue \o FailureMessages(map, self, x)
  BY RemoveFromListMeans
<1>2. Lost = {x}
  BY <1>1 DEF Lost
<1>3. /\ ring \in SUBSET Hash /\ ring \ {x} \in SUBSET Hash
      /\ x \in Hash \ (ring \ {x}) /\ self \in ring \ {x}
      /\ ring = (ring \ {x}) \cup {x}
  BY <1>1 DEF TypeOK
<1> HIDE DEF x
<1>4. QED
  BY <1>1, <1>2, <1>3, PushedByFailure, Zenon DEF x

\* Every failure or leave takes over exactly the range that finds a new owner here.
LEMMA FailureTakesOver ==
    ASSUME IdAssumption, TypeOK, [Next]_vars
    PROVE  FailureTakesOverRange
<1> SUFFICES ASSUME NEW k \in Hash, NEW lost \in Lost
             PROVE  (OwnerHash(ring, k) = lost /\ OwnerHash(DOMAIN map', k) = self)
                    <=> \E m \in PushedWith("failure", "successor") :
                          InRange(k, m.ownedStart, m.failedMember)
  BY DEF FailureTakesOverRange
<1>1. PICK id \in Id : RemoveFromList(id)
  BY OnlyOneKind
<1> DEFINE x == NodeHash[id]
           R == ring \ {x}
           p == Predecessor(ring, x)
           a == [reason |-> "failure", role |-> "successor",
                 failedMember |-> x, ownedStart |-> p]
<1>2. /\ x \in ring \ {self} /\ Lost = {x} /\ DOMAIN map' = R
      /\ ring \in SUBSET Hash /\ R \in SUBSET Hash
      /\ x \in Hash \ R /\ self \in R
      /\ ring = R \cup {x}
      /\ PushedWith("failure", "successor") =
           IF x = Predecessor(ring, self) THEN {a} ELSE {}
  BY <1>1, FailurePushes
<1>3. a.ownedStart = p /\ a.failedMember = x
  OBVIOUS
<1> HIDE DEF x, R, p, a
<1>4. OwnerHash(R, k) = self /\ OwnerHash(R \cup {x}, k) = x
        <=> Predecessor(R \cup {x}, self) = x
            /\ InRange(k, Predecessor(R \cup {x}, x), x)
  BY <1>2, OwnedRangeMoves
<1>5. OwnerHash(R, k) = self /\ OwnerHash(ring, k) = x
        <=> Predecessor(ring, self) = x /\ InRange(k, p, x)
  BY <1>2, <1>4 DEF p
<1>6. QED
  BY <1>2, <1>3, <1>5

\* Of the keys a machine goes on owning, exactly one machine newly has to hold a
\* copy, the one that handleFailOrLeave names.
LEMMA FailureFinds ==
    ASSUME IdAssumption, TypeOK, [Next]_vars
    PROVE  FailureFindsNewHolder
<1> SUFFICES ASSUME NEW k \in Hash, NEW lost \in Lost, OwnerHash(ring, k) = self
             PROVE  {map[h] : h \in Copies(DOMAIN map', k) \ Copies(ring, k)}
                    = {m.newSecondReplica : m \in PushedWith("failure", "predecessor")}
                      \ {NoIP}
  BY DEF FailureFindsNewHolder
<1>1. PICK id \in Id : RemoveFromList(id)
  BY OnlyOneKind
<1> DEFINE x  == NodeHash[id]
           R  == ring \ {x}
           n  == Cardinality(ring)
           s1 == Successor(ring, self)
           s2 == Successor(ring, s1)
           s3 == Successor(ring, s2)
           t1 == Successor(R, self)
           t2 == Successor(R, t1)
           named == {m.newSecondReplica : m \in PushedWith("failure", "predecessor")}
<1>2. /\ x \in ring \ {self} /\ DOMAIN map' = R
      /\ ring \in SUBSET Hash /\ R \in SUBSET Hash
      /\ x \in Hash \ R /\ self \in R
      /\ ring = R \cup {x}
      /\ named = IF x # Predecessor(ring, self) /\ x \in {s1, s2}
                   THEN {IF n < 4 THEN NoIP ELSE map[s3]} ELSE {}
  BY <1>1, FailurePushes
<1>3. /\ n \in Nat \ {0} /\ n >= 2 /\ {s1, s2, s3} \subseteq ring
      /\ s1 # self
      /\ n >= 3 => s2 # self /\ s2 # s1
      /\ n >= 4 => s3 # self /\ s3 # s1 /\ s3 # s2
      /\ n = 2 => s2 = self
      /\ n = 3 => s3 = self
  BY <1>2, RingSizeForward, RingOfTwo
<1>4. Copies(ring, k) = {self, s1, s2}
  BY DEF Copies
<1>5. OwnerHash(R, k) = self
  <2>1. OwnerHash(R \cup {x}, k) \in {OwnerHash(R, k), x}
    BY <1>2, OwnerAfterAdding
  <2>2. QED
    BY <1>2, <2>1
<1>6. Copies(R, k) = {self, t1, t2} /\ t1 \in R /\ t2 \in R
  <2>1. t1 \in R /\ t2 \in R
    BY <1>2, OwnerOnRing DEF Successor
  <2>2. QED
    BY <1>5, <2>1 DEF Copies
<1>7. map \in [ring -> IP] /\ NoIP \notin IP
  BY IdAssumption DEF TypeOK
<1>8. \A h \in R : \A s : s = Successor(ring, h) =>
        Successor(R, h) = IF s = x THEN Successor(ring, x) ELSE s
  BY <1>2, SuccessorAfterAdding
<1>9. /\ s1 # x => t1 = s1
      /\ s1 = x => t1 = s2
      /\ s1 # x /\ s2 # x => t2 = s2
      /\ s1 # x /\ s2 = x => t2 = s3
      /\ s1 = x /\ s2 # self => t2 = s3
  <2>1. (s1 # x => t1 = s1) /\ (s1 = x => t1 = s2)
    BY <1>2, <1>8
  <2>2. s1 # x => t2 = IF s2 = x THEN s3 ELSE s2
    <3>1. s1 # x => s1 \in R
      BY <1>2, <1>3
    <3>2. QED
      BY <1>8, <2>1, <3>1
  <2>3. s1 = x /\ s2 # self => t2 = s3
    <3> SUFFICES ASSUME s1 = x, s2 # self PROVE t2 = s3
      OBVIOUS
    <3>1. n >= 3 /\ s2 # x
      BY <1>3
    <3>2. s3 # x
      BY <1>3, <3>1
    <3>3. s2 \in R
      BY <1>2, <1>3, <3>1
    <3>4. QED
      BY <1>8, <2>1, <3>2, <3>3
  <2>4. QED
    BY <2>1, <2>2, <2>3
<1>10. /\ x = Predecessor(ring, self) <=> Successor(ring, x) = self
       /\ Predecessor(ring, self) = s1 => n = 2
       /\ Predecessor(ring, self) = s2 => n <= 3
  <2>1. x = Predecessor(ring, self) <=> Successor(ring, x) = self
    BY <1>2, SuccessorOfPredecessor
  <2>2. Predecessor(ring, self) = s1 => s2 = self
    BY <1>2, SuccessorOfPredecessor
  <2>3. Predecessor(ring, self) = s2 => s3 = self
    BY <1>2, SuccessorOfPredecessor
  <2> HIDE DEF n, s1, s2, s3
  <2>4. QED
    BY <1>3, <2>1, <2>2, <2>3
<1> DEFINE fresh == Copies(R, k) \ Copies(ring, k)
<1>11. {map[h] : h \in fresh} = named \ {NoIP}
  <2>1. CASE n < 4
    <3>1. fresh = {}
      <4>1. ring = {self, s1, s2}
        BY <1>2, <2>1, SmallRing
      <4>2. QED
        BY <1>2, <1>4, <1>6, <4>1
    <3>2. named \ {NoIP} = {}
      BY <1>2, <2>1
    <3>3. QED
      BY <3>1, <3>2
  <2>2. CASE n >= 4 /\ x \in {s1, s2}
    <3>1. x # Predecessor(ring, self)
      BY <1>3, <1>10, <2>2
    <3>2. t1 \in {s1, s2} /\ t1 # x /\ t2 = s3
      BY <1>3, <1>9, <2>2
    <3>3. fresh = {s3}
      BY <1>3, <1>4, <1>6, <2>2, <3>2
    <3>4. map[s3] \in IP
      BY <1>3, <1>7
    <3>5. named = {map[s3]}
      BY <1>2, <1>3, <2>2, <3>1
    <3>6. QED
      BY <1>7, <3>3, <3>4, <3>5
  <2>3. CASE n >= 4 /\ x \notin {s1, s2}
    <3>1. fresh = {}
      BY <1>4, <1>6, <1>9, <2>3
    <3>2. named = {}
      BY <1>2, <2>3
    <3>3. QED
      BY <3>1, <3>2
  <2>4. n < 4 \/ n >= 4
    BY <1>3
  <2> HIDE DEF n, fresh, named
  <2>5. QED
    BY <2>1, <2>2, <2>3, <2>4
<1>12. QED
  BY <1>2, <1>11

--------------------------------------------------------------------------------
(* The step properties of the specification                                     *)

\* On every ring the range handed over at a join is exactly the hashes this machine
\* owned and the new member owns now, the special case of two machines included.
THEOREM JoinMovesOwnedCorrect == Spec => JoinMovesOwnedRangeSteps
<1>1. TypeOK /\ [Next]_vars => JoinMovesOwnedRange
  BY IdAssumption, JoinMoves
<1>2. QED
  BY <1>1, TypeCorrect, PTL DEF Spec, JoinMovesOwnedRangeSteps

\* On every ring a machine is told to replicate its keys on a new member exactly
\* when the new member is one of their replicas.
THEOREM JoinReplicatesCorrect == Spec => JoinReplicatesToNewHolderSteps
<1>1. TypeOK /\ [Next]_vars => JoinReplicatesToNewHolder
  BY IdAssumption, JoinReplicates
<1>2. QED
  BY <1>1, TypeCorrect, PTL DEF Spec, JoinReplicatesToNewHolderSteps

\* On every ring the delete range of a join is exactly the hashes whose copy the
\* successor of the new member does not hold any more, the rings of four machines
\* and of fewer included.
THEOREM JoinDropsCorrect == Spec => JoinDropsLostCopiesSteps
<1>1. TypeOK /\ [Next]_vars => JoinDropsLostCopies
  BY IdAssumption, JoinDrops
<1>2. QED
  BY <1>1, TypeCorrect, PTL DEF Spec, JoinDropsLostCopiesSteps

\* On every ring the range taken over after a failure or a leave is exactly the
\* hashes the lost member owned and this machine owns now, and the machine named as
\* new second replica is the only one that newly has to hold this machine's keys.
THEOREM FailureTakesOverCorrect == Spec => FailureTakesOverSteps
<1>1. TypeOK /\ [Next]_vars => FailureTakesOverRange /\ FailureFindsNewHolder
  BY IdAssumption, FailureTakesOver, FailureFinds
<1>2. QED
  BY <1>1, TypeCorrect, PTL DEF Spec, FailureTakesOverSteps
================================================================================
