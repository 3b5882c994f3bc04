------------------------------ MODULE OperatorProofs -----------------------------
(* Facts about the operators the specifications share: positions on a ring of any *)
(* size, and what a machine reads in the texts of commands.                      *)
EXTENDS Ring, Command, FiniteSetTheorems, SequenceTheorems, WellFoundedInduction,
        TLAPS

--------------------------------------------------------------------------------
(* The ring                                                                     *)

\* A non-empty set of hashes has a least element, which Min chooses.
LEMMA MinIsLeast ==
    ASSUME NEW S \in SUBSET Nat, S # {}
    PROVE  Min(S) \in S /\ \A x \in S : Min(S) <= x
<1> DEFINE R == {ss \in Nat \X Nat : ss[1] < ss[2]}
<1>1. IsWellFoundedOn(R, Nat)
  BY NatLessThanWellFounded DEF OpToRel
<1>2. PICK x \in S : \A y \in S : <<y, x>> \notin R
  <2> HIDE DEF R
  <2> QED
    BY <1>1, WFMin
<1>3. ASSUME NEW y \in S PROVE x <= y
  <2>1. x \in Nat /\ y \in Nat
    OBVIOUS
  <2>2. ~ (y < x)
    BY <1>2, <2>1
  <2>3. QED
    BY <2>1, <2>2
<1>4. QED
  BY <1>3, Zenon DEF Min

\* And a greatest one, which Max chooses.
LEMMA MaxIsGreatest ==
    ASSUME NEW S \in SUBSET Hash, S # {}
    PROVE  Max(S) \in S /\ \A x \in S : x <= Max(S)
<1> DEFINE T == {MaxHash - x : x \in S}
<1>1. T \subseteq Nat /\ T # {}
  <2>1. \A x \in S : MaxHash - x \in Nat
    <3> TAKE x \in S
    <3>1. x \in 0..MaxHash
      BY DEF Hash
    <3>2. QED
      BY <3>1, MaxHashAssumption
  <2>2. T \subseteq Nat
    BY <2>1, Zenon
  <2>3. T # {}
    BY Zenon
  <2>4. QED
    BY <2>2, <2>3
<1>2. PICK t \in T : \A u \in T : t <= u
  BY <1>1, MinIsLeast
<1>3. PICK x \in S : t = MaxHash - x
  OBVIOUS
<1>4. \A y \in S : x >= y
  BY <1>2, <1>3, MaxHashAssumption DEF Hash
<1>5. Max(S) \in S /\ \A y \in S : Max(S) >= y
  BY <1>4, Zenon DEF Max
<1>6. QED
  BY <1>5, MaxHashAssumption DEF Hash

\* The owner of a key is on the ring.
LEMMA OwnerOnRing ==
    ASSUME NEW ring \in SUBSET Hash, ring # {}, NEW k \in Hash
    PROVE  OwnerHash(ring, k) \in ring
<1> DEFINE above == {h \in ring : h > k}
<1>1. ring \subseteq Nat
  BY MaxHashAssumption DEF Hash
<1>2. CASE above # {}
  <2>1. above \subseteq Nat
    BY <1>1
  <2>2. Min(above) \in above
    BY <1>2, <2>1, MinIsLeast
  <2>3. QED
    BY <1>2, <2>2 DEF OwnerHash
<1>3. CASE above = {}
  BY <1>1, <1>3, MinIsLeast DEF OwnerHash
<1>4. QED
  BY <1>2, <1>3

--------------------------------------------------------------------------------
(* Distances on the ring                                                        *)

\* The number of places from a forward to b, a whole turn when they are equal.
Gap(a, b) == IF a < b THEN b - a ELSE b - a + MaxHash + 1

\* The owner of a key is the nearest member after it.
LEMMA OwnerIsNearest ==
    ASSUME NEW ring \in SUBSET Hash, NEW k \in Hash, NEW o \in ring
    PROVE  o = OwnerHash(ring, k) <=> \A x \in ring : Gap(k, o) <= Gap(k, x)
<1> DEFINE above == {h \in ring : h > k}
           w     == OwnerHash(ring, k)
<1>1. ring \subseteq Nat
  BY MaxHashAssumption DEF Hash
<1>2. w \in ring /\ \A x \in ring : Gap(k, w) <= Gap(k, x)
  <2>1. CASE above # {}
    <3>1. above \subseteq Nat
      BY <1>1
    <3>2. w \in above /\ \A x \in above : w <= x
      BY <2>1, <3>1, MinIsLeast DEF OwnerHash
    <3>3. ASSUME NEW x \in ring PROVE Gap(k, w) <= Gap(k, x)
      <4>1. w > k /\ (x > k => w <= x)
        BY <3>2
      <4>2. w \in Hash /\ x \in Hash
        BY <3>2
      <4>3. QED
        BY <4>1, <4>2, MaxHashAssumption DEF Gap, Hash
    <3>4. QED
      BY <3>2, <3>3
  <2>2. CASE above = {}
    <3>1. w \in ring /\ \A x \in ring : w <= x
      BY <1>1, <2>2, MinIsLeast DEF OwnerHash
    <3>2. ASSUME NEW x \in ring PROVE Gap(k, w) <= Gap(k, x)
      <4>1. w <= x /\ ~(w > k) /\ ~(x > k)
        BY <2>2, <3>1
      <4>2. w \in Hash /\ x \in Hash
        BY <3>1
      <4>3. QED
        BY <4>1, <4>2, MaxHashAssumption DEF Gap, Hash
    <3>3. QED
      BY <3>1, <3>2
  <2>3. QED
    BY <2>1, <2>2
<1>3. ASSUME \A x \in ring : Gap(k, o) <= Gap(k, x) PROVE o = w
  <2>1. Gap(k, o) <= Gap(k, w) /\ Gap(k, w) <= Gap(k, o)
    BY <1>2, <1>3
  <2>2. o \in Hash /\ w \in Hash
    BY <1>2
  <2>3. QED
    BY <2>1, <2>2, MaxHashAssumption DEF Gap, Hash
<1>4. QED
  BY <1>2, <1>3

\* The predecessor of a place is the nearest member before it.
LEMMA PredecessorIsNearest ==
    ASSUME NEW ring \in SUBSET Hash, NEW h \in Hash, NEW p \in ring
    PROVE  p = Predecessor(ring, h) <=> \A x \in ring : Gap(p, h) <= Gap(x, h)
<1> DEFINE below == {x \in ring : x < h}
           w     == Predecessor(ring, h)
<1>1. w \in ring /\ \A x \in ring : Gap(w, h) <= Gap(x, h)
  <2>1. CASE below # {}
    <3>1. w \in below /\ \A x \in below : x <= w
      BY <2>1, MaxIsGreatest DEF Predecessor
    <3>2. ASSUME NEW x \in ring PROVE Gap(w, h) <= Gap(x, h)
      <4>1. w < h /\ (x < h => x <= w)
        BY <3>1
      <4>2. w \in Hash /\ x \in Hash
        BY <3>1
      <4>3. QED
        BY <4>1, <4>2, MaxHashAssumption DEF Gap, Hash
    <3>3. QED
      BY <3>1, <3>2
  <2>2. CASE below = {}
    <3>1. w \in ring /\ \A x \in ring : x <= w
      BY <2>2, MaxIsGreatest DEF Predecessor
    <3>2. ASSUME NEW x \in ring PROVE Gap(w, h) <= Gap(x, h)
      <4>1. x <= w /\ ~(w < h) /\ ~(x < h)
        BY <2>2, <3>1
      <4>2. w \in Hash /\ x \in Hash
        BY <3>1
      <4>3. QED
        BY <4>1, <4>2, MaxHashAssumption DEF Gap, Hash
    <3>3. QED
      BY <3>1, <3>2
  <2>3. QED
    BY <2>1, <2>2
<1>2. ASSUME \A x \in ring : Gap(p, h) <= Gap(x, h) PROVE p = w
  <2>1. Gap(p, h) <= Gap(w, h) /\ Gap(w, h) <= Gap(p, h)
    BY <1>1, <1>2
  <2>2. p \in Hash /\ w \in Hash
    BY <1>1
  <2>3. QED
    BY <2>1, <2>2, MaxHashAssumption DEF Gap, Hash
<1>3. QED
  BY <1>1, <1>2

\* The predecessor of a place is on the ring.
LEMMA PredecessorOnRing ==
    ASSUME NEW ring \in SUBSET Hash, ring # {}, NEW h \in Hash
    PROVE  Predecessor(ring, h) \in ring
<1> DEFINE below == {x \in ring : x < h}
<1>1. CASE below # {}
  <2>1. Max(below) \in below
    BY <1>1, MaxIsGreatest
  <2>2. QED
    BY <1>1, <2>1 DEF Predecessor
<1>2. CASE below = {}
  BY <1>2, MaxIsGreatest DEF Predecessor
<1>3. QED
  BY <1>1, <1>2

\* Going back and then forward, or forward and then back, leads to the same member.
LEMMA SuccessorOfPredecessor ==
    ASSUME NEW ring \in SUBSET Hash, NEW h \in ring
    PROVE  /\ Successor(ring, Predecessor(ring, h)) = h
           /\ Predecessor(ring, Successor(ring, h)) = h
<1>1. Successor(ring, Predecessor(ring, h)) = h
  <2> DEFINE p == Predecessor(ring, h)
  <2>1. p \in ring /\ \A x \in ring : Gap(p, h) <= Gap(x, h)
    BY PredecessorOnRing, PredecessorIsNearest
  <2>2. ASSUME NEW x \in ring PROVE Gap(p, h) <= Gap(p, x)
    <3>1. Gap(p, h) <= Gap(x, h)
      BY <2>1
    <3>2. p \in Hash /\ x \in Hash /\ h \in Hash
      BY <2>1
    <3>3. QED
      BY <3>1, <3>2, MaxHashAssumption DEF Gap, Hash
  <2>3. QED
    BY <2>1, <2>2, OwnerIsNearest DEF Successor
<1>2. Predecessor(ring, Successor(ring, h)) = h
  <2> DEFINE s == Successor(ring, h)
  <2>1. s \in ring /\ \A x \in ring : Gap(h, s) <= Gap(h, x)
    BY OwnerOnRing, OwnerIsNearest DEF Successor
  <2>2. ASSUME NEW x \in ring PROVE Gap(h, s) <= Gap(x, s)
    <3>1. Gap(h, s) <= Gap(h, x)
      BY <2>1
    <3>2. s \in Hash /\ x \in Hash /\ h \in Hash
      BY <2>1
    <3>3. QED
      BY <3>1, <3>2, MaxHashAssumption DEF Gap, Hash
  <2>3. QED
    BY <2>1, <2>2, PredecessorIsNearest
<1>3. QED
  BY <1>1, <1>2

\* A part of the ring that holds the predecessor of each of its members is all of it.
LEMMA ClosedIsRing ==
    ASSUME NEW ring \in SUBSET Hash, NEW C \in SUBSET ring, C # {},
           \A c \in C : Predecessor(ring, c) \in C
    PROVE  C = ring
<1> SUFFICES ASSUME NEW x \in ring PROVE x \in C
  OBVIOUS
<1> DEFINE c == OwnerHash(C, x)
           p == Predecessor(ring, c)
<1>1. c \in C
  BY OwnerOnRing
<1>2. p \in C
  BY <1>1
<1>3. Gap(p, c) <= Gap(x, c)
  BY <1>1, <1>2, PredecessorIsNearest
<1>4. Gap(x, c) <= Gap(x, p)
  BY <1>1, <1>2, OwnerIsNearest
<1>5. x \in Hash /\ c \in Hash /\ p \in Hash
  BY <1>1, <1>2
<1>6. x = p
  BY <1>3, <1>4, <1>5, MaxHashAssumption DEF Gap, Hash
<1>7. QED
  BY <1>2, <1>6

--------------------------------------------------------------------------------
(* Going round small rings                                                      *)

LEMMA RingIsFinite ==
    ASSUME NEW ring \in SUBSET Hash
    PROVE  IsFiniteSet(ring) /\ Cardinality(ring) \in Nat
<1>1. IsFiniteSet(Hash)
  BY FS_Interval, MaxHashAssumption DEF Hash
<1>2. IsFiniteSet(ring)
  BY <1>1, FS_Subset
<1>3. QED
  BY <1>2, FS_CardinalityType

\* Two and three different members are that many.
LEMMA CardinalityOfTwo ==
    ASSUME NEW a, NEW b, a # b
    PROVE  IsFiniteSet({a, b}) /\ Cardinality({a, b}) = 2
<1>1. IsFiniteSet({a}) /\ Cardinality({a}) = 1
  BY FS_Singleton
<1>2. {a} \cup {b} = {a, b} /\ b \notin {a}
  OBVIOUS
<1>3. QED
  BY <1>1, <1>2, FS_AddElement

LEMMA CardinalityOfThree ==
    ASSUME NEW a, NEW b, NEW c, a # b, a # c, b # c
    PROVE  IsFiniteSet({a, b, c}) /\ Cardinality({a, b, c}) = 3
<1>1. {a, b} \cup {c} = {a, b, c} /\ c \notin {a, b}
  OBVIOUS
<1>2. IsFiniteSet({a, b}) /\ Cardinality({a, b}) = 2
  BY CardinalityOfTwo
<1>3. QED
  BY <1>1, <1>2, FS_AddElement

\* Different members have different predecessors.
LEMMA PredecessorInjective ==
    ASSUME NEW ring \in SUBSET Hash, NEW g \in ring, NEW h \in ring,
           Predecessor(ring, g) = Predecessor(ring, h)
    PROVE  g = h
BY SuccessorOfPredecessor

\* How many places one goes back before one is home again tells the ring's size.
LEMMA RingSize ==
    ASSUME NEW ring \in SUBSET Hash, NEW h \in ring,
           NEW n, n = Cardinality(ring),
           NEW p1, p1 = Predecessor(ring, h),
           NEW p2, p2 = Predecessor(ring, p1),
           NEW p3, p3 = Predecessor(ring, p2),
           NEW p4, p4 = Predecessor(ring, p3)
    PROVE  /\ n \in Nat \ {0}
           /\ {p1, p2, p3, p4} \subseteq ring
           /\ n >= 2 => p1 # h
           /\ n >= 3 => p2 \notin {h, p1}
           /\ n >= 4 => p3 \notin {h, p1, p2}
           /\ n >= 5 => p4 # h
           /\ n = 1 => p1 = h
           /\ n = 2 => p2 = h
           /\ n = 3 => p3 = h
           /\ n = 4 => p4 = h
<1>1. IsFiniteSet(ring) /\ n \in Nat
  BY RingIsFinite
<1>2. n # 0
  BY <1>1, FS_EmptySet
<1>3. p1 \in ring /\ p2 \in ring /\ p3 \in ring /\ p4 \in ring
  BY PredecessorOnRing
<1>4. /\ p2 = p1 => p1 = h
      /\ p3 = p1 => p2 = h
      /\ p3 = p2 => p2 = p1
      /\ p4 = p1 => p3 = h
      /\ p4 = p2 => p3 = p1
      /\ p4 = p3 => p3 = p2
  BY <1>3, PredecessorInjective
<1>5. ASSUME NEW C \in SUBSET ring, C # ring PROVE Cardinality(C) < n
  <2>1. Cardinality(C) <= n /\ Cardinality(C) # n
    BY <1>1, <1>5, FS_Subset
  <2>2. Cardinality(C) \in Nat
    BY RingIsFinite
  <2>3. QED
    BY <1>1, <2>1, <2>2
<1>6. (p1 = h => n = 1) /\ (p1 # h => n > 1)
  <2>1. Cardinality({h}) = 1 /\ {h} \in SUBSET ring
    BY FS_Singleton
  <2>2. ASSUME p1 = h PROVE {h} = ring
    <3>1. \A c \in {h} : Predecessor(ring, c) \in {h}
      BY <2>2
    <3>2. QED
      BY <3>1, <2>1, ClosedIsRing
  <2>3. p1 # h => {h} # ring
    BY <1>3
  <2>4. QED
    BY <1>5, <2>1, <2>2, <2>3
<1>7. p1 # h => (p2 = h => n = 2) /\ (p2 # h => n > 2)
  <2> SUFFICES ASSUME p1 # h PROVE (p2 = h => n = 2) /\ (p2 # h => n > 2)
    OBVIOUS
  <2>1. Cardinality({h, p1}) = 2 /\ {h, p1} \in SUBSET ring
    BY <1>3, CardinalityOfTwo
  <2>2. ASSUME p2 = h PROVE {h, p1} = ring
    <3>1. \A c \in {h, p1} : Predecessor(ring, c) \in {h, p1}
      BY <2>2
    <3>2. QED
      BY <3>1, <2>1, ClosedIsRing
  <2>3. p2 # h => {h, p1} # ring
    BY <1>3, <1>4
  <2>4. QED
    BY <1>5, <2>1, <2>2, <2>3
<1>8. p1 # h /\ p2 # h => (p3 = h => n = 3) /\ (p3 # h => n > 3)
  <2> SUFFICES ASSUME p1 # h, p2 # h
               PROVE  (p3 = h => n = 3) /\ (p3 # h => n > 3)
    OBVIOUS
  <2>1. Cardinality({h, p1, p2}) = 3 /\ {h, p1, p2} \in SUBSET ring
    <3>1. h # p1 /\ h # p2 /\ p1 # p2
      BY <1>4
    <3>2. Cardinality({h, p1, p2}) = 3
      BY <3>1, CardinalityOfThree
    <3>3. QED
      BY <1>3, <3>2
  <2>2. ASSUME p3 = h PROVE {h, p1, p2} = ring
    <3>1. \A c \in {h, p1, p2} : Predecessor(ring, c) \in {h, p1, p2}
      BY <2>2
    <3>2. QED
      BY <3>1, <2>1, ClosedIsRing
  <2>3. p3 # h => {h, p1, p2} # ring
    BY <1>3, <1>4
  <2>4. QED
    BY <1>5, <2>1, <2>2, <2>3
<1>9. p1 # h /\ p2 # h /\ p3 # h => (p4 = h => n = 4) /\ (p4 # h => n > 4)
  <2> SUFFICES ASSUME p1 # h, p2 # h, p3 # h
               PROVE  (p4 = h => n = 4) /\ (p4 # h => n > 4)
    OBVIOUS
  <2>1. Cardinality({h, p1, p2, p3}) = 4 /\ {h, p1, p2, p3} \in SUBSET ring
    <3>1. h # p1 /\ h # p2 /\ p1 # p2 /\ h # p3 /\ p1 # p3 /\ p2 # p3
      BY <1>4
    <3>2. IsFiniteSet({h, p1, p2}) /\ Cardinality({h, p1, p2}) = 3
      BY <3>1, CardinalityOfThree
    <3>3. {h, p1, p2, p3} = {h, p1, p2} \cup {p3} /\ p3 \notin {h, p1, p2}
      BY <3>1
    <3>4. Cardinality({h, p1, p2} \cup {p3}) = 3 + 1
      <4> DEFINE three == {h, p1, p2}
      <4>1. IsFiniteSet(three) /\ Cardinality(three) = 3 /\ p3 \notin three
        BY <3>2, <3>3
      <4> HIDE DEF three
      <4>2. Cardinality(three \cup {p3}) = Cardinality(three) + 1
        BY <4>1, FS_AddElement
      <4> QED BY <4>1, <4>2 DEF three
    <3>5. QED
      BY <1>3, <3>3, <3>4
  <2>2. ASSUME p4 = h PROVE {h, p1, p2, p3} = ring
    <3>1. \A c \in {h, p1, p2, p3} : Predecessor(ring, c) \in {h, p1, p2, p3}
      BY <2>2
    <3>2. QED
      BY <3>1, <2>1, ClosedIsRing
  <2>3. p4 # h => {h, p1, p2, p3} # ring
    BY <1>3, <1>4
  <2>4. QED
    BY <1>5, <2>1, <2>2, <2>3
<1>10. QED
  BY <1>1, <1>2, <1>3, <1>4, <1>6, <1>7, <1>8, <1>9

--------------------------------------------------------------------------------
(* A member comes or goes                                                       *)

\* A range [start, end) holds the places that are as near to its end as its start.
LEMMA InRangeByGap ==
    ASSUME NEW start \in Hash, NEW end \in Hash, start # end, NEW k \in Hash
    PROVE  InRange(k, start, end) <=> Gap(k, end) <= Gap(start, end)
BY MaxHashAssumption DEF InRange, Gap, Hash

\* A member owns the places from its predecessor on, up to its own place.
LEMMA OwnedRange ==
    ASSUME NEW ring \in SUBSET Hash, NEW o \in ring, NEW k \in Hash,
           Predecessor(ring, o) # o
    PROVE  OwnerHash(ring, k) = o <=> InRange(k, Predecessor(ring, o), o)
<1> DEFINE p == Predecessor(ring, o)
<1>1. p \in ring /\ \A x \in ring : Gap(p, o) <= Gap(x, o)
  BY PredecessorOnRing, PredecessorIsNearest
<1>2. o \in Hash /\ p \in Hash
  BY <1>1
<1> HIDE DEF p
<1>3. ASSUME o = OwnerHash(ring, k) PROVE Gap(k, o) <= Gap(p, o)
  <2>1. Gap(k, o) <= Gap(k, p)
    BY <1>1, <1>3, OwnerIsNearest
  <2>2. QED
    BY <1>2, <2>1, MaxHashAssumption DEF Gap, Hash
<1>4. ASSUME Gap(k, o) <= Gap(p, o) PROVE o = OwnerHash(ring, k)
  <2>1. ASSUME NEW x \in ring PROVE Gap(k, o) <= Gap(k, x)
    <3>1. Gap(p, o) <= Gap(x, o) /\ x \in Hash
      BY <1>1
    <3>2. QED
      BY <1>2, <1>4, <3>1, MaxHashAssumption DEF Gap, Hash
  <2>2. QED
    BY <2>1, OwnerIsNearest
<1>5. InRange(k, p, o) <=> Gap(k, o) <= Gap(p, o)
  BY <1>2, InRangeByGap DEF p
<1>6. QED
  BY <1>3, <1>4, <1>5 DEF p

\* A new member takes places from one owner only, and nobody else's owner changes.
LEMMA OwnerAfterAdding ==
    ASSUME NEW ring \in SUBSET Hash, ring # {}, NEW x \in Hash \ ring, NEW k \in Hash
    PROVE  OwnerHash(ring \cup {x}, k) \in {OwnerHash(ring, k), x}
<1> DEFINE o == OwnerHash(ring \cup {x}, k)
<1>1. o \in ring \cup {x} /\ \A y \in ring \cup {x} : Gap(k, o) <= Gap(k, y)
  BY OwnerOnRing, OwnerIsNearest
<1> HIDE DEF o
<1>2. CASE o \in ring
  BY <1>1, <1>2, OwnerIsNearest DEF o
<1>3. QED
  BY <1>1, <1>2 DEF o

\* Going back on the old ring skips the new member.
LEMMA PredecessorAfterAdding ==
    ASSUME NEW ring \in SUBSET Hash, NEW x \in Hash \ ring, NEW h \in ring,
           NEW p, p = Predecessor(ring \cup {x}, h)
    PROVE  Predecessor(ring, h) = IF p = x THEN Predecessor(ring \cup {x}, x) ELSE p
<1>1. p \in ring \cup {x} /\ \A y \in ring \cup {x} : Gap(p, h) <= Gap(y, h)
  BY PredecessorOnRing, PredecessorIsNearest
<1>2. CASE p # x
  BY <1>1, <1>2, PredecessorIsNearest
<1>3. CASE p = x
  <2> DEFINE q == Predecessor(ring \cup {x}, x)
  <2>1. q \in ring \cup {x} /\ \A y \in ring \cup {x} : Gap(q, x) <= Gap(y, x)
    BY PredecessorOnRing, PredecessorIsNearest
  <2> HIDE DEF q
  <2>2. q # x
    <3>1. Gap(q, x) <= Gap(h, x) /\ h # x
      BY <2>1
    <3>2. QED
      BY <3>1, MaxHashAssumption DEF Gap, Hash
  <2>3. ASSUME NEW y \in ring PROVE Gap(q, h) <= Gap(y, h)
    <3>1. Gap(q, x) <= Gap(y, x) /\ Gap(x, h) <= Gap(y, h) /\ Gap(x, h) <= Gap(q, h)
      BY <1>1, <1>3, <2>1
    <3>2. q \in Hash /\ y \in Hash /\ x \in Hash /\ h \in Hash /\ y # x
      BY <2>1
    <3>3. QED
      BY <3>1, <3>2, <2>2, MaxHashAssumption DEF Gap, Hash
  <2>4. q = Predecessor(ring, h)
    BY <2>1, <2>2, <2>3, PredecessorIsNearest
  <2>5. QED
    BY <1>3, <2>4 DEF q
<1>4. QED
  BY <1>2, <1>3

\* And so does going forward.
LEMMA SuccessorAfterAdding ==
    ASSUME NEW ring \in SUBSET Hash, NEW x \in Hash \ ring, NEW h \in ring,
           NEW s, s = Successor(ring \cup {x}, h)
    PROVE  Successor(ring, h) = IF s = x THEN Successor(ring \cup {x}, x) ELSE s
<1> DEFINE R == ring \cup {x}
<1>1. s \in R /\ Predecessor(R, s) = h
  BY OwnerOnRing, SuccessorOfPredecessor DEF Successor
<1>2. CASE s # x
  <2>1. Predecessor(ring, s) = h
    BY <1>1, <1>2, PredecessorAfterAdding
  <2>2. QED
    BY <1>1, <1>2, <2>1, SuccessorOfPredecessor
<1>3. CASE s = x
  <2> DEFINE t == Successor(R, x)
  <2>1. t \in R /\ Predecessor(R, t) = x
    BY OwnerOnRing, SuccessorOfPredecessor DEF Successor
  <2>2. t # x
    BY <1>1, <1>3, <2>1
  <2>3. Predecessor(ring, t) = h
    BY <1>1, <1>3, <2>1, <2>2, PredecessorAfterAdding
  <2>4. QED
    BY <1>3, <2>1, <2>2, <2>3, SuccessorOfPredecessor
<1>4. QED
  BY <1>2, <1>3

\* What an owner loses to a new member: nothing, unless it is the new member's
\* successor, and then exactly the range the new member owns.
LEMMA OwnedRangeMoves ==
    ASSUME NEW ring \in SUBSET Hash, NEW x \in Hash \ ring, NEW h \in ring,
           NEW k \in Hash
    PROVE  OwnerHash(ring, k) = h /\ OwnerHash(ring \cup {x}, k) = x
           <=> /\ Predecessor(ring \cup {x}, h) = x
               /\ InRange(k, Predecessor(ring \cup {x}, x), x)
<1> DEFINE R == ring \cup {x}
           o == OwnerHash(ring, k)
           s == Successor(R, x)
           p == Predecessor(R, x)
<1>1. s \in R /\ Predecessor(R, s) = x
  BY OwnerOnRing, SuccessorOfPredecessor DEF Successor
<1>2. p \in R /\ Successor(R, p) = x
  BY PredecessorOnRing, SuccessorOfPredecessor
<1>3. s # x /\ p # x
  <2>1. Gap(x, s) <= Gap(x, h) /\ Gap(p, x) <= Gap(h, x)
    BY <1>1, <1>2, OwnerIsNearest, PredecessorIsNearest DEF Successor
  <2>2. QED
    BY <2>1, MaxHashAssumption DEF Gap, Hash
<1>4. OwnerHash(R, k) = x <=> InRange(k, p, x)
  BY <1>3, OwnedRange
<1>5. ASSUME OwnerHash(R, k) = x PROVE o = s
  <2>1. \A y \in R : Gap(k, x) <= Gap(k, y)
    BY <1>5, OwnerIsNearest
  <2>2. \A y \in R : Gap(x, s) <= Gap(x, y)
    BY <1>1, OwnerIsNearest DEF Successor
  <2>3. ASSUME NEW y \in ring PROVE Gap(k, s) <= Gap(k, y)
    <3>1. Gap(k, x) <= Gap(k, y) /\ Gap(k, x) <= Gap(k, s) /\ Gap(x, s) <= Gap(x, y)
      BY <1>1, <2>1, <2>2
    <3>2. s \in Hash /\ y \in Hash /\ x \in Hash /\ y # x
      BY <1>1
    <3>3. QED
      BY <1>3, <3>1, <3>2, MaxHashAssumption DEF Gap, Hash
  <2>4. QED
    BY <1>1, <1>3, <2>3, OwnerIsNearest
<1>6. Predecessor(R, h) = x <=> h = s
  <2>1. Predecessor(R, h) = x => Successor(R, x) = h
    BY SuccessorOfPredecessor
  <2>2. QED
    BY <1>1, <2>1
<1>7. QED
  BY <1>4, <1>5, <1>6

\* The owner of a key remains it when others leave the ring.
LEMMA OwnerAmongFewer ==
    ASSUME NEW ring \in SUBSET Hash, NEW k \in Hash, NEW fewer \in SUBSET ring,
           OwnerHash(ring, k) \in fewer
    PROVE  OwnerHash(fewer, k) = OwnerHash(ring, k)
<1>1. PICK o \in fewer : o = OwnerHash(ring, k)
  OBVIOUS
<1>2. \A x \in ring : Gap(k, o) <= Gap(k, x)
  BY <1>1, OwnerIsNearest
<1>3. \A x \in fewer : Gap(k, o) <= Gap(k, x)
  BY <1>2
<1>4. fewer \in SUBSET Hash
  OBVIOUS
<1>5. QED
  BY <1>1, <1>3, <1>4, OwnerIsNearest

\* So does a predecessor.
LEMMA PredecessorAmongFewer ==
    ASSUME NEW ring \in SUBSET Hash, NEW h \in Hash, NEW fewer \in SUBSET ring,
           Predecessor(ring, h) \in fewer
    PROVE  Predecessor(fewer, h) = Predecessor(ring, h)
<1>1. PICK p \in fewer : p = Predecessor(ring, h)
  OBVIOUS
<1>2. \A x \in ring : Gap(p, h) <= Gap(x, h)
  BY <1>1, PredecessorIsNearest
<1>3. \A x \in fewer : Gap(p, h) <= Gap(x, h)
  BY <1>2
<1>4. fewer \in SUBSET Hash
  OBVIOUS
<1>5. QED
  BY <1>1, <1>3, <1>4, PredecessorIsNearest

\* On a ring of two or more a machine is not its own neighbour.
LEMMA NotItsOwnNeighbour ==
    ASSUME NEW ring \in SUBSET Hash, NEW h \in ring, ring # {h}
    PROVE  Predecessor(ring, h) \in ring \ {h} /\ Successor(ring, h) \in ring \ {h}
<1>1. PICK x \in ring : x # h
  OBVIOUS
<1>2. PICK p \in ring : p = Predecessor(ring, h)
  BY PredecessorOnRing DEF Hash
<1>3. Gap(p, h) <= Gap(x, h)
  BY <1>2, PredecessorIsNearest
<1>4. p # h
  BY <1>1, <1>3, MaxHashAssumption DEF Gap, Hash
<1>5. PICK s \in ring : s = Successor(ring, h)
  BY OwnerOnRing DEF Successor, Hash
<1>6. Gap(h, s) <= Gap(h, x)
  BY <1>5, OwnerIsNearest DEF Successor
<1>7. s # h
  BY <1>1, <1>6, MaxHashAssumption DEF Gap, Hash
<1>8. QED
  BY <1>2, <1>4, <1>5, <1>7

--------------------------------------------------------------------------------
(* Machines at a distance                                                       *)

\* How many places one goes forward before one is home again.
LEMMA RingSizeForward ==
    ASSUME NEW ring \in SUBSET Hash, NEW h \in ring,
           NEW n, n = Cardinality(ring),
           NEW s1, s1 = Successor(ring, h),
           NEW s2, s2 = Successor(ring, s1),
           NEW s3, s3 = Successor(ring, s2)
    PROVE  /\ n \in Nat \ {0}
           /\ {s1, s2, s3} \subseteq ring
           /\ n >= 2 => s1 # h
           /\ n >= 3 => s2 \notin {h, s1}
           /\ n >= 4 => s3 \notin {h, s1, s2}
           /\ n = 1 => s1 = h
           /\ n = 2 => s2 = h
           /\ n = 3 => s3 = h
<1>1. s1 \in ring /\ s2 \in ring /\ s3 \in ring
  BY OwnerOnRing DEF Successor
<1>2. Predecessor(ring, s1) = h /\ Predecessor(ring, s2) = s1
      /\ Predecessor(ring, s3) = s2
  BY <1>1, SuccessorOfPredecessor
<1>3. /\ n \in Nat \ {0}
      /\ n >= 2 => h # s1
      /\ n = 1 => h = s1
  BY <1>1, <1>2, RingSize
<1>4. /\ n >= 2 => s1 # s2
      /\ n >= 3 => h # s2
      /\ n = 2 => h = s2
  BY <1>1, <1>2, RingSize
<1>5. /\ n >= 2 => s2 # s3
      /\ n >= 3 => s1 # s3
      /\ n >= 4 => h # s3
      /\ n = 3 => h = s3
  BY <1>1, <1>2, RingSize
<1>6. QED
  BY <1>1, <1>3, <1>4, <1>5

\* A ring of at most three is what one meets in two steps, in either direction.
LEMMA SmallRing ==
    ASSUME NEW ring \in SUBSET Hash, NEW h \in ring, Cardinality(ring) < 4
    PROVE  /\ ring = {h, Successor(ring, h), Successor(ring, Successor(ring, h))}
           /\ ring = {h, Predecessor(ring, h), Predecessor(ring, Predecessor(ring, h))}
<1> DEFINE n  == Cardinality(ring)
           s1 == Successor(ring, h)
           s2 == Successor(ring, s1)
           s3 == Successor(ring, s2)
           p1 == Predecessor(ring, h)
           p2 == Predecessor(ring, p1)
           p3 == Predecessor(ring, p2)
<1>1. n \in Nat \ {0} /\ n < 4
  BY RingSize
<1>2. ring = {h, p1, p2}
  <2>1. {p1, p2} \subseteq ring /\ (n = 1 => p1 = h) /\ (n = 2 => p2 = h)
        /\ (n = 3 => p3 = h)
    BY RingSize
  <2>2. n = 1 \/ n = 2 \/ n = 3
    BY <1>1
  <2>3. p1 = h \/ p2 = h \/ p3 = h
    BY <2>1, <2>2
  <2>4. {h, p1, p2} \in SUBSET ring
        /\ \A c \in {h, p1, p2} : Predecessor(ring, c) \in {h, p1, p2}
    BY <2>1, <2>3
  <2>5. QED
    BY <2>4, ClosedIsRing
<1>3. ring = {h, s1, s2}
  <2>1. {s1, s2, s3} \subseteq ring /\ (n = 1 => s1 = h) /\ (n = 2 => s2 = h)
        /\ (n = 3 => s3 = h)
    BY RingSizeForward
  <2>2. n = 1 \/ n = 2 \/ n = 3
    BY <1>1
  <2>3. s1 = h \/ s2 = h \/ s3 = h
    BY <2>1, <2>2
  <2>4. Predecessor(ring, s1) = h /\ Predecessor(ring, s2) = s1
        /\ Predecessor(ring, s3) = s2
    BY <2>1, SuccessorOfPredecessor
  <2>5. {h, s1, s2} \in SUBSET ring
        /\ \A c \in {h, s1, s2} : Predecessor(ring, c) \in {h, s1, s2}
    BY <2>1, <2>3, <2>4
  <2>6. QED
    BY <2>5, ClosedIsRing
<1>4. QED
  BY <1>2, <1>3

\* getHashAtDistance is so many steps along the ring, where the ring is long enough.
LEMMA HashAtDistances ==
    ASSUME NEW ring \in SUBSET Hash, NEW h \in ring,
           NEW n, n = Cardinality(ring)
    PROVE  LET P(x) == Predecessor(ring, x)
               S(x) == Successor(ring, x)
           IN  /\ HashAtDistance(ring, h, 1)  = IF n < 2 THEN NoHash ELSE S(h)
               /\ HashAtDistance(ring, h, 2)  = IF n < 3 THEN NoHash ELSE S(S(h))
               /\ HashAtDistance(ring, h, 3)  = IF n < 4 THEN NoHash ELSE S(S(S(h)))
               /\ HashAtDistance(ring, h, -1) = IF n < 2 THEN NoHash ELSE P(h)
               /\ HashAtDistance(ring, h, -2) = IF n < 3 THEN NoHash ELSE P(P(h))
               /\ HashAtDistance(ring, h, -3) = IF n < 4 THEN NoHash ELSE P(P(P(h)))
               /\ HashAtDistance(ring, h, -4) = IF n < 5 THEN NoHash
                                                ELSE P(P(P(P(h))))
BY RingIsFinite DEF HashAtDistance

\* Two machines make a ring of at least two.
LEMMA RingOfTwo ==
    ASSUME NEW ring \in SUBSET Hash, NEW h \in ring, NEW x \in ring \ {h}
    PROVE  Cardinality(ring) \in Nat /\ Cardinality(ring) >= 2
<1>1. Cardinality({h, x}) = 2 /\ {h, x} \in SUBSET ring
  BY CardinalityOfTwo
<1>2. QED
  BY <1>1, RingIsFinite, FS_Subset

\* The predecessor of a machine, as IsPredecessor finds it.
LEMMA IsPredecessorMeans ==
    ASSUME NEW ring \in SUBSET Hash, NEW h \in ring, NEW x \in ring \ {h}
    PROVE  IsPredecessor(ring, h, x) <=> x = Predecessor(ring, h)
BY RingOfTwo, HashAtDistances DEF IsPredecessor

\* The replicas of a machine, as IsReplica finds them.
LEMMA IsReplicaMeans ==
    ASSUME NEW ring \in SUBSET Hash, NEW h \in ring, NEW x \in ring \ {h}
    PROVE  IsReplica(ring, h, x)
           <=> x \in {Successor(ring, h), Successor(ring, Successor(ring, h))}
<1> DEFINE n  == Cardinality(ring)
           s1 == Successor(ring, h)
           s2 == Successor(ring, s1)
<1>1. n \in Nat /\ n >= 2
  BY RingOfTwo
<1>2. /\ HashAtDistance(ring, h, 1) = s1
      /\ HashAtDistance(ring, h, 2) = IF n < 3 THEN NoHash ELSE s2
  BY <1>1, HashAtDistances
<1>3. n = 2 => s2 = h
  BY RingSizeForward
<1>4. x # NoHash
  BY MaxHashAssumption DEF NoHash, Hash
<1> HIDE DEF n, s1, s2
<1>5. IsReplica(ring, h, x) <=> x = s1 \/ x = s2
  BY <1>1, <1>2, <1>3, <1>4 DEF IsReplica
<1>6. QED
  BY <1>5 DEF s1, s2

\* Who holds a copy of a key: its owner is the machine or one of the two before it.
LEMMA CopyHolders ==
    ASSUME NEW ring \in SUBSET Hash, NEW h \in ring, NEW k \in Hash
    PROVE  h \in Copies(ring, k)
           <=> OwnerHash(ring, k) \in
                 {h, Predecessor(ring, h), Predecessor(ring, Predecessor(ring, h))}
<1> DEFINE o == OwnerHash(ring, k)
           s == Successor(ring, o)
           t == Successor(ring, s)
           p == Predecessor(ring, h)
           q == Predecessor(ring, p)
<1>1. o \in ring /\ s \in ring /\ t \in ring /\ p \in ring /\ q \in ring
  BY OwnerOnRing, PredecessorOnRing DEF Successor
<1>2. /\ Predecessor(ring, s) = o /\ Predecessor(ring, t) = s
      /\ Successor(ring, p) = h /\ Successor(ring, q) = p
  BY <1>1, SuccessorOfPredecessor
<1>3. (h = s <=> o = p) /\ (h = t <=> o = q)
  <2>1. (h = s => o = p) /\ (o = p => h = s)
    BY <1>2
  <2>2. (h = t => s = p) /\ (s = p => h = t) /\ (s = p => o = q) /\ (o = q => s = p)
    BY <1>2
  <2>3. QED
    BY <2>1, <2>2
<1> HIDE DEF o, s, t, p, q
<1>4. h \in {o, s, t} <=> o \in {h, p, q}
  BY <1>3
<1>5. QED
  BY <1>4 DEF o, s, t, p, q, Copies

\* The members of the ring one passes on the way from h to x.
Closer(ring, h, x) == {z \in ring : Gap(h, z) < Gap(h, x)}

\* A step along the ring passes one member more, or has come round.
LEMMA OneFurther ==
    ASSUME NEW ring \in SUBSET Hash, NEW h \in Hash, NEW a \in ring,
           NEW s, s = Successor(ring, a)
    PROVE  /\ s \in ring
           /\ \/ /\ Gap(h, a) < Gap(h, s)
                 /\ Closer(ring, h, s) \subseteq Closer(ring, h, a) \cup {a}
              \/ /\ \A z \in ring : Gap(h, z) <= Gap(h, a)
                 /\ Closer(ring, h, s) = {}
<1>1. s \in ring /\ \A z \in ring : Gap(a, s) <= Gap(a, z)
  BY OwnerOnRing, OwnerIsNearest DEF Successor
<1>2. a \in Hash /\ s \in Hash
  BY <1>1
<1>3. ASSUME NEW z \in Hash
      PROVE  /\ Gap(h, z) \in 1..(MaxHash + 1)
             /\ Gap(h, z) > Gap(h, a) => Gap(a, z) = Gap(h, z) - Gap(h, a)
             /\ Gap(h, z) <= Gap(h, a) => Gap(a, z) = Gap(h, z) - Gap(h, a) + MaxHash + 1
             /\ Gap(h, z) = Gap(h, a) => z = a
  BY <1>2, <1>3, MaxHashAssumption DEF Gap, Hash
<1>4. MaxHash \in Nat /\ \A z \in ring : z \in Hash
  BY MaxHashAssumption
<1>5. CASE Gap(h, a) < Gap(h, s)
  <2>1. ASSUME NEW z \in ring, Gap(h, z) < Gap(h, s), z # a PROVE Gap(h, z) < Gap(h, a)
    <3>1. Gap(a, s) <= Gap(a, z) /\ Gap(a, s) = Gap(h, s) - Gap(h, a)
      BY <1>1, <1>2, <1>3, <1>5
    <3>2. z \in Hash
      OBVIOUS
    <3>3. Gap(h, z) \in Int /\ Gap(h, a) \in Int /\ Gap(h, s) \in Int
      BY <1>2, <1>3, <3>2
    <3>4. Gap(h, z) > Gap(h, a) => Gap(a, z) = Gap(h, z) - Gap(h, a)
      BY <1>3, <3>2
    <3>5. ~(Gap(h, z) > Gap(h, a))
      BY <2>1, <3>1, <3>3, <3>4
    <3>6. Gap(h, z) # Gap(h, a)
      BY <1>3, <2>1, <3>2
    <3> QED BY <3>3, <3>5, <3>6
  <2> QED BY <1>1, <1>5, <2>1 DEF Closer
<1>6. CASE ~(Gap(h, a) < Gap(h, s))
  <2>1. /\ Gap(h, a) \in 1..(MaxHash + 1) /\ Gap(h, s) \in 1..(MaxHash + 1)
        /\ Gap(a, s) = Gap(h, s) - Gap(h, a) + MaxHash + 1
    <3>1. Gap(h, a) \in 1..(MaxHash + 1) /\ Gap(h, s) \in 1..(MaxHash + 1)
      BY <1>2, <1>3
    <3>2. Gap(h, s) <= Gap(h, a)
      BY <1>4, <1>6, <3>1
    <3> QED BY <1>2, <1>3, <3>1, <3>2
  <2>2. ASSUME NEW z \in ring PROVE Gap(h, z) <= Gap(h, a) /\ ~(Gap(h, z) < Gap(h, s))
    <3>1. Gap(a, s) <= Gap(a, z) /\ Gap(h, z) \in 1..(MaxHash + 1)
      BY <1>1, <1>3, <1>4
    <3>2. /\ Gap(h, z) > Gap(h, a) => Gap(a, z) = Gap(h, z) - Gap(h, a)
          /\ Gap(h, z) <= Gap(h, a) => Gap(a, z) = Gap(h, z) - Gap(h, a) + MaxHash + 1
      BY <1>3, <1>4
    <3> QED BY <1>4, <2>1, <3>1, <3>2
  <2> QED BY <1>1, <2>2 DEF Closer
<1> QED BY <1>5, <1>6

\* The first three members from h on have at most two others before them, and are
\* the only ones.
Nearest(ring, h, o, s, t) ==
    /\ {o, s, t} \subseteq ring
    /\ Closer(ring, h, o) = {} /\ Closer(ring, h, s) \subseteq {o}
    /\ Closer(ring, h, t) \subseteq {o, s}
    /\ \A x \in ring : \A y : Closer(ring, h, x) \subseteq {y} => x \in {o, s}
    /\ \A x \in ring : \A y, z : Closer(ring, h, x) \subseteq {y, z} => x \in {o, s, t}

LEMMA NearestThree ==
    ASSUME NEW ring \in SUBSET Hash, ring # {}, NEW h \in Hash,
           NEW o, o = OwnerHash(ring, h),
           NEW s, s = Successor(ring, o),
           NEW t, t = Successor(ring, s)
    PROVE  Nearest(ring, h, o, s, t)
<1>1. o \in ring /\ \A z \in ring : Gap(h, o) <= Gap(h, z)
  BY OwnerOnRing, OwnerIsNearest
<1>2. \A z \in ring : Gap(h, z) \in Int
  BY MaxHashAssumption DEF Gap, Hash
<1>3. Closer(ring, h, o) = {}
  BY <1>1, <1>2 DEF Closer
<1>4. \A x, y \in ring : Gap(h, x) = Gap(h, y) => x = y
  BY MaxHashAssumption DEF Gap, Hash
<1>5. /\ s \in ring
      /\ \/ Gap(h, o) < Gap(h, s) /\ Closer(ring, h, s) \subseteq {o}
         \/ (\A z \in ring : Gap(h, z) <= Gap(h, o)) /\ Closer(ring, h, s) = {}
  BY <1>1, <1>3, OneFurther
<1>6. /\ t \in ring
      /\ \/ Gap(h, s) < Gap(h, t) /\ Closer(ring, h, t) \subseteq {o, s}
         \/ (\A z \in ring : Gap(h, z) <= Gap(h, s)) /\ Closer(ring, h, t) = {}
  <2>1. /\ t \in ring
        /\ \/ /\ Gap(h, s) < Gap(h, t)
              /\ Closer(ring, h, t) \subseteq Closer(ring, h, s) \cup {s}
           \/ (\A z \in ring : Gap(h, z) <= Gap(h, s)) /\ Closer(ring, h, t) = {}
    BY <1>5, OneFurther
  <2> QED BY <1>5, <2>1
<1>7. ASSUME NEW x \in ring, x # o
      PROVE  o \in Closer(ring, h, x) /\ Gap(h, o) < Gap(h, s) /\ s # o
  <2>1. Gap(h, o) < Gap(h, x)
    BY <1>1, <1>2, <1>4, <1>7
  <2>2. Gap(h, o) < Gap(h, s)
    BY <1>1, <1>2, <1>5, <2>1
  <2> QED BY <1>1, <1>2, <2>1, <2>2 DEF Closer
<1>8. ASSUME NEW x \in ring, x # o, x # s
      PROVE  {o, s} \subseteq Closer(ring, h, x) /\ Gap(h, s) < Gap(h, t)
             /\ t # o /\ t # s
  <2>1. /\ o \in Closer(ring, h, x) /\ Gap(h, o) < Gap(h, s) /\ s # o
        /\ Closer(ring, h, s) \subseteq {o}
    <3>1. o \in Closer(ring, h, x) /\ Gap(h, o) < Gap(h, s) /\ s # o
      BY <1>7, <1>8
    <3> QED BY <1>5, <3>1
  <2>2. Gap(h, s) < Gap(h, x)
    <3>1. x \notin Closer(ring, h, s)
      BY <1>8, <2>1
    <3> QED BY <1>2, <1>4, <1>5, <1>8, <3>1 DEF Closer
  <2>3. Gap(h, s) < Gap(h, t)
    BY <1>2, <1>5, <1>6, <2>2
  <2> QED BY <1>1, <1>2, <1>5, <1>6, <2>1, <2>2, <2>3 DEF Closer
<1>9. ASSUME NEW x \in ring, x # o, x # s, x # t
      PROVE  {o, s, t} \subseteq Closer(ring, h, x) /\ t # o /\ t # s /\ s # o
  <2>1. /\ {o, s} \subseteq Closer(ring, h, x) /\ Gap(h, s) < Gap(h, t) /\ t # o /\ t # s
        /\ s # o
    BY <1>7, <1>8, <1>9
  <2>2. Closer(ring, h, t) \subseteq {o, s}
    BY <1>6
  <2>3. x \notin Closer(ring, h, t)
    BY <1>9, <2>2
  <2>4. Gap(h, t) < Gap(h, x)
    BY <1>2, <1>4, <1>6, <1>9, <2>3 DEF Closer
  <2> QED BY <1>6, <2>1, <2>4 DEF Closer
<1>10. ASSUME NEW x \in ring, NEW y, Closer(ring, h, x) \subseteq {y} PROVE x \in {o, s}
  <2>1. x # o /\ x # s => o \in {y} /\ s \in {y} /\ s # o
    BY <1>7, <1>8, <1>10
  <2> QED BY <2>1
<1>11. ASSUME NEW x \in ring, NEW y, NEW z, Closer(ring, h, x) \subseteq {y, z}
       PROVE  x \in {o, s, t}
  <2>1. x \notin {o, s, t} => {o, s, t} \subseteq {y, z} /\ t # o /\ t # s /\ s # o
    BY <1>9, <1>11
  <2> QED BY <2>1
<1> QED BY <1>1, <1>3, <1>5, <1>6, <1>10, <1>11 DEF Nearest

\* A member holds a copy exactly if there are at most two others before it.
LEMMA CopiesAreNearest ==
    ASSUME NEW ring \in SUBSET Hash, NEW h \in Hash, NEW x \in ring
    PROVE  x \in Copies(ring, h) <=> \E y, z : Closer(ring, h, x) \subseteq {y, z}
<1>1. PICK o, s, t : o = OwnerHash(ring, h) /\ s = Successor(ring, o) /\ t = Successor(ring, s)
  OBVIOUS
<1>2. /\ Closer(ring, h, o) = {} /\ Closer(ring, h, s) \subseteq {o}
      /\ Closer(ring, h, t) \subseteq {o, s}
      /\ \A w \in ring : \A y, z : Closer(ring, h, w) \subseteq {y, z} => w \in {o, s, t}
  <2>1. ring # {}
    OBVIOUS
  <2>2. Nearest(ring, h, o, s, t)
    BY <1>1, <2>1, NearestThree
  <2> QED BY <2>2 DEF Nearest
<1>3. Copies(ring, h) = {o, s, t}
  BY <1>1 DEF Copies
<1>4. x \in {o, s, t} => Closer(ring, h, x) \subseteq {o, s}
  BY <1>2
<1> QED BY <1>2, <1>3, <1>4

\* A member is a replica exactly if there is at most one other before it.
LEMMA ReplicasAreNearest ==
    ASSUME NEW ring \in SUBSET Hash, NEW p \in ring, NEW x \in ring \ {p}
    PROVE  IsReplica(ring, p, x) <=> \E y : Closer(ring, p, x) \subseteq {y}
<1>1. PICK s, t, u : s = Successor(ring, p) /\ t = Successor(ring, s) /\ u = Successor(ring, t)
  OBVIOUS
<1>2. /\ Closer(ring, p, s) = {} /\ Closer(ring, p, t) \subseteq {s}
      /\ \A w \in ring : \A y : Closer(ring, p, w) \subseteq {y} => w \in {s, t}
  <2>1. s = OwnerHash(ring, p) /\ p \in Hash /\ ring # {}
    BY <1>1 DEF Successor
  <2>2. Nearest(ring, p, s, t, u)
    BY <1>1, <2>1, NearestThree
  <2> QED BY <2>2 DEF Nearest
<1>3. IsReplica(ring, p, x) <=> x \in {s, t}
  BY <1>1, IsReplicaMeans
<1>4. x \in {s, t} => Closer(ring, p, x) \subseteq {s}
  BY <1>2
<1> QED BY <1>2, <1>3, <1>4

\* No machine is a replica of its own.
LEMMA NotItsOwnReplica ==
    ASSUME NEW ring \in SUBSET Hash, NEW p \in ring
    PROVE  ~IsReplica(ring, p, p)
<1> DEFINE n == Cardinality(ring)
           s == Successor(ring, p)
           t == Successor(ring, s)
<1>1. /\ HashAtDistance(ring, p, 1) = IF n < 2 THEN NoHash ELSE s
      /\ HashAtDistance(ring, p, 2) = IF n < 3 THEN NoHash ELSE t
  BY HashAtDistances
<1>2. n \in Nat /\ (n >= 2 => s # p) /\ (n >= 3 => t # p)
  BY RingSizeForward
<1>3. p # NoHash
  BY MaxHashAssumption DEF NoHash, Hash
<1> HIDE DEF n, s, t
<1> QED BY <1>1, <1>2, <1>3 DEF IsReplica

\* Copies are with the owner and with its replicas.
LEMMA CopiesMean ==
    ASSUME NEW ring \in SUBSET Hash, NEW h \in Hash, NEW x \in ring,
           NEW o, o = OwnerHash(ring, h)
    PROVE  x \in Copies(ring, h) <=> x = o \/ IsReplica(ring, o, x)
<1>1. o \in ring
  BY OwnerOnRing
<1>2. Copies(ring, h) = {o, Successor(ring, o), Successor(ring, Successor(ring, o))}
  BY DEF Copies
<1>3. x # o => (IsReplica(ring, o, x)
                <=> x \in {Successor(ring, o), Successor(ring, Successor(ring, o))})
  BY <1>1, IsReplicaMeans
<1> QED BY <1>2, <1>3

\* Members that hold copies go on doing so when others leave the ring.
LEMMA ReplicaAmongFewer ==
    ASSUME NEW ring \in SUBSET Hash, NEW fewer \in SUBSET ring, NEW p \in fewer,
           NEW x \in fewer, IsReplica(ring, p, x)
    PROVE  IsReplica(fewer, p, x)
<1>1. x # p
  BY NotItsOwnReplica
<1>2. PICK y : Closer(ring, p, x) \subseteq {y}
  BY <1>1, ReplicasAreNearest
<1>3. Closer(fewer, p, x) \subseteq {y}
  BY <1>2 DEF Closer
<1> QED BY <1>1, <1>3, ReplicasAreNearest

LEMMA CopyAmongFewer ==
    ASSUME NEW ring \in SUBSET Hash, NEW fewer \in SUBSET ring, NEW h \in Hash,
           NEW x \in fewer, x \in Copies(ring, h)
    PROVE  x \in Copies(fewer, h)
<1>1. PICK y, z : Closer(ring, h, x) \subseteq {y, z}
  BY CopiesAreNearest
<1>2. Closer(fewer, h, x) \subseteq {y, z}
  BY <1>1 DEF Closer
<1> QED BY <1>2, CopiesAreNearest

\* When two members are lost, the one that becomes the owner has a copy.
LEMMA HeirHasCopy ==
    ASSUME NEW ring \in SUBSET Hash, NEW fewer \in SUBSET ring, fewer # {}, NEW h \in Hash,
           NEW a, NEW b, ring \subseteq fewer \cup {a, b}
    PROVE  OwnerHash(fewer, h) \in Copies(ring, h)
<1>1. PICK o \in fewer : o = OwnerHash(fewer, h)
  BY OwnerOnRing
<1>2. \A z \in fewer : Gap(h, o) <= Gap(h, z)
  BY <1>1, OwnerIsNearest
<1>3. \A z \in fewer : Gap(h, z) \in Int
  BY MaxHashAssumption DEF Gap, Hash
<1>4. Closer(ring, h, o) \subseteq {a, b}
  BY <1>2, <1>3 DEF Closer
<1> QED BY <1>1, <1>4, CopiesAreNearest

\* The member that becomes a replica of p when another one is lost: the third after p,
\* if one of the two in between is lost.
LEMMA NewReplica ==
    ASSUME NEW ring \in SUBSET Hash, NEW p \in ring, NEW lost \in ring \ {p},
           NEW s, s = Successor(ring, p),
           NEW t, t = Successor(ring, s),
           NEW u, u = Successor(ring, t)
    PROVE  /\ lost \in {s, t} /\ Cardinality(ring) >= 4 =>
                u \in ring \ {p, lost} /\ IsReplica(ring \ {lost}, p, u)
           /\ \A x \in ring \ {p, lost} :
                IsReplica(ring \ {lost}, p, x) =>
                    \/ IsReplica(ring, p, x)
                    \/ /\ lost \in {s, t} /\ lost # Predecessor(ring, p)
                       /\ Cardinality(ring) >= 4 /\ x = u
<1> DEFINE n == Cardinality(ring)
           f == ring \ {lost}
<1>1. /\ n \in Nat /\ {s, t, u} \subseteq ring
      /\ n >= 4 => u \notin {p, s, t}
  BY RingSizeForward
<1>2. s = OwnerHash(ring, p) /\ p \in Hash /\ f \in SUBSET Hash /\ p \in f /\ ring # {}
  BY DEF Successor
<1>3. /\ Closer(ring, p, u) \subseteq {s, t}
      /\ \A x \in ring : \A y, z : Closer(ring, p, x) \subseteq {y, z} => x \in {s, t, u}
  <2>1. Nearest(ring, p, s, t, u)
    BY <1>2, NearestThree
  <2> QED BY <2>1 DEF Nearest
<1>4. \A x : Closer(f, p, x) = Closer(ring, p, x) \ {lost}
  BY DEF Closer
<1>5. ASSUME lost \in {s, t}, n >= 4
      PROVE  u \in ring \ {p, lost} /\ IsReplica(f, p, u)
  <2>1. u \in f \ {p}
    BY <1>1, <1>5
  <2>2. \E y : Closer(f, p, u) \subseteq {y}
    BY <1>3, <1>4, <1>5
  <2> HIDE DEF f
  <2>3. IsReplica(f, p, u)
    BY <1>2, <2>1, <2>2, ReplicasAreNearest
  <2> QED BY <2>1, <2>3 DEF f
<1>6. ASSUME NEW x \in ring \ {p, lost}, IsReplica(f, p, x), ~IsReplica(ring, p, x)
      PROVE  lost \in {s, t} /\ lost # Predecessor(ring, p) /\ n >= 4 /\ x = u
  <2>1. x \notin {s, t} /\ ~(\E y : Closer(ring, p, x) \subseteq {y})
    BY <1>6, IsReplicaMeans, ReplicasAreNearest
  <2>2. PICK y : Closer(f, p, x) \subseteq {y}
    <3>1. x \in f \ {p}
      BY <1>6
    <3> HIDE DEF f
    <3> QED BY <1>2, <1>6, <3>1, ReplicasAreNearest
  <2>3. Closer(ring, p, x) \subseteq {y, lost} /\ lost \in Closer(ring, p, x)
    BY <1>4, <2>1, <2>2
  <2>4. x = u
    BY <1>3, <1>6, <2>1, <2>3
  <2>5. lost \in {s, t}
    BY <1>3, <2>3, <2>4
  <2>6. lost # Predecessor(ring, p)
    <3>1. ASSUME lost = Predecessor(ring, p) PROVE FALSE
      <4>1. Successor(ring, lost) = p
        BY <3>1, SuccessorOfPredecessor
      <4>2. CASE lost = s
        <5>1. t = p /\ u = s
          BY <4>1, <4>2
        <5> QED BY <2>1, <2>4, <5>1
      <4>3. CASE lost = t
        BY <1>6, <2>4, <4>1, <4>3
      <4> QED BY <2>5, <4>2, <4>3
    <3> QED BY <3>1
  <2>7. n >= 4
    <3>1. n < 4 => ring = {p, s, t}
      BY SmallRing
    <3> QED BY <1>1, <1>6, <2>1, <3>1
  <2> QED BY <2>4, <2>5, <2>6, <2>7
<1> QED BY <1>5, <1>6

--------------------------------------------------------------------------------
(* The work a new member or a lost one makes                                    *)

\* In a ring of two or more, a range which is handed over begins at the predecessor
\* of the new member: the special case of two machines is no exception.
LEMMA JoinAsSuccessorMeans ==
    ASSUME NEW R \in SUBSET Hash, NEW h \in R, NEW x \in R \ {h}, NEW ips,
           x = Predecessor(R, h)
    PROVE  LET m == JoinAsSuccessor(R, h, x)
               p == Predecessor(R, Predecessor(R, x))
               q == Predecessor(R, p)
               n == Cardinality(R)
           IN  /\ m \in Messages(ips)
               /\ m.reason = "join" /\ m.role = "successor" /\ m.newMember = x
               /\ m.ownedStart = Predecessor(R, x)
               /\ m.deleteStart = IF n < 4 THEN NoHash ELSE q
               /\ m.deleteEnd = IF n < 4 THEN NoHash ELSE p
<1> DEFINE n == Cardinality(R)
           p2 == Predecessor(R, x)
           p3 == Predecessor(R, p2)
           p4 == Predecessor(R, p3)
<1>1. n \in Nat /\ n >= 2
  BY RingOfTwo
<1>2. /\ HashAtDistance(R, h, -2) = IF n < 3 THEN NoHash ELSE p2
      /\ HashAtDistance(R, h, -3) = IF n < 4 THEN NoHash ELSE p3
      /\ HashAtDistance(R, h, -4) = IF n < 5 THEN NoHash ELSE p4
  BY HashAtDistances
<1>3. (n = 2 => p2 = h) /\ (n = 4 => p4 = h) /\ {p2, p3, p4} \subseteq R
  BY RingSize
<1> DEFINE m == JoinAsSuccessor(R, h, x)
<1> HIDE DEF n, p2, p3, p4
<1>4. m = [reason |-> "join", role |-> "successor", newMember |-> x,
           ownedStart |-> p2,
           deleteStart |-> IF n < 4 THEN NoHash ELSE p4,
           deleteEnd |-> IF n < 4 THEN NoHash ELSE p3]
  BY <1>1, <1>2, <1>3 DEF JoinAsSuccessor, n
<1>5. m \in Messages(ips)
  BY <1>3, <1>4 DEF Messages
<1>6. QED
  BY <1>4, <1>5 DEF p2, p3, p4, n

\* The work a join pushes.
LEMMA JoinMessagesMean ==
    ASSUME NEW R \in SUBSET Hash, NEW h \in R, NEW x \in R \ {h}, NEW ips
    PROVE  LET M == JoinMessages(R, h, x)
           IN  /\ M \in Seq(Messages(ips))
               /\ {M[i] : i \in 1..Len(M)} =
                    (IF IsPredecessor(R, h, x)
                       THEN {JoinAsSuccessor(R, h, x)} ELSE {})
                    \cup (IF IsReplica(R, h, x)
                            THEN {JoinAsPredecessor(x)} ELSE {})
               /\ IsPredecessor(R, h, x) => M # <<>> /\ Head(M) = JoinAsSuccessor(R, h, x)
<1> DEFINE M == JoinMessages(R, h, x)
           a == JoinAsSuccessor(R, h, x)
           b == JoinAsPredecessor(x)
<1>1. ~ (Cardinality(R) < 2)
  BY RingOfTwo
<1>2. IsPredecessor(R, h, x) => a \in Messages(ips)
  BY IsPredecessorMeans, JoinAsSuccessorMeans
<1>3. b \in Messages(ips)
  BY DEF JoinAsPredecessor, Messages
<1> HIDE DEF a, b
<1>4. CASE IsPredecessor(R, h, x) /\ IsReplica(R, h, x)
  <2>1. M = <<a>> \o <<b>>
    BY <1>1, <1>4 DEF JoinMessages, a, b
  <2>2. M \in Seq(Messages(ips)) /\ Len(M) = 2 /\ M[1] = a /\ M[2] = b
    BY <1>2, <1>3, <1>4, <2>1
  <2>3. {M[i] : i \in 1..Len(M)} = {a, b}
    <3> HIDE DEF M
    <3>1. 1..Len(M) = {1, 2}
      BY <2>2
    <3>2. QED
      BY <2>2, <3>1
  <2>4. M # <<>> /\ Head(M) = a
    BY <2>1
  <2> HIDE DEF M
  <2>5. M \in Seq(Messages(ips))
    BY <2>2
  <2>6. QED
    BY <1>4, <2>5, <2>3, <2>4, Zenon DEF M, a, b
<1>5. CASE IsPredecessor(R, h, x) /\ ~IsReplica(R, h, x)
  <2>1. M = <<a>> \o << >>
    BY <1>1, <1>5 DEF JoinMessages, a, b
  <2>2. M = <<a>>
    BY <2>1
  <2>3. QED
    BY <1>2, <1>5, <2>2 DEF a
<1>6. CASE ~IsPredecessor(R, h, x) /\ IsReplica(R, h, x)
  <2>1. M = << >> \o <<b>>
    BY <1>1, <1>6 DEF JoinMessages, a, b
  <2>2. M = <<b>>
    BY <2>1
  <2>3. QED
    BY <1>3, <1>6, <2>2 DEF b
<1>7. CASE ~IsPredecessor(R, h, x) /\ ~IsReplica(R, h, x)
  <2>1. M = << >> \o << >>
    BY <1>1, <1>7 DEF JoinMessages, a, b
  <2>2. M = << >>
    BY <2>1
  <2>3. QED
    BY <1>7, <2>2
<1>8. QED
  BY <1>4, <1>5, <1>6, <1>7

\* The work a failure or a leave pushes; in a ring of two, too, the range which is
\* taken over begins at the predecessor of the lost member.
LEMMA FailureMessagesMean ==
    ASSUME NEW ips, NEW m0, DOMAIN m0 \in SUBSET Hash, m0 \in [DOMAIN m0 -> ips],
           NEW h \in DOMAIN m0, NEW x \in (DOMAIN m0) \ {h}
    PROVE  LET R    == DOMAIN m0
               M    == FailureMessages(m0, h, x)
               s3   == Successor(R, Successor(R, Successor(R, h)))
           IN  /\ M \in Seq(Messages(ips))
               /\ x = Predecessor(R, h) =>
                    M = <<[reason |-> "failure", role |-> "successor",
                           failedMember |-> x, ownedStart |-> Predecessor(R, x)]>>
               /\ /\ x # Predecessor(R, h)
                  /\ x \in {Successor(R, h), Successor(R, Successor(R, h))}
                  => M = <<[reason |-> "failure", role |-> "predecessor",
                            failedMember |-> x,
                            newSecondReplica |-> IF Cardinality(R) < 4
                                                   THEN NoIP ELSE m0[s3]]>>
               /\ /\ x # Predecessor(R, h)
                  /\ x \notin {Successor(R, h), Successor(R, Successor(R, h))}
                  => M = << >>
<1> DEFINE R == DOMAIN m0
           n == Cardinality(R)
           M == FailureMessages(m0, h, x)
           s1 == Successor(R, h)
           s2 == Successor(R, s1)
           s3 == Successor(R, s2)
           p == Predecessor(R, x)
           a == FailureAsSuccessor(R, h, x)
           b == FailureAsPredecessor(m0, h, x)
<1>1. n \in Nat /\ n >= 2
  BY RingOfTwo
<1>2. s3 \in R /\ p \in R
  BY RingSizeForward, PredecessorOnRing
<1>3. IsPredecessor(R, h, x) <=> x = Predecessor(R, h)
  BY IsPredecessorMeans
<1>4. IsReplica(R, h, x) <=> x \in {s1, s2}
  BY IsReplicaMeans
<1>5. CASE x = Predecessor(R, h)
  <2>1. HashAtDistance(R, h, -2) = IF n < 3 THEN NoHash ELSE p
    BY <1>5, HashAtDistances
  <2>2. n = 2 => p = h
    BY <1>5, RingSize
  <2> HIDE DEF n, p
  <2>3. a = [reason |-> "failure", role |-> "successor",
             failedMember |-> x, ownedStart |-> p]
    BY <1>1, <2>1, <2>2 DEF FailureAsSuccessor, n
  <2> HIDE DEF a
  <2>4. a \in Messages(ips)
    BY <1>2, <2>3 DEF Messages
  <2>5. M = <<a>>
    BY <1>3, <1>5 DEF FailureMessages, a
  <2>6. M \in Seq(Messages(ips))
    BY <2>4, <2>5
  <2>7. M = <<[reason |-> "failure", role |-> "successor",
               failedMember |-> x, ownedStart |-> p]>>
    BY <2>3, <2>5
  <2> HIDE DEF M
  <2>8. QED
    BY <1>5, <2>6, <2>7, Zenon DEF p, M
<1>6. CASE x # Predecessor(R, h) /\ x \in {s1, s2}
  <2>1. HashAtDistance(R, h, 3) = IF n < 4 THEN NoHash ELSE s3
    BY HashAtDistances
  <2>2. s3 # NoHash
    BY <1>2 DEF NoHash, Hash
  <2> HIDE DEF n, s3
  <2>3. IPAtDistance(m0, h, 3) = IF n < 4 THEN NoIP ELSE m0[s3]
    BY <1>1, <2>1, <2>2 DEF IPAtDistance
  <2>4. b = [reason |-> "failure", role |-> "predecessor", failedMember |-> x,
             newSecondReplica |-> IF n < 4 THEN NoIP ELSE m0[s3]]
    BY <2>3 DEF FailureAsPredecessor
  <2> HIDE DEF b
  <2>5. b \in Messages(ips)
    BY <1>2, <2>4 DEF Messages
  <2>6. M = <<b>>
    BY <1>3, <1>4, <1>6 DEF FailureMessages, b
  <2>7. QED
    BY <1>6, <2>4, <2>5, <2>6 DEF n, s3
<1>7. CASE x # Predecessor(R, h) /\ x \notin {s1, s2}
  <2>1. M = << >>
    BY <1>3, <1>4, <1>7 DEF FailureMessages
  <2>2. QED
    BY <1>7, <2>1
<1>8. QED
  BY <1>5, <1>6, <1>7

--------------------------------------------------------------------------------
(* The texts of commands                                                        *)

\* What levels, operations and the punctuation of commands are made of.
Symbols == Name \cup {"(", ")", Comma, "-", "f", "a", "o", "q"}

\* The comma is none of the others.
LEMMA CommaIs ==
    /\ Comma \in Symbols
    /\ Comma \notin {"a", "o", "q", "-"} /\ Comma \notin Name \cup {"f"}
    /\ Comma # "(" /\ Comma # ")"
BY Zenon DEF Comma, Symbols, Name, NeedsValue, NeedsKey

Levels == {<<>>, <<"a", "-">>, <<"o", "-">>, <<"q", "-">>}

\* A sequence over a set is one over a larger set.
LEMMA LargerSet ==
    ASSUME NEW S, NEW T, S \subseteq T, NEW s \in Seq(S)
    PROVE  s \in Seq(T)
<1>1. s \in [1..Len(s) -> S] /\ Len(s) \in Nat
  BY LenProperties
<1>2. \A i \in 1..Len(s) : s[i] \in T
  BY <1>1
<1>3. [i \in 1..Len(s) |-> s[i]] \in Seq(T)
  BY <1>1, <1>2, IsASeq
<1>4. s = [i \in 1..Len(s) |-> s[i]]
  BY <1>1
<1>5. QED
  BY <1>3, <1>4

\* The first place of a symbol, or 0.
LEMMA FirstOfIs ==
    ASSUME NEW S, NEW s \in Seq(S), NEW c
    PROVE  /\ \A n \in 1..Len(s) :
                 s[n] = c /\ (\A j \in 1..(n - 1) : s[j] # c) => FirstOf(s, c) = n
           /\ (\A j \in 1..Len(s) : s[j] # c) => FirstOf(s, c) = 0
           /\ FirstOf(s, c) # 0 => FirstOf(s, c) \in 1..Len(s) /\ s[FirstOf(s, c)] = c
<1> DEFINE I == {j \in 1..Len(s) : s[j] = c}
<1>1. FirstOf(s, c) = IF I # {} THEN Min(I) ELSE 0
  BY DEF FirstOf, SelectInSeq
<1>2. I # {} => Min(I) \in I /\ \A j \in I : Min(I) <= j
  <2>1. I \in SUBSET Nat
    OBVIOUS
  <2> HIDE DEF I
  <2>2. QED
    BY <2>1, MinIsLeast
<1>3. ASSUME NEW n \in 1..Len(s), s[n] = c, \A j \in 1..(n - 1) : s[j] # c
      PROVE  FirstOf(s, c) = n
  <2>1. n \in I /\ \A j \in I : n <= j
    BY <1>3
  <2>2. Min(I) \in I /\ Min(I) <= n
    BY <1>2, <2>1
  <2>3. n <= Min(I) /\ Min(I) \in Nat /\ n \in Nat
    BY <2>1, <2>2
  <2>4. QED
    BY <1>1, <2>1, <2>2, <2>3
<1>4. (\A j \in 1..Len(s) : s[j] # c) => FirstOf(s, c) = 0
  BY <1>1
<1>5. FirstOf(s, c) # 0 => FirstOf(s, c) \in 1..Len(s) /\ s[FirstOf(s, c)] = c
  BY <1>1, <1>2
<1>6. QED
  BY <1>3, <1>4, <1>5

\* A symbol that ends a text has its last place there.
LEMMA LastOfIs ==
    ASSUME NEW S, NEW s \in Seq(S), Len(s) # 0, NEW c, s[Len(s)] = c
    PROVE  LastOf(s, c) = Len(s)
<1> DEFINE I == {j \in 1..Len(s) : s[j] = c}
<1>1. Len(s) \in Nat
  BY LenProperties
<1>2. LastOf(s, c) = IF I # {} THEN Max(I) ELSE 0
  BY DEF LastOf, SelectLastInSeq
<1>3. Len(s) \in I /\ \A j \in I : Len(s) >= j
  BY <1>1
<1>4. \A x \in I : (\A j \in I : x >= j) => x = Len(s)
  BY <1>1, <1>3
<1> HIDE DEF I
<1>5. Max(I) = Len(s)
  BY <1>3, <1>4 DEF Max
<1>6. QED
  BY <1>2, <1>3, <1>5

\* Two sequences with the same elements.
LEMMA SameElements ==
    ASSUME NEW S, NEW s \in Seq(S), NEW t \in Seq(S), Len(s) = Len(t),
           \A i \in 1..Len(t) : s[i] = t[i]
    PROVE  s = t
BY SeqEqual

\* The part of s after p symbols that reads t.
LEMMA PartIs ==
    ASSUME NEW S, NEW s \in Seq(S), NEW t \in Seq(S), NEW p \in Nat,
           p + Len(t) <= Len(s), \A i \in 1..Len(t) : s[p + i] = t[i]
    PROVE  Substring(s, p + 1, p + Len(t)) = t
<1>1. Len(s) \in Nat /\ Len(t) \in Nat
  BY LenProperties
<1> DEFINE part == SubSeq(s, p + 1, p + Len(t))
<1>2. Substring(s, p + 1, p + Len(t)) = part
  BY <1>1 DEF Substring
<1>3. \A i \in (p + 1)..(p + Len(t)) : s[i] \in S
  BY <1>1, ElementOfSeq
<1>4. /\ part \in Seq(S)
      /\ Len(part) = IF p + 1 <= p + Len(t) THEN p + Len(t) - (p + 1) + 1 ELSE 0
      /\ \A i \in 1..(p + Len(t) - (p + 1) + 1) : part[i] = s[p + 1 + i - 1]
  BY <1>1, <1>3, SubSeqProperties
<1> HIDE DEF part
<1>5. Len(part) = Len(t)
  BY <1>1, <1>4
<1>6. ASSUME NEW i \in 1..Len(t) PROVE part[i] = t[i]
  <2>1. i \in 1..(p + Len(t) - (p + 1) + 1) /\ p + 1 + i - 1 = p + i
    BY <1>1
  <2>2. part[i] = s[p + 1 + i - 1]
    BY <1>4, <2>1
  <2>3. QED
    BY <2>1, <2>2
<1>7. QED
  BY <1>2, <1>4, <1>5, <1>6, SameElements

\* The text u is s and then t.
Joins(S, s, t, u) ==
    /\ u \in Seq(S)
    /\ Len(u) = Len(s) + Len(t)
    /\ \A i \in 1..Len(s) : u[i] = s[i]
    /\ \A i \in 1..Len(t) : u[Len(s) + i] = t[i]

LEMMA PartsJoined ==
    ASSUME NEW S, NEW s \in Seq(S), NEW t \in Seq(S), NEW u, u = s \o t
    PROVE  Joins(S, s, t, u)
<1>1. Len(s) \in Nat /\ Len(t) \in Nat
  BY LenProperties
<1>2. /\ s \o t \in Seq(S)
      /\ Len(s \o t) = Len(s) + Len(t)
      /\ \A i \in 1..Len(s) + Len(t) : (s \o t)[i] = IF i <= Len(s) THEN s[i] ELSE t[i - Len(s)]
  BY ConcatProperties
<1>3. ASSUME NEW i \in 1..Len(s) PROVE u[i] = s[i]
  BY <1>1, <1>2
<1>4. ASSUME NEW i \in 1..Len(t) PROVE u[Len(s) + i] = t[i]
  <2>1. Len(s) + i \in 1..Len(s) + Len(t) /\ ~ Len(s) + i <= Len(s) /\ (Len(s) + i) - Len(s) = i
    BY <1>1
  <2>2. QED
    BY <1>2, <2>1
<1>5. QED
  BY <1>2, <1>3, <1>4 DEF Joins

\* The symbols of a command with its level, and whatever follows the key.
LaidOut(S, text, level, name, key, rest) ==
    /\ text \in Seq(S)
    /\ Len(text) = Len(level) + Len(name) + 1 + Len(key) + Len(rest) + 1
    /\ \A i \in 1..Len(level) : text[i] = level[i]
    /\ \A i \in 1..Len(name) : text[Len(level) + i] = name[i]
    /\ text[Len(level) + Len(name) + 1] = "("
    /\ \A i \in 1..Len(key) : text[Len(level) + Len(name) + 1 + i] = key[i]
    /\ \A i \in 1..Len(rest) : text[Len(level) + Len(name) + 1 + Len(key) + i] = rest[i]
    /\ text[Len(text)] = ")"

LEMMA BuiltText ==
    ASSUME NEW S, NEW level \in Seq(S), NEW name \in Seq(S), NEW key \in Seq(S),
           NEW rest \in Seq(S), "(" \in S, ")" \in S,
           NEW text, text = level \o (name \o <<"(">> \o key \o rest \o <<")">>)
    PROVE  LaidOut(S, text, level, name, key, rest)
<1>1. /\ <<"(">> \in Seq(S) /\ Len(<<"(">>) = 1 /\ <<"(">>[1] = "("
      /\ <<")">> \in Seq(S) /\ Len(<<")">>) = 1 /\ <<")">>[1] = ")"
  OBVIOUS
<1>2. PICK open, close : /\ open = <<"(">> /\ close = <<")">>
                         /\ open \in Seq(S) /\ Len(open) = 1 /\ open[1] = "("
                         /\ close \in Seq(S) /\ Len(close) = 1 /\ close[1] = ")"
  BY <1>1, Zenon
<1>3. PICK b1 : b1 = name \o open
  OBVIOUS
<1>4. PICK b2 : b2 = b1 \o key
  OBVIOUS
<1>5. PICK b3 : b3 = b2 \o rest
  OBVIOUS
<1>6. PICK b4 : b4 = b3 \o close
  OBVIOUS
<1>7. text = level \o b4
  BY <1>2, <1>3, <1>4, <1>5, <1>6, Zenon
<1>8. Joins(S, name, open, b1) /\ b1 \in Seq(S)
  <2>1. Joins(S, name, open, b1)
    BY <1>2, <1>3, PartsJoined
  <2>2. QED
    BY <2>1, Zenon DEF Joins
<1>9. Joins(S, b1, key, b2) /\ b2 \in Seq(S)
  <2>1. Joins(S, b1, key, b2)
    BY <1>4, <1>8, PartsJoined
  <2>2. QED
    BY <2>1, Zenon DEF Joins
<1>10. Joins(S, b2, rest, b3) /\ b3 \in Seq(S)
  <2>1. Joins(S, b2, rest, b3)
    BY <1>5, <1>9, PartsJoined
  <2>2. QED
    BY <2>1, Zenon DEF Joins
<1>11. Joins(S, b3, close, b4) /\ b4 \in Seq(S)
  <2>1. Joins(S, b3, close, b4)
    BY <1>2, <1>6, <1>10, PartsJoined
  <2>2. QED
    BY <2>1, Zenon DEF Joins
<1>12. Joins(S, level, b4, text) /\ text \in Seq(S)
  <2>1. Joins(S, level, b4, text)
    BY <1>7, <1>11, PartsJoined
  <2>2. QED
    BY <2>1, Zenon DEF Joins
<1>13. /\ Len(level) \in Nat /\ Len(name) \in Nat /\ Len(key) \in Nat /\ Len(rest) \in Nat
       /\ Len(open) = 1 /\ Len(close) = 1
  BY <1>2, LenProperties
<1>14. /\ Len(b1) = Len(name) + 1 /\ Len(b2) = Len(name) + 1 + Len(key)
       /\ Len(b3) = Len(name) + 1 + Len(key) + Len(rest) /\ Len(b4) = Len(b3) + 1
       /\ Len(text) = Len(level) + Len(b4)
  BY <1>8, <1>9, <1>10, <1>11, <1>12, <1>13 DEF Joins
<1>15. /\ 1..Len(b1) \subseteq 1..Len(b2) /\ 1..Len(b2) \subseteq 1..Len(b3)
       /\ 1..Len(b3) \subseteq 1..Len(b4)
  BY <1>13, <1>14
<1>16. \A i \in 1..Len(b4) : text[Len(level) + i] = b4[i]
  BY <1>12, Zenon DEF Joins
<1>17. \A i \in 1..Len(b3) : text[Len(level) + i] = b3[i]
  BY <1>11, <1>15, <1>16, Zenon DEF Joins
<1>18. \A i \in 1..Len(b2) : text[Len(level) + i] = b2[i]
  BY <1>10, <1>15, <1>17, Zenon DEF Joins
<1>19. \A i \in 1..Len(b1) : text[Len(level) + i] = b1[i]
  BY <1>9, <1>15, <1>18, Zenon DEF Joins
<1>20. ASSUME NEW i \in 1..Len(name) PROVE text[Len(level) + i] = name[i]
  <2>1. i \in 1..Len(b1)
    BY <1>13, <1>14
  <2>2. b1[i] = name[i]
    BY <1>8, Zenon DEF Joins
  <2>3. QED
    BY <1>19, <2>1, <2>2, Zenon
<1>21. text[Len(level) + Len(name) + 1] = "("
  <2>1. /\ Len(name) + 1 \in 1..Len(b1) /\ 1 \in 1..Len(open)
        /\ Len(level) + Len(name) + 1 = Len(level) + (Len(name) + 1)
    BY <1>13, <1>14
  <2>2. b1[Len(name) + 1] = "("
    BY <1>2, <1>8, <2>1, Zenon DEF Joins
  <2>3. QED
    BY <1>19, <2>1, <2>2, Zenon
<1>22. ASSUME NEW n \in 1..Len(key) PROVE text[Len(level) + Len(name) + 1 + n] = key[n]
  <2>1. /\ Len(b1) + n \in 1..Len(b2)
        /\ Len(level) + Len(name) + 1 + n = Len(level) + (Len(b1) + n)
    BY <1>13, <1>14
  <2>2. b2[Len(b1) + n] = key[n]
    BY <1>9, Zenon DEF Joins
  <2>3. QED
    BY <1>18, <2>1, <2>2, Zenon
<1>23. ASSUME NEW n \in 1..Len(rest) PROVE text[Len(level) + Len(name) + 1 + Len(key) + n] = rest[n]
  <2>1. /\ Len(b2) + n \in 1..Len(b3)
        /\ Len(level) + Len(name) + 1 + Len(key) + n = Len(level) + (Len(b2) + n)
    BY <1>13, <1>14
  <2>2. b3[Len(b2) + n] = rest[n]
    BY <1>10, Zenon DEF Joins
  <2>3. QED
    BY <1>17, <2>1, <2>2, Zenon
<1>24. text[Len(text)] = ")"
  <2>1. Len(b3) + 1 \in 1..Len(b4) /\ Len(text) = Len(level) + (Len(b3) + 1) /\ 1 \in 1..Len(close)
    BY <1>13, <1>14
  <2>2. b4[Len(b3) + 1] = ")"
    BY <1>2, <1>11, <2>1, Zenon DEF Joins
  <2>3. QED
    BY <1>16, <2>1, <2>2, Zenon
<1>25. Len(text) = Len(level) + Len(name) + 1 + Len(key) + Len(rest) + 1
  BY <1>13, <1>14
<1>26. \A i \in 1..Len(level) : text[i] = level[i]
  BY <1>12, Zenon DEF Joins
<1>27. QED
  BY <1>12, <1>20, <1>21, <1>22, <1>23, <1>24, <1>25, <1>26, Zenon DEF LaidOut

\* Texts of one and of two symbols.
LEMMA OneSymbol ==
    ASSUME NEW S, NEW x \in S
    PROVE  <<x>> \in Seq(S) /\ Len(<<x>>) = 1 /\ <<x>>[1] = x
OBVIOUS

LEMMA TwoSymbols ==
    ASSUME NEW S, NEW x \in S, NEW y \in S
    PROVE  <<x, y>> \in Seq(S) /\ Len(<<x, y>>) = 2 /\ <<x, y>>[1] = x /\ <<x, y>>[2] = y
OBVIOUS

\* The spelling of an operation.
LEMMA Spelling ==
    ASSUME NEW S, Symbols \subseteq S, NEW name \in Operations \cup ForceOperations
    PROVE  /\ name \in Seq(S) /\ Len(name) \in 1..2
           /\ \A i \in 1..Len(name) : name[i] \in Name \cup {"f"}
           /\ Plain(name) \in Name
<1>1. CASE name \in Operations
  <2>1. PICK n \in Name : name = <<n>>
    BY <1>1 DEF Operations
  <2>2. n \in S
    BY DEF Symbols
  <2>3. name \in Seq(S) /\ Len(name) = 1 /\ name[1] = n
    BY <2>1, <2>2, OneSymbol
  <2>4. QED
    BY <2>3 DEF Plain
<1>2. CASE name \in ForceOperations
  <2>1. PICK n \in Name : name = <<"f", n>>
    BY <1>2 DEF ForceOperations
  <2>2. n \in S /\ "f" \in S
    BY DEF Symbols
  <2>3. name \in Seq(S) /\ Len(name) = 2 /\ name[1] = "f" /\ name[2] = n
    BY <2>1, <2>2, TwoSymbols
  <2>4. QED
    BY <2>3 DEF Plain
<1>3. QED
  BY <1>1, <1>2

\* What follows the key of a command.
Rest(name, value) == IF Plain(name) \in NeedsValue THEN <<Comma>> \o value ELSE <<>>

\* A text is a level, if any, and a command that is built.
Built(S, text, level, name, key, value) ==
    /\ level \in Levels /\ name \in Operations \cup ForceOperations
    /\ key \in Seq(S) /\ value \in Seq(S)
    /\ text = level \o BuildCommand(name, key, value)

\* The place of the opening bracket
Bracket(level, name) == Len(level) + Len(name) + 1

\* A level is at most one character and a dash.
LEMMA LevelIs ==
    ASSUME NEW S, Symbols \subseteq S, NEW level \in Levels
    PROVE  /\ level \in Seq(S) /\ Len(level) \in {0, 2}
           /\ \A i \in 1..Len(level) : level[i] \in {"a", "o", "q", "-"}
           /\ Len(level) = 2 => level[1] # "-" /\ level[2] = "-"
<1>1. CASE level = <<>>
  BY <1>1
<1>2. CASE level # <<>>
  <2>1. PICK l \in {"a", "o", "q"} : level = <<l, "-">>
    BY <1>2 DEF Levels
  <2>2. l \in S /\ "-" \in S
    BY DEF Symbols
  <2>3. level \in Seq(S) /\ Len(level) = 2 /\ level[1] = l /\ level[2] = "-"
    BY <2>1, <2>2, TwoSymbols
  <2>4. QED
    BY <2>3
<1>3. QED
  BY <1>1, <1>2

\* Where the symbols of such a text are.
LEMMA Layout ==
    ASSUME NEW S, Symbols \subseteq S, NEW text, NEW level, NEW name, NEW key, NEW value,
           Built(S, text, level, name, key, value)
    PROVE  Rest(name, value) \in Seq(S) /\ LaidOut(S, text, level, name, key, Rest(name, value))
<1>1. /\ level \in Seq(S) /\ name \in Seq(S) /\ key \in Seq(S) /\ value \in Seq(S)
      /\ "(" \in S /\ ")" \in S /\ Comma \in S
  BY Spelling, LevelIs, CommaIs DEF Built, Symbols
<1>2. Rest(name, value) \in Seq(S)
  <2>1. <<Comma>> \in Seq(S)
    BY <1>1, OneSymbol
  <2>2. <<Comma>> \o value \in Seq(S)
    BY <1>1, <2>1, ConcatProperties
  <2>3. <<>> \in Seq(S)
    OBVIOUS
  <2>4. QED
    BY <2>2, <2>3, Zenon DEF Rest
<1>3. text = level \o (name \o <<"(">> \o key \o Rest(name, value) \o <<")">>)
  BY DEF Built, BuildCommand, Rest
<1>4. ASSUME NEW rest \in Seq(S), text = level \o (name \o <<"(">> \o key \o rest \o <<")">>)
      PROVE  LaidOut(S, text, level, name, key, rest)
  BY <1>1, <1>4, BuiltText
<1>5. QED
  BY <1>2, <1>3, <1>4, Zenon

\* A server finds the operation where it was written, whatever the key and value
\* look like.
LEMMA NameIsFound ==
    ASSUME NEW S, Symbols \subseteq S, NEW text, NEW level, NEW name, NEW key, NEW value,
           Built(S, text, level, name, key, value)
    PROVE  /\ FirstOf(text, "(") = Bracket(level, name)
           /\ LevelGiven(text) <=> level # <<>>
           /\ LastOf(text, ")") = Len(text)
           /\ Substring(text, IF LevelGiven(text) THEN 3 ELSE 1, Bracket(level, name) - 1) = name
<1>1. /\ level \in Seq(S) /\ Len(level) \in {0, 2}
      /\ \A i \in 1..Len(level) : level[i] \in {"a", "o", "q", "-"}
      /\ Len(level) = 2 => level[1] # "-" /\ level[2] = "-"
  BY LevelIs DEF Built
<1>2. /\ name \in Seq(S) /\ Len(name) \in 1..2
      /\ \A i \in 1..Len(name) : name[i] \in Name \cup {"f"}
  BY Spelling DEF Built
<1>3. /\ text \in Seq(S) /\ Rest(name, value) \in Seq(S)
      /\ Len(text) = Bracket(level, name) + Len(key) + Len(Rest(name, value)) + 1
      /\ \A i \in 1..Len(level) : text[i] = level[i]
      /\ \A i \in 1..Len(name) : text[Len(level) + i] = name[i]
      /\ text[Bracket(level, name)] = "("
      /\ text[Len(text)] = ")"
  <2>1. Rest(name, value) \in Seq(S) /\ LaidOut(S, text, level, name, key, Rest(name, value))
    BY Layout
  <2>2. QED
    BY <2>1, Zenon DEF LaidOut, Bracket
<1>4. Len(key) \in Nat /\ Len(Rest(name, value)) \in Nat
  BY <1>3, LenProperties DEF Built
<1>5. /\ Bracket(level, name) \in 1..Len(text) /\ Len(text) # 0
      /\ Bracket(level, name) = Len(level) + Len(name) + 1
  BY <1>1, <1>2, <1>3, <1>4 DEF Bracket
<1>6. \A j \in 1..(Bracket(level, name) - 1) : text[j] # "("
  <2>1. ASSUME NEW j \in 1..(Bracket(level, name) - 1) PROVE text[j] # "("
    <3>1. CASE j \in 1..Len(level)
      <4>1. text[j] \in {"a", "o", "q", "-"}
        BY <1>1, <1>3, <3>1
      <4>2. QED
        BY <4>1
    <3>2. CASE j \notin 1..Len(level)
      <4>1. j - Len(level) \in 1..Len(name) /\ Len(level) + (j - Len(level)) = j
        BY <1>1, <1>2, <1>5, <3>2
      <4>2. text[j] \in Name \cup {"f"}
        BY <1>2, <1>3, <4>1
      <4>3. QED
        BY <4>2 DEF Name, NeedsValue, NeedsKey
    <3>3. QED
      BY <3>1, <3>2
  <2>2. QED
    BY <2>1
<1>7. FirstOf(text, "(") = Bracket(level, name)
  BY <1>3, <1>5, <1>6, FirstOfIs
<1>8. LastOf(text, ")") = Len(text)
  BY <1>3, <1>5, LastOfIs
<1>9. LevelGiven(text) <=> Len(level) = 2
  <2>1. CASE Len(level) = 2
    <3>1. /\ 2 \in 1..Len(text) /\ 1 \in 1..Len(level) /\ 2 \in 1..Len(level)
      BY <1>2, <1>5, <2>1
    <3>2. text[2] = "-" /\ \A j \in 1..(2 - 1) : text[j] # "-"
      BY <1>1, <1>3, <2>1, <3>1
    <3>3. FirstOf(text, "-") = 2
      BY <1>3, <3>1, <3>2, FirstOfIs
    <3>4. QED
      BY <2>1, <3>3 DEF LevelGiven
  <2>2. CASE Len(level) = 0
    <3>1. text[2] # "-"
      <4>1. CASE Len(name) = 1
        BY <1>3, <1>5, <2>2, <4>1
      <4>2. CASE Len(name) = 2
        <5>1. 2 \in 1..Len(name) /\ Len(level) + 2 = 2
          BY <2>2, <4>2
        <5>2. text[2] \in Name \cup {"f"}
          BY <1>2, <1>3, <5>1
        <5>3. QED
          BY <5>2 DEF Name, NeedsValue, NeedsKey
      <4>3. QED
        BY <1>2, <4>1, <4>2
    <3>2. FirstOf(text, "-") # 2
      BY <1>3, <3>1, FirstOfIs
    <3>3. QED
      BY <2>2, <3>2 DEF LevelGiven
  <2>3. QED
    BY <1>1, <2>1, <2>2
<1>10. LevelGiven(text) <=> level # <<>>
  BY <1>1, <1>9
<1>11. /\ (IF LevelGiven(text) THEN 3 ELSE 1) = Len(level) + 1
       /\ Bracket(level, name) - 1 = Len(level) + Len(name)
       /\ Len(level) \in Nat /\ Len(level) + Len(name) <= Len(text)
  BY <1>1, <1>2, <1>5, <1>9
<1>12. Substring(text, Len(level) + 1, Len(level) + Len(name)) = name
  BY <1>2, <1>3, <1>11, PartIs
<1>13. QED
  BY <1>7, <1>8, <1>10, <1>11, <1>12

\* The first comma is behind the key, unless the key has one, and the value is what
\* is between it and the last bracket.
LEMMA PartsAreFound ==
    ASSUME NEW S, Symbols \subseteq S, NEW text, NEW level, NEW name, NEW key, NEW value,
           Built(S, text, level, name, key, value),
           \A i \in 1..Len(key) : key[i] # Comma
    PROVE  LET keyEnd == Bracket(level, name) + Len(key)
           IN  /\ Bracket(level, name) \in Nat \ {0} /\ keyEnd \in Nat /\ Len(text) \in Nat \ {0}
               /\ Substring(text, Bracket(level, name) + 1, keyEnd) = key
               /\ Plain(name) \in NeedsValue =>
                     /\ FirstOf(text, Comma) = keyEnd + 1
                     /\ Substring(text, (keyEnd + 1) + 1, Len(text) - 1) = value
               /\ Plain(name) \notin NeedsValue =>
                     FirstOf(text, Comma) = 0 /\ Len(text) - 1 = keyEnd
<1> DEFINE bracket == Bracket(level, name)
           keyEnd  == bracket + Len(key)
           rest    == Rest(name, value)
<1>1. /\ level \in Levels /\ name \in Operations \cup ForceOperations
      /\ key \in Seq(S) /\ value \in Seq(S)
  BY DEF Built
<1>2. /\ FirstOf(text, "(") = bracket
      /\ LastOf(text, ")") = Len(text)
      /\ Substring(text, IF LevelGiven(text) THEN 3 ELSE 1, bracket - 1) = name
  BY NameIsFound
<1>3. LaidOut(S, text, level, name, key, rest) /\ rest \in Seq(S)
  BY Layout
<1>4. /\ Len(level) \in Nat /\ Len(name) \in Nat /\ Len(key) \in Nat /\ Len(value) \in Nat
      /\ Len(rest) \in Nat /\ bracket \in Nat /\ bracket # 0 /\ keyEnd \in Nat /\ keyEnd < Len(text)
      /\ Len(text) = keyEnd + Len(rest) + 1 /\ bracket = Len(level) + Len(name) + 1
  <2>1. Len(name) \in 1..2 /\ Len(level) \in {0, 2}
    BY <1>1, Spelling, LevelIs
  <2>2. Len(key) \in Nat /\ Len(value) \in Nat /\ Len(rest) \in Nat
    BY <1>1, <1>3, LenProperties
  <2>3. Len(text) = Len(level) + Len(name) + 1 + Len(key) + Len(rest) + 1
    BY <1>3 DEF LaidOut
  <2> HIDE DEF rest
  <2>4. QED
    BY <2>1, <2>2, <2>3 DEF Bracket
<1>5. /\ text \in Seq(S) /\ text[Len(text)] = ")" /\ text[bracket] = "("
      /\ \A i \in 1..Len(level) : text[i] = level[i]
      /\ \A i \in 1..Len(name) : text[Len(level) + i] = name[i]
      /\ \A i \in 1..Len(key) : text[bracket + i] = key[i]
      /\ \A i \in 1..Len(rest) : text[keyEnd + i] = rest[i]
  BY <1>3, Zenon DEF LaidOut, Bracket
<1>6. \A j \in 1..keyEnd : text[j] # Comma
  <2> HIDE DEF bracket, keyEnd, rest
  <2> SUFFICES ASSUME NEW j \in 1..keyEnd PROVE text[j] # Comma
    OBVIOUS
  <2>1. CASE j \in 1..Len(level)
    <3>1. text[j] \in {"a", "o", "q", "-"}
      BY <1>1, <1>5, <2>1, LevelIs
    <3>2. QED
      BY <3>1, CommaIs
  <2>2. CASE j - Len(level) \in 1..Len(name)
    <3>1. Len(level) + (j - Len(level)) = j
      BY <1>4, <2>2
    <3>2. \A i \in 1..Len(name) : name[i] \in Name \cup {"f"}
      BY <1>1, Spelling
    <3>3. text[j] \in Name \cup {"f"}
      BY <1>5, <2>2, <3>1, <3>2
    <3>4. QED
      BY <3>3, CommaIs
  <2>3. CASE j = bracket
    BY <1>5, <2>3, CommaIs
  <2>4. CASE j - bracket \in 1..Len(key)
    <3>1. bracket + (j - bracket) = j
      BY <1>4, <2>4
    <3>2. QED
      BY <1>5, <2>4, <3>1
  <2>5. QED
    BY <1>4, <2>1, <2>2, <2>3, <2>4 DEF keyEnd
<1>7. /\ name \in Operations \cup ForceOperations /\ IsValidOperation(name)
      /\ Plain(name) \in Name
  BY <1>1, Spelling DEF IsValidOperation
<1> HIDE DEF bracket, rest
<1>8. Substring(text, bracket + 1, keyEnd) = key
  <2>1. /\ text \in Seq(S) /\ key \in Seq(S) /\ bracket \in Nat
        /\ bracket + Len(key) <= Len(text) /\ \A i \in 1..Len(key) : text[bracket + i] = key[i]
    BY <1>1, <1>4, <1>5
  <2>2. QED
    BY <2>1, PartIs
<1> HIDE DEF keyEnd
<1>9. CASE Plain(name) \in NeedsValue
  <2>1. rest = <<Comma>> \o value
    BY <1>9 DEF Rest, rest
  <2>2. Len(rest) = 1 + Len(value) /\ rest[1] = Comma /\ \A i \in 1..Len(value) : rest[1 + i] = value[i]
    BY <1>1, <1>4, <2>1
  <2>3. FirstOf(text, Comma) = keyEnd + 1
    <3>1. keyEnd + 1 \in 1..Len(text) /\ text[keyEnd + 1] = Comma
      BY <1>4, <1>5, <2>2
    <3>2. PICK n : n = keyEnd + 1
      OBVIOUS
    <3>3. n - 1 = keyEnd
      BY <1>4, <3>2
    <3>4. \A j \in 1..(n - 1) : text[j] # Comma
      BY <1>6, <3>3, Zenon
    <3>5. n \in 1..Len(text) /\ text[n] = Comma /\ text \in Seq(S)
      BY <1>5, <3>1, <3>2, Zenon
    <3>6. FirstOf(text, Comma) = n
      BY <3>4, <3>5, FirstOfIs
    <3>7. QED
      BY <3>2, <3>6
  <2>4. Substring(text, keyEnd + 2, keyEnd + 1 + Len(value)) = value
    <3>1. \A i \in 1..Len(value) : text[(keyEnd + 1) + i] = value[i]
      <4> TAKE i \in 1..Len(value)
      <4>1. 1 + i \in 1..Len(rest) /\ (keyEnd + 1) + i = keyEnd + (1 + i)
        BY <1>4, <2>2
      <4>2. QED
        BY <1>5, <2>2, <4>1
    <3>2. keyEnd + 1 \in Nat /\ (keyEnd + 1) + Len(value) <= Len(text) /\ (keyEnd + 1) + 1 = keyEnd + 2
      BY <1>4, <2>2
    <3>3. QED
      BY <1>1, <1>5, <3>1, <3>2, PartIs
  <2>5. /\ (keyEnd + 1) - 1 = keyEnd /\ (keyEnd + 1) + 1 = keyEnd + 2 /\ Len(text) - 1 = keyEnd + 1 + Len(value)
        /\ keyEnd + 1 # 0 /\ Len(text) # 0
    BY <1>4, <2>2
  <2>6. QED
    BY <1>4, <1>8, <1>9, <2>3, <2>4, <2>5 DEF bracket, keyEnd
<1>10. CASE Plain(name) \notin NeedsValue
  <2>1. Len(rest) = 0
    BY <1>10 DEF Rest, rest
  <2>2. FirstOf(text, Comma) = 0
    <3>1. \A j \in 1..Len(text) : text[j] # Comma
      BY <1>4, <1>5, <1>6, <2>1, CommaIs
    <3>2. QED
      BY <1>5, <3>1, FirstOfIs
  <2>3. Len(text) - 1 = keyEnd
    BY <1>4, <2>1
  <2>4. QED
    BY <1>4, <1>8, <1>10, <2>2, <2>3 DEF bracket, keyEnd
<1>11. QED
  BY <1>9, <1>10

\* A machine reads the key and the value as they were written, unless there is a
\* comma in the key (parseKeyValueStoreCmd).
LEMMA ReadsWhatIsBuilt ==
    ASSUME NEW S, Symbols \subseteq S, NEW text, NEW level, NEW name, NEW key, NEW value,
           Built(S, text, level, name, key, value),
           Plain(name) \notin NeedsValue => value = <<>>,
           \A i \in 1..Len(key) : key[i] # Comma
    PROVE  Parse(text).name = name /\ Parse(text).key = key /\ Parse(text).value = value
<1> DEFINE bracket == Bracket(level, name)
           keyEnd  == bracket + Len(key)
<1>1. /\ FirstOf(text, "(") = bracket
      /\ LastOf(text, ")") = Len(text)
      /\ Substring(text, IF LevelGiven(text) THEN 3 ELSE 1, bracket - 1) = name
  BY NameIsFound
<1>2. /\ bracket \in Nat \ {0} /\ keyEnd \in Nat /\ Len(text) \in Nat \ {0}
      /\ Substring(text, bracket + 1, keyEnd) = key
      /\ Plain(name) \in NeedsValue =>
            FirstOf(text, Comma) = keyEnd + 1 /\ Substring(text, (keyEnd + 1) + 1, Len(text) - 1) = value
      /\ Plain(name) \notin NeedsValue => FirstOf(text, Comma) = 0 /\ Len(text) - 1 = keyEnd
  BY PartsAreFound
<1>3. IsValidOperation(name) /\ Plain(name) \in Name
  BY Spelling DEF IsValidOperation, Built
<1> HIDE DEF bracket, keyEnd
<1>4. CASE Plain(name) \in NeedsValue
  <2>1. Plain(name) \notin NeedsKey
    BY <1>4 DEF NeedsValue, NeedsKey
  <2>2. (keyEnd + 1) - 1 = keyEnd /\ keyEnd + 1 # 0 /\ Len(text) # 0
    BY <1>2
  <2>3. Parse(text) = Parsed(name, key, value, LevelOf(text))
    BY <1>1, <1>2, <1>3, <1>4, <2>1, <2>2 DEF Parse
  <2>4. QED
    BY <2>3 DEF Parsed
<1>5. CASE Plain(name) \notin NeedsValue
  <2>1. Plain(name) \in NeedsKey /\ value = <<>>
    BY <1>3, <1>5 DEF Name
  <2>2. Parse(text) = Parsed(name, key, <<>>, LevelOf(text))
    BY <1>1, <1>2, <1>3, <1>5, <2>1 DEF Parse
  <2>3. QED
    BY <2>1, <2>2 DEF Parsed
<1>6. QED
  BY <1>4, <1>5

\* The forced form of an operation
LEMMA ForcedName ==
    ASSUME NEW name \in Operations
    PROVE  /\ <<"f">> \o name \in ForceOperations
           /\ Plain(<<"f">> \o name) = Plain(name)
           /\ name \notin ForceOperations /\ name # <<"show">> /\ name # <<>>
<1>1. PICK n \in Name : name = <<n>>
  BY DEF Operations
<1>2. <<"f">> \o name = <<"f", n>>
  <2> DEFINE S == {"f", n}
  <2>1. PICK s, t, u, v : s = <<"f">> /\ t = <<n>> /\ u = s \o t /\ v = <<"f", n>>
    OBVIOUS
  <2>2. "f" \in S /\ n \in S
    OBVIOUS
  <2> HIDE DEF S
  <2>3. /\ s \in Seq(S) /\ Len(s) = 1 /\ s[1] = "f" /\ t \in Seq(S) /\ Len(t) = 1 /\ t[1] = n
        /\ v \in Seq(S) /\ Len(v) = 2 /\ v[1] = "f" /\ v[2] = n
    BY <2>1, <2>2, OneSymbol, TwoSymbols
  <2>4. Joins(S, s, t, u)
    BY <2>1, <2>3, PartsJoined
  <2>5. u \in Seq(S) /\ Len(u) = 2 /\ u[1] = "f" /\ u[2] = n
    BY <2>3, <2>4 DEF Joins
  <2>6. u = v
    BY <2>3, <2>5, SameElements
  <2>7. QED
    BY <1>1, <2>1, <2>6
<1>3. Plain(<<"f">> \o name) = n /\ Plain(name) = n
  BY <1>1, <1>2 DEF Plain
<1>4. Len(name) = 1 /\ name[1] # "show"
  BY <1>1 DEF Name, NeedsValue, NeedsKey
<1>5. \A m \in Name : Len(<<"f", m>>) = 2
  OBVIOUS
<1>6. QED
  BY <1>2, <1>3, <1>4, <1>5 DEF ForceOperations

\* It does not matter where the brackets are: u is s and then t.
Groups(S, r, s, t, u) == u \in Seq(S) /\ r \o u = (r \o s) \o t

LEMMA Grouped ==
    ASSUME NEW S, NEW r \in Seq(S), NEW s \in Seq(S), NEW t \in Seq(S), NEW u, u = s \o t
    PROVE  Groups(S, r, s, t, u)
<1>1. s \o t \in Seq(S)
  BY ConcatProperties
<1>2. r \o (s \o t) = (r \o s) \o t
  BY ConcatAssociative
<1>3. QED
  BY <1>1, <1>2, Zenon DEF Groups

Regroups(f, s1, s2, s3, s4, s5) ==
    f \o (s1 \o s2 \o s3 \o s4 \o s5) = (f \o s1) \o s2 \o s3 \o s4 \o s5

LEMMA Regrouped ==
    ASSUME NEW S, NEW f \in Seq(S), NEW s1 \in Seq(S), NEW s2 \in Seq(S), NEW s3 \in Seq(S),
           NEW s4 \in Seq(S), NEW s5 \in Seq(S)
    PROVE  Regroups(f, s1, s2, s3, s4, s5)
<1> DEFINE t2 == s1 \o s2
           t3 == t2 \o s3
           t4 == t3 \o s4
           t5 == t4 \o s5
<1>1. t2 \in Seq(S) /\ f \o t2 = (f \o s1) \o s2
  <2>1. Groups(S, f, s1, s2, t2)
    BY Grouped
  <2>2. QED
    BY <2>1, Zenon DEF Groups
<1>2. t3 \in Seq(S) /\ f \o t3 = (f \o t2) \o s3
  <2> HIDE DEF t2
  <2>1. Groups(S, f, t2, s3, t3)
    BY <1>1, Grouped
  <2>2. QED
    BY <2>1, Zenon DEF Groups
<1>3. t4 \in Seq(S) /\ f \o t4 = (f \o t3) \o s4
  <2> HIDE DEF t3
  <2>1. Groups(S, f, t3, s4, t4)
    BY <1>2, Grouped
  <2>2. QED
    BY <2>1, Zenon DEF Groups
<1>4. f \o t5 = (f \o t4) \o s5
  <2> HIDE DEF t4
  <2>1. Groups(S, f, t4, s5, t5)
    BY <1>3, Grouped
  <2>2. QED
    BY <2>1, Zenon DEF Groups
<1> HIDE DEF t2, t3, t4, t5
<1>5. f \o t5 = (((f \o s1) \o s2) \o s3) \o s4 \o s5
  BY <1>1, <1>2, <1>3, <1>4, Zenon
<1>6. QED
  BY <1>5, Zenon DEF Regroups, t2, t3, t4, t5

\* What is sent to the replicas is what a client would send for the forced operation,
\* without a level (getForceCommand).
LEMMA ForcedIsBuilt ==
    ASSUME NEW S, Symbols \subseteq S, NEW text, NEW level, NEW name \in Operations,
           NEW key, NEW value, Built(S, text, level, name, key, value)
    PROVE  Built(S, ForceCommand(text), <<>>, <<"f">> \o name, key, value)
<1> DEFINE command == BuildCommand(name, key, value)
<1>1. /\ level \in Seq(S) /\ name \in Seq(S) /\ key \in Seq(S) /\ value \in Seq(S)
      /\ Len(level) \in {0, 2} /\ level \in Levels
  BY Spelling, LevelIs DEF Built
<1>2. <<"f">> \in Seq(S) /\ <<"(">> \in Seq(S) /\ <<")">> \in Seq(S)
  <2>1. "f" \in S /\ "(" \in S /\ ")" \in S
    BY DEF Symbols
  <2>2. QED
    BY <2>1, OneSymbol
<1>3. Rest(name, value) \in Seq(S)
  BY Layout
<1>4. command = name \o <<"(">> \o key \o Rest(name, value) \o <<")">>
  BY DEF BuildCommand, Rest
<1>5. command \in Seq(S)
  <2> HIDE DEF command
  <2>1. \A s, t \in Seq(S) : s \o t \in Seq(S)
    BY ConcatProperties
  <2>2. name \o <<"(">> \in Seq(S)
    BY <1>1, <1>2, <2>1, Zenon
  <2>3. name \o <<"(">> \o key \in Seq(S)
    BY <1>1, <2>1, <2>2, Zenon
  <2>4. name \o <<"(">> \o key \o Rest(name, value) \in Seq(S)
    BY <1>3, <2>1, <2>3, Zenon
  <2>5. name \o <<"(">> \o key \o Rest(name, value) \o <<")">> \in Seq(S)
    BY <1>2, <2>1, <2>4, Zenon
  <2>6. QED
    BY <1>4, <2>5, Zenon
<1>6. text = level \o command
  BY DEF Built
<1> HIDE DEF command
<1>7. <<"f">> \o command = BuildCommand(<<"f">> \o name, key, value)
  <2>1. BuildCommand(<<"f">> \o name, key, value)
            = (<<"f">> \o name) \o <<"(">> \o key \o Rest(name, value) \o <<")">>
    BY ForcedName, Zenon DEF BuildCommand, Rest
  <2>2. Regroups(<<"f">>, name, <<"(">>, key, Rest(name, value), <<")">>)
    <3>1. ASSUME NEW f \in Seq(S), NEW open \in Seq(S), NEW close \in Seq(S), NEW rest \in Seq(S)
          PROVE  Regroups(f, name, open, key, rest, close)
      BY <1>1, Regrouped
    <3>2. QED
      BY <1>2, <1>3, <3>1, Zenon
  <2>3. QED
    BY <1>4, <2>1, <2>2, Zenon DEF Regroups
<1>8. (IF LevelGiven(text) THEN SubSeq(text, 3, Len(text)) ELSE text) = command
  <2>1. Joins(S, level, command, text)
    BY <1>1, <1>5, <1>6, PartsJoined
  <2>2. LevelGiven(text) <=> level # <<>>
    BY NameIsFound
  <2>3. CASE level # <<>>
    <3>1. Len(level) = 2
      BY <1>1, <2>3
    <3>2. Len(command) \in Nat
      BY <1>5, LenProperties
    <3>3. text \in Seq(S) /\ Len(text) = 2 + Len(command) /\ \A i \in 1..Len(command) : text[2 + i] = command[i]
      BY <2>1, <3>1 DEF Joins
    <3>4. Substring(text, 2 + 1, 2 + Len(command)) = command
      BY <1>5, <3>2, <3>3, PartIs
    <3>5. Substring(text, 2 + 1, 2 + Len(command)) = SubSeq(text, 3, Len(text))
      BY <3>2, <3>3 DEF Substring
    <3>6. QED
      BY <2>2, <2>3, <3>4, <3>5
  <2>4. CASE level = <<>>
    <3>1. text = command
      BY <1>5, <1>6, <2>4, ConcatEmptySeq
    <3>2. QED
      BY <2>2, <2>4, <3>1
  <2>5. QED
    BY <2>3, <2>4
<1>9. ForceCommand(text) = <<>> \o BuildCommand(<<"f">> \o name, key, value)
  <2>1. ForceCommand(text) = <<"f">> \o command
    BY <1>8, Zenon DEF ForceCommand
  <2>2. <<"f">> \o command \in Seq(S)
    BY <1>2, <1>5, ConcatProperties
  <2>3. <<>> \o (<<"f">> \o command) = <<"f">> \o command
    BY <2>2, ConcatEmptySeq
  <2>4. QED
    BY <1>7, <2>1, <2>3, Zenon
<1>10. <<"f">> \o name \in Operations \cup ForceOperations /\ <<>> \in Levels
  BY ForcedName DEF Levels
<1>11. QED
  BY <1>1, <1>9, <1>10, Zenon DEF Built

================================================================================
