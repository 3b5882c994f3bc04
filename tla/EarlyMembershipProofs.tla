-------------------------- MODULE EarlyMembershipProofs --------------------------
(* ListSound for any machines, any number of news and any timeouts.               *)
(*                                                                               *)
(* The inductive invariant Inv says where each of the two threads is with the     *)
(* entry it has found, which no removal of the timer thread and no addition of    *)
(* the other can take from it as long as the machine's own entry stays first; and *)
(* that what the machine has missed of its own stamps is paid for with memory:    *)
(* each second without a stamp has doubled the vector.                            *)
EXTENDS EarlyMembership, FiniteSetTheorems, SequenceTheorems,
        WellFoundedInduction, TLAPS

Item == [id : Id, e : Entry]

Places == {"search", "merge", "add"}

\* Where the timer thread may be.
Stages == {"sleep", "gone", "retire", "retiring", "beat", "beating", "process",
           "marking", "remove", "sent"}

Types ==
    /\ list \in Seq(Item)
    /\ capacity \in Nat \ {0}
    /\ \/ merging = Free
       \/ merging \in [at : Places, i : Nat, sent : Said]
    /\ timer \in [at : Stages, i : Nat]
    /\ entriesToDelete \in Seq(Id)
    /\ moved \in BOOLEAN /\ due \in BOOLEAN /\ leave \in BOOLEAN /\ crossed \in BOOLEAN

\* The indices the threads hold are entries.
IndicesInList ==
    /\ timer.at \in Holding => timer.i \in DOMAIN list
    /\ timer.at = "process" => timer.i # 0
    /\ merging.at \in {"search", "merge"} => merging.i # 0

\* Only a machine that was asked to leave retires, and then it does not look at its
\* list any more; a second that has passed is dealt with before the next one.
LeavesWhenAsked ==
    /\ timer.at \in {"retire", "retiring"} => leave
    /\ due => timer.at = "sleep"

\* As long as nothing was removed meanwhile, the merging thread's search is right.
SearchSound ==
    /\ merging.at = "search" =>
          \A j \in DOMAIN list : j < merging.i => list[j].id # merging.sent.id
    /\ merging.at = "merge" =>
          merging.i \in DOMAIN list /\ list[merging.i].id = merging.sent.id
    /\ merging.at = "add" => \A j \in DOMAIN list : list[j].id # merging.sent.id

\* The machine's own entry is first, and nowhere else, for either thread.
SelfFirst ==
    /\ list # <<>> /\ list[1].id = Self
    /\ \A j \in DOMAIN list : list[j].id = Self => j = 1
    /\ \A j \in DOMAIN entriesToDelete : entriesToDelete[j] # Self
    /\ timer.at \in {"retiring", "beating"} => timer.i = 1
    /\ timer.at = "marking" => timer.i # 1
    /\ merging.at = "search" /\ merging.i # 1 => merging.sent.id # Self
    /\ merging.at = "merge" /\ merging.i = 1 => merging.sent.id = Self
    /\ merging.at = "add" => merging.sent.id # Self

\* The machine is not suspected, nor leaving while it looks at its list.
SelfWell ==
    /\ ~list[1].e.failed
    /\ list[1].e.leaving => leave
    /\ timer.at \in {"process", "marking"} => ~list[1].e.leaving

\* Has a second passed since the machine stamped its entry, or tried to?
Unstamped ==
    due \/ timer.at \in {"retire", "retiring", "beat"} \/ (timer.at = "beating" /\ ~moved)

\* The vector has doubled for each second without a stamp.
Allowed == IF Unstamped THEN 2 * capacity ELSE capacity

StampsPaid == 2^(list[1].e.age) <= Allowed

SelfKept == SelfFirst /\ SelfWell /\ StampsPaid

Inv ==
    /\ Types
    /\ IndicesInList
    /\ LeavesWhenAsked
    /\ ~crossed => OneEntryEach /\ NeverAhead /\ SearchSound
    /\ capacity <= 2^TTF => SelfKept

--------------------------------------------------------------------------------
(* Operators                                                                    *)

\* A power of two is the number of subsets of an interval; the next one is twice it.
LEMMA PowerDoubles ==
    ASSUME NEW n \in Nat
    PROVE  2^n \in Nat \ {0} /\ 2^(n + 1) = 2 * 2^n
<1> DEFINE S == SUBSET (1..n)
           With(x) == x \cup {n + 1}
           T == {With(x) : x \in S}
<1>1. IsFiniteSet(1..n) /\ Cardinality(1..n) = n
  BY FS_Interval
<1>2. IsFiniteSet(1..(n + 1)) /\ Cardinality(1..(n + 1)) = n + 1
  BY FS_Interval
<1>3. IsFiniteSet(S) /\ Cardinality(S) = 2^n
  BY <1>1, FS_SUBSET
<1>4. Cardinality(SUBSET (1..(n + 1))) = 2^(n + 1)
  BY <1>2, FS_SUBSET
<1>5. IsFiniteSet(T) /\ Cardinality(T) = Cardinality(S)
  <2> DEFINE f == [x \in S |-> With(x)]
  <2>1. f \in Bijection(S, T)
    <3>1. f \in [S -> T]
      OBVIOUS
    <3>2. ASSUME NEW x \in S, NEW y \in S, f[x] = f[y]
          PROVE  x = y
      <4>1. n + 1 \notin x /\ n + 1 \notin y
        OBVIOUS
      <4> QED
        BY <3>2, <4>1
    <3>3. \A y \in T : \E x \in S : f[x] = y
      OBVIOUS
    <3>4. f \in Injection(S, T)
      BY <3>1, <3>2 DEF Injection, IsInjective
    <3>5. f \in Surjection(S, T)
      BY <3>1, <3>3, Zenon DEF Surjection
    <3> QED
      BY <3>4, <3>5, Zenon DEF Bijection
  <2> QED
    BY <1>3, <2>1, FS_Bijection DEF ExistsBijection
<1>6. S \cap T = {}
  <2> SUFFICES ASSUME NEW x \in S, x \in T PROVE FALSE
    OBVIOUS
  <2>1. n + 1 \in x
    OBVIOUS
  <2> QED
    BY <2>1
<1>7. SUBSET (1..(n + 1)) = S \cup T
  <2>1. ASSUME NEW x \in SUBSET (1..(n + 1)), x \notin S
        PROVE  x \in T
    <3>1. n + 1 \in x
      BY <2>1
    <3>2. x \ {n + 1} \in S
      OBVIOUS
    <3>3. x = With(x \ {n + 1})
      BY <3>1
    <3> QED
      BY <3>2, <3>3
  <2>2. \A x \in S : x \subseteq 1..(n + 1) /\ With(x) \subseteq 1..(n + 1)
    OBVIOUS
  <2>3. S \cup T \subseteq SUBSET (1..(n + 1))
    BY <2>2
  <2> QED
    BY <2>1, <2>3
<1>8. Cardinality(S \cup T) = Cardinality(S) + Cardinality(T) - Cardinality(S \cap T)
  BY <1>3, <1>5, FS_Union
<1>9. Cardinality(S \cap T) = 0
  BY <1>6, FS_EmptySet
<1>10. Cardinality(S) \in Nat \ {0}
  <2>1. Cardinality(S) \in Nat
    BY <1>3, FS_CardinalityType
  <2>2. Cardinality(S) # 0
    BY <1>3, FS_EmptySet, {} \in S
  <2> QED
    BY <2>1, <2>2
<1>11. Cardinality(S \cup T) = 2 * Cardinality(S)
  BY <1>5, <1>8, <1>9, <1>10
<1>12. 2^(n + 1) = 2 * Cardinality(S)
  BY <1>4, <1>7, <1>11, Zenon
<1> QED
  BY <1>3, <1>10, <1>12, Zenon

\* A larger power of two has the larger exponent.
LEMMA PowerGrows ==
    ASSUME NEW m \in Nat, NEW n \in Nat, 2^m <= 2^n
    PROVE  m <= n
<1> SUFFICES ASSUME m > n PROVE FALSE
  OBVIOUS
<1>1. IsFiniteSet(1..m) /\ Cardinality(1..m) = m
  BY FS_Interval
<1>2. IsFiniteSet(1..n) /\ Cardinality(1..n) = n
  BY FS_Interval
<1>3. IsFiniteSet(SUBSET (1..m)) /\ Cardinality(SUBSET (1..m)) = 2^m
  BY <1>1, FS_SUBSET
<1>4. IsFiniteSet(SUBSET (1..n)) /\ Cardinality(SUBSET (1..n)) = 2^n
  BY <1>2, FS_SUBSET
<1>5. SUBSET (1..n) \in SUBSET SUBSET (1..m)
  OBVIOUS
<1> DEFINE M == SUBSET (1..m)
           N == SUBSET (1..n)
<1>6. {m} \in M /\ {m} \notin N
  OBVIOUS
<1> HIDE DEF M, N
<1>7. /\ Cardinality(N) <= Cardinality(M)
      /\ Cardinality(M) = Cardinality(N) => M = N
  <2>1. IsFiniteSet(M) /\ N \in SUBSET M
    BY <1>3, <1>5 DEF M, N
  <2> QED
    BY <2>1, FS_Subset
<1>8. Cardinality(M) \in Nat /\ Cardinality(N) \in Nat
  BY <1>3, <1>4, FS_CardinalityType DEF M, N
<1>9. Cardinality(M) <= Cardinality(N)
  BY <1>3, <1>4, Zenon DEF M, N
<1> QED
  BY <1>6, <1>7, <1>8, <1>9

\* A set of numbers that is not empty has a least one.
LEMMA SmallestOfNat ==
    ASSUME NEW I \in SUBSET Nat, I # {}
    PROVE  \E x \in I : \A y \in I : x <= y
<1> DEFINE R == OpToRel(<, Nat)
<1>1. IsWellFoundedOn(R, Nat)
  BY NatLessThanWellFounded
<1>2. PICK x \in I : \A y \in I : <<y, x>> \notin R
  <2> HIDE DEF R
  <2> QED
    BY <1>1, WFMin
<1>3. ASSUME NEW y \in I PROVE x <= y
  <2>1. x \in Nat /\ y \in Nat
    OBVIOUS
  <2>2. ~ (y < x)
    BY <1>2, <2>1 DEF OpToRel
  <2> QED
    BY <2>1, <2>2
<1> QED
  BY <1>3

\* Find gives the first place of an id on the list, 0 if it is not there.
LEMMA FindMeans ==
    ASSUME list \in Seq(Item), NEW id
    PROVE  \/ Find(id) = 0 /\ \A j \in DOMAIN list : list[j].id # id
           \/ /\ Find(id) \in DOMAIN list /\ list[Find(id)].id = id
              /\ \A j \in DOMAIN list : list[j].id = id => Find(id) <= j
<1> DEFINE I == {j \in 1..Len(list) : list[j].id = id}
<1>1. Find(id) = IF I # {} THEN Min(I) ELSE 0
  BY DEF Find, SelectInSeq
<1>2. CASE I = {}
  BY <1>1, <1>2
<1>3. CASE I # {}
  <2>1. \E x \in I : \A y \in I : x <= y
    <3>1. I \in SUBSET Nat
      OBVIOUS
    <3> QED
      BY <1>3, <3>1, SmallestOfNat
  <2>2. Min(I) \in I /\ \A y \in I : Min(I) <= y
    BY <2>1 DEF Min
  <2> QED
    BY <1>1, <1>3, <2>2
<1> QED
  BY <1>2, <1>3

\* A sequence without its entry i.
LEMMA RemoveAtMeans ==
    ASSUME NEW S, NEW s \in Seq(S), NEW i \in DOMAIN s
    PROVE  /\ RemoveAt(s, i) \in Seq(S)
           /\ Len(RemoveAt(s, i)) = Len(s) - 1
           /\ \A j \in DOMAIN RemoveAt(s, i) :
                 RemoveAt(s, i)[j] = IF j < i THEN s[j] ELSE s[j + 1]
<1> DEFINE a == SubSeq(s, 1, i - 1)
           b == SubSeq(s, i + 1, Len(s))
<1>1. i \in 1..Len(s) /\ Len(s) \in Nat
  BY LenProperties
<1>2. a \in Seq(S) /\ Len(a) = i - 1 /\ \A j \in 1..(i - 1) : a[j] = s[j]
  <2>1. \A j \in 1..(i - 1) : s[j] \in S
    BY <1>1, ElementOfSeq
  <2> QED
    BY <1>1, <2>1, SubSeqProperties
<1>3. /\ b \in Seq(S) /\ Len(b) = Len(s) - i
      /\ \A j \in 1..(Len(s) - i) : b[j] = s[i + j]
  <2>1. \A j \in (i + 1)..Len(s) : s[j] \in S
    BY <1>1, ElementOfSeq
  <2>2. /\ b \in Seq(S)
        /\ Len(b) = IF i + 1 <= Len(s) THEN Len(s) - (i + 1) + 1 ELSE 0
        /\ \A j \in 1..(Len(s) - (i + 1) + 1) : b[j] = s[i + 1 + j - 1]
    BY <1>1, <2>1, SubSeqProperties
  <2> QED
    BY <1>1, <2>2
<1> HIDE DEF a, b
<1>4. /\ a \o b \in Seq(S) /\ Len(a \o b) = Len(s) - 1
      /\ \A j \in 1..(Len(s) - 1) : (a \o b)[j] = IF j <= i - 1 THEN a[j] ELSE b[j - (i - 1)]
  BY <1>1, <1>2, <1>3, ConcatProperties
<1>5. RemoveAt(s, i) = a \o b
  BY DEF RemoveAt, a, b
<1>6. ASSUME NEW j \in 1..(Len(s) - 1)
      PROVE  (a \o b)[j] = IF j < i THEN s[j] ELSE s[j + 1]
  <2>1. CASE j < i
    BY <1>1, <1>2, <1>4, <2>1
  <2>2. CASE j >= i
    <3>1. j - (i - 1) \in 1..(Len(s) - i) /\ i + (j - (i - 1)) = j + 1
      BY <1>1, <2>2
    <3>2. b[j - (i - 1)] = s[j + 1]
      BY <1>3, <3>1
    <3> QED
      BY <1>1, <1>4, <2>2, <3>2
  <2>3. j < i \/ j >= i
    BY <1>1
  <2> QED
    BY <2>1, <2>2, <2>3, Zenon
<1>7. DOMAIN (a \o b) = 1..(Len(s) - 1)
  BY <1>4, LenProperties
<1> QED
  BY <1>4, <1>5, <1>6, <1>7

--------------------------------------------------------------------------------
(* Entries, and what a step does to the list                                     *)

\* What the machine is told of an id.
LEMMA SaidMeans ==
    ASSUME NEW x \in Said
    PROVE  /\ x.id \in Id /\ x.e.beat \in Nat
           /\ x.e.failed \in BOOLEAN /\ x.e.leaving \in BOOLEAN
           /\ x.id = Self => x.e.beat = 0
           /\ x.id # Self => x.e.beat <= Beats[x.id]
<1> DEFINE Of(id, beats) ==
        /\ x.id = id /\ x.e.beat \in beats
        /\ x.e.failed \in BOOLEAN /\ x.e.leaving \in BOOLEAN
<1>1. ASSUME NEW id, NEW beats, x \in SaidOf(id, beats) PROVE Of(id, beats)
  <2> DEFINE said(beat, flag) ==
          [beat |-> beat, failed |-> flag = "failed", leaving |-> flag = "leaving"]
  <2>1. PICK beat \in beats, flag \in {"", "failed", "leaving"} :
            x = WithId(id, said(beat, flag))
    BY <1>1 DEF SaidOf
  <2>2. x.id = id /\ x.e = said(beat, flag)
    BY <2>1 DEF WithId
  <2>3. said(beat, flag) \in [beat : beats, failed : BOOLEAN, leaving : BOOLEAN]
    OBVIOUS
  <2> QED
    BY <2>2, <2>3
<1>2. CASE x \in SaidOf(Self, {0})
  BY <1>1, <1>2 DEF Id
<1>3. CASE x \in UNION {SaidOf(id, 1..Beats[id]) : id \in Other}
  <2>1. PICK id \in Other : x \in SaidOf(id, 1..Beats[id])
    BY <1>3
  <2>2. Of(id, 1..Beats[id])
    BY <1>1, <2>1
  <2>3. id # Self /\ Beats[id] \in Nat
    BY EarlyMembershipAssumption
  <2> QED
    BY <2>2, <2>3 DEF Id
<1> QED
  BY <1>2, <1>3 DEF Said

\* A new entry, and one a second later, are entries.
LEMMA EntriesStayEntries ==
    /\ \A beat \in Nat : NewEntry(beat) \in Entry
    /\ \A e \in Entry : Aged(e) \in Entry
<1>1. AgeCap \in Nat
  BY TimesAssumption DEF AgeCap
<1>2. \A age \in 0..AgeCap : Older(age) \in 0..AgeCap
  BY <1>1 DEF Older
<1>3. ASSUME NEW e \in Entry PROVE Aged(e) \in Entry
  <2> DEFINE failAge == IF e.failed THEN Older(e.failAge) ELSE 0
  <2>1. e.age \in 0..AgeCap /\ e.failAge \in 0..AgeCap
    BY DEF Entry
  <2>2. Older(e.age) \in 0..AgeCap /\ failAge \in 0..AgeCap
    BY <1>1, <1>2, <2>1
  <2>3. Aged(e) = [e EXCEPT !.age = Older(e.age), !.failAge = failAge]
    BY DEF Aged
  <2> HIDE DEF failAge
  <2> QED
    BY <2>2, <2>3 DEF Entry
<1> QED
  BY <1>1, <1>3 DEF NewEntry, Entry

\* Merging takes the count of one side, and of this machine nothing counts as news.
LEMMA MergedEntry ==
    ASSUME NEW e \in Entry, NEW x \in Said
    PROVE  /\ MergeEntries(e, x.e) \in Entry
           /\ MergeEntries(e, x.e).beat \in {e.beat, x.e.beat}
           /\ x.id = Self => MergeEntries(e, x.e) = e
<1>1. AgeCap \in Nat
  BY TimesAssumption DEF AgeCap
<1>2. /\ x.e.beat \in Nat /\ x.e.failed \in BOOLEAN /\ x.e.leaving \in BOOLEAN
      /\ x.id = Self => x.e.beat = 0
  BY SaidMeans
<1>3. e.beat \in Nat
  BY DEF Entry
<1> QED
  BY <1>1, <1>2, <1>3 DEF MergeEntries, Entry

\* The list n has the same ids in the same places as the list m.
SamePlaces(m, n) ==
    /\ n \in Seq(Item) /\ Len(n) = Len(m)
    /\ \A j \in 1..Len(m) : n[j].id = m[j].id

\* An entry of the list.
LEMMA ItemsOfList ==
    ASSUME list \in Seq(Item)
    PROVE  /\ Len(list) \in Nat /\ DOMAIN list = 1..Len(list)
           /\ \A j \in 1..Len(list) :
                 list[j] \in Item /\ list[j].id \in Id /\ list[j].e \in Entry
<1>1. \A j \in 1..Len(list) : list[j] \in Item
  BY ElementOfSeq
<1> QED
  BY <1>1, LenProperties DEF Item

\* A list with other contents in entry i.
LEMMA ChangedEntry ==
    ASSUME list \in Seq(Item), NEW i \in DOMAIN list, NEW e \in Entry
    PROVE  LET n == [list EXCEPT ![i].e = e]
           IN  /\ SamePlaces(list, n)
               /\ n[i].e = e
               /\ \A j \in 1..Len(list) : j # i => n[j] = list[j]
<1> DEFINE n == [list EXCEPT ![i].e = e]
           item == [list[i] EXCEPT !.e = e]
<1>1. /\ Len(list) \in Nat /\ DOMAIN list = 1..Len(list)
      /\ list[i] \in Item
  BY ItemsOfList
<1>2. item \in Item /\ item.id = list[i].id /\ item.e = e
  BY <1>1 DEF Item
<1>3. n = [list EXCEPT ![i] = item]
  OBVIOUS
<1> HIDE DEF n, item
<1>4. /\ n \in Seq(Item) /\ Len(n) = Len(list)
      /\ \A j \in 1..Len(list) : n[j] = IF j = i THEN item ELSE list[j]
  BY <1>1, <1>2, <1>3, ExceptSeq
<1> QED
  BY <1>1, <1>2, <1>4 DEF SamePlaces, n

\* A second later.
LEMMA TickMeans ==
    ASSUME list \in Seq(Item), Tick
    PROVE  /\ SamePlaces(list, list')
           /\ \A j \in 1..Len(list) : list'[j].e = Aged(list[j].e)
<1> DEFINE n(i) == [list[i] EXCEPT !.e = Aged(@)]
<1>1. /\ Len(list) \in Nat /\ DOMAIN list = 1..Len(list)
      /\ \A j \in 1..Len(list) : list[j] \in Item /\ list[j].e \in Entry
  BY ItemsOfList
<1>2. \A j \in 1..Len(list) : n(j) \in Item /\ n(j).id = list[j].id /\ n(j).e = Aged(list[j].e)
  BY <1>1, EntriesStayEntries DEF Item
<1>3. list' = [i \in 1..Len(list) |-> n(i)]
  BY <1>1 DEF Tick
<1> HIDE DEF n
<1>4. list' \in Seq(Item)
  BY <1>1, <1>2, <1>3, IsASeq
<1>5. Len(list') = Len(list) /\ \A j \in 1..Len(list) : list'[j] = n(j)
  BY <1>1, <1>3, <1>4, LenProperties
<1> QED
  BY <1>1, <1>2, <1>4, <1>5 DEF SamePlaces

\* What the timer thread writes goes to the entry it has found, or nowhere.
LEMMA WriteMeans ==
    ASSUME list \in Seq(Item), timer.i \in DOMAIN list, NEW e \in Entry, Write(e)
    PROVE  /\ SamePlaces(list, list')
           /\ \A j \in 1..Len(list) : j # timer.i => list'[j] = list[j]
           /\ list'[timer.i].e = IF moved THEN Found ELSE e
<1>1. CASE moved
  BY <1>1 DEF Write, SamePlaces, Found
<1>2. CASE ~moved
  <2> DEFINE i == timer.i
             n == [list EXCEPT ![i].e = e]
  <2>1. list' = n
    BY <1>2 DEF Write
  <2> HIDE DEF i
  <2>2. /\ SamePlaces(list, n)
        /\ n[i].e = e
        /\ \A j \in 1..Len(list) : j # i => n[j] = list[j]
    BY ChangedEntry DEF i
  <2> HIDE DEF n
  <2> QED
    BY <1>2, <2>1, <2>2 DEF i
<1> QED
  BY <1>1, <1>2

\* News merged into an entry: the machine's own is left as it is.
LEMMA MergeMeans ==
    ASSUME list \in Seq(Item), merging.sent \in Said, Merge
    PROVE  /\ SamePlaces(list, list')
           /\ \A j \in 1..Len(list) : j # merging.i => list'[j] = list[j]
           /\ \A j \in 1..Len(list) : j = merging.i =>
                 /\ list'[j].e.beat \in {list[j].e.beat, merging.sent.e.beat}
                 /\ merging.sent.id = Self => list'[j].e = list[j].e
<1> DEFINE i == merging.i
           e == MergeEntries(list[i].e, merging.sent.e)
           n == [list EXCEPT ![i].e = e]
<1>1. CASE i \notin DOMAIN list
  <2>1. list' = list
    BY <1>1 DEF Merge
  <2>2. DOMAIN list = 1..Len(list)
    BY ItemsOfList
  <2> QED
    BY <1>1, <2>1, <2>2 DEF SamePlaces
<1>2. CASE i \in DOMAIN list
  <2>1. list' = n
    BY <1>2 DEF Merge
  <2>2. list[i].e \in Entry
    BY <1>2, ItemsOfList
  <2>3. /\ e \in Entry
        /\ e.beat \in {list[i].e.beat, merging.sent.e.beat}
        /\ merging.sent.id = Self => e = list[i].e
    BY <2>2, MergedEntry
  <2> HIDE DEF e
  <2>4. /\ SamePlaces(list, n)
        /\ n[i].e = e
        /\ \A j \in 1..Len(list) : j # i => n[j] = list[j]
    BY <1>2, <2>3, ChangedEntry
  <2> HIDE DEF n
  <2> QED
    BY <2>1, <2>3, <2>4
<1> QED
  BY <1>1, <1>2

\* An entry is added at the end, or nothing is; the entries move only to twice the
\* memory.
LEMMA AddMeans ==
    ASSUME Types, AddToList
    PROVE  /\ \/ list' = list /\ capacity' = capacity /\ moved' = moved
              \/ /\ list' \in Seq(Item) /\ Len(list') = Len(list) + 1
                 /\ \A j \in 1..Len(list) : list'[j] = list[j]
                 /\ list'[Len(list) + 1].id = merging.sent.id
                 /\ list'[Len(list) + 1].e.beat = merging.sent.e.beat
                 /\ capacity' \in {capacity, 2 * capacity}
                 /\ moved' = moved \/ capacity' = 2 * capacity
           /\ moved' \in BOOLEAN
<1>1. list \in Seq(Item) /\ merging.sent \in Said /\ moved \in BOOLEAN
  BY DEF Types, AddToList, Free
<1> DEFINE new == merging.sent
           item == WithId(new.id, NewEntry(new.e.beat))
<1>2. new.id \in Id /\ new.e.beat \in Nat
  BY <1>1, SaidMeans
<1>3. item \in Item /\ item.id = new.id /\ item.e.beat = new.e.beat
  BY <1>2, EntriesStayEntries DEF WithId, Item, NewEntry
<1> HIDE DEF item
<1>4. CASE list' = Append(list, item)
  <2>1. /\ Append(list, item) \in Seq(Item)
        /\ Len(Append(list, item)) = Len(list) + 1
        /\ \A j \in 1..Len(list) : Append(list, item)[j] = list[j]
        /\ Append(list, item)[Len(list) + 1] = item
    BY <1>1, <1>3, AppendProperties
  <2>2. /\ capacity' \in {capacity, 2 * capacity}
        /\ moved' \in BOOLEAN
        /\ moved' = moved \/ capacity' = 2 * capacity
    <3>1. CASE new.e.failed \/ new.e.leaving
      BY <1>1, <3>1 DEF AddToList
    <3>2. CASE ~new.e.failed /\ ~new.e.leaving
      BY <1>1, <3>2 DEF AddToList
    <3> QED
      BY <3>1, <3>2
  <2> QED
    BY <1>3, <1>4, <2>1, <2>2
<1>5. CASE UNCHANGED <<list, capacity, moved>>
  BY <1>1, <1>5
<1> QED
  BY <1>4, <1>5 DEF AddToList, item

\* One entry goes, the first one with the id that is due to be deleted, or none does.
LEMMA RemoveMeans ==
    ASSUME Types, RemoveFromList
    PROVE  /\ entriesToDelete' \in Seq(Id)
           /\ \A j \in DOMAIN entriesToDelete' :
                 \E k \in DOMAIN entriesToDelete : entriesToDelete'[j] = entriesToDelete[k]
           /\ \/ list' = list
              \/ \E i \in 1..Len(list) :
                    /\ list' \in Seq(Item) /\ Len(list') = Len(list) - 1
                    /\ \A j \in 1..(Len(list) - 1) :
                          list'[j] = IF j < i THEN list[j] ELSE list[j + 1]
                    /\ \E k \in DOMAIN entriesToDelete : list[i].id = entriesToDelete[k]
                    /\ crossed' = (crossed \/ merging # Free)
<1>1. list \in Seq(Item) /\ entriesToDelete \in Seq(Id)
  BY DEF Types
<1>2. DOMAIN list = 1..Len(list) /\ Len(list) \in Nat
  BY <1>1, ItemsOfList
<1>3. CASE entriesToDelete # <<>>
  <2> DEFINE h == Head(entriesToDelete)
  <2>1. /\ Tail(entriesToDelete) \in Seq(Id)
        /\ Len(Tail(entriesToDelete)) = Len(entriesToDelete) - 1
        /\ \A j \in 1..Len(Tail(entriesToDelete)) :
              Tail(entriesToDelete)[j] = entriesToDelete[j + 1]
    BY <1>1, <1>3, HeadTailProperties
  <2>2. entriesToDelete' = Tail(entriesToDelete) /\ crossed' = (crossed \/ merging # Free)
    BY <1>3 DEF RemoveFromList
  <2>3. /\ Len(entriesToDelete) \in Nat /\ Len(entriesToDelete) # 0
        /\ DOMAIN entriesToDelete = 1..Len(entriesToDelete)
        /\ DOMAIN Tail(entriesToDelete) = 1..Len(Tail(entriesToDelete))
    BY <1>1, <1>3, <2>1, LenProperties, EmptySeq
  <2>4. \A j \in DOMAIN entriesToDelete' :
           \E k \in DOMAIN entriesToDelete : entriesToDelete'[j] = entriesToDelete[k]
    <3> TAKE j \in DOMAIN entriesToDelete'
    <3>1. j \in 1..Len(Tail(entriesToDelete))
      BY <2>2, <2>3
    <3>2. j + 1 \in DOMAIN entriesToDelete /\ entriesToDelete'[j] = entriesToDelete[j + 1]
      BY <2>1, <2>2, <2>3, <3>1
    <3> QED
      BY <3>2
  <2>5. h = entriesToDelete[1] /\ 1 \in DOMAIN entriesToDelete
    BY <1>1, <1>3, <2>3
  <2>6. CASE Find(h) = 0
    BY <1>3, <2>1, <2>2, <2>4, <2>6 DEF RemoveFromList
  <2>7. CASE Find(h) # 0
    <3> DEFINE i == Find(h)
               n == RemoveAt(list, i)
    <3>1. list' = n
      BY <1>3, <2>7 DEF RemoveFromList
    <3>2. i \in 1..Len(list) /\ list[i].id = h
      BY <1>1, <1>2, <2>7, FindMeans
    <3> HIDE DEF i
    <3>3. /\ n \in Seq(Item) /\ Len(n) = Len(list) - 1
          /\ \A j \in DOMAIN n : n[j] = IF j < i THEN list[j] ELSE list[j + 1]
      BY <1>1, <1>2, <3>2, RemoveAtMeans
    <3> HIDE DEF n
    <3>4. DOMAIN n = 1..(Len(list) - 1)
      BY <3>3, LenProperties
    <3> QED
      BY <2>1, <2>2, <2>4, <2>5, <3>1, <3>2, <3>3, <3>4
  <2> QED
    BY <2>6, <2>7
<1>4. CASE entriesToDelete = <<>>
  BY <1>1, <1>4 DEF RemoveFromList
<1> QED
  BY <1>3, <1>4

--------------------------------------------------------------------------------
(* Types, and where the threads are                                              *)

LEMMA TypesKept ==
    ASSUME Types, IndicesInList, Next
    PROVE  Types'
<1>1. /\ list \in Seq(Item) /\ Len(list) \in Nat /\ DOMAIN list = 1..Len(list)
      /\ \A j \in 1..Len(list) : list[j].id \in Id /\ list[j].e \in Entry
  BY ItemsOfList DEF Types
<1>2. timer.at \in Stages /\ timer.i \in Nat
  BY DEF Types
<1>3. AgeCap \in Nat
  BY TimesAssumption DEF AgeCap
<1>4. CASE UpdateMembershipList
  <2>1. merging' \in [at : Places, i : Nat, sent : Said]
    BY <1>4 DEF UpdateMembershipList, Places
  <2> QED
    BY <1>4, <2>1 DEF UpdateMembershipList, Types, clock
<1>5. CASE Search
  <2>1. merging \in [at : Places, i : Nat, sent : Said]
    BY <1>5 DEF Search, Types, Free
  <2>2. merging' \in [at : Places, i : Nat, sent : Said]
    <3>1. PICK place \in Places, i \in Nat : Goes(place, i)
      <4>1. merging.i + 1 \in Nat
        BY <2>1
      <4> QED
        BY <1>5, <2>1, <4>1 DEF Search, Places
    <3> QED
      BY <2>1, <3>1 DEF Goes
  <2> QED
    BY <1>5, <2>2 DEF Search, Types, clock
<1>6. CASE Merge
  <2>1. merging.sent \in Said
    BY <1>6 DEF Merge, Types, Free
  <2>2. list' \in Seq(Item)
    BY <1>1, <1>6, <2>1, MergeMeans DEF SamePlaces
  <2> QED
    BY <1>6, <2>2 DEF Merge, Types, clock
<1>7. CASE AddToList
  <2>1. list' \in Seq(Item) /\ capacity' \in Nat \ {0} /\ moved' \in BOOLEAN
    BY <1>1, <1>7, AddMeans DEF Types
  <2> QED
    BY <1>7, <2>1 DEF AddToList, Types, clock
<1>8. CASE ExecuteCb
  <2>1. timer' \in [at : Stages, i : Nat]
    BY <1>8 DEF ExecuteCb, Then, Stages
  <2> QED
    BY <1>8, <2>1 DEF ExecuteCb, Types, Elsewhere
<1>9. CASE FindSelf
  <2>1. Find(Self) \in Nat
    BY <1>1, FindMeans
  <2>2. timer' \in [at : Stages, i : Nat]
    BY <1>9, <2>1 DEF FindSelf, Then, Stages
  <2> QED
    BY <1>9, <2>2 DEF FindSelf, Types, Elsewhere, clock
<1>10. CASE SetLeaving
  <2>1. timer.i \in DOMAIN list /\ [Found EXCEPT !.leaving = TRUE] \in Entry
    BY <1>1, <1>10 DEF SetLeaving, At, IndicesInList, Holding, Found, Entry
  <2>2. list' \in Seq(Item)
    BY <1>1, <1>10, <2>1, WriteMeans DEF SetLeaving, SamePlaces
  <2> QED
    BY <1>10, <2>2 DEF SetLeaving, Types, Elsewhere, clock, Then, Stages
<1>11. CASE Beat
  <2>1. timer.i \in DOMAIN list /\ [Found EXCEPT !.age = 0] \in Entry
    BY <1>1, <1>3, <1>11 DEF Beat, At, IndicesInList, Holding, Found, Entry
  <2>2. list' \in Seq(Item)
    BY <1>1, <1>11, <2>1, WriteMeans DEF Beat, SamePlaces
  <2> QED
    BY <1>11, <2>2 DEF Beat, Types, Elsewhere, clock, Then, Stages
<1>12. CASE Examine
  <2>1. timer' \in [at : Stages, i : Nat]
    BY <1>2, <1>12 DEF Examine, Then, Stages
  <2>2. timer.i <= Len(list) => list[timer.i].id \in Id
    BY <1>1, <1>2, <1>12 DEF Examine, At, IndicesInList
  <2>3. entriesToDelete' \in Seq(Id)
    <3>1. entriesToDelete \in Seq(Id)
      BY DEF Types
    <3>2. CASE timer.i <= Len(list) /\ entriesToDelete' = Append(entriesToDelete, list[timer.i].id)
      BY <2>2, <3>1, <3>2, AppendProperties
    <3> QED
      BY <1>12, <3>1, <3>2 DEF Examine
  <2> QED
    BY <1>12, <2>1, <2>3 DEF Examine, Types, Elsewhere, clock
<1>13. CASE Suspect
  <2>1. /\ timer.i \in DOMAIN list
        /\ [Found EXCEPT !.failed = TRUE, !.failAge = 0] \in Entry
    <3>1. timer.i \in DOMAIN list
      BY <1>13 DEF Suspect, At, IndicesInList, Holding
    <3>2. Found \in Entry /\ 0 \in 0..AgeCap
      BY <1>1, <1>3, <3>1 DEF Found
    <3> QED
      BY <3>1, <3>2 DEF Entry
  <2>2. list' \in Seq(Item)
    BY <1>1, <1>13, <2>1, WriteMeans DEF Suspect, SamePlaces
  <2>3. timer' \in [at : Stages, i : Nat]
    BY <1>2, <1>13 DEF Suspect, Then, Stages
  <2> QED
    BY <1>13, <2>2, <2>3 DEF Suspect, Types, Elsewhere, clock
<1>14. CASE RemoveFromList
  <2>1. list' \in Seq(Item) /\ entriesToDelete' \in Seq(Id)
    BY <1>1, <1>14, RemoveMeans
  <2>2. timer' \in [at : Stages, i : Nat] /\ crossed' \in BOOLEAN
    <3>1. crossed \in BOOLEAN /\ timer \in [at : Stages, i : Nat]
      BY DEF Types
    <3>2. timer' = timer \/ Then("sent", 0)
      BY <1>14 DEF RemoveFromList
    <3>3. timer' \in [at : Stages, i : Nat]
      BY <3>1, <3>2 DEF Then, Stages
    <3>4. crossed' \in BOOLEAN
      BY <1>14, <3>1 DEF RemoveFromList
    <3> QED
      BY <3>3, <3>4
  <2> QED
    BY <1>14, <2>1, <2>2 DEF RemoveFromList, Types, Elsewhere, clock
<1>15. CASE Send
  BY <1>15 DEF Send, Types, Elsewhere, clock, Sleeping, Gone, Stages
<1>16. CASE Tick
  <2>1. list' \in Seq(Item)
    BY <1>1, <1>16, TickMeans DEF SamePlaces
  <2> QED
    BY <1>16, <2>1 DEF Tick, Types, threads
<1>17. CASE Sigterm
  BY <1>17 DEF Sigterm, Types, threads
<1> QED
  BY <1>4, <1>5, <1>6, <1>7, <1>8, <1>9, <1>10, <1>11, <1>12, <1>13, <1>14, <1>15,
     <1>16, <1>17 DEF Next, Merging, TimerThread

\* The merging thread only makes the list longer, and so do all others but one.
LEMMA ListGrows ==
    ASSUME Types, IndicesInList, Next, ~ RemoveFromList
    PROVE  Len(list') >= Len(list)
<1>1. list \in Seq(Item) /\ Len(list) \in Nat
  BY ItemsOfList DEF Types
<1>2. CASE Merge
  <2>1. merging.sent \in Said
    BY <1>2 DEF Merge, Types, Free
  <2> QED
    BY <1>1, <1>2, <2>1, MergeMeans DEF SamePlaces
<1>3. CASE AddToList
  BY <1>1, <1>3, AddMeans
<1>4. CASE Tick
  BY <1>1, <1>4, TickMeans DEF SamePlaces
<1>5. ASSUME NEW e, Write(e) PROVE Len(list') = Len(list)
  BY <1>1, <1>5 DEF Write
<1>6. CASE SetLeaving
  BY <1>1, <1>5, <1>6 DEF SetLeaving
<1>7. CASE Beat
  BY <1>1, <1>5, <1>7 DEF Beat
<1>8. CASE Suspect
  BY <1>1, <1>5, <1>8 DEF Suspect
<1>9. CASE UNCHANGED list
  BY <1>1, <1>9
<1> QED
  BY <1>2, <1>3, <1>4, <1>6, <1>7, <1>8, <1>9
  DEF Next, Merging, TimerThread, UpdateMembershipList, Search, ExecuteCb, FindSelf,
      Examine, Send, Sigterm

LEMMA IndicesKept ==
    ASSUME Types, IndicesInList, Next
    PROVE  IndicesInList'
<1>1. list \in Seq(Item) /\ Len(list) \in Nat /\ DOMAIN list = 1..Len(list)
  BY ItemsOfList DEF Types
<1>2. list' \in Seq(Item) /\ Len(list') \in Nat /\ DOMAIN list' = 1..Len(list')
  <2>1. Types'
    BY TypesKept
  <2> QED
    BY <2>1, LenProperties DEF Types
<1>3. timer.i \in Nat
  BY DEF Types
<1>4. timer'.at \in Holding => timer'.i \in DOMAIN list'
  <2>1. CASE RemoveFromList
    BY <2>1 DEF RemoveFromList, Then, At, Holding
  <2>2. CASE ~RemoveFromList
    <3>1. DOMAIN list \subseteq DOMAIN list'
      BY <1>1, <1>2, <2>2, ListGrows
    <3>2. timer'.at \in Holding => timer'.i \in DOMAIN list
      <4>1. CASE FindSelf
        <5>1. Find(Self) = 0 \/ Find(Self) \in DOMAIN list
          BY <1>1, FindMeans
        <5> QED
          BY <4>1, <5>1 DEF FindSelf, Then, Holding
      <4>2. CASE Examine
        <5>1. timer.at = "process" /\ timer.i # 0
          BY <4>2 DEF Examine, At, IndicesInList
        <5>2. CASE timer'.at = "marking"
          <6>1. timer'.i = timer.i /\ timer.i <= Len(list)
            BY <4>2, <5>2 DEF Examine, Then
          <6> QED
            BY <1>1, <1>3, <5>1, <6>1
        <5>3. CASE timer'.at \in {"process", "remove"}
          BY <5>3 DEF Holding
        <5>4. timer'.at \in {"marking", "process", "remove"}
          BY <4>2 DEF Examine, Then
        <5> QED
          BY <5>2, <5>3, <5>4
      <4>3. CASE UNCHANGED timer
        BY <4>3 DEF IndicesInList
      <4>4. CASE ExecuteCb \/ SetLeaving \/ Beat \/ Suspect \/ Send
        BY <4>4 DEF ExecuteCb, SetLeaving, Beat, Suspect, Send, Then, Holding, Sleeping, Gone
      <4> QED
        BY <2>2, <4>1, <4>2, <4>3, <4>4
        DEF Next, Merging, TimerThread, UpdateMembershipList, Search, Merge, AddToList,
            Tick, Sigterm, threads
    <3> QED
      BY <3>1, <3>2
  <2> QED
    BY <2>1, <2>2
<1>5. timer'.at = "process" => timer'.i # 0
  <2>1. CASE UNCHANGED timer
    BY <2>1 DEF IndicesInList
  <2>2. CASE Examine
    BY <1>3, <2>2 DEF Examine, Then, At
  <2>3. CASE Beat \/ Suspect
    BY <1>3, <2>3 DEF Beat, Suspect, Then
  <2>4. CASE ExecuteCb \/ FindSelf \/ SetLeaving \/ RemoveFromList \/ Send
    BY <2>4 DEF ExecuteCb, FindSelf, SetLeaving, RemoveFromList, Send, Then, At, Sleeping, Gone
  <2> QED
    BY <2>1, <2>2, <2>3, <2>4
    DEF Next, Merging, TimerThread, UpdateMembershipList, Search, Merge, AddToList,
        Tick, Sigterm, threads
<1>6. merging'.at \in {"search", "merge"} => merging'.i # 0
  <2>1. CASE UNCHANGED merging
    BY <2>1 DEF IndicesInList
  <2>2. CASE UpdateMembershipList
    BY <2>2 DEF UpdateMembershipList
  <2>3. CASE Search
    <3>1. merging \in [at : Places, i : Nat, sent : Said] /\ merging.i # 0
      BY <2>3 DEF Search, Types, Free, IndicesInList
    <3>2. \/ Goes("merge", merging.i)
          \/ Goes("search", merging.i + 1)
          \/ Goes("add", 0)
      BY <2>3 DEF Search
    <3>3. ASSUME NEW place, NEW i, Goes(place, i)
          PROVE  merging'.at = place /\ merging'.i = i
      BY <3>1, <3>3 DEF Goes
    <3>4. merging.i + 1 # 0
      BY <3>1
    <3>5. \/ merging'.i = merging.i
          \/ merging'.i = merging.i + 1
          \/ merging'.at = "add"
      BY <3>2, <3>3, Zenon
    <3> QED
      BY <3>1, <3>4, <3>5
  <2>4. CASE Merge \/ AddToList
    BY <2>4 DEF Merge, AddToList, Free
  <2> QED
    BY <2>1, <2>2, <2>3, <2>4
    DEF Next, Merging, TimerThread, ExecuteCb, FindSelf, SetLeaving, Beat, Examine,
        Suspect, RemoveFromList, Send, Tick, Sigterm, threads, Elsewhere
<1> QED
  BY <1>4, <1>5, <1>6 DEF IndicesInList

LEMMA LeavingKept ==
    ASSUME Types, LeavesWhenAsked, Next
    PROVE  LeavesWhenAsked'
<1>1. CASE ExecuteCb
  BY <1>1 DEF ExecuteCb, Then, LeavesWhenAsked
<1>2. CASE FindSelf
  BY <1>2 DEF FindSelf, Then, At, clock, LeavesWhenAsked
<1>3. CASE SetLeaving \/ Beat \/ Suspect
  BY <1>3 DEF SetLeaving, Beat, Suspect, Then, At, clock, LeavesWhenAsked
<1>4. CASE Examine
  BY <1>4 DEF Examine, Then, At, clock, LeavesWhenAsked
<1>5. CASE RemoveFromList \/ Send
  BY <1>5 DEF RemoveFromList, Send, Then, At, Sleeping, Gone, clock, LeavesWhenAsked
<1>6. CASE Tick \/ Sigterm
  BY <1>6 DEF Tick, Sigterm, threads, Sleeping, LeavesWhenAsked
<1>7. CASE UpdateMembershipList \/ Merging
  BY <1>7
  DEF UpdateMembershipList, Merging, Search, Merge, AddToList, clock, LeavesWhenAsked
<1> QED
  BY <1>1, <1>2, <1>3, <1>4, <1>5, <1>6, <1>7 DEF Next, TimerThread

--------------------------------------------------------------------------------
(* One entry for each id, as long as nothing is removed during a merge            *)

Tracked == OneEntryEach /\ NeverAhead /\ SearchSound

\* Steps that leave every id in its place, and the counts of the others.
LEMMA TrackedSamePlaces ==
    ASSUME Types, Types', Tracked, SamePlaces(list, list'),
           \A j \in 1..Len(list) : list'[j].e.beat = list[j].e.beat,
           merging' = merging
    PROVE  Tracked'
<1>1. /\ Len(list') = Len(list) /\ DOMAIN list = 1..Len(list) /\ DOMAIN list' = 1..Len(list)
      /\ \A j \in 1..Len(list) : list'[j].id = list[j].id
  BY LenProperties DEF Types, SamePlaces
<1>2. OneEntryEach'
  BY <1>1 DEF Tracked, OneEntryEach
<1>3. NeverAhead'
  BY <1>1 DEF Tracked, NeverAhead
<1>4. SearchSound'
  BY <1>1 DEF Tracked, SearchSound
<1> QED
  BY <1>2, <1>3, <1>4 DEF Tracked

LEMMA TrackedKept ==
    ASSUME Types, Types', IndicesInList, ~crossed => Tracked, Next
    PROVE  ~crossed' => Tracked'
<1>1. /\ list \in Seq(Item) /\ Len(list) \in Nat /\ DOMAIN list = 1..Len(list)
      /\ \A j \in 1..Len(list) : list[j].id \in Id /\ list[j].e \in Entry
  BY ItemsOfList DEF Types
<1>2. list' \in Seq(Item) /\ Len(list') \in Nat /\ DOMAIN list' = 1..Len(list')
  BY LenProperties DEF Types
<1> SUFFICES ASSUME ~crossed' PROVE Tracked'
  OBVIOUS
<1>3. Tracked
  BY DEF Next, Merging, TimerThread, UpdateMembershipList, Search, Merge, AddToList,
     ExecuteCb, FindSelf, SetLeaving, Beat, Examine, Suspect, RemoveFromList, Send, Tick,
     Sigterm
<1>4. CASE UpdateMembershipList
  <2>1. merging'.at = "search" /\ merging'.i = 1 /\ list' = list
    BY <1>4 DEF UpdateMembershipList
  <2>2. SearchSound'
    BY <1>1, <2>1 DEF SearchSound
  <2> QED
    BY <1>3, <2>1, <2>2 DEF Tracked, OneEntryEach, NeverAhead
<1>5. CASE Search
  <2>1. merging \in [at : Places, i : Nat, sent : Said] /\ merging.at = "search" /\ merging.i # 0
    BY <1>5 DEF Search, Types, Free, IndicesInList
  <2>2. list' = list
    BY <1>5 DEF Search
  <2>3. ASSUME NEW place, NEW i, Goes(place, i)
        PROVE  merging'.at = place /\ merging'.i = i /\ merging'.sent = merging.sent
    BY <2>1, <2>3 DEF Goes
  <2>4. \A j \in DOMAIN list : j < merging.i => list[j].id # merging.sent.id
    BY <1>3, <2>1 DEF Tracked, SearchSound
  <2>5. SearchSound'
    <3>1. CASE /\ merging.i <= Len(list) /\ list[merging.i].id = merging.sent.id
               /\ Goes("merge", merging.i)
      <4>1. /\ merging'.at = "merge" /\ merging'.i = merging.i
            /\ merging'.sent = merging.sent
        BY <2>3, <3>1, Zenon
      <4> QED
        BY <1>1, <2>1, <2>2, <3>1, <4>1 DEF SearchSound
    <3>2. CASE /\ merging.i <= Len(list) /\ list[merging.i].id # merging.sent.id
               /\ Goes("search", merging.i + 1)
      <4>1. /\ merging'.at = "search" /\ merging'.i = merging.i + 1
            /\ merging'.sent = merging.sent
        BY <2>3, <3>2, Zenon
      <4>2. \A j \in DOMAIN list : j < merging.i + 1 => list[j].id # merging.sent.id
        BY <1>1, <2>1, <2>4, <3>2
      <4> QED
        BY <2>2, <4>1, <4>2 DEF SearchSound
    <3>3. CASE merging.i > Len(list) /\ Goes("add", 0)
      <4>1. merging'.at = "add" /\ merging'.sent = merging.sent
        BY <2>3, <3>3, Zenon
      <4>2. \A j \in DOMAIN list : list[j].id # merging.sent.id
        BY <1>1, <2>1, <2>4, <3>3
      <4> QED
        BY <2>2, <4>1, <4>2 DEF SearchSound
    <3> QED
      BY <1>5, <3>1, <3>2, <3>3 DEF Search
  <2> QED
    BY <1>3, <2>2, <2>5 DEF Tracked, OneEntryEach, NeverAhead
<1>6. CASE Merge
  <2>1. merging.sent \in Said /\ merging.at = "merge" /\ merging'.at = "free"
    BY <1>6 DEF Merge, Types, Free
  <2>2. /\ SamePlaces(list, list')
        /\ \A j \in 1..Len(list) : j # merging.i => list'[j] = list[j]
        /\ \A j \in 1..Len(list) : j = merging.i =>
              list'[j].e.beat \in {list[j].e.beat, merging.sent.e.beat}
    BY <1>1, <1>6, <2>1, MergeMeans
  <2>3. /\ DOMAIN list' = 1..Len(list)
        /\ \A j \in 1..Len(list) : list'[j].id = list[j].id
    BY <1>2, <2>2 DEF SamePlaces
  <2>4. list[merging.i].id = merging.sent.id
    BY <1>3, <2>1 DEF Tracked, SearchSound
  <2>5. merging.sent.id # Self => merging.sent.e.beat <= Beats[merging.sent.id]
    BY <2>1, SaidMeans
  <2>6. NeverAhead'
    <3> SUFFICES ASSUME NEW j \in 1..Len(list), list[j].id # Self
                 PROVE  list'[j].e.beat <= Beats[list[j].id]
      BY <2>3 DEF NeverAhead
    <3>1. list[j].e.beat <= Beats[list[j].id]
      BY <1>1, <1>3 DEF Tracked, NeverAhead
    <3>2. CASE j = merging.i
      BY <2>2, <2>4, <2>5, <3>1, <3>2
    <3>3. CASE j # merging.i
      BY <2>2, <3>1, <3>3
    <3> QED
      BY <3>2, <3>3
  <2>7. OneEntryEach'
    BY <1>1, <1>3, <2>3 DEF Tracked, OneEntryEach
  <2> QED
    BY <2>1, <2>6, <2>7 DEF Tracked, SearchSound
<1>7. CASE AddToList
  <2>1. merging.sent \in Said /\ merging.at = "add" /\ merging'.at = "free"
    BY <1>7 DEF AddToList, Types, Free
  <2>2. SearchSound'
    BY <2>1 DEF SearchSound
  <2>3. CASE list' = list
    BY <1>3, <2>2, <2>3 DEF Tracked, OneEntryEach, NeverAhead
  <2>4. CASE /\ Len(list') = Len(list) + 1
             /\ \A j \in 1..Len(list) : list'[j] = list[j]
             /\ list'[Len(list) + 1].id = merging.sent.id
             /\ list'[Len(list) + 1].e.beat = merging.sent.e.beat
    <3>1. \A j \in 1..Len(list) : list[j].id # merging.sent.id
      BY <1>1, <1>3, <2>1 DEF Tracked, SearchSound
    <3>2. DOMAIN list' = 1..(Len(list) + 1)
      BY <1>2, <2>4
    <3>3. \A j \in DOMAIN list' : j \in 1..Len(list) \/ j = Len(list) + 1
      BY <1>1, <3>2
    <3>4. OneEntryEach'
      BY <1>1, <1>3, <2>4, <3>1, <3>3 DEF Tracked, OneEntryEach
    <3>5. merging.sent.id # Self => merging.sent.e.beat <= Beats[merging.sent.id]
      BY <2>1, SaidMeans
    <3>6. NeverAhead'
      BY <1>1, <1>3, <2>4, <3>3, <3>5 DEF Tracked, NeverAhead
    <3> QED
      BY <2>2, <3>4, <3>6 DEF Tracked
  <2> QED
    BY <1>7, <2>3, <2>4, AddMeans
<1>8. CASE RemoveFromList
  <2>1. merging' = merging
    BY <1>8 DEF RemoveFromList, Elsewhere
  <2>2. CASE list' = list
    BY <1>3, <2>1, <2>2 DEF Tracked, OneEntryEach, NeverAhead, SearchSound
  <2>3. ASSUME NEW i \in 1..Len(list),
               Len(list') = Len(list) - 1,
               \A j \in 1..(Len(list) - 1) :
                  list'[j] = IF j < i THEN list[j] ELSE list[j + 1],
               crossed' = (crossed \/ merging # Free)
        PROVE  Tracked'
    <3>1. SearchSound'
      <4>1. merging = Free
        BY <2>3
      <4> QED
        BY <2>1, <4>1 DEF SearchSound, Free
    <3> DEFINE from(j) == IF j < i THEN j ELSE j + 1
    <3>2. \A j \in DOMAIN list' : from(j) \in DOMAIN list /\ list'[j] = list[from(j)]
      <4> TAKE j \in DOMAIN list'
      <4>1. j \in 1..(Len(list) - 1)
        BY <1>2, <2>3
      <4>2. from(j) \in 1..Len(list)
        BY <1>1, <4>1
      <4>3. list'[j] = list[from(j)]
        BY <2>3, <4>1
      <4> QED
        BY <1>1, <4>2, <4>3
    <3>3. \A j, k \in DOMAIN list' : from(j) = from(k) => j = k
      BY <1>2, <2>3
    <3> HIDE DEF from
    <3>4. OneEntryEach'
      BY <1>3, <3>2, <3>3 DEF Tracked, OneEntryEach
    <3>5. NeverAhead'
      BY <1>3, <3>2 DEF Tracked, NeverAhead
    <3> QED
      BY <3>1, <3>4, <3>5 DEF Tracked
  <2> QED
    BY <1>8, <2>2, <2>3, RemoveMeans
<1>9. CASE Tick
  <2>1. /\ SamePlaces(list, list')
        /\ \A j \in 1..Len(list) : list'[j].e = Aged(list[j].e)
    BY <1>1, <1>9, TickMeans
  <2>2. \A e \in Entry : Aged(e).beat = e.beat
    BY DEF Aged, Entry
  <2>3. \A j \in 1..Len(list) : list'[j].e.beat = list[j].e.beat
    BY <1>1, <2>1, <2>2
  <2> QED
    BY <1>3, <1>9, <2>1, <2>3, TrackedSamePlaces DEF Tick, threads
<1>10. ASSUME NEW e \in Entry, Write(e), e.beat = Found.beat,
              timer.at \in Holding, merging' = merging
       PROVE  Tracked'
  <2>1. timer.i \in DOMAIN list
    BY <1>10 DEF IndicesInList
  <2>2. /\ SamePlaces(list, list')
        /\ \A j \in 1..Len(list) : j # timer.i => list'[j] = list[j]
        /\ list'[timer.i].e = IF moved THEN Found ELSE e
    BY <1>1, <1>10, <2>1, WriteMeans
  <2>3. \A j \in 1..Len(list) : list'[j].e.beat = list[j].e.beat
    BY <1>10, <2>2 DEF Found
  <2> QED
    BY <1>3, <1>10, <2>2, <2>3, TrackedSamePlaces
<1>11. timer.at \in Holding => Found \in Entry
  BY <1>1 DEF IndicesInList, Found
<1>12. CASE SetLeaving
  <2> DEFINE e == [Found EXCEPT !.leaving = TRUE]
  <2>1. timer.at \in Holding /\ merging' = merging /\ Write(e)
    BY <1>12 DEF SetLeaving, At, Holding, Elsewhere
  <2>2. e \in Entry /\ e.beat = Found.beat
    BY <1>11, <2>1 DEF Entry
  <2> QED
    BY <1>10, <2>1, <2>2
<1>13. CASE Beat
  <2> DEFINE e == [Found EXCEPT !.age = 0]
  <2>1. timer.at \in Holding /\ merging' = merging /\ Write(e)
    BY <1>13 DEF Beat, At, Holding, Elsewhere
  <2>2. e \in Entry /\ e.beat = Found.beat
    BY <1>11, <2>1, TimesAssumption DEF Entry, AgeCap
  <2> QED
    BY <1>10, <2>1, <2>2
<1>14. CASE Suspect
  <2> DEFINE e == [Found EXCEPT !.failed = TRUE, !.failAge = 0]
  <2>1. timer.at \in Holding /\ merging' = merging /\ Write(e)
    BY <1>14 DEF Suspect, At, Holding, Elsewhere
  <2>2. 0 \in 0..AgeCap
    BY TimesAssumption DEF AgeCap
  <2>3. e \in Entry /\ e.beat = Found.beat
    BY <1>11, <2>1, <2>2 DEF Entry
  <2> QED
    BY <1>10, <2>1, <2>3
<1>15. CASE ExecuteCb \/ FindSelf \/ Examine \/ Send \/ Sigterm
  <2>1. list' = list /\ merging' = merging
    BY <1>15 DEF ExecuteCb, FindSelf, Examine, Send, Sigterm, Elsewhere, threads
  <2> QED
    BY <1>3, <2>1 DEF Tracked, OneEntryEach, NeverAhead, SearchSound
<1> QED
  BY <1>4, <1>5, <1>6, <1>7, <1>8, <1>9, <1>12, <1>13, <1>14, <1>15
  DEF Next, Merging, TimerThread

--------------------------------------------------------------------------------
(* The machine's own entry                                                       *)

OwnIsFirst ==
    /\ list # <<>> /\ list[1].id = Self
    /\ \A j \in DOMAIN list : list[j].id = Self => j = 1

\* The machine's own entry stays first, and only the clock, a request to leave and a
\* stamp change it.
LEMMA OwnEntryKept ==
    ASSUME Types, Types', IndicesInList, SelfFirst, Next
    PROVE  /\ OwnIsFirst'
           /\ Tick => list'[1].e = Aged(list[1].e)
           /\ SetLeaving => list'[1].e \in {list[1].e, [list[1].e EXCEPT !.leaving = TRUE]}
           /\ Beat => list'[1].e = IF moved THEN list[1].e ELSE [list[1].e EXCEPT !.age = 0]
           /\ ~Tick /\ ~SetLeaving /\ ~Beat => list'[1].e = list[1].e
<1>1. /\ list \in Seq(Item) /\ Len(list) \in Nat /\ DOMAIN list = 1..Len(list)
      /\ \A j \in 1..Len(list) : list[j].id \in Id /\ list[j].e \in Entry
  BY ItemsOfList DEF Types
<1>2. list' \in Seq(Item) /\ Len(list') \in Nat /\ DOMAIN list' = 1..Len(list')
  BY LenProperties DEF Types
<1>3. 1 \in 1..Len(list) /\ OwnIsFirst
  BY <1>1, EmptySeq DEF SelfFirst, OwnIsFirst
<1>4. ASSUME SamePlaces(list, list') PROVE OwnIsFirst'
  <2>1. /\ Len(list') = Len(list) /\ list'[1].id = Self
        /\ \A j \in 1..Len(list) : list'[j].id = list[j].id
    BY <1>3, <1>4 DEF SamePlaces, OwnIsFirst
  <2> QED
    BY <1>1, <1>2, <1>3, <2>1 DEF OwnIsFirst
<1>5. CASE UNCHANGED list /\ ~Tick /\ ~SetLeaving /\ ~Beat
  BY <1>3, <1>5 DEF OwnIsFirst
<1>6. CASE Merge
  <2>1. merging.sent \in Said /\ merging.at = "merge"
    BY <1>6 DEF Merge, Types, Free
  <2>2. /\ SamePlaces(list, list')
        /\ 1 # merging.i => list'[1] = list[1]
        /\ 1 = merging.i /\ merging.sent.id = Self => list'[1].e = list[1].e
    BY <1>1, <1>3, <1>6, <2>1, MergeMeans
  <2>3. list'[1].e = list[1].e
    BY <2>1, <2>2 DEF SelfFirst
  <2>4. ~Tick /\ ~SetLeaving /\ ~Beat
    BY <1>6, <2>1 DEF Merge, Tick, SetLeaving, Beat, At, Then, Free
  <2> QED
    BY <1>4, <2>2, <2>3, <2>4
<1>7. CASE AddToList
  <2>1. merging.at = "add" /\ merging.sent.id # Self
    BY <1>7 DEF AddToList, SelfFirst
  <2>2. ~Tick /\ ~SetLeaving /\ ~Beat
    BY <1>7, <2>1 DEF AddToList, Tick, SetLeaving, Beat, Elsewhere, Free
  <2>3. CASE list' = list
    BY <1>5, <2>2, <2>3
  <2>4. CASE /\ Len(list') = Len(list) + 1
             /\ \A j \in 1..Len(list) : list'[j] = list[j]
             /\ list'[Len(list) + 1].id = merging.sent.id
    <3>1. list'[1] = list[1] /\ list' # <<>>
      BY <1>1, <1>2, <1>3, <2>4, EmptySeq
    <3>2. \A j \in DOMAIN list' : j \in 1..Len(list) \/ j = Len(list) + 1
      BY <1>1, <1>2, <2>4
    <3> QED
      BY <1>1, <1>3, <2>1, <2>2, <2>4, <3>1, <3>2 DEF OwnIsFirst
  <2> QED
    BY <1>7, <2>3, <2>4, AddMeans
<1>8. CASE RemoveFromList
  <2>1. ~Tick /\ ~SetLeaving /\ ~Beat
    BY <1>8 DEF RemoveFromList, Tick, SetLeaving, Beat, At, Sleeping
  <2>2. CASE list' = list
    BY <1>5, <2>1, <2>2
  <2>3. ASSUME NEW i \in 1..Len(list),
               Len(list') = Len(list) - 1,
               \A j \in 1..(Len(list) - 1) :
                  list'[j] = IF j < i THEN list[j] ELSE list[j + 1],
               \E k \in DOMAIN entriesToDelete : list[i].id = entriesToDelete[k]
        PROVE  OwnIsFirst' /\ list'[1].e = list[1].e
    <3>1. i # 1
      BY <1>3, <2>3 DEF SelfFirst
    <3>2. 1 \in 1..(Len(list) - 1) /\ list'[1] = list[1]
      BY <1>1, <2>3, <3>1
    <3>3. \A j \in 1..(Len(list) - 1) : list'[j].id = Self => j = 1
      <4> TAKE j \in 1..(Len(list) - 1)
      <4>1. CASE j < i
        <5>1. list'[j] = list[j] /\ j \in DOMAIN list
          BY <1>1, <2>3, <4>1
        <5> QED
          BY <1>3, <5>1 DEF OwnIsFirst
      <4>2. CASE j >= i
        <5>1. list'[j] = list[j + 1] /\ j + 1 \in DOMAIN list /\ j + 1 # 1
          BY <1>1, <2>3, <4>2
        <5> QED
          BY <1>3, <5>1 DEF OwnIsFirst
      <4> QED
        BY <1>1, <4>1, <4>2
    <3> QED
      BY <1>2, <1>3, <2>3, <3>2, <3>3, EmptySeq DEF OwnIsFirst
  <2> QED
    BY <1>8, <2>1, <2>2, <2>3, RemoveMeans
<1>9. CASE Tick
  <2>1. SamePlaces(list, list') /\ list'[1].e = Aged(list[1].e)
    BY <1>1, <1>3, <1>9, TickMeans
  <2>2. ~SetLeaving /\ ~Beat
    BY <1>9 DEF Tick, SetLeaving, Beat, At, Sleeping
  <2> QED
    BY <1>4, <1>9, <2>1, <2>2
<1>10. ASSUME NEW e \in Entry, Write(e), timer.at \in Holding
       PROVE  /\ OwnIsFirst'
              /\ 1 # timer.i => list'[1] = list[1]
              /\ 1 = timer.i => list'[1].e = IF moved THEN list[1].e ELSE e
  <2>1. timer.i \in DOMAIN list
    BY <1>10 DEF IndicesInList
  <2>2. /\ SamePlaces(list, list')
        /\ \A j \in 1..Len(list) : j # timer.i => list'[j] = list[j]
        /\ list'[timer.i].e = IF moved THEN Found ELSE e
    BY <1>1, <1>10, <2>1, WriteMeans
  <2> QED
    BY <1>3, <1>4, <2>2 DEF Found
<1>11. timer.at \in Holding => Found \in Entry
  BY <1>1 DEF IndicesInList, Found
<1>12. CASE SetLeaving
  <2> DEFINE e == [Found EXCEPT !.leaving = TRUE]
  <2>1. timer.at \in Holding /\ timer.i = 1 /\ Write(e) /\ Found = list[1].e
    BY <1>12 DEF SetLeaving, At, Holding, SelfFirst, Found
  <2>2. e \in Entry
    BY <1>11, <2>1 DEF Entry
  <2>3. ~Tick /\ ~Beat
    BY <1>12 DEF Tick, SetLeaving, Beat, At, Sleeping
  <2>4. OwnIsFirst' /\ list'[1].e = IF moved THEN list[1].e ELSE e
    BY <1>10, <2>1, <2>2
  <2> QED
    BY <1>12, <2>1, <2>3, <2>4
<1>13. CASE Beat
  <2> DEFINE e == [Found EXCEPT !.age = 0]
  <2>1. timer.at \in Holding /\ timer.i = 1 /\ Write(e) /\ Found = list[1].e
    BY <1>13 DEF Beat, At, Holding, SelfFirst, Found
  <2>2. e \in Entry
    BY <1>11, <2>1, TimesAssumption DEF Entry, AgeCap
  <2>3. ~Tick /\ ~SetLeaving
    BY <1>13 DEF Tick, SetLeaving, Beat, At, Sleeping
  <2>4. OwnIsFirst' /\ list'[1].e = IF moved THEN list[1].e ELSE e
    BY <1>10, <2>1, <2>2
  <2> QED
    BY <1>13, <2>1, <2>3, <2>4
<1>14. CASE Suspect
  <2> DEFINE e == [Found EXCEPT !.failed = TRUE, !.failAge = 0]
  <2>1. timer.at \in Holding /\ timer.i # 1 /\ Write(e)
    BY <1>14 DEF Suspect, At, Holding, SelfFirst
  <2>2. 0 \in 0..AgeCap
    BY TimesAssumption DEF AgeCap
  <2>3. e \in Entry
    BY <1>11, <2>1, <2>2 DEF Entry
  <2>4. ~Tick /\ ~SetLeaving /\ ~Beat
    BY <1>14 DEF Suspect, Tick, SetLeaving, Beat, At, Sleeping
  <2> QED
    BY <1>10, <2>1, <2>3, <2>4
<1>15. CASE UpdateMembershipList \/ Search
  <2>1. list' = list
    BY <1>15 DEF UpdateMembershipList, Search
  <2>2. merging' # merging
    <3>1. CASE UpdateMembershipList
      BY <3>1 DEF UpdateMembershipList, Free
    <3>2. CASE Search
      <4>1. merging \in [at : Places, i : Nat, sent : Said] /\ merging.at = "search"
        BY <3>2 DEF Search, Types, Free
      <4>2. PICK place, i : Goes(place, i) /\ (place # "search" \/ i = merging.i + 1)
        BY <3>2 DEF Search
      <4>3. merging'.at = place /\ merging'.i = i
        BY <4>1, <4>2 DEF Goes
      <4> QED
        BY <4>1, <4>2, <4>3
    <3> QED
      BY <1>15, <3>1, <3>2
  <2>3. ~Tick /\ ~SetLeaving /\ ~Beat
    BY <2>2 DEF Tick, SetLeaving, Beat, Elsewhere, threads
  <2> QED
    BY <1>5, <2>1, <2>3
<1>16. CASE ExecuteCb \/ FindSelf \/ Examine \/ Send
  <2>1. list' = list /\ ~Tick /\ ~SetLeaving /\ ~Beat
    BY <1>16 DEF ExecuteCb, FindSelf, Examine, Send, Tick, SetLeaving, Beat, At, Then, Sleeping
  <2> QED
    BY <1>5, <2>1
<1>17. CASE Sigterm
  <2>1. list' = list /\ due' = due /\ timer' = timer
    BY <1>17 DEF Sigterm, threads
  <2>2. ~Tick /\ ~SetLeaving /\ ~Beat
    BY <2>1 DEF Tick, SetLeaving, Beat, At, Then, Sleeping
  <2> QED
    BY <1>5, <2>1, <2>2
<1> QED
  BY <1>6, <1>7, <1>8, <1>9, <1>12, <1>13, <1>14, <1>15, <1>16, <1>17
  DEF Next, Merging, TimerThread

LEMMA SelfFirstKept ==
    ASSUME Types, Types', IndicesInList, LeavesWhenAsked, SelfKept, capacity <= 2^TTF, Next
    PROVE  SelfFirst'
<1>1. /\ list \in Seq(Item) /\ Len(list) \in Nat /\ DOMAIN list = 1..Len(list)
      /\ timer.i \in Nat
  BY ItemsOfList DEF Types
<1>2. SelfFirst /\ SelfWell /\ StampsPaid /\ OwnIsFirst
  BY DEF SelfKept, SelfFirst, OwnIsFirst
<1>3. OwnIsFirst'
  BY <1>2, OwnEntryKept
<1> DEFINE DeletesOthers == \A j \in DOMAIN entriesToDelete : entriesToDelete[j] # Self
           TimerRight == /\ timer.at \in {"retiring", "beating"} => timer.i = 1
                         /\ timer.at = "marking" => timer.i # 1
           MergeRight == /\ merging.at = "search" /\ merging.i # 1 => merging.sent.id # Self
                         /\ merging.at = "merge" /\ merging.i = 1 => merging.sent.id = Self
                         /\ merging.at = "add" => merging.sent.id # Self
<1>4. DeletesOthers /\ TimerRight /\ MergeRight
  BY <1>2 DEF SelfFirst
<1> SUFFICES DeletesOthers' /\ TimerRight' /\ MergeRight'
  BY <1>3 DEF OwnIsFirst, SelfFirst
<1> HIDE DEF DeletesOthers, TimerRight, MergeRight
<1>5. CASE UpdateMembershipList
  <2>1. merging'.at = "search" /\ merging'.i = 1
    BY <1>5 DEF UpdateMembershipList
  <2>2. MergeRight'
    BY <2>1 DEF MergeRight
  <2> QED
    BY <1>4, <1>5, <2>2 DEF UpdateMembershipList, DeletesOthers, TimerRight
<1>6. CASE Search
  <2>1. merging \in [at : Places, i : Nat, sent : Said] /\ merging.at = "search" /\ merging.i # 0
    BY <1>6 DEF Search, Types, Free, IndicesInList
  <2>2. \/ /\ Goes("merge", merging.i)
           /\ merging.i <= Len(list) /\ list[merging.i].id = merging.sent.id
        \/ /\ Goes("search", merging.i + 1) \/ Goes("add", 0)
           /\ merging.i <= Len(list) => list[merging.i].id # merging.sent.id
    BY <1>1, <1>6, <2>1 DEF Search
  <2>3. ASSUME NEW place, NEW i, Goes(place, i)
        PROVE  merging'.at = place /\ merging'.i = i /\ merging'.sent = merging.sent
    BY <2>1, <2>3 DEF Goes
  <2>4. 1 <= Len(list)
    BY <1>1, <1>2, EmptySeq DEF OwnIsFirst
  <2>5. ASSUME Goes("merge", merging.i), list[merging.i].id = merging.sent.id
        PROVE  MergeRight'
    <3>1. merging'.at = "merge" /\ merging'.i = merging.i /\ merging'.sent = merging.sent
      BY <2>3, <2>5, Zenon
    <3> QED
      BY <1>2, <2>5, <3>1 DEF MergeRight, OwnIsFirst
  <2>6. ASSUME Goes("search", merging.i + 1) \/ Goes("add", 0),
               merging.i <= Len(list) => list[merging.i].id # merging.sent.id
        PROVE  MergeRight'
    <3>1. merging'.at \in {"search", "add"} /\ merging'.sent = merging.sent
      <4>1. merging'.at = "search" \/ merging'.at = "add"
        BY <2>3, <2>6, Zenon
      <4>2. merging'.sent = merging.sent
        BY <2>3, <2>6, Zenon
      <4> QED
        BY <4>1, <4>2
    <3>2. merging.sent.id # Self
      BY <1>2, <1>4, <2>1, <2>4, <2>6 DEF MergeRight, OwnIsFirst
    <3> QED
      BY <3>1, <3>2 DEF MergeRight
  <2>7. MergeRight'
    BY <2>2, <2>5, <2>6
  <2> QED
    BY <1>4, <1>6, <2>7 DEF Search, DeletesOthers, TimerRight
<1>7. CASE Merge \/ AddToList
  <2>1. merging' = Free /\ UNCHANGED <<timer, entriesToDelete>>
    BY <1>7 DEF Merge, AddToList
  <2>2. MergeRight'
    BY <2>1 DEF Free, MergeRight
  <2> QED
    BY <1>4, <2>1, <2>2 DEF DeletesOthers, TimerRight
<1>8. CASE ExecuteCb \/ SetLeaving \/ Beat \/ Send
  <2>1. merging' = merging /\ entriesToDelete' = entriesToDelete
    BY <1>8 DEF ExecuteCb, SetLeaving, Beat, Send, Elsewhere
  <2>2. TimerRight'
    BY <1>8 DEF ExecuteCb, SetLeaving, Beat, Send, Then, Sleeping, Gone, TimerRight
  <2> QED
    BY <1>4, <2>1, <2>2 DEF DeletesOthers, MergeRight
<1>9. CASE FindSelf
  <2>1. merging' = merging /\ entriesToDelete' = entriesToDelete
    BY <1>9 DEF FindSelf, Elsewhere
  <2>2. Find(Self) = 1
    <3>1. 1 \in DOMAIN list /\ list[1].id = Self
      BY <1>1, <1>2, EmptySeq DEF OwnIsFirst
    <3>2. Find(Self) \in DOMAIN list /\ list[Find(Self)].id = Self
      BY <1>1, <3>1, FindMeans
    <3> QED
      BY <1>2, <3>2 DEF OwnIsFirst
  <2>3. TimerRight'
    BY <1>9, <2>2 DEF FindSelf, Then, TimerRight
  <2> QED
    BY <1>4, <2>1, <2>3 DEF DeletesOthers, MergeRight
<1>10. CASE Examine
  <2>1. merging' = merging /\ timer.at = "process"
    BY <1>10 DEF Examine, Elsewhere, At
  <2>2. ~list[1].e.failed /\ ~list[1].e.leaving
    BY <1>2, <2>1 DEF SelfWell
  <2>3. list[1].e.age \in Nat /\ TTF \in Nat /\ list[1].e.age <= TTF
    <3>1. ~Unstamped
      BY <1>10, <2>1 DEF LeavesWhenAsked, Unstamped
    <3>2. 1 \in 1..Len(list)
      BY <1>1, <1>2, EmptySeq DEF OwnIsFirst
    <3>3. list[1].e.age \in Nat /\ TTF \in Nat
      BY <1>1, <3>2, ItemsOfList, TimesAssumption DEF Entry, AgeCap
    <3>4. 2^(list[1].e.age) <= capacity
      BY <1>2, <3>1 DEF StampsPaid, Allowed
    <3> QED
      <4>1. 2^(list[1].e.age) \in Nat /\ 2^TTF \in Nat /\ capacity \in Nat
        BY <3>3, PowerDoubles DEF Types
      <4>2. 2^(list[1].e.age) <= 2^TTF
        BY <3>4, <4>1
      <4> QED
        BY <3>3, <4>2, PowerGrows
  <2>4. ~ToDelete(list[1].e) /\ ~ToSuspect(list[1].e)
    BY <2>2, <2>3 DEF ToDelete, ToSuspect
  <2>5. MergeRight'
    BY <1>4, <2>1 DEF MergeRight
  <2>6. timer.i \in Nat \ {0}
    BY <1>1, <2>1 DEF IndicesInList
  <2>7. CASE timer.i > Len(list) /\ timer'.at = "remove" /\ entriesToDelete' = entriesToDelete
    BY <1>4, <2>5, <2>7 DEF DeletesOthers, TimerRight
  <2>8. CASE /\ timer.i <= Len(list) /\ ToDelete(list[timer.i].e)
             /\ entriesToDelete' = Append(entriesToDelete, list[timer.i].id)
             /\ timer'.at = "process"
    <3>1. timer.i \in DOMAIN list /\ list[timer.i].id # Self
      BY <1>1, <1>2, <2>4, <2>6, <2>8 DEF OwnIsFirst
    <3>2. list[timer.i].id \in Id /\ entriesToDelete \in Seq(Id)
      BY <1>1, <3>1, ItemsOfList DEF Types
    <3>3. /\ DOMAIN entriesToDelete = 1..Len(entriesToDelete) /\ Len(entriesToDelete) \in Nat
          /\ DOMAIN entriesToDelete' = 1..(Len(entriesToDelete) + 1)
          /\ \A j \in 1..Len(entriesToDelete) : entriesToDelete'[j] = entriesToDelete[j]
          /\ entriesToDelete'[Len(entriesToDelete) + 1] = list[timer.i].id
      BY <2>8, <3>2, AppendProperties, LenProperties
    <3>4. \A j \in DOMAIN entriesToDelete' :
             j \in 1..Len(entriesToDelete) \/ j = Len(entriesToDelete) + 1
      BY <3>3
    <3>5. DeletesOthers'
      BY <1>4, <3>1, <3>3, <3>4 DEF DeletesOthers
    <3> QED
      BY <2>5, <2>8, <3>5 DEF TimerRight
  <2>9. CASE ~ToDelete(list[timer.i].e) /\ entriesToDelete' = entriesToDelete
             /\ IF ToSuspect(list[timer.i].e) THEN Then("marking", timer.i)
                ELSE Then("process", timer.i + 1)
    <3>1. TimerRight'
      BY <2>4, <2>9 DEF Then, TimerRight
    <3> QED
      BY <1>4, <2>5, <2>9, <3>1 DEF DeletesOthers
  <2> QED
    BY <1>10, <2>7, <2>8, <2>9 DEF Examine, Then
<1>11. CASE Suspect
  <2>1. merging' = merging /\ entriesToDelete' = entriesToDelete /\ timer'.at = "process"
    BY <1>11 DEF Suspect, Elsewhere, Then
  <2> QED
    BY <1>4, <2>1 DEF DeletesOthers, MergeRight, TimerRight
<1>12. CASE RemoveFromList
  <2>1. merging' = merging /\ (timer' = timer \/ timer'.at = "sent")
    BY <1>12 DEF RemoveFromList, Elsewhere, Then
  <2>2. DeletesOthers'
    BY <1>1, <1>4, <1>12, RemoveMeans DEF DeletesOthers
  <2> QED
    BY <1>4, <2>1, <2>2 DEF MergeRight, TimerRight
<1>13. CASE Tick \/ Sigterm
  <2>1. UNCHANGED <<merging, timer, entriesToDelete>>
    BY <1>13 DEF Tick, Sigterm, threads
  <2> QED
    BY <1>4, <2>1 DEF DeletesOthers, MergeRight, TimerRight
<1> QED
  BY <1>5, <1>6, <1>7, <1>8, <1>9, <1>10, <1>11, <1>12, <1>13
  DEF Next, Merging, TimerThread

LEMMA SelfWellKept ==
    ASSUME Types, Types', IndicesInList, LeavesWhenAsked, SelfKept, Next
    PROVE  SelfWell'
<1>1. SelfFirst /\ SelfWell
  BY DEF SelfKept
<1>2. list[1].e \in Entry /\ leave \in BOOLEAN
  <2>1. 1 \in 1..Len(list)
    BY <1>1, LenProperties, EmptySeq DEF SelfFirst, Types
  <2> QED
    BY <2>1, ItemsOfList DEF Types
<1>3. /\ Tick => list'[1].e = Aged(list[1].e)
      /\ SetLeaving => list'[1].e \in {list[1].e, [list[1].e EXCEPT !.leaving = TRUE]}
      /\ Beat => list'[1].e = IF moved THEN list[1].e ELSE [list[1].e EXCEPT !.age = 0]
      /\ ~Tick /\ ~SetLeaving /\ ~Beat => list'[1].e = list[1].e
  BY <1>1, OwnEntryKept
<1>4. leave => leave'
  BY DEF Next, Merging, TimerThread, UpdateMembershipList, Search, Merge, AddToList,
     ExecuteCb, FindSelf, SetLeaving, Beat, Examine, Suspect, RemoveFromList, Send, Tick,
     Sigterm, clock
<1>5. CASE SetLeaving
  <2>1. leave /\ leave' = leave
    BY <1>5 DEF SetLeaving, At, LeavesWhenAsked, clock
  <2>2. ~list'[1].e.failed
    BY <1>1, <1>2, <1>3, <1>5 DEF SelfWell, Entry
  <2>3. timer'.at = "beat"
    BY <1>5 DEF SetLeaving, Then
  <2> QED
    BY <2>1, <2>2, <2>3 DEF SelfWell
<1>6. CASE ~SetLeaving
  <2>1. list'[1].e.failed = list[1].e.failed /\ list'[1].e.leaving = list[1].e.leaving
    BY <1>2, <1>3, <1>6 DEF Aged, Entry
  <2>2. timer'.at \in {"process", "marking"} => ~list[1].e.leaving
    <3>1. CASE Beat
      BY <1>1, <3>1 DEF Beat, Then, SelfWell
    <3>2. CASE Examine \/ Suspect
      BY <1>1, <3>2 DEF Examine, Suspect, At, SelfWell
    <3>3. CASE UNCHANGED timer
      BY <1>1, <3>3 DEF SelfWell
    <3>4. CASE ExecuteCb \/ FindSelf \/ RemoveFromList \/ Send
      BY <1>1, <3>4 DEF ExecuteCb, FindSelf, RemoveFromList, Send, Then, At, Sleeping,
                        Gone, SelfWell
    <3> QED
      BY <1>6, <3>1, <3>2, <3>3, <3>4
      DEF Next, Merging, TimerThread, UpdateMembershipList, Search, Merge, AddToList,
          Tick, Sigterm, threads
  <2> QED
    BY <1>1, <1>4, <2>1, <2>2 DEF SelfWell
<1> QED
  BY <1>5, <1>6

LEMMA StampsPaidKept ==
    ASSUME Types, Types', IndicesInList, LeavesWhenAsked, SelfKept, Next
    PROVE  StampsPaid'
<1>1. SelfFirst /\ StampsPaid
  BY DEF SelfKept
<1>2. list[1].e \in Entry
  <2>1. 1 \in 1..Len(list)
    BY <1>1, LenProperties, EmptySeq DEF SelfFirst, Types
  <2> QED
    BY <2>1, ItemsOfList DEF Types
<1>3. /\ Tick => list'[1].e = Aged(list[1].e)
      /\ SetLeaving => list'[1].e \in {list[1].e, [list[1].e EXCEPT !.leaving = TRUE]}
      /\ Beat => list'[1].e = IF moved THEN list[1].e ELSE [list[1].e EXCEPT !.age = 0]
      /\ ~Tick /\ ~SetLeaving /\ ~Beat => list'[1].e = list[1].e
  BY <1>1, OwnEntryKept
<1> DEFINE A == list[1].e.age
           P == 2^A
<1>4. A \in Nat /\ AgeCap \in Nat
  BY <1>2, TimesAssumption DEF Entry, AgeCap
<1>5. P \in Nat /\ 2^(A + 1) = 2 * P
  BY <1>4, PowerDoubles
<1>6. capacity \in Nat /\ capacity' \in Nat
  BY DEF Types
<1>7. P <= Allowed
  BY <1>1 DEF StampsPaid, Allowed
<1> HIDE DEF P
<1>8. CASE Tick
  <2>1. list'[1].e.age \in {A, A + 1}
    <3>1. list'[1].e.age = Older(A)
      BY <1>2, <1>3, <1>8 DEF Aged, Entry
    <3>2. A \in 0..AgeCap
      BY <1>2 DEF Entry
    <3> HIDE DEF A
    <3> QED
      BY <1>4, <3>1, <3>2 DEF Older
  <2>2. 2^(list'[1].e.age) = P \/ 2^(list'[1].e.age) = 2 * P
    BY <1>5, <2>1, Zenon DEF P
  <2>3. ~Unstamped /\ Unstamped' /\ capacity' = capacity
    BY <1>8 DEF Tick, Unstamped, Sleeping, threads
  <2> QED
    BY <1>5, <1>6, <1>7, <2>2, <2>3 DEF StampsPaid, Allowed
<1>9. CASE Beat
  <2>1. capacity' = capacity /\ ~Unstamped'
    BY <1>9 DEF Beat, At, Then, Elsewhere, clock, Unstamped, LeavesWhenAsked
  <2>2. CASE moved
    <3>1. ~Unstamped
      BY <1>9, <2>2 DEF Beat, At, Unstamped, LeavesWhenAsked
    <3>2. 2^(list'[1].e.age) = P
      BY <1>3, <1>9, <2>2, Zenon DEF P
    <3> QED
      BY <1>5, <1>6, <1>7, <2>1, <3>1, <3>2 DEF StampsPaid, Allowed
  <2>3. CASE ~moved
    <3>1. list'[1].e.age = 0
      BY <1>2, <1>3, <1>9, <2>3 DEF Entry
    <3>2. 2^0 = 1
      OBVIOUS
    <3>3. capacity >= 1
      BY DEF Types
    <3> QED
      BY <1>6, <2>1, <3>1, <3>2, <3>3 DEF StampsPaid, Allowed
  <2> QED
    BY <2>2, <2>3
<1>10. CASE ~Tick /\ ~Beat
  <2>1. list'[1].e.age = list[1].e.age
    BY <1>2, <1>3, <1>10 DEF Entry
  <2>2. 2^(list'[1].e.age) = P
    BY <2>1 DEF P
  <2>3. Allowed <= Allowed'
    <3>1. CASE AddToList
      <4>1. UNCHANGED <<timer, due>>
        BY <3>1 DEF AddToList, clock
      <4>2. \/ capacity' = capacity /\ moved' = moved
            \/ capacity' = 2 * capacity
        BY <3>1, AddMeans
      <4>3. CASE capacity' = capacity /\ moved' = moved
        BY <1>6, <4>1, <4>3 DEF Allowed, Unstamped
      <4>4. CASE capacity' = 2 * capacity
        BY <1>6, <4>4 DEF Allowed
      <4> QED
        BY <4>2, <4>3, <4>4
    <3>2. CASE UpdateMembershipList \/ Search \/ Merge \/ Sigterm
      <4>1. UNCHANGED <<timer, due, moved, capacity>>
        BY <3>2 DEF UpdateMembershipList, Search, Merge, Sigterm, clock, threads
      <4> QED
        BY <1>6, <4>1 DEF Allowed, Unstamped
    <3>3. CASE ExecuteCb \/ SetLeaving
      <4>1. capacity' = capacity /\ Unstamped'
        BY <3>3 DEF ExecuteCb, SetLeaving, Then, Elsewhere, Unstamped
      <4> QED
        BY <1>6, <4>1 DEF Allowed
    <3>4. CASE FindSelf
      <4>1. list \in Seq(Item) /\ DOMAIN list = 1..Len(list) /\ Len(list) \in Nat
        BY ItemsOfList DEF Types
      <4>2. 1 \in DOMAIN list /\ list[1].id = Self
        BY <1>1, <4>1, EmptySeq DEF SelfFirst
      <4>3. Find(Self) # 0
        BY <4>1, <4>2, FindMeans
      <4>4. capacity' = capacity /\ Unstamped'
        BY <3>4, <4>3 DEF FindSelf, Then, Elsewhere, Unstamped
      <4> QED
        BY <1>6, <4>4 DEF Allowed
    <3>5. CASE Examine \/ Suspect \/ RemoveFromList \/ Send
      <4>1. capacity' = capacity /\ due' = due
        BY <3>5 DEF Examine, Suspect, RemoveFromList, Send, Elsewhere, clock
      <4>2. timer.at \in {"process", "marking", "remove", "sent"}
        BY <3>5 DEF Examine, Suspect, RemoveFromList, Send, At
      <4>3. Unstamped => Unstamped'
        BY <4>1, <4>2 DEF Allowed, Unstamped
      <4> QED
        BY <1>6, <4>1, <4>3 DEF Allowed
    <3> QED
      BY <1>10, <3>1, <3>2, <3>3, <3>4, <3>5 DEF Next, Merging, TimerThread
  <2>4. P <= Allowed'
    <3>1. Allowed \in Nat /\ Allowed' \in Nat /\ P <= Allowed
      <4>1. Allowed \in Nat
        BY <1>6 DEF Allowed
      <4>2. Allowed' = capacity' \/ Allowed' = 2 * capacity'
        BY Zenon DEF Allowed
      <4>3. 2 * capacity' \in Nat
        <5> DEFINE c == capacity'
        <5>1. c \in Nat
          BY <1>6
        <5> HIDE DEF c
        <5>2. 2 * c \in Nat
          BY <5>1
        <5> QED
          BY <5>2 DEF c
      <4> QED
        BY <1>6, <1>7, <4>1, <4>2, <4>3
    <3> QED
      BY <1>5, <2>3, <3>1
  <2> QED
    BY <2>2, <2>4 DEF StampsPaid, Allowed
<1> QED
  BY <1>8, <1>9, <1>10

--------------------------------------------------------------------------------
(* The invariant                                                                 *)

LEMMA InvHoldsInitially == Init => Inv
<1> SUFFICES ASSUME Init PROVE Inv
  OBVIOUS
<1>1. NewEntry(0) \in Entry
  BY EntriesStayEntries
<1>2. /\ list \in Seq(Item) /\ Len(list) = 1 /\ DOMAIN list = {1}
      /\ list[1] = WithId(Self, NewEntry(0))
  BY <1>1 DEF Init, Item, WithId, Id
<1>3. list[1].id = Self /\ list[1].e = NewEntry(0)
  BY <1>2 DEF WithId
<1>4. Types
  <2>1. <<>> \in Seq(Id)
    BY EmptySeq
  <2>2. Sleeping \in [at : Stages, i : Nat]
    BY DEF Sleeping, Stages
  <2> QED
    <3>1. capacity \in Nat \ {0} /\ timer \in [at : Stages, i : Nat]
      BY <2>2 DEF Init
    <3> QED
      BY <1>2, <2>1, <3>1 DEF Init, Types
<1>5. IndicesInList /\ LeavesWhenAsked
  BY DEF Init, Free, Sleeping, Holding, IndicesInList, LeavesWhenAsked
<1>6. OneEntryEach /\ NeverAhead /\ SearchSound
  BY <1>2, <1>3 DEF Init, Free, OneEntryEach, NeverAhead, SearchSound
<1>7. SelfFirst
  BY <1>2, <1>3, EmptySeq DEF Init, Free, Sleeping, SelfFirst
<1>8. SelfWell
  BY <1>3 DEF Init, Sleeping, NewEntry, SelfWell
<1>9. StampsPaid
  <2>1. list[1].e.age = 0
    BY <1>3 DEF NewEntry
  <2>2. 2^0 = 1
    OBVIOUS
  <2> QED
    <3>1. 2^(list[1].e.age) = 1
      BY <2>1, <2>2, Zenon
    <3> QED
      BY <3>1 DEF Init, Sleeping, Allowed, Unstamped, StampsPaid
<1> QED
  BY <1>4, <1>5, <1>6, <1>7, <1>8, <1>9 DEF Inv, SelfKept

LEMMA InvIsKept == Inv /\ [Next]_vars => Inv'
<1> SUFFICES ASSUME Inv, [Next]_vars PROVE Inv'
  OBVIOUS
<1>1. CASE UNCHANGED vars
  BY <1>1
  DEF Inv, Types, IndicesInList, LeavesWhenAsked, OneEntryEach, NeverAhead, SearchSound,
      SelfKept, SelfFirst, SelfWell, StampsPaid, Allowed, Unstamped, vars, threads, clock
<1>2. CASE Next
  <2>1. Types /\ IndicesInList /\ LeavesWhenAsked /\ (~crossed => Tracked)
    BY DEF Inv, Tracked
  <2>2. Types' /\ IndicesInList' /\ LeavesWhenAsked'
    BY <1>2, <2>1, TypesKept, IndicesKept, LeavingKept
  <2>3. ~crossed' => Tracked'
    BY <1>2, <2>1, <2>2, TrackedKept
  <2>4. capacity' <= 2^TTF => SelfKept'
    <3> SUFFICES ASSUME capacity' <= 2^TTF PROVE SelfKept'
      OBVIOUS
    <3>1. capacity <= capacity'
      <4>1. capacity' \in {capacity, 2 * capacity}
        BY <1>2
        DEF Next, Merging, TimerThread, UpdateMembershipList, Search, Merge, AddToList,
            ExecuteCb, FindSelf, SetLeaving, Beat, Examine, Suspect, RemoveFromList, Send,
            Tick, Sigterm, Elsewhere
      <4> QED
        BY <2>1, <4>1 DEF Types
    <3>2. 2^TTF \in Nat
      BY TimesAssumption, PowerDoubles
    <3>3. capacity <= 2^TTF
      BY <2>1, <2>2, <3>1, <3>2 DEF Types
    <3>4. SelfKept
      BY <3>3 DEF Inv
    <3> QED
      BY <1>2, <2>1, <2>2, <3>3, <3>4, SelfFirstKept, SelfWellKept, StampsPaidKept
      DEF SelfKept
  <2> QED
    BY <2>2, <2>3, <2>4 DEF Inv, Tracked
<1> QED
  BY <1>1, <1>2

\* What the list holds is sound: it holds entries; the machine's own stays first,
\* unsuspected and not leaving unless asked, while the vector has moved less than TTF
\* times; and nobody is on it twice, or with heartbeats he has not had, while no entry
\* was removed during a merge (MembershipList of MP2).
THEOREM ListSoundAlways == Spec => []ListSound
<1>1. Inv => ListSound
  <2> SUFFICES ASSUME Inv PROVE ListSound
    OBVIOUS
  <2>1. \A i \in DOMAIN list : list[i].id \in Id /\ list[i].e \in Entry
    BY ItemsOfList DEF Inv, Types
  <2>2. capacity <= 2^TTF => SelfSound
    BY DEF Inv, SelfKept, SelfFirst, SelfWell, SelfSound
  <2> QED
    BY <2>1, <2>2 DEF Inv, ListSound
<1> QED
  BY <1>1, InvHoldsInitially, InvIsKept, PTL DEF Spec

================================================================================
