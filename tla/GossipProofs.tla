------------------------------ MODULE GossipProofs ------------------------------
(* The safety properties of Gossip, for any number of machines, any times and    *)
(* any bounds.                                                                   *)
(*                                                                               *)
(* The inductive invariant Inv joins the properties that need each other: that   *)
(* no heartbeat in circulation is ahead of its machine keeps merges off a        *)
(* machine's own entry (SelfPresent), and only because its own entry is never    *)
(* suspected or unduly leaving does processList leave it alone.                  *)
(*                                                                               *)
(* That the dead are forgotten in time (GossipForget) follows from two bounds     *)
(* more: how long ago any list can have heard of a heartbeat for the first time,  *)
(* and how long a list that has heard of none can keep the entry.                *)
EXTENDS GossipForget, FiniteSetTheorems, TLAPS

\* An incarnation that has not started has no heartbeat yet.
NoBeatBeforeStart == \A id \in Id : id[2] > inc[id[1]] => beats[id] = 0

\* A member is suspected only after TTF seconds of silence, so its silence is
\* older than the suspicion by that much (up to the cap on ages).
SuspicionDated ==
    \A n \in Node : \A id \in DOMAIN list[n] :
        list[n][id].failed =>
            \/ list[n][id].age >= list[n][id].failAge + TTF + 1
            \/ list[n][id].age = AgeCap

Inv == TypeOK /\ HeartbeatNeverAhead /\ SelfPresent /\ NoBeatBeforeStart /\ SuspicionDated

RemoteOK(r) == DOMAIN r \subseteq Id /\ \A id \in DOMAIN r : r[id] \in Remote

--------------------------------------------------------------------------------
(* The operators on lists                                                       *)

LEMMA AgeCapIsNat == AgeCap \in Nat /\ AgeCap > TTF + TTC
BY TimesAssumption DEF AgeCap

LEMMA NewEntryOK == \A b \in Nat : NewEntry(b) \in Entry
BY AgeCapIsNat DEF NewEntry, Entry

LEMMA OlderOK ==
    \A a \in 0..AgeCap : Older(a) \in 0..AgeCap /\ Older(a) >= a /\ Older(a) <= a + 1
                         /\ (Older(a) = a + 1 \/ Older(a) = AgeCap)
BY AgeCapIsNat DEF Older

LEMMA IdIsPair ==
    /\ \A id \in Id : id = <<id[1], id[2]>> /\ id[1] \in Node /\ id[2] \in 1..MaxInc[id[1]]
    /\ \A n \in Node : \A i \in 1..MaxInc[n] : <<n, i>> \in Id
BY GossipAssumption DEF Id

\* A merge keeps what it does not find news about, and its result is a list again.
LEMMA MergeEntriesOK ==
    ASSUME NEW e \in Entry, NEW r \in Remote
    PROVE  /\ MergeEntries(e, r) \in Entry
           /\ \/ MergeEntries(e, r) = e
              \/ /\ r.beat > e.beat
                 /\ MergeEntries(e, r).beat = r.beat
                 /\ MergeEntries(e, r).age = 0
                 /\ ~MergeEntries(e, r).failed
BY AgeCapIsNat DEF MergeEntries, Entry, Remote

LEMMA MergeListOK ==
    ASSUME NEW l, ListOK(l), NEW r, RemoteOK(r)
    PROVE  /\ ListOK(MergeList(l, r))
           /\ DOMAIN MergeList(l, r) = DOMAIN l \cup Joining(l, r)
           /\ \A id \in DOMAIN l :
                 \/ MergeList(l, r)[id] = l[id]
                 \/ /\ id \in DOMAIN r
                    /\ r[id].beat > l[id].beat
                    /\ MergeList(l, r)[id].beat = r[id].beat
                    /\ MergeList(l, r)[id].age = 0
                    /\ ~MergeList(l, r)[id].failed
           /\ \A id \in Joining(l, r) :
                 id \in DOMAIN r /\ id \notin DOMAIN l
                 /\ MergeList(l, r)[id] = NewEntry(r[id].beat)
<1> DEFINE m == MergeList(l, r)
<1>1. DOMAIN m = DOMAIN l \cup Joining(l, r)
  BY DEF MergeList
<1>2. \A id \in Joining(l, r) : id \in DOMAIN r /\ id \notin DOMAIN l
                                /\ m[id] = NewEntry(r[id].beat)
  BY DEF MergeList, Joining
<1>3. ASSUME NEW id \in DOMAIN l
      PROVE  m[id] = l[id] \/ (id \in DOMAIN r /\ m[id] = MergeEntries(l[id], r[id]))
  BY DEF MergeList
<1>4. ASSUME NEW id \in DOMAIN l
      PROVE  /\ m[id] \in Entry
             /\ \/ m[id] = l[id]
                \/ /\ id \in DOMAIN r
                   /\ r[id].beat > l[id].beat
                   /\ m[id].beat = r[id].beat
                   /\ m[id].age = 0
                   /\ ~m[id].failed
  <2>1. l[id] \in Entry
    BY DEF ListOK
  <2>2. CASE m[id] = l[id]
    BY <2>1, <2>2
  <2>3. CASE id \in DOMAIN r /\ m[id] = MergeEntries(l[id], r[id])
    <3>1. r[id] \in Remote
      BY <2>3 DEF RemoteOK
    <3> QED BY <2>1, <2>3, <3>1, MergeEntriesOK
  <2> QED BY <1>3, <2>2, <2>3
<1>5. \A id \in Joining(l, r) : m[id] \in Entry
  BY <1>2, NewEntryOK DEF RemoteOK, Remote
<1>6. ListOK(m)
  BY <1>1, <1>2, <1>4, <1>5 DEF ListOK, RemoteOK
<1> QED BY <1>1, <1>2, <1>4, <1>6

LEMMA StampOK ==
    ASSUME NEW e \in Entry
    PROVE  LET s == [e EXCEPT !.beat = @ + 1, !.age = 0]
           IN  /\ s \in Entry
               /\ s.beat = e.beat + 1 /\ s.age = 0
               /\ s.failed = e.failed /\ s.leaving = e.leaving /\ s.failAge = e.failAge
<1> DEFINE b == [e EXCEPT !.beat = @ + 1]
<1>1. b \in Entry /\ b.beat = e.beat + 1 /\ b.failed = e.failed
      /\ b.leaving = e.leaving /\ b.failAge = e.failAge
  BY DEF Entry
<1>2. [e EXCEPT !.beat = @ + 1, !.age = 0] = [b EXCEPT !.age = 0]
  OBVIOUS
<1> HIDE DEF b
<1>3. [b EXCEPT !.age = 0] \in Entry
  BY <1>1, AgeCapIsNat DEF Entry
<1> QED BY <1>1, <1>2, <1>3 DEF Entry

LEMMA IncrementHeartbeatOK ==
    ASSUME NEW l, ListOK(l), NEW self \in DOMAIN l
    PROVE  LET i == IncrementHeartbeat(l, self)
           IN  /\ ListOK(i)
               /\ DOMAIN i = DOMAIN l
               /\ \A id \in DOMAIN l \ {self} : i[id] = l[id]
               /\ i[self].beat = l[self].beat + 1
               /\ i[self].age = 0
               /\ i[self].failed = l[self].failed
               /\ i[self].leaving = l[self].leaving
<1> DEFINE s == [l[self] EXCEPT !.beat = @ + 1, !.age = 0]
<1>1. IncrementHeartbeat(l, self) = [l EXCEPT ![self] = s]
  BY DEF IncrementHeartbeat
<1>2. l[self] \in Entry
  BY DEF ListOK
<1>3. /\ s \in Entry
      /\ s.beat = l[self].beat + 1 /\ s.age = 0
      /\ s.failed = l[self].failed /\ s.leaving = l[self].leaving
  BY <1>2, StampOK
<1> HIDE DEF s
<1> QED BY <1>1, <1>3 DEF ListOK

LEMMA RequestRetirementOK ==
    ASSUME NEW l, ListOK(l), NEW self \in DOMAIN l
    PROVE  LET q == RequestRetirement(l, self)
           IN  /\ ListOK(q)
               /\ DOMAIN q = DOMAIN l
               /\ \A id \in DOMAIN l \ {self} : q[id] = l[id]
               /\ q[self].beat = l[self].beat
               /\ q[self].failed = l[self].failed
<1>1. RequestRetirement(l, self) = [l EXCEPT ![self] = [l[self] EXCEPT !.leaving = TRUE]]
  BY DEF RequestRetirement
<1>2. l[self] \in Entry
  BY DEF ListOK
<1> QED BY <1>1, <1>2 DEF ListOK, Entry

LEMMA ProcessEntryOK ==
    ASSUME NEW e \in Entry
    PROVE  /\ ProcessEntry(e) \in Entry
           /\ ProcessEntry(e).beat = e.beat
           /\ ProcessEntry(e).leaving = e.leaving
           /\ ProcessEntry(e).age = e.age
           /\ \/ ProcessEntry(e) = e
              \/ /\ ToSuspect(e)
                 /\ ProcessEntry(e).failed
                 /\ ProcessEntry(e).failAge = 0
<1> DEFINE f == [e EXCEPT !.failed = TRUE]
<1>1. f \in Entry /\ f.beat = e.beat /\ f.leaving = e.leaving /\ f.age = e.age /\ f.failed
  BY DEF Entry
<1>2. [e EXCEPT !.failed = TRUE, !.failAge = 0] = [f EXCEPT !.failAge = 0]
  OBVIOUS
<1> HIDE DEF f
<1>3. [f EXCEPT !.failAge = 0] \in Entry
  BY <1>1, AgeCapIsNat DEF Entry
<1> QED BY <1>1, <1>2, <1>3 DEF ProcessEntry, Entry

\* processList drops exactly what is due and changes an entry only by suspecting it.
LEMMA ProcessListOK ==
    ASSUME NEW l, ListOK(l)
    PROVE  /\ ListOK(ProcessList(l))
           /\ DOMAIN ProcessList(l) = {id \in DOMAIN l : ~ToDelete(l[id])}
           /\ \A id \in DOMAIN ProcessList(l) :
                 /\ ProcessList(l)[id].beat = l[id].beat
                 /\ ProcessList(l)[id].leaving = l[id].leaving
                 /\ ProcessList(l)[id].age = l[id].age
                 /\ \/ ProcessList(l)[id] = l[id]
                    \/ /\ ToSuspect(l[id])
                       /\ ProcessList(l)[id].failed
                       /\ ProcessList(l)[id].failAge = 0
<1>1. DOMAIN ProcessList(l) = {id \in DOMAIN l : ~ToDelete(l[id])}
  BY DEF ProcessList
<1>2. ASSUME NEW id \in DOMAIN ProcessList(l)
      PROVE  /\ ProcessList(l)[id] \in Entry
             /\ ProcessList(l)[id].beat = l[id].beat
             /\ ProcessList(l)[id].leaving = l[id].leaving
             /\ ProcessList(l)[id].age = l[id].age
             /\ \/ ProcessList(l)[id] = l[id]
                \/ /\ ToSuspect(l[id])
                   /\ ProcessList(l)[id].failed
                   /\ ProcessList(l)[id].failAge = 0
  <2>1. ProcessList(l)[id] = ProcessEntry(l[id])
    BY DEF ProcessList
  <2>2. l[id] \in Entry
    BY <1>1 DEF ListOK
  <2> QED BY <2>1, <2>2, ProcessEntryOK
<1> QED BY <1>1, <1>2 DEF ListOK

--------------------------------------------------------------------------------
(* The timer thread's work on its list                                          *)

\* Whatever branch executeCb takes, the machine's own entry survives with one
\* heartbeat more, and the others change only by being suspected or dropped when due.
LEMMA CallbackListOK ==
    ASSUME Inv, NEW n \in Node, up[n]
    PROVE  /\ ListOK(CallbackList(n))
           /\ DOMAIN CallbackList(n) \subseteq DOMAIN list[n]
           /\ Self(n) \in DOMAIN CallbackList(n)
           /\ CallbackList(n)[Self(n)].beat = beats[Self(n)] + 1
           /\ ~CallbackList(n)[Self(n)].failed
           /\ CallbackList(n)[Self(n)].leaving => leave[n]
           /\ \A id \in DOMAIN CallbackList(n) \ {Self(n)} :
                 /\ CallbackList(n)[id].beat = list[n][id].beat
                 /\ \/ CallbackList(n)[id] = list[n][id]
                    \/ /\ CallbackList(n)[id].age >= TTF + 1
                       /\ CallbackList(n)[id].failAge = 0
           /\ \A id \in DOMAIN list[n] \ DOMAIN CallbackList(n) : ToDelete(list[n][id])
<1> DEFINE me == Self(n)
           l  == list[n]
<1>1. /\ ListOK(l)
      /\ me \in DOMAIN l
      /\ l[me].beat = beats[me]
      /\ ~l[me].failed
      /\ l[me].leaving => leave[n]
  BY DEF Inv, TypeOK, SelfPresent
<1>2. PICK q : /\ q = l \/ (leave[n] /\ q = RequestRetirement(l, me))
               /\ CallbackList(n) = IF leave[n] THEN IncrementHeartbeat(q, me)
                                    ELSE ProcessList(IncrementHeartbeat(q, me))
  BY DEF CallbackList
<1>3. /\ ListOK(q)
      /\ DOMAIN q = DOMAIN l
      /\ \A id \in DOMAIN l \ {me} : q[id] = l[id]
      /\ q[me].beat = l[me].beat
      /\ ~q[me].failed
      /\ q[me].leaving => leave[n]
  BY <1>1, <1>2, RequestRetirementOK
<1> DEFINE i == IncrementHeartbeat(q, me)
<1> HIDE DEF me, l
<1>4. /\ ListOK(i)
      /\ DOMAIN i = DOMAIN l
      /\ \A id \in DOMAIN l \ {me} : i[id] = l[id]
      /\ i[me].beat = beats[me] + 1
      /\ i[me].age = 0
      /\ ~i[me].failed
      /\ i[me].leaving => leave[n]
  BY <1>1, <1>3, IncrementHeartbeatOK
<1> HIDE DEF i
<1>5. CallbackList(n) = IF leave[n] THEN i ELSE ProcessList(i)
  BY <1>2 DEF i
<1>6. CASE leave[n]
  BY <1>1, <1>4, <1>5, <1>6 DEF me, l
<1>7. CASE ~leave[n]
  <2> DEFINE p == ProcessList(i)
  <2>1. CallbackList(n) = p
    BY <1>5, <1>7
  <2>2. /\ ListOK(p)
        /\ DOMAIN p = {id \in DOMAIN i : ~ToDelete(i[id])}
        /\ \A id \in DOMAIN p :
              /\ p[id].beat = i[id].beat
              /\ p[id].leaving = i[id].leaving
              /\ p[id].age = i[id].age
              /\ p[id] = i[id] \/ (ToSuspect(i[id]) /\ p[id].failed /\ p[id].failAge = 0)
    BY <1>4, ProcessListOK
  <2> HIDE DEF p
  <2>3. ~ToDelete(i[me]) /\ ~ToSuspect(i[me])
    BY <1>4, <1>7, TimesAssumption DEF ToDelete, ToSuspect
  <2>4. /\ me \in DOMAIN p
        /\ p[me] = i[me]
    BY <1>1, <1>4, <2>2, <2>3
  <2>5. ASSUME NEW id \in DOMAIN p \ {me}
        PROVE  /\ p[id].beat = l[id].beat
               /\ p[id] = l[id] \/ (p[id].age >= TTF + 1 /\ p[id].failAge = 0)
    <3>1. i[id] = l[id] /\ i[id] \in Entry
      BY <1>4, <2>2 DEF ListOK
    <3>2. i[id].age \in Int /\ (ToSuspect(i[id]) => i[id].age >= TTF + 1)
      BY <3>1, TimesAssumption, AgeCapIsNat DEF ToSuspect, Entry
    <3> QED BY <2>2, <3>1, <3>2
  <2>6. \A id \in DOMAIN l \ DOMAIN p : ToDelete(l[id])
    BY <1>4, <2>2, <2>4
  <2> QED BY <1>1, <1>4, <1>7, <2>1, <2>2, <2>4, <2>5, <2>6 DEF me, l
<1> QED BY <1>6, <1>7

\* A datagram goes to a machine of the system.
LEMMA DestinationsOK ==
    ASSUME Inv, NEW n \in Node, up[n], NEW ips \in Destinations(n)
    PROVE  ips \subseteq Node
<1>1. DOMAIN list[n] \subseteq Id
  BY DEF Inv, TypeOK, ListOK
<1>2. Eligible(list[n], Self(n)) \subseteq Id
  BY <1>1 DEF Eligible
<1>3. \A s \in Chosen(list[n], Self(n)) : s \subseteq Id
  BY <1>2 DEF Chosen
<1> QED BY <1>3, IdIsPair, GossipAssumption DEF Destinations

--------------------------------------------------------------------------------
(* Inductiveness                                                                *)

LEMMA InitInv == Init => Inv
<1> SUFFICES ASSUME Init PROVE Inv
  OBVIOUS
<1>1. TypeOK
  BY GossipAssumption, TimesAssumption DEF Init, TypeOK, ListOK, EmptyList
<1>2. HeartbeatNeverAhead
  BY DEF Init, HeartbeatNeverAhead, EmptyList
<1>3. SelfPresent
  BY DEF Init, SelfPresent
<1>4. NoBeatBeforeStart
  BY DEF Init, NoBeatBeforeStart
<1>5. SuspicionDated
  BY DEF Init, SuspicionDated, EmptyList
<1> QED BY <1>1, <1>2, <1>3, <1>4, <1>5 DEF Inv

\* A new incarnation: its heartbeat is 0, and nobody has heard of it.
LEMMA StartInv ==
    ASSUME Inv, NEW n \in Node, Start(n)
    PROVE  Inv'
<1> USE DEF Inv, Start
<1> DEFINE new == <<n, inc[n] + 1>>
<1>1. inc[n] \in Nat /\ inc[n] + 1 \in 1..MaxInc[n] /\ inc'[n] = inc[n] + 1
  <2>1. inc \in [Node -> Nat] /\ MaxInc[n] \in Nat /\ inc[n] < MaxInc[n]
        /\ inc' = [inc EXCEPT ![n] = @ + 1]
    BY GossipAssumption DEF TypeOK
  <2> QED BY <2>1
<1>2. new \in Id /\ new[1] = n /\ new[2] = inc[n] + 1 /\ Self(n)' = new
  BY <1>1, IdIsPair DEF Self
<1>3. beats[new] = 0
  BY <1>1, <1>2 DEF NoBeatBeforeStart
<1>4. /\ DOMAIN list'[n] = {new}
      /\ list'[n][new] = NewEntry(0)
      /\ DOMAIN list' = Node
      /\ \A x \in Node \ {n} : list'[x] = list[x]
  BY DEF TypeOK
<1>5. /\ NewEntry(0) \in Entry /\ NewEntry(0).beat = 0
      /\ ~NewEntry(0).failed /\ ~NewEntry(0).leaving
  BY NewEntryOK DEF NewEntry
<1> HIDE DEF new
<1>6. TypeOK'
  BY <1>1, <1>2, <1>4, <1>5 DEF TypeOK, ListOK, DatagramOK
<1>7. HeartbeatNeverAhead'
  BY <1>3, <1>4, <1>5 DEF HeartbeatNeverAhead
<1>8. SelfPresent'
  BY <1>2, <1>3, <1>4, <1>5 DEF SelfPresent, Self, TypeOK
<1>9. NoBeatBeforeStart'
  BY <1>1, IdIsPair DEF NoBeatBeforeStart, TypeOK
<1>10. SuspicionDated'
  BY <1>4, <1>5 DEF SuspicionDated
<1> QED BY <1>6, <1>7, <1>8, <1>9, <1>10

\* Crash and Retire: what is left of the machine satisfies everything at once.
LEMMA StopInv ==
    ASSUME Inv, NEW n \in Node, Stop(n), UNCHANGED <<inc, net, beats>>
    PROVE  Inv'
<1> USE DEF Inv, Stop
<1>1. /\ DOMAIN list' = Node /\ DOMAIN list'[n] = {}
      /\ \A x \in Node \ {n} : list'[x] = list[x]
  BY DEF TypeOK, EmptyList
<1>2. TypeOK'
  BY <1>1, TimesAssumption DEF TypeOK, ListOK, DatagramOK
<1>3. HeartbeatNeverAhead'
  BY <1>1 DEF HeartbeatNeverAhead
<1>4. SelfPresent'
  BY <1>1 DEF SelfPresent, Self, TypeOK
<1>5. NoBeatBeforeStart'
  BY DEF NoBeatBeforeStart
<1>6. SuspicionDated'
  BY <1>1 DEF SuspicionDated
<1> QED BY <1>2, <1>3, <1>4, <1>5, <1>6

\* The actions which touch neither a list nor a heartbeat.
LEMMA QuietInv ==
    ASSUME Inv, UNCHANGED <<up, inc, list, beats>>,
           TypeOK', net' \subseteq net,
           \A n \in Node : leave[n] => leave'[n]
    PROVE  Inv'
<1>1. HeartbeatNeverAhead'
  BY DEF Inv, HeartbeatNeverAhead
<1>2. SelfPresent'
  BY DEF Inv, SelfPresent, Self
<1>3. NoBeatBeforeStart' /\ SuspicionDated'
  BY DEF Inv, NoBeatBeforeStart, SuspicionDated
<1> QED BY <1>1, <1>2, <1>3 DEF Inv

\* The callback: the new list is the one of CallbackListOK, the datagrams carry it.
LEMMA CallbackInv ==
    ASSUME Inv, NEW n \in Node, Callback(n)
    PROVE  Inv'
<1> DEFINE me == Self(n)
           c  == CallbackList(n)
<1>1. up[n] /\ inc[n] \in 1..MaxInc[n] /\ me \in Id /\ beats[me] \in Nat
  BY IdIsPair, GossipAssumption DEF Inv, TypeOK, Callback, Self
<1>2. /\ ListOK(c)
      /\ DOMAIN c \subseteq DOMAIN list[n]
      /\ me \in DOMAIN c
      /\ c[me].beat = beats[me] + 1
      /\ ~c[me].failed
      /\ c[me].leaving => leave[n]
      /\ \A id \in DOMAIN c \ {me} :
            /\ c[id].beat = list[n][id].beat
            /\ c[id] = list[n][id] \/ (c[id].age >= TTF + 1 /\ c[id].failAge = 0)
  BY <1>1, CallbackListOK
<1>3. /\ DOMAIN list' = Node /\ list'[n] = c
      /\ \A x \in Node \ {n} : list'[x] = list[x]
  BY DEF Inv, TypeOK, Callback
<1>4. /\ beats' \in [Id -> Nat]
      /\ beats'[me] = beats[me] + 1
      /\ \A id \in Id \ {me} : beats'[id] = beats[id]
      /\ \A id \in Id : beats[id] <= beats'[id]
  BY <1>1 DEF Inv, TypeOK, Callback
<1>5. \A id \in DOMAIN c : c[id].beat <= beats'[id]
  <2>1. \A id \in DOMAIN c \ {me} : c[id].beat <= beats[id] /\ id \in Id
    BY <1>2 DEF Inv, HeartbeatNeverAhead, ListOK
  <2> QED BY <1>1, <1>2, <1>4, <2>1
<1>6. PICK arriving \in SUBSET Node :
        net' = net \cup {[to |-> ip, list |-> AsRemote(list'[n]), age |-> 0] : ip \in arriving}
  <2>1. PICK ips \in Destinations(n) : \E arriving \in SUBSET ips :
          net' = net \cup {[to |-> ip, list |-> AsRemote(list'[n]), age |-> 0] : ip \in arriving}
    BY DEF Callback
  <2>2. ips \subseteq Node
    BY <1>1, DestinationsOK
  <2> QED BY <2>1, <2>2
<1> HIDE DEF me, c
<1>8. /\ RemoteOK(AsRemote(c))
      /\ DOMAIN AsRemote(c) = DOMAIN c
      /\ \A id \in DOMAIN c : AsRemote(c)[id].beat = c[id].beat
  BY <1>2 DEF RemoteOK, AsRemote, ListOK, Entry, Remote
<1>9. \A d \in net' : d \in net \/ (d = [to |-> d.to, list |-> AsRemote(c), age |-> 0]
                                    /\ d.to \in Node /\ d.list = AsRemote(c) /\ d.age = 0)
  BY <1>3, <1>6
<1>10. TypeOK'
  <2>1. \A d \in net' : DatagramOK(d)
    BY <1>8, <1>9, GossipAssumption DEF DatagramOK, RemoteOK, Inv, TypeOK
  <2>2. \A x \in Node : ListOK(list'[x])
    BY <1>2, <1>3 DEF Inv, TypeOK
  <2> QED BY <1>3, <1>4, <2>1, <2>2 DEF Inv, TypeOK, Callback
<1>11. HeartbeatNeverAhead'
  <2>1. \A x \in Node : \A id \in DOMAIN list'[x] : list'[x][id].beat <= beats'[id]
    <3> SUFFICES ASSUME NEW x \in Node, x # n, NEW id \in DOMAIN list[x]
                 PROVE  list[x][id].beat <= beats'[id]
      BY <1>3, <1>5
    <3>1. id \in Id /\ list[x][id].beat \in Nat /\ list[x][id].beat <= beats[id]
      BY DEF Inv, TypeOK, ListOK, Entry, HeartbeatNeverAhead
    <3>2. beats[id] \in Nat /\ beats'[id] \in Nat
      BY <1>4, <3>1 DEF Inv, TypeOK
    <3> QED BY <1>4, <3>1, <3>2
  <2>2. \A d \in net' : \A id \in DOMAIN d.list : d.list[id].beat <= beats'[id]
    <3> SUFFICES ASSUME NEW d \in net, NEW id \in DOMAIN d.list
                 PROVE  d.list[id].beat <= beats'[id]
      BY <1>5, <1>8, <1>9
    <3>1. id \in Id /\ d.list[id].beat \in Nat /\ d.list[id].beat <= beats[id]
      BY DEF Inv, TypeOK, DatagramOK, Remote, HeartbeatNeverAhead
    <3>2. beats[id] \in Nat /\ beats'[id] \in Nat
      BY <1>4, <3>1 DEF Inv, TypeOK
    <3> QED BY <1>4, <3>1, <3>2
  <2> QED BY <2>1, <2>2 DEF HeartbeatNeverAhead
<1>12. SelfPresent'
  <2> SUFFICES ASSUME NEW x \in Node, up[x]
               PROVE  /\ Self(x) \in DOMAIN list'[x]
                      /\ list'[x][Self(x)].beat = beats'[Self(x)]
                      /\ ~list'[x][Self(x)].failed
                      /\ list'[x][Self(x)].leaving => leave[x]
    BY DEF SelfPresent, Self, Callback
  <2>1. CASE x = n
    BY <1>2, <1>3, <1>4, <2>1 DEF me
  <2>2. CASE x # n
    <3>1. Self(x) \in Id /\ Self(x) # me
      BY <2>2, IdIsPair, GossipAssumption DEF Inv, TypeOK, Self, me
    <3> QED BY <1>3, <1>4, <2>2, <3>1 DEF Inv, SelfPresent
  <2> QED BY <2>1, <2>2
<1>13. NoBeatBeforeStart'
  BY <1>1, <1>4 DEF Inv, NoBeatBeforeStart, Callback, TypeOK, Self, me
<1>14. SuspicionDated'
  BY <1>2, <1>3, TimesAssumption DEF Inv, SuspicionDated
<1> QED BY <1>10, <1>11, <1>12, <1>13, <1>14 DEF Inv

\* A merge leaves the machine's own entry alone: no datagram is ahead of it.
LEMMA ReceiveInv ==
    ASSUME Inv, NEW n \in Node, Receive(n)
    PROVE  Inv'
<1>1. PICK d \in net : /\ d.to = n
                       /\ list' = [list EXCEPT ![n] = MergeList(@, d.list)]
                       /\ pending' = [pending EXCEPT ![n] = @ \cup Joining(list[n], d.list)]
                       /\ net' \in {net, net \ {d}}
  BY DEF Receive
<1> DEFINE l == list[n]
           r == d.list
           m == MergeList(l, r)
<1>2. /\ ListOK(l) /\ RemoteOK(r)
      /\ \A id \in DOMAIN l : l[id].beat <= beats[id]
      /\ \A id \in DOMAIN r : r[id].beat <= beats[id] /\ r[id].beat \in Nat
  BY DEF Inv, TypeOK, DatagramOK, RemoteOK, HeartbeatNeverAhead, Remote
<1>3. /\ DOMAIN list' = Node /\ list'[n] = m
      /\ \A x \in Node \ {n} : list'[x] = list[x]
  BY <1>1 DEF Inv, TypeOK
<1> HIDE DEF l, r, m
<1>4. /\ ListOK(m)
      /\ DOMAIN m = DOMAIN l \cup Joining(l, r)
      /\ \A id \in DOMAIN l :
            \/ m[id] = l[id]
            \/ /\ id \in DOMAIN r
               /\ r[id].beat > l[id].beat
               /\ m[id].beat = r[id].beat
               /\ m[id].age = 0
               /\ ~m[id].failed
      /\ \A id \in Joining(l, r) :
            id \in DOMAIN r /\ id \notin DOMAIN l /\ m[id] = NewEntry(r[id].beat)
  BY <1>2, MergeListOK DEF m
<1>5. \A id \in DOMAIN m : m[id].beat <= beats[id]
  BY <1>2, <1>4 DEF NewEntry
<1>6. TypeOK'
  <2>1. Joining(l, r) \subseteq Id
    BY <1>2, <1>4 DEF RemoteOK
  <2>2. pending' \in [Node -> SUBSET Id]
    BY <1>1, <2>1 DEF Inv, TypeOK, l, r
  <2>3. net' \subseteq net
    BY <1>1
  <2>4. \A x \in Node : ListOK(list'[x])
    BY <1>3, <1>4 DEF Inv, TypeOK
  <2> QED BY <1>3, <2>2, <2>3, <2>4 DEF Inv, TypeOK, Receive, DatagramOK
<1>7. HeartbeatNeverAhead'
  BY <1>1, <1>3, <1>5 DEF Inv, HeartbeatNeverAhead, Receive
<1>8. SelfPresent'
  <2> SUFFICES ASSUME NEW x \in Node, up[x]
               PROVE  /\ Self(x) \in DOMAIN list'[x]
                      /\ list'[x][Self(x)] = list[x][Self(x)]
    BY DEF Inv, SelfPresent, Self, Receive
  <2>1. Self(x) \in DOMAIN list[x] /\ list[x][Self(x)].beat = beats[Self(x)]
    BY DEF Inv, SelfPresent
  <2>2. CASE x = n
    <3>1. Self(n) \in DOMAIN r => ~(r[Self(n)].beat > l[Self(n)].beat)
      <4>1. Self(n) \in DOMAIN r => /\ r[Self(n)].beat <= l[Self(n)].beat
                                    /\ r[Self(n)].beat \in Nat
        BY <1>2, <2>1, <2>2 DEF l
      <4>2. l[Self(n)].beat \in Nat
        BY <1>2, <2>1, <2>2 DEF l, ListOK, Entry
      <4> QED BY <4>1, <4>2
    <3> QED BY <1>3, <1>4, <2>1, <2>2, <3>1 DEF l
  <2>3. CASE x # n
    BY <1>3, <2>1, <2>3
  <2> QED BY <2>2, <2>3
<1>9. NoBeatBeforeStart'
  BY DEF Inv, NoBeatBeforeStart, Receive
<1>10. SuspicionDated'
  BY <1>3, <1>4 DEF Inv, SuspicionDated, NewEntry, l
<1> QED BY <1>6, <1>7, <1>8, <1>9, <1>10 DEF Inv

\* What a second does to one entry.
LEMMA AgedOK ==
    ASSUME NEW e \in Entry
    PROVE  /\ Aged(e) \in Entry
           /\ Aged(e).beat = e.beat
           /\ Aged(e).failed = e.failed
           /\ Aged(e).leaving = e.leaving
           /\ Aged(e).age = Older(e.age)
           /\ e.failed => Aged(e).failAge = Older(e.failAge)
<1> DEFINE a == [e EXCEPT !.age = Older(@)]
           f == IF e.failed THEN Older(e.failAge) ELSE 0
<1>1. /\ a \in Entry
      /\ a.beat = e.beat /\ a.failed = e.failed /\ a.leaving = e.leaving
      /\ a.age = Older(e.age) /\ a.failAge = e.failAge
  BY OlderOK DEF Entry
<1>2. f \in 0..AgeCap
  BY OlderOK, AgeCapIsNat DEF Entry
<1>3. Aged(e) = [a EXCEPT !.failAge = f]
  BY DEF Aged
<1> HIDE DEF a
<1>4. /\ Aged(e) \in Entry /\ Aged(e).failAge = f
      /\ Aged(e).beat = a.beat /\ Aged(e).failed = a.failed
      /\ Aged(e).leaving = a.leaving /\ Aged(e).age = a.age
  BY <1>1, <1>2, <1>3 DEF Entry
<1> QED BY <1>1, <1>4

LEMMA TickInv ==
    ASSUME Inv, Tick
    PROVE  Inv'
<1>1. /\ DOMAIN list' = Node
      /\ \A n \in Node : DOMAIN list'[n] = DOMAIN list[n]
      /\ \A n \in Node : \A id \in DOMAIN list[n] : list'[n][id] = Aged(list[n][id])
      /\ UNCHANGED <<up, inc, leave, beats>>
  BY DEF Tick
<1>2. ASSUME NEW n \in Node, NEW id \in DOMAIN list[n]
      PROVE  /\ list[n][id] \in Entry
             /\ list'[n][id] \in Entry
             /\ list'[n][id].beat = list[n][id].beat
             /\ list'[n][id].failed = list[n][id].failed
             /\ list'[n][id].leaving = list[n][id].leaving
             /\ list'[n][id].age = Older(list[n][id].age)
             /\ list[n][id].failed => list'[n][id].failAge = Older(list[n][id].failAge)
  <2>1. list[n][id] \in Entry
    BY DEF Inv, TypeOK, ListOK
  <2> QED BY <1>1, <2>1, AgedOK
<1>3. \A d \in net' : \E old \in net :
        d = [to |-> old.to, list |-> old.list, age |-> old.age + 1]
  <2>1. \A old \in net : [old EXCEPT !.age = @ + 1]
                           = [to |-> old.to, list |-> old.list, age |-> old.age + 1]
    BY DEF Inv, TypeOK, DatagramOK
  <2> QED BY <2>1 DEF Tick
<1>4. TypeOK'
  <2>1. \A d \in net' : DatagramOK(d)
    <3> SUFFICES ASSUME NEW old \in net
                 PROVE  DatagramOK([to |-> old.to, list |-> old.list, age |-> old.age + 1])
      BY <1>3
    <3>1. old.age < MaxDelay /\ DatagramOK(old)
      BY DEF Tick, Inv, TypeOK
    <3> QED BY <3>1, GossipAssumption DEF DatagramOK
  <2>2. \A n \in Node : ListOK(list'[n])
    BY <1>1, <1>2 DEF Inv, TypeOK, ListOK
  <2>3. slept' \in [Node -> Nat]
    BY DEF Inv, TypeOK, Tick
  <2>4. leaveAge' \in [Node -> 0..TTC+1]
    <3>1. leaveAge \in [Node -> 0..TTC+1]
      BY DEF Inv, TypeOK
    <3>2. leaveAge' = [n \in Node |-> IF leave[n] /\ leaveAge[n] <= TTC
                                  THEN leaveAge[n] + 1 ELSE leaveAge[n]]
      BY DEF Tick
    <3> QED BY <3>1, <3>2, TimesAssumption
  <2> QED BY <1>1, <2>1, <2>2, <2>3, <2>4 DEF Inv, TypeOK, Tick
<1>5. HeartbeatNeverAhead'
  <2>1. \A n \in Node : \A id \in DOMAIN list'[n] : list'[n][id].beat <= beats'[id]
    BY <1>1, <1>2 DEF Inv, HeartbeatNeverAhead
  <2>2. \A d \in net' : \A id \in DOMAIN d.list : d.list[id].beat <= beats'[id]
    BY <1>1, <1>3 DEF Inv, HeartbeatNeverAhead
  <2> QED BY <2>1, <2>2 DEF HeartbeatNeverAhead
<1>6. SelfPresent'
  <2> SUFFICES ASSUME NEW n \in Node, up[n]
               PROVE  /\ Self(n) \in DOMAIN list'[n]
                      /\ list'[n][Self(n)].beat = beats[Self(n)]
                      /\ ~list'[n][Self(n)].failed
                      /\ list'[n][Self(n)].leaving => leave[n]
    BY <1>1 DEF SelfPresent, Self
  <2> QED BY <1>1, <1>2 DEF Inv, SelfPresent
<1>7. NoBeatBeforeStart'
  BY <1>1 DEF Inv, NoBeatBeforeStart
<1>8. SuspicionDated'
  <2> SUFFICES ASSUME NEW n \in Node, NEW id \in DOMAIN list'[n], list'[n][id].failed
               PROVE  \/ list'[n][id].age >= list'[n][id].failAge + TTF + 1
                      \/ list'[n][id].age = AgeCap
    BY DEF SuspicionDated
  <2> DEFINE a == list[n][id].age
             f == list[n][id].failAge
  <2>1. /\ a \in 0..AgeCap /\ f \in 0..AgeCap
        /\ a >= f + TTF + 1 \/ a = AgeCap
        /\ list'[n][id].age = Older(a) /\ list'[n][id].failAge = Older(f)
    BY <1>1, <1>2 DEF Inv, SuspicionDated, Entry
  <2> HIDE DEF a, f
  <2>2. /\ Older(a) = a + 1 \/ Older(a) = AgeCap
        /\ Older(f) \in 0..AgeCap /\ Older(f) <= f + 1
    BY <2>1, OlderOK
  <2>3. a = AgeCap => Older(a) = AgeCap
    BY AgeCapIsNat DEF Older
  <2> QED BY <2>1, <2>2, <2>3, TimesAssumption, AgeCapIsNat
<1> QED BY <1>4, <1>5, <1>6, <1>7, <1>8 DEF Inv

LEMMA NextInv == Inv /\ [Next]_vars => Inv'
<1> SUFFICES ASSUME Inv, [Next]_vars PROVE Inv'
  OBVIOUS
<1>1. ASSUME NEW n \in Node, Start(n) PROVE Inv'
  BY <1>1, StartInv
<1>2. ASSUME NEW n \in Node, Crash(n) PROVE Inv'
  BY <1>2, StopInv DEF Crash
<1>3. ASSUME NEW n \in Node, Sigterm(n) PROVE Inv'
  <2>1. TypeOK'
    BY <1>3, TimesAssumption DEF Inv, TypeOK, Sigterm, DatagramOK, ListOK
  <2>2. \A x \in Node : leave[x] => leave'[x]
    BY <1>3 DEF Inv, TypeOK, Sigterm
  <2> QED BY <1>3, <2>1, <2>2, QuietInv DEF Sigterm
<1>4. ASSUME NEW n \in Node, Callback(n) PROVE Inv'
  BY <1>4, CallbackInv
<1>5. ASSUME NEW n \in Node, Retire(n) PROVE Inv'
  BY <1>5, StopInv DEF Retire
<1>6. ASSUME NEW n \in Node, HandleJoin(n) PROVE Inv'
  <2>1. TypeOK'
    BY <1>6 DEF Inv, TypeOK, HandleJoin, DatagramOK, ListOK
  <2> QED BY <1>6, <2>1, QuietInv DEF HandleJoin
<1>7. ASSUME NEW n \in Node, Sleep(n) PROVE Inv'
  <2>1. TypeOK'
    BY <1>7 DEF Inv, TypeOK, Sleep, DatagramOK, ListOK
  <2> QED BY <1>7, <2>1, QuietInv DEF Sleep
<1>8. ASSUME NEW n \in Node, Receive(n) PROVE Inv'
  BY <1>8, ReceiveInv
<1>9. ASSUME Lose PROVE Inv'
  <2>1. net' \subseteq net
    BY <1>9 DEF Lose
  <2>2. TypeOK'
    BY <1>9, <2>1 DEF Inv, TypeOK, Lose, DatagramOK, ListOK
  <2> QED BY <1>9, <2>1, <2>2, QuietInv DEF Lose
<1>10. ASSUME Tick PROVE Inv'
  BY <1>10, TickInv
<1>11. ASSUME UNCHANGED vars PROVE Inv'
  <2>1. TypeOK'
    BY <1>11 DEF Inv, TypeOK, vars, DatagramOK, ListOK
  <2> QED BY <1>11, <2>1, QuietInv DEF vars
<1> QED BY <1>1, <1>2, <1>3, <1>4, <1>5, <1>6, <1>7, <1>8, <1>9, <1>10, <1>11
           DEF Next, TimerThread

THEOREM InvAlways == Spec => []Inv
BY InitInv, NextInv, PTL DEF Spec

\* Every variable of Gossip keeps its type.
THEOREM TypeCorrect == Spec => []TypeOK
BY InvAlways, PTL DEF Inv

\* No list and no datagram ever attributes to a member a heartbeat it has not had.
THEOREM NeverAhead == Spec => []HeartbeatNeverAhead
BY InvAlways, PTL DEF Inv

\* A running machine stays on its own list, with its own count and unsuspected.
THEOREM AlwaysSelfPresent == Spec => []SelfPresent
BY InvAlways, PTL DEF Inv

--------------------------------------------------------------------------------
(* Members are dropped only when due                                            *)

LEMMA StepRemovesOnlyWhenDue == Inv /\ [Next]_vars => [RemovedOnlyWhenDue]_vars
<1> SUFFICES ASSUME Inv, Next,
                    NEW n \in Node, up[n], up'[n],
                    NEW id \in DOMAIN list[n] \ DOMAIN list'[n]
             PROVE  \/ list[n][id].leaving /\ list[n][id].age > TTC
                    \/ list[n][id].failed /\ list[n][id].age > TTF + TTC
  BY DEF RemovedOnlyWhenDue
<1>1. Callback(n)
  <2>1. ASSUME NEW x \in Node, Start(x) PROVE FALSE
    BY <2>1 DEF Start, Inv, TypeOK
  <2>2. ASSUME NEW x \in Node, Stop(x) PROVE FALSE
    BY <2>2 DEF Stop, Inv, TypeOK
  <2>3. ASSUME NEW x \in Node, Callback(x), x # n PROVE FALSE
    BY <2>3 DEF Callback, Inv, TypeOK
  <2>4. ASSUME NEW x \in Node, Receive(x) PROVE FALSE
    BY <2>4 DEF Receive, Inv, TypeOK, MergeList
  <2>5. ASSUME Tick PROVE FALSE
    BY <2>5 DEF Tick
  <2>6. ASSUME UNCHANGED list PROVE FALSE
    BY <2>6
  <2> QED BY <2>1, <2>2, <2>3, <2>4, <2>5, <2>6
             DEF Next, TimerThread, Crash, Retire, Sigterm, HandleJoin, Sleep, Lose
<1>2. list'[n] = CallbackList(n)
  BY <1>1 DEF Callback, Inv, TypeOK
<1>3. ToDelete(list[n][id])
  BY <1>2, CallbackListOK
<1>4. /\ list[n][id] \in Entry
      /\ list[n][id].failed =>
            \/ list[n][id].age >= list[n][id].failAge + TTF + 1
            \/ list[n][id].age = AgeCap
  BY DEF Inv, TypeOK, ListOK, SuspicionDated
<1> QED BY <1>3, <1>4, AgeCapIsNat, TimesAssumption DEF ToDelete, Entry

\* No merge, suspicion or restart cuts short the time a silent member is given.
THEOREM AlwaysRemovedWhenDue == Spec => RemovedOnlyWhenDueSteps
<1>1. Inv /\ [Next]_vars => [RemovedOnlyWhenDue]_vars
  BY StepRemovesOnlyWhenDue
<1> QED BY <1>1, InvAlways, PTL DEF Spec, RemovedOnlyWhenDueSteps

--------------------------------------------------------------------------------
(* Join messages                                                                *)

\* A member a join message names joined after the last callback, so it is not
\* suspected yet, and what is known of it is no older than that.  Once the timer
\* thread drains the queue nothing is dropped until the queue is empty.
PendingFresh ==
    \A n \in Node :
        /\ up[n] => slept[n] <= Interval
        /\ ~up[n] => pending[n] = {} /\ slept[n] = 0
        /\ \A id \in pending[n] :
              /\ id \in DOMAIN list[n]
              /\ pc[n] = "sleep" => /\ ~list[n][id].failed
                                    /\ list[n][id].age <= slept[n]

LEMMA InitPendingFresh == Init => PendingFresh
BY GossipAssumption DEF Init, PendingFresh

LEMMA NextPendingFresh ==
    ASSUME Interval <= TTC, Inv, PendingFresh, [Next]_vars
    PROVE  PendingFresh'
<1> USE DEF PendingFresh
<1>1. ASSUME NEW n \in Node, Start(n) PROVE PendingFresh'
  BY <1>1, GossipAssumption DEF Start, Inv, TypeOK
<1>2. ASSUME NEW n \in Node, Stop(n) PROVE PendingFresh'
  BY <1>2 DEF Stop, Inv, TypeOK
<1>3. ASSUME NEW n \in Node, Sigterm(n) PROVE PendingFresh'
  BY <1>3 DEF Sigterm
<1>4. ASSUME NEW n \in Node, Callback(n) PROVE PendingFresh'
  <2>1. /\ list'[n] = CallbackList(n)
        /\ \A x \in Node \ {n} : list'[x] = list[x] /\ pc'[x] = pc[x] /\ slept'[x] = slept[x]
        /\ up[n] /\ pc[n] = "sleep" /\ pc'[n] = "drain" /\ slept'[n] = 0
        /\ UNCHANGED <<up, pending>>
    BY <1>4 DEF Callback, Inv, TypeOK
  <2>2. ASSUME NEW id \in pending[n] PROVE id \in DOMAIN list'[n]
    <3>1. /\ id \in DOMAIN list[n] /\ list[n][id] \in Entry
          /\ ~list[n][id].failed /\ list[n][id].age <= TTC
      <4>1. slept[n] \in Nat /\ slept[n] <= TTC /\ list[n][id] \in Entry
        BY <2>1, GossipAssumption, TimesAssumption DEF Inv, TypeOK, ListOK
      <4> QED BY <2>1, <4>1, AgeCapIsNat, TimesAssumption DEF Entry
    <3>2. ~ToDelete(list[n][id])
      BY <3>1, AgeCapIsNat, TimesAssumption DEF ToDelete, Entry
    <3> QED BY <2>1, <3>1, <3>2, CallbackListOK
  <2> QED BY <2>1, <2>2, GossipAssumption
<1>5. ASSUME NEW n \in Node, HandleJoin(n) PROVE PendingFresh'
  <2>1. /\ \A x \in Node : pending'[x] \subseteq pending[x]
        /\ UNCHANGED <<up, list, pc, slept>>
    BY <1>5 DEF HandleJoin, Inv, TypeOK
  <2> QED BY <2>1
<1>6. ASSUME NEW n \in Node, Sleep(n) PROVE PendingFresh'
  BY <1>6 DEF Sleep, Inv, TypeOK
<1>7. ASSUME NEW n \in Node, Receive(n) PROVE PendingFresh'
  <2>1. PICK d \in net : /\ list' = [list EXCEPT ![n] = MergeList(@, d.list)]
                         /\ pending' = [pending EXCEPT ![n] = @ \cup Joining(list[n], d.list)]
    BY <1>7 DEF Receive
  <2> DEFINE l == list[n]
             r == d.list
             m == MergeList(l, r)
  <2>2. ListOK(l) /\ RemoteOK(r)
    BY DEF Inv, TypeOK, DatagramOK, RemoteOK
  <2>3. /\ list'[n] = m
        /\ pending'[n] = pending[n] \cup Joining(l, r)
        /\ \A x \in Node \ {n} : list'[x] = list[x] /\ pending'[x] = pending[x]
        /\ up[n] /\ slept[n] \in Nat
        /\ UNCHANGED <<up, pc, slept>>
    BY <1>7, <2>1 DEF Inv, TypeOK, Receive
  <2> HIDE DEF l, r, m
  <2>4. /\ DOMAIN m = DOMAIN l \cup Joining(l, r)
        /\ \A id \in DOMAIN l : m[id] = l[id] \/ (m[id].age = 0 /\ ~m[id].failed)
        /\ \A id \in Joining(l, r) : m[id].age = 0 /\ ~m[id].failed
    <3>1. \A b : NewEntry(b).age = 0 /\ ~NewEntry(b).failed
      BY DEF NewEntry
    <3>2. /\ DOMAIN m = DOMAIN l \cup Joining(l, r)
          /\ \A id \in DOMAIN l :
                \/ m[id] = l[id]
                \/ /\ id \in DOMAIN r
                   /\ r[id].beat > l[id].beat
                   /\ m[id].beat = r[id].beat
                   /\ m[id].age = 0
                   /\ ~m[id].failed
          /\ \A id \in Joining(l, r) :
                id \in DOMAIN r /\ id \notin DOMAIN l /\ m[id] = NewEntry(r[id].beat)
      BY <2>2, MergeListOK DEF m
    <3> QED BY <3>1, <3>2
  <2>5. ASSUME NEW id \in pending'[n]
        PROVE  /\ id \in DOMAIN m
               /\ pc[n] = "sleep" => ~m[id].failed /\ m[id].age <= slept[n]
    <3>1. CASE id \in pending[n]
      BY <2>3, <2>4, <3>1 DEF l
    <3>2. CASE id \in Joining(l, r)
      BY <2>3, <2>4, <3>2
    <3> QED BY <2>3, <3>1, <3>2
  <2> QED BY <2>3, <2>5
<1>8. ASSUME Lose PROVE PendingFresh'
  BY <1>8 DEF Lose
<1>9. ASSUME Tick PROVE PendingFresh'
  <2>1. /\ UNCHANGED <<up, pending, pc>>
        /\ \A n \in Node : DOMAIN list'[n] = DOMAIN list[n]
        /\ \A n \in Node : \A id \in DOMAIN list[n] : list'[n][id] = Aged(list[n][id])
        /\ \A n \in Node : slept'[n] = IF up[n] THEN slept[n] + 1 ELSE 0
        /\ \A n \in Node : up[n] => slept[n] < Interval
    BY <1>9 DEF Tick
  <2>2. \A n \in Node : slept[n] \in Nat /\ (up[n] => slept'[n] <= Interval)
    BY <2>1, GossipAssumption DEF Inv, TypeOK
  <2>3. ASSUME NEW n \in Node, NEW id \in pending[n], pc[n] = "sleep"
        PROVE  ~list'[n][id].failed /\ list'[n][id].age <= slept'[n]
    <3>1. /\ up[n] /\ id \in DOMAIN list[n] /\ list[n][id] \in Entry
          /\ ~list[n][id].failed /\ list[n][id].age <= slept[n]
      BY <2>3 DEF Inv, TypeOK, ListOK
    <3>2. list[n][id].age \in 0..AgeCap
      BY <3>1 DEF Entry
    <3>3. ~Aged(list[n][id]).failed /\ Aged(list[n][id]).age = Older(list[n][id].age)
      BY <3>1, AgedOK
    <3>4. Older(list[n][id].age) <= slept[n] + 1
      BY <2>2, <3>1, <3>2, OlderOK, AgeCapIsNat
    <3> QED BY <2>1, <3>1, <3>3, <3>4
  <2> QED BY <2>1, <2>2, <2>3
<1>10. ASSUME UNCHANGED vars PROVE PendingFresh'
  BY <1>10 DEF vars
<1> QED BY <1>1, <1>2, <1>3, <1>4, <1>5, <1>6, <1>7, <1>8, <1>9, <1>10
           DEF Next, TimerThread, Crash, Retire

\* If no turn of the timer thread is over TTC seconds late, the handlers of join
\* messages find every member they look up.
THEOREM JoinsAlwaysResolvable ==
    ASSUME Interval <= TTC
    PROVE  Spec => []JoinsResolvable
<1>1. Inv /\ PendingFresh /\ [Next]_vars => PendingFresh'
  BY NextPendingFresh
<1>2. PendingFresh => JoinsResolvable
  BY DEF PendingFresh, JoinsResolvable
<1> QED BY <1>1, <1>2, InitPendingFresh, InvAlways, PTL DEF Spec

--------------------------------------------------------------------------------
(* Members that are gone are forgotten                                          *)

Survivor == Node \ {Dead}
Gone     == First(Dead)
Knowing  == {n \in Survivor : Gone \in DOMAIN list[n]}

\* A machine passes a member on for TTF seconds after it has heard of it, and the
\* last datagram takes MaxDelay.
Hop == TTF + MaxDelay

\* When the last of k machines may hear of it, if each hears from another one of them.
Reach(k) == (k - 1) * Hop
Latest   == Reach(Cardinality(Survivor))

\* There are so few survivors that all have heard of the dead member, if they are
\* to hear of it, before the first of them can have dropped it: TTF seconds and one
\* more until it is suspected, and TTC seconds and one more after that.
ForgetTimes ==
    /\ IsFiniteSet(Node) /\ Interval > 0
    /\ Cardinality(Survivor) * Hop <= TTF + TTC + 1
    /\ ForgetBound >= Latest + TTF + TTC + 2 * Interval

\* Such an entry is passed on.
Fresh(e)   == ~e.failed /\ e.age <= TTF
Carries(d) == Gone \in DOMAIN d.list /\ ~d.list[Gone].failed

\* Everybody but the dead machine runs on, and knows of one heartbeat of it at most.
OneBeat ==
    /\ up = [n \in Node |-> n # Dead]
    /\ \A n \in Node : ~leave[n] /\ slept[n] <= Interval
    /\ DOMAIN list[Dead] = {}
    /\ \A n \in Knowing : list[n][Gone].beat = 1 /\ ~list[n][Gone].leaving
    /\ \A d \in net : Gone \in DOMAIN d.list => d.list[Gone].beat = 1 /\ ~d.list[Gone].leaving
    /\ since \in 0..(ForgetBound + 1)

\* Until the first may drop the member, the times at which k machines have heard of
\* it lie at most a hop apart.
EntryInTime(e, now, k) == Fresh(e) => now <= e.age + Reach(k)

HeardInTime ==
    since <= TTF + TTC + 1 =>
        /\ \A n \in Knowing : EntryInTime(list[n][Gone], since, Cardinality(Knowing))
        /\ \A d \in net : Carries(d) => since <= TTF + d.age + Reach(Cardinality(Knowing))

\* An entry of a machine that has slept for s seconds is suspected and dropped in
\* time, and not too early.
DropsInTime(e, s, now) ==
    /\ Fresh(e) => now <= e.age + Latest
    /\ ~e.failed => now <= Latest + TTF + s
    /\ e.failed => now <= Latest + TTF + Interval + TTC + s
    /\ e.failed /\ e.failAge <= TTC => now <= Latest + TTF + Interval + e.failAge
    /\ now <= ForgetBound => e.age <= now /\ (e.failed => e.failAge + TTF + 1 <= now)

ForgottenInTime ==
    /\ \A n \in Knowing : DropsInTime(list[n][Gone], slept[n], since)
    /\ \A d \in net : Carries(d) => since <= TTF + d.age + Latest

ForgetInv == OneBeat /\ HeardInTime /\ ForgottenInTime

\* Every further machine adds one hop.
LEMMA ReachGrows ==
    ASSUME IsFiniteSet(Node)
    PROVE  /\ Hop \in Nat /\ Cardinality(Survivor) \in Nat \ {0} /\ Latest \in Nat
           /\ \A k \in Nat : Reach(k) \in Int /\ Reach(k + 1) = Reach(k) + Hop
           /\ \A k \in Nat : k <= Cardinality(Survivor) => Reach(k) <= Latest
           /\ Latest + Hop = Cardinality(Survivor) * Hop
<1>1. Hop \in Nat
  BY TimesAssumption, GossipAssumption DEF Hop
<1>2. IsFiniteSet(Survivor)
  BY FS_Subset DEF Survivor
<1>3. Cardinality(Survivor) \in Nat /\ Survivor # {}
  BY <1>2, FS_CardinalityType, ForgetAssumption, GossipAssumption DEF Survivor
<1>4. Cardinality(Survivor) # 0
  BY <1>2, <1>3, FS_EmptySet
<1> HIDE DEF Hop, Survivor
<1>5. ASSUME NEW h \in Nat, NEW k \in Nat
      PROVE  (k - 1) * h \in Int /\ ((k + 1) - 1) * h = (k - 1) * h + h /\ (k - 1) * h + h = k * h
  BY <1>5
<1>6. ASSUME NEW h \in Nat, NEW k \in Nat, NEW j \in Nat, k <= j
      PROVE  (k - 1) * h <= (j - 1) * h
  <2>1. (j - k) * h >= 0 /\ (j - 1) * h = (k - 1) * h + (j - k) * h
    BY <1>6
  <2>2. (k - 1) * h \in Int /\ (j - k) * h \in Int
    BY <1>6
  <2> QED BY <2>1, <2>2
<1>7. Latest \in Nat
  <2>1. 1 <= Cardinality(Survivor)
    BY <1>3, <1>4
  <2>2. (1 - 1) * Hop <= (Cardinality(Survivor) - 1) * Hop
    BY <1>1, <1>3, <1>6, <2>1
  <2> QED BY <1>1, <1>3, <1>5, <2>2 DEF Latest, Reach
<1>8. \A k \in Nat : Reach(k) \in Int /\ Reach(k + 1) = Reach(k) + Hop
  BY <1>1, <1>5 DEF Reach
<1>9. \A k \in Nat : k <= Cardinality(Survivor) => Reach(k) <= Latest
  BY <1>1, <1>3, <1>6 DEF Reach, Latest
<1>10. Latest + Hop = Cardinality(Survivor) * Hop
  BY <1>1, <1>3, <1>5 DEF Latest, Reach
<1> QED BY <1>1, <1>3, <1>4, <1>7, <1>8, <1>9, <1>10

LEMMA KnowingIsFinite ==
    ASSUME IsFiniteSet(Node)
    PROVE  /\ IsFiniteSet(Knowing) /\ Cardinality(Knowing) \in Nat
           /\ Cardinality(Knowing) <= Cardinality(Survivor)
           /\ \A n \in Survivor \ Knowing : Cardinality(Knowing) + 1 <= Cardinality(Survivor)
<1>1. IsFiniteSet(Survivor)
  BY FS_Subset DEF Survivor
<1>2. Knowing \subseteq Survivor
  BY DEF Knowing
<1>3. /\ IsFiniteSet(Knowing) /\ Cardinality(Knowing) \in Nat
      /\ Cardinality(Survivor) \in Nat
      /\ Cardinality(Knowing) <= Cardinality(Survivor)
  BY <1>1, <1>2, FS_Subset, FS_CardinalityType
<1>4. ASSUME NEW n \in Survivor \ Knowing
      PROVE  Cardinality(Knowing) + 1 <= Cardinality(Survivor)
  <2>1. Cardinality(Knowing \cup {n}) = Cardinality(Knowing) + 1
    BY <1>3, <1>4, FS_AddElement
  <2>2. Knowing \cup {n} \subseteq Survivor
    BY <1>2, <1>4
  <2>3. Cardinality(Knowing \cup {n}) <= Cardinality(Survivor)
    BY <1>1, <2>2, FS_Subset
  <2> QED BY <2>1, <2>3
<1> QED BY <1>3, <1>4


Time == 0..(ForgetBound + 1)

\* A second later an entry is in time still.
LEMMA TickInTime ==
    ASSUME ForgetTimes, NEW e \in Entry, NEW s \in Nat, NEW now \in Time,
           DropsInTime(e, s, now), NEW later \in Time,
           later = IF now <= ForgetBound THEN now + 1 ELSE now
    PROVE  /\ DropsInTime(Aged(e), s + 1, later)
           /\ \A k \in Nat : EntryInTime(e, now, k) => EntryInTime(Aged(e), later, k)
<1> DEFINE a == Aged(e)
<1>1. /\ e.age \in 0..AgeCap /\ e.failAge \in 0..AgeCap /\ e.failed \in BOOLEAN
      /\ a.failed = e.failed
      /\ a.age \in 0..AgeCap /\ a.age <= e.age + 1 /\ (a.age = e.age + 1 \/ a.age = AgeCap)
      /\ e.failed => /\ a.failAge \in 0..AgeCap /\ a.failAge <= e.failAge + 1
                     /\ a.failAge = e.failAge + 1 \/ a.failAge = AgeCap
  BY AgedOK, OlderOK DEF Entry
<1>2. /\ now \in Nat /\ later \in Nat /\ later <= now + 1
      /\ TTF \in Nat /\ TTC \in Nat /\ Interval \in Nat
      /\ AgeCap \in Nat /\ AgeCap > TTF + TTC
      /\ Latest \in Nat /\ \A k \in Nat : Reach(k) \in Int
  BY ForgetAssumption, TimesAssumption, GossipAssumption, AgeCapIsNat, ReachGrows
     DEF Time, ForgetTimes
<1> HIDE DEF a
<1>3. Fresh(a) => Fresh(e) /\ a.age = e.age + 1
  BY <1>1, <1>2 DEF Fresh
<1>4. a.failed /\ a.failAge <= TTC => e.failed /\ e.failAge <= TTC /\ a.failAge = e.failAge + 1
  BY <1>1, <1>2
<1>5. DropsInTime(a, s + 1, later)
  <2>1. Fresh(a) => later <= a.age + Latest
    BY <1>1, <1>2, <1>3 DEF DropsInTime
  <2>2. ~a.failed => later <= Latest + TTF + (s + 1)
    BY <1>1, <1>2 DEF DropsInTime
  <2>3. a.failed => later <= Latest + TTF + Interval + TTC + (s + 1)
    BY <1>1, <1>2 DEF DropsInTime
  <2>4. a.failed /\ a.failAge <= TTC => later <= Latest + TTF + Interval + a.failAge
    BY <1>1, <1>2, <1>4 DEF DropsInTime
  <2>5. later <= ForgetBound => a.age <= later /\ (a.failed => a.failAge + TTF + 1 <= later)
    <3>1. later <= ForgetBound => now <= ForgetBound /\ later = now + 1
      BY <1>2, ForgetAssumption
    <3> QED BY <1>1, <1>2, <3>1 DEF DropsInTime
  <2> QED BY <2>1, <2>2, <2>3, <2>4, <2>5 DEF DropsInTime
<1>6. ASSUME NEW k \in Nat, EntryInTime(e, now, k) PROVE EntryInTime(a, later, k)
  BY <1>1, <1>2, <1>3, <1>6 DEF EntryInTime
<1> QED BY <1>5, <1>6 DEF a

\* A turn of the timer thread leaves an entry in time that it does not drop.  It
\* passes on only what is fresh.
LEMMA TurnInTime ==
    ASSUME ForgetTimes, NEW e \in Entry, NEW s \in Nat, s <= Interval, NEW now \in Time,
           DropsInTime(e, s, now), ~ToDelete(e), ~e.leaving
    PROVE  /\ DropsInTime(ProcessEntry(e), 0, now)
           /\ \A k \in Nat : EntryInTime(e, now, k) => EntryInTime(ProcessEntry(e), now, k)
           /\ ~ProcessEntry(e).failed => Fresh(e)
<1> DEFINE p == ProcessEntry(e)
<1>1. /\ e.age \in 0..AgeCap /\ e.failAge \in 0..AgeCap /\ e.failed \in BOOLEAN
      /\ now \in Nat /\ TTF \in Nat /\ TTC \in Nat /\ Interval \in Nat /\ AgeCap \in Nat
      /\ Latest \in Nat /\ \A k \in Nat : Reach(k) \in Int
  BY ForgetAssumption, TimesAssumption, GossipAssumption, AgeCapIsNat, ReachGrows
     DEF Entry, Time, ForgetTimes
<1>2. CASE ToSuspect(e)
  <2>1. p.failed /\ p.failAge = 0 /\ p.age = e.age
    BY <1>2 DEF ProcessEntry, Entry
  <2>2. ~e.failed /\ e.age > TTF
    BY <1>2 DEF ToSuspect
  <2> HIDE DEF p
  <2> QED BY <1>1, <2>1, <2>2 DEF DropsInTime, EntryInTime, Fresh, p
<1>3. CASE ~ToSuspect(e)
  <2>1. p = e
    BY <1>3 DEF ProcessEntry
  <2>2. ~e.failed => e.age <= TTF
    BY <1>1, <1>3 DEF ToSuspect
  <2>3. e.failed => e.failAge <= TTC
    BY <1>1 DEF ToDelete
  <2> HIDE DEF p
  <2> QED BY <1>1, <2>1, <2>2, <2>3 DEF DropsInTime, EntryInTime, Fresh, p
<1> QED BY <1>2, <1>3

\* What is due is not dropped before everybody has heard of the member.
LEMMA DroppedLate ==
    ASSUME ForgetTimes, NEW e \in Entry, NEW s \in Nat, NEW now \in Time,
           DropsInTime(e, s, now), ToDelete(e), ~e.leaving
    PROVE  now > TTF + TTC + 1
<1>1. e.failed /\ e.failAge > TTC /\ e.failAge \in Nat /\ now \in Nat
      /\ TTF \in Nat /\ TTC \in Nat /\ Interval \in Nat /\ ForgetBound \in Nat
  BY ForgetAssumption, TimesAssumption, GossipAssumption, AgeCapIsNat
     DEF ToDelete, Entry, Time
<1>2. Latest \in Nat /\ ForgetBound >= Latest + TTF + TTC + 2 * Interval /\ Interval > 0
  BY ReachGrows DEF ForgetTimes
<1> QED BY <1>1, <1>2 DEF DropsInTime

\* Somebody who hears of the member hears of it in time.
LEMMA HeardLemma ==
    ASSUME ForgetTimes, TypeOK, OneBeat, HeardInTime, ForgottenInTime,
           NEW d \in net, Carries(d), NEW n \in Survivor \ Knowing, NEW s \in Nat
    PROVE  /\ since <= Reach(Cardinality(Knowing) + 1) /\ since <= Latest
           /\ DropsInTime(NewEntry(1), s, since)
           /\ EntryInTime(NewEntry(1), since, Cardinality(Knowing) + 1)
<1>1. /\ Cardinality(Knowing) \in Nat /\ Cardinality(Knowing) + 1 <= Cardinality(Survivor)
      /\ Cardinality(Survivor) \in Nat
      /\ Hop \in Nat /\ Latest \in Nat /\ Latest + Hop <= TTF + TTC + 1
      /\ Reach(Cardinality(Knowing) + 1) = Reach(Cardinality(Knowing)) + Hop
      /\ Reach(Cardinality(Knowing)) \in Int
      /\ Reach(Cardinality(Knowing) + 1) <= Latest
  BY KnowingIsFinite, ReachGrows DEF ForgetTimes
<1>2. /\ d.age \in 0..MaxDelay /\ since \in Nat /\ TTF \in Nat /\ TTC \in Nat
      /\ MaxDelay \in Nat /\ Interval \in Nat /\ ForgetBound \in Nat
  BY ForgetAssumption, TimesAssumption, GossipAssumption DEF TypeOK, DatagramOK, OneBeat
<1>3. since <= TTF + d.age + Latest
  BY DEF ForgottenInTime
<1>4. since <= TTF + TTC + 1
  BY <1>1, <1>2, <1>3 DEF Hop
<1>5. since <= TTF + d.age + Reach(Cardinality(Knowing))
  BY <1>4 DEF HeardInTime
<1>6. since <= Reach(Cardinality(Knowing) + 1) /\ since <= Latest
  <2>1. TTF + d.age <= Hop
    BY <1>2 DEF Hop
  <2> QED BY <1>1, <1>2, <1>5, <2>1
<1>7. NewEntry(1).age = 0 /\ ~NewEntry(1).failed
  BY DEF NewEntry
<1> QED BY <1>1, <1>2, <1>6, <1>7 DEF DropsInTime, EntryInTime, Fresh

\* The clock only watches: every step is one of Gossip.
LEMMA ForgetStep == [NextForget]_forgetVars => [Next]_vars
BY DEF NextForget, forgetVars, Next

LEMMA GoneIsId == Gone \in Id /\ \A n \in Node : First(n) \in Id
BY IdIsPair, ForgetAssumption, GossipAssumption DEF Gone, First

\* Nobody's own entry is the one of the dead machine.
LEMMA GoneIsNobody == \A n \in Survivor : Self(n) # Gone
BY DEF Survivor, Self, Gone, First

LEMMA InitForgetInv == InitForget => Inv
<1> SUFFICES ASSUME InitForget PROVE Inv
  OBVIOUS
<1>1. PICK knowing \in SUBSET (Node \ {Dead}) :
        list = [n \in Node |->
                  [id \in {First(x) : x \in IF n = Dead THEN {}
                                            ELSE IF n \in knowing THEN Node
                                            ELSE Node \ {Dead}} |-> NewEntry(1)]]
  BY DEF InitForget
<1>2. /\ DOMAIN list = Node
      /\ \A n \in Node : \A id \in DOMAIN list[n] :
            list[n][id] = NewEntry(1) /\ \E x \in Node : id = First(x)
      /\ \A n \in Node \ {Dead} : First(n) \in DOMAIN list[n]
  BY <1>1
<1>3. \A n \in Node : \A id \in DOMAIN list[n] :
        id \in Id /\ id[2] = 1 /\ list[n][id] = NewEntry(1)
  BY <1>2, GoneIsId DEF First
<1>4. /\ NewEntry(1) \in Entry /\ NewEntry(1).beat = 1
      /\ ~NewEntry(1).failed /\ ~NewEntry(1).leaving
  BY NewEntryOK DEF NewEntry
<1>5. \A n \in Node : inc[n] = 1 /\ 1 <= MaxInc[n]
  BY ForgetAssumption, GossipAssumption DEF InitForget
<1>6. TypeOK
  <2>1. \A n \in Node : ListOK(list[n])
    BY <1>3, <1>4 DEF ListOK
  <2>2. leaveAge \in [Node -> 0..TTC+1]
    BY TimesAssumption DEF InitForget
  <2> QED BY <1>2, <1>5, <2>1, <2>2 DEF InitForget, TypeOK
<1>7. HeartbeatNeverAhead
  <2>1. \A id \in Id : id[2] = 1 => beats[id] = 1
    BY DEF InitForget
  <2>2. net = {}
    BY DEF InitForget
  <2> QED BY <1>3, <1>4, <2>1, <2>2 DEF HeartbeatNeverAhead
<1>8. SelfPresent
  <2>1. \A n \in Node : up[n] => n # Dead /\ Self(n) = First(n)
    BY DEF InitForget, Self, First
  <2>2. \A n \in Node : beats[First(n)] = 1
    BY GoneIsId DEF InitForget, First
  <2> QED BY <1>2, <1>4, <2>1, <2>2 DEF SelfPresent
<1>9. NoBeatBeforeStart
  BY IdIsPair DEF InitForget, NoBeatBeforeStart
<1>10. SuspicionDated
  BY <1>3, <1>4 DEF SuspicionDated
<1> QED BY <1>6, <1>7, <1>8, <1>9, <1>10 DEF Inv

LEMMA InitInTime == ForgetTimes /\ InitForget => ForgetInv
<1> SUFFICES ASSUME ForgetTimes, InitForget PROVE ForgetInv
  OBVIOUS
<1>1. PICK knowing \in SUBSET (Node \ {Dead}) :
        list = [n \in Node |->
                  [id \in {First(x) : x \in IF n = Dead THEN {}
                                            ELSE IF n \in knowing THEN Node
                                            ELSE Node \ {Dead}} |-> NewEntry(1)]]
  BY DEF InitForget
<1>2. /\ \A n \in Knowing : n \in Node /\ list[n][Gone] = NewEntry(1)
      /\ DOMAIN list[Dead] = {}
  BY <1>1, ForgetAssumption DEF Knowing, Survivor, Gone
<1>3. /\ NewEntry(1).beat = 1 /\ NewEntry(1).age = 0
      /\ ~NewEntry(1).failed /\ ~NewEntry(1).leaving
  BY DEF NewEntry
<1>4. /\ TTF \in Nat /\ TTC \in Nat /\ Interval \in Nat /\ ForgetBound \in Nat
      /\ net = {} /\ since = 0
      /\ Latest \in Nat
  BY ForgetAssumption, TimesAssumption, GossipAssumption, ReachGrows
     DEF InitForget, ForgetTimes
<1>5. OneBeat
  <2>1. /\ up = [n \in Node |-> n # Dead]
        /\ \A n \in Node : ~leave[n] /\ slept[n] = 0
    BY DEF InitForget
  <2> QED BY <1>2, <1>3, <1>4, <2>1 DEF OneBeat
<1>6. HeardInTime
  <2> SUFFICES ASSUME NEW n \in Knowing
               PROVE  EntryInTime(list[n][Gone], since, Cardinality(Knowing))
    BY <1>4 DEF HeardInTime
  <2>1. /\ IsFiniteSet(Knowing) /\ Cardinality(Knowing) \in Nat
        /\ Hop \in Nat
    BY KnowingIsFinite, ReachGrows DEF ForgetTimes
  <2>2. Cardinality(Knowing) - 1 \in Nat
    BY <2>1, FS_EmptySet
  <2>3. \A k, h \in Nat : k * h \in Nat
    OBVIOUS
  <2>4. Reach(Cardinality(Knowing)) \in Nat
    BY <2>1, <2>2, <2>3 DEF Reach
  <2> QED BY <1>2, <1>3, <1>4, <2>4 DEF EntryInTime
<1>7. ForgottenInTime
  <2>1. \A n \in Knowing : slept[n] = 0
    BY <1>2 DEF InitForget
  <2> QED BY <1>2, <1>3, <1>4, <2>1 DEF ForgottenInTime, DropsInTime, Fresh
<1> QED BY <1>5, <1>6, <1>7 DEF ForgetInv


\* The actions which touch neither a list nor the time.
LEMMA QuietForget ==
    ASSUME ForgetInv, UNCHANGED <<up, leave, list, slept, since>>, net' \subseteq net
    PROVE  ForgetInv'
<1>1. Knowing' = Knowing
  BY DEF Knowing
<1>2. OneBeat'
  BY <1>1 DEF ForgetInv, OneBeat
<1>3. HeardInTime'
  BY <1>1 DEF ForgetInv, HeardInTime
<1>4. ForgottenInTime'
  BY <1>1 DEF ForgetInv, ForgottenInTime
<1> QED BY <1>2, <1>3, <1>4 DEF ForgetInv

LEMMA TickForget ==
    ASSUME ForgetTimes, Inv, ForgetInv, Tick,
           since' = IF since <= ForgetBound THEN since + 1 ELSE since
    PROVE  ForgetInv'
<1>1. /\ \A n \in Node : DOMAIN list'[n] = DOMAIN list[n]
      /\ \A n \in Node : \A id \in DOMAIN list[n] : list'[n][id] = Aged(list[n][id])
      /\ UNCHANGED <<up, leave>>
      /\ \A n \in Node : slept'[n] = IF up[n] THEN slept[n] + 1 ELSE 0
      /\ \A n \in Node : up[n] => slept[n] < Interval
  BY DEF Tick
<1>2. /\ since \in Time /\ since' \in Time /\ since' <= since + 1 /\ since <= since'
      /\ since \in Nat /\ since' \in Nat
      /\ TTF \in Nat /\ TTC \in Nat /\ Interval \in Nat /\ ForgetBound \in Nat
      /\ Latest \in Nat /\ Cardinality(Knowing) \in Nat /\ Reach(Cardinality(Knowing)) \in Int
  BY ForgetAssumption, TimesAssumption, GossipAssumption, ReachGrows, KnowingIsFinite
     DEF ForgetInv, OneBeat, Time, ForgetTimes
<1>3. Knowing' = Knowing
  BY <1>1 DEF Knowing, Survivor
<1>4. \A n \in Knowing : n \in Node /\ n # Dead /\ up[n] /\ Gone \in DOMAIN list[n]
  BY DEF Knowing, Survivor, ForgetInv, OneBeat
<1>5. ASSUME NEW n \in Knowing
      PROVE  /\ list[n][Gone] \in Entry /\ list'[n][Gone] = Aged(list[n][Gone])
             /\ slept[n] \in Nat /\ slept'[n] = slept[n] + 1
             /\ list[n][Gone].beat = 1 /\ ~list[n][Gone].leaving
             /\ DropsInTime(list[n][Gone], slept[n], since)
  <2>1. ListOK(list[n]) /\ slept[n] \in Nat
    BY <1>4 DEF Inv, TypeOK
  <2>2. /\ list[n][Gone].beat = 1 /\ ~list[n][Gone].leaving
        /\ DropsInTime(list[n][Gone], slept[n], since)
    BY DEF ForgetInv, OneBeat, ForgottenInTime
  <2> QED BY <1>1, <1>4, <2>1, <2>2 DEF ListOK
<1>6. ASSUME NEW n \in Knowing
      PROVE  /\ DropsInTime(list'[n][Gone], slept'[n], since')
             /\ \A k \in Nat : EntryInTime(list[n][Gone], since, k)
                                  => EntryInTime(list'[n][Gone], since', k)
             /\ list'[n][Gone].beat = 1 /\ ~list'[n][Gone].leaving
  BY <1>2, <1>5, TickInTime, AgedOK
<1>7. \A d \in net' : \E old \in net :
        d.list = old.list /\ d.age = old.age + 1 /\ old.age \in Nat
  <2>1. \A old \in net : /\ [old EXCEPT !.age = @ + 1].list = old.list
                         /\ [old EXCEPT !.age = @ + 1].age = old.age + 1
                         /\ old.age \in Nat
    BY GossipAssumption DEF Inv, TypeOK, DatagramOK
  <2> QED BY <2>1 DEF Tick
<1>8. OneBeat'
  <2>1. \A n \in Node : slept'[n] <= Interval
    BY <1>1, <1>2 DEF Inv, TypeOK
  <2>2. DOMAIN list'[Dead] = {}
    BY <1>1, ForgetAssumption DEF ForgetInv, OneBeat
  <2>3. \A d \in net' : Gone \in DOMAIN d.list => d.list[Gone].beat = 1 /\ ~d.list[Gone].leaving
    BY <1>7 DEF ForgetInv, OneBeat
  <2> QED BY <1>1, <1>2, <1>3, <1>6, <2>1, <2>2, <2>3 DEF ForgetInv, OneBeat, Time
<1>9. HeardInTime'
  <2> SUFFICES ASSUME since' <= TTF + TTC + 1
               PROVE  /\ \A n \in Knowing :
                            EntryInTime(list'[n][Gone], since', Cardinality(Knowing))
                      /\ \A d \in net' :
                            Carries(d) => since' <= TTF + d.age + Reach(Cardinality(Knowing))
    BY <1>3 DEF HeardInTime
  <2>1. since <= TTF + TTC + 1
    BY <1>2
  <2>2. \A n \in Knowing : EntryInTime(list'[n][Gone], since', Cardinality(Knowing))
    BY <1>2, <1>6, <2>1 DEF ForgetInv, HeardInTime
  <2>3. ASSUME NEW d \in net', Carries(d)
        PROVE  since' <= TTF + d.age + Reach(Cardinality(Knowing))
    <3>1. PICK old \in net : d.list = old.list /\ d.age = old.age + 1 /\ old.age \in Nat
      BY <1>7
    <3>2. since <= TTF + old.age + Reach(Cardinality(Knowing))
      BY <2>1, <2>3, <3>1 DEF ForgetInv, HeardInTime, Carries
    <3> QED BY <1>2, <3>1, <3>2
  <2> QED BY <2>2, <2>3
<1>10. ForgottenInTime'
  <2>1. ASSUME NEW d \in net', Carries(d) PROVE since' <= TTF + d.age + Latest
    <3>1. PICK old \in net : d.list = old.list /\ d.age = old.age + 1 /\ old.age \in Nat
      BY <1>7
    <3>2. since <= TTF + old.age + Latest
      BY <2>1, <3>1 DEF ForgetInv, ForgottenInTime, Carries
    <3> QED BY <1>2, <3>1, <3>2
  <2> QED BY <1>3, <1>6, <2>1 DEF ForgottenInTime
<1> QED BY <1>8, <1>9, <1>10 DEF ForgetInv

\* What a turn of its timer thread does to a machine's entry for the dead one.
LEMMA CallbackGone ==
    ASSUME Inv, NEW n \in Survivor, up[n], ~leave[n]
    PROVE  /\ Gone \in DOMAIN CallbackList(n)
                 <=> Gone \in DOMAIN list[n] /\ ~ToDelete(list[n][Gone])
           /\ Gone \in DOMAIN CallbackList(n)
                 => CallbackList(n)[Gone] = ProcessEntry(list[n][Gone])
<1> DEFINE i == IncrementHeartbeat(list[n], Self(n))
<1>1. CallbackList(n) = ProcessList(i)
  BY DEF CallbackList
<1>2. DOMAIN i = DOMAIN list[n] /\ (Gone \in DOMAIN list[n] => i[Gone] = list[n][Gone])
  <2>1. n \in Node /\ Self(n) # Gone
    BY GoneIsNobody DEF Survivor
  <2>2. ListOK(list[n]) /\ Self(n) \in DOMAIN list[n]
    BY <2>1 DEF Inv, TypeOK, SelfPresent
  <2> QED BY <2>1, <2>2, IncrementHeartbeatOK
<1> HIDE DEF i
<1> QED BY <1>1, <1>2 DEF ProcessList

LEMMA CallbackForget ==
    ASSUME ForgetTimes, Inv, ForgetInv, NEW n \in Node, Callback(n), UNCHANGED since
    PROVE  ForgetInv'
<1>1. /\ n \in Survivor /\ up[n] /\ ~leave[n]
      /\ slept[n] \in Nat /\ slept[n] <= Interval
      /\ list'[n] = CallbackList(n)
      /\ \A x \in Node \ {n} : list'[x] = list[x] /\ slept'[x] = slept[x]
      /\ slept'[n] = 0
      /\ UNCHANGED <<up, leave>>
  BY DEF Callback, Inv, TypeOK, ForgetInv, OneBeat, Survivor
<1>2. /\ Gone \in DOMAIN list'[n] <=> n \in Knowing /\ ~ToDelete(list[n][Gone])
      /\ Gone \in DOMAIN list'[n] => list'[n][Gone] = ProcessEntry(list[n][Gone])
  BY <1>1, CallbackGone DEF Knowing
<1>3. /\ since \in Time /\ since \in Nat
      /\ TTF \in Nat /\ TTC \in Nat /\ Interval \in Nat
      /\ Latest \in Nat /\ Cardinality(Knowing) \in Nat /\ Reach(Cardinality(Knowing)) \in Int
  BY ForgetAssumption, TimesAssumption, GossipAssumption, ReachGrows, KnowingIsFinite
     DEF ForgetInv, OneBeat, Time, ForgetTimes
<1>4. n \in Knowing => /\ list[n][Gone] \in Entry
                       /\ list[n][Gone].beat = 1 /\ ~list[n][Gone].leaving
                       /\ DropsInTime(list[n][Gone], slept[n], since)
  BY DEF Knowing, Inv, TypeOK, ListOK, ForgetInv, OneBeat, ForgottenInTime
<1>5. n \in Knowing' =>
        /\ n \in Knowing
        /\ list'[n][Gone] = ProcessEntry(list[n][Gone])
        /\ list'[n][Gone].beat = 1 /\ ~list'[n][Gone].leaving
        /\ DropsInTime(list'[n][Gone], slept'[n], since)
        /\ \A k \in Nat : EntryInTime(list[n][Gone], since, k)
                             => EntryInTime(list'[n][Gone], since, k)
        /\ ~list'[n][Gone].failed => Fresh(list[n][Gone])
  <2>1. n \in Knowing' => /\ n \in Knowing /\ ~ToDelete(list[n][Gone])
                          /\ list'[n][Gone] = ProcessEntry(list[n][Gone])
    BY <1>2 DEF Knowing
  <2> QED BY <1>1, <1>3, <1>4, <2>1, TurnInTime, ProcessEntryOK
<1>6. /\ Knowing' \ {n} = Knowing \ {n}
      /\ Knowing' \subseteq Knowing
      /\ since <= TTF + TTC + 1 => Knowing' = Knowing
  <2>1. Knowing' \ {n} = Knowing \ {n}
    BY <1>1 DEF Knowing, Survivor
  <2>2. n \in Knowing' => n \in Knowing
    BY <1>5
  <2>3. since <= TTF + TTC + 1 /\ n \in Knowing => n \in Knowing'
    <3>1. SUFFICES ASSUME since <= TTF + TTC + 1, n \in Knowing PROVE ~ToDelete(list[n][Gone])
      BY <1>1, <1>2 DEF Knowing
    <3> QED BY <1>1, <1>3, <1>4, <3>1, DroppedLate
  <2> QED BY <2>1, <2>2, <2>3
<1>7. \A x \in Knowing' \ {n} : x \in Knowing /\ list'[x] = list[x] /\ slept'[x] = slept[x]
  BY <1>1, <1>6 DEF Knowing, Survivor
<1>8. \A d \in net' : d \in net \/ (d.list = AsRemote(list'[n]) /\ d.age = 0)
  BY DEF Callback
<1>9. /\ DOMAIN AsRemote(list'[n]) = DOMAIN list'[n]
      /\ \A id \in DOMAIN list'[n] :
            /\ AsRemote(list'[n])[id].beat = list'[n][id].beat
            /\ AsRemote(list'[n])[id].failed = list'[n][id].failed
            /\ AsRemote(list'[n])[id].leaving = list'[n][id].leaving
  BY DEF AsRemote
<1>10. ASSUME NEW d \in net', d \notin net, Gone \in DOMAIN d.list
       PROVE  /\ n \in Knowing' /\ n \in Knowing /\ d.age = 0
              /\ d.list[Gone].beat = 1 /\ ~d.list[Gone].leaving
              /\ Carries(d) => Fresh(list[n][Gone])
  <2>1. d.list = AsRemote(list'[n]) /\ d.age = 0
    BY <1>8, <1>10
  <2>2. Gone \in DOMAIN list'[n]
    BY <1>9, <1>10, <2>1
  <2>3. n \in Knowing'
    BY <1>1, <2>2 DEF Knowing
  <2> QED BY <1>5, <1>9, <2>1, <2>2, <2>3 DEF Carries
<1>11. OneBeat'
  <2>1. \A x \in Knowing' : list'[x][Gone].beat = 1 /\ ~list'[x][Gone].leaving
    BY <1>5, <1>7 DEF ForgetInv, OneBeat
  <2>2. \A d \in net' : Gone \in DOMAIN d.list => d.list[Gone].beat = 1 /\ ~d.list[Gone].leaving
    BY <1>10 DEF ForgetInv, OneBeat
  <2>3. \A x \in Node : ~leave'[x] /\ slept'[x] <= Interval
    BY <1>1, <1>3 DEF ForgetInv, OneBeat
  <2>4. DOMAIN list'[Dead] = {}
    BY <1>1, ForgetAssumption DEF ForgetInv, OneBeat, Survivor
  <2> QED BY <1>1, <2>1, <2>2, <2>3, <2>4 DEF ForgetInv, OneBeat
<1>12. HeardInTime'
  <2> SUFFICES ASSUME since <= TTF + TTC + 1
               PROVE  /\ \A x \in Knowing :
                            EntryInTime(list'[x][Gone], since, Cardinality(Knowing))
                      /\ \A d \in net' :
                            Carries(d) => since <= TTF + d.age + Reach(Cardinality(Knowing))
    BY <1>6 DEF HeardInTime
  <2>1. Knowing' = Knowing
    BY <1>6
  <2>2. \A x \in Knowing : EntryInTime(list[x][Gone], since, Cardinality(Knowing))
    BY DEF ForgetInv, HeardInTime
  <2>3. \A x \in Knowing : EntryInTime(list'[x][Gone], since, Cardinality(Knowing))
    BY <1>3, <1>5, <1>7, <2>1, <2>2
  <2>4. ASSUME NEW d \in net', Carries(d)
        PROVE  since <= TTF + d.age + Reach(Cardinality(Knowing))
    <3>1. CASE d \in net
      BY <2>4, <3>1 DEF ForgetInv, HeardInTime
    <3>2. CASE d \notin net
      <4>1. n \in Knowing /\ d.age = 0 /\ Fresh(list[n][Gone])
        BY <1>10, <2>4, <3>2 DEF Carries
      <4>2. list[n][Gone].age \in Nat /\ list[n][Gone].age <= TTF
        BY <1>4, <4>1, AgeCapIsNat DEF Fresh, Entry
      <4> QED BY <1>3, <2>2, <4>1, <4>2 DEF EntryInTime
    <3> QED BY <3>1, <3>2
  <2> QED BY <2>3, <2>4
<1>13. ForgottenInTime'
  <2>1. \A x \in Knowing' : DropsInTime(list'[x][Gone], slept'[x], since)
    BY <1>5, <1>7 DEF ForgetInv, ForgottenInTime
  <2>2. ASSUME NEW d \in net', Carries(d) PROVE since <= TTF + d.age + Latest
    <3>1. CASE d \in net
      BY <2>2, <3>1 DEF ForgetInv, ForgottenInTime
    <3>2. CASE d \notin net
      <4>1. n \in Knowing /\ d.age = 0 /\ Fresh(list[n][Gone])
        BY <1>10, <2>2, <3>2 DEF Carries
      <4>2. list[n][Gone].age \in Nat /\ list[n][Gone].age <= TTF
        BY <1>4, <4>1, AgeCapIsNat DEF Fresh, Entry
      <4> QED BY <1>3, <1>4, <4>1, <4>2 DEF DropsInTime
    <3> QED BY <3>1, <3>2
  <2> QED BY <2>1, <2>2 DEF ForgottenInTime
<1> QED BY <1>11, <1>12, <1>13 DEF ForgetInv


\* Whoever knows of the dead member hears nothing new of it; whoever does not hears
\* of it from an entry that is still passed on.
LEMMA ReceiveForget ==
    ASSUME ForgetTimes, Inv, ForgetInv, NEW n \in Node, Receive(n), UNCHANGED since
    PROVE  ForgetInv'
<1>1. PICK d \in net : list' = [list EXCEPT ![n] = MergeList(@, d.list)] /\ net' \subseteq net
  BY DEF Receive
<1> DEFINE l == list[n]
           r == d.list
           m == MergeList(l, r)
<1>2. /\ n \in Survivor /\ ListOK(l) /\ RemoteOK(r)
      /\ list'[n] = m
      /\ \A x \in Node \ {n} : list'[x] = list[x]
      /\ UNCHANGED <<up, leave, slept>>
  BY <1>1 DEF Receive, Inv, TypeOK, DatagramOK, RemoteOK, ForgetInv, OneBeat, Survivor
<1>3. /\ DOMAIN m = DOMAIN l \cup Joining(l, r)
      /\ \A id \in DOMAIN l : m[id] = l[id] \/ (id \in DOMAIN r /\ r[id].beat > l[id].beat)
      /\ \A id \in Joining(l, r) :
            id \in DOMAIN r /\ id \notin DOMAIN l /\ m[id] = NewEntry(r[id].beat)
  BY <1>2, MergeListOK
<1>4. \A x \in Knowing : x \in Survivor /\ x \in Node /\ Gone \in DOMAIN list[x]
  BY DEF Knowing, Survivor
<1>5. n \in Knowing => Gone \in DOMAIN m /\ m[Gone] = l[Gone]
  <2> SUFFICES ASSUME n \in Knowing PROVE Gone \in DOMAIN m /\ m[Gone] = l[Gone]
    OBVIOUS
  <2>1. Gone \in DOMAIN l /\ l[Gone].beat = 1
    BY DEF Knowing, ForgetInv, OneBeat
  <2>2. Gone \in DOMAIN r => r[Gone].beat = 1
    BY DEF ForgetInv, OneBeat
  <2> HIDE DEF l, r, m
  <2> QED BY <1>3, <2>1, <2>2
<1>6. n \notin Knowing /\ Gone \in DOMAIN m => Carries(d) /\ m[Gone] = NewEntry(1)
  <2> SUFFICES ASSUME n \notin Knowing, Gone \in DOMAIN m
               PROVE  Carries(d) /\ m[Gone] = NewEntry(1)
    OBVIOUS
  <2>1. Gone \in Joining(l, r)
    BY <1>2, <1>3 DEF Knowing
  <2>2. Carries(d)
    BY <2>1 DEF Joining, Carries
  <2>3. r[Gone].beat = 1
    BY <2>2 DEF Carries, ForgetInv, OneBeat
  <2> QED BY <1>3, <2>1, <2>2, <2>3
<1> HIDE DEF l, r, m
<1>7. \A x \in Knowing : x \in Knowing' /\ list'[x][Gone] = list[x][Gone]
  BY <1>2, <1>4, <1>5 DEF Knowing, l
<1>8. \A x \in Knowing' \ {n} : x \in Knowing
  BY <1>2 DEF Knowing, Survivor
<1>9. OneBeat'
  <2>1. NewEntry(1).beat = 1 /\ ~NewEntry(1).leaving
    BY DEF NewEntry
  <2>2. \A x \in Knowing' : list'[x][Gone].beat = 1 /\ ~list'[x][Gone].leaving
    <3> SUFFICES ASSUME NEW x \in Knowing'
                 PROVE  list'[x][Gone].beat = 1 /\ ~list'[x][Gone].leaving
      OBVIOUS
    <3>1. CASE x \in Knowing
      BY <1>7, <3>1 DEF ForgetInv, OneBeat
    <3>2. CASE x = n /\ n \notin Knowing
      BY <1>2, <1>6, <2>1, <3>2 DEF Knowing
    <3> QED BY <1>8, <3>1, <3>2
  <2>3. DOMAIN list'[Dead] = {}
    BY <1>2, ForgetAssumption DEF ForgetInv, OneBeat, Survivor
  <2> QED BY <1>1, <1>2, <2>2, <2>3 DEF ForgetInv, OneBeat
<1>10. CASE Knowing' = Knowing
  <2>1. HeardInTime'
    BY <1>1, <1>7, <1>10 DEF ForgetInv, HeardInTime
  <2>2. ForgottenInTime'
    BY <1>1, <1>2, <1>7, <1>10 DEF ForgetInv, ForgottenInTime
  <2> QED BY <1>9, <2>1, <2>2 DEF ForgetInv
<1>11. CASE Knowing' # Knowing
  <2>1. n \notin Knowing /\ n \in Knowing' /\ Knowing' = Knowing \cup {n}
    BY <1>7, <1>8, <1>11
  <2>2. Gone \in DOMAIN m /\ Carries(d) /\ list'[n][Gone] = NewEntry(1)
    BY <1>2, <1>6, <2>1 DEF Knowing
  <2>3. /\ since <= Reach(Cardinality(Knowing) + 1) /\ since <= Latest
        /\ DropsInTime(NewEntry(1), slept[n], since)
        /\ EntryInTime(NewEntry(1), since, Cardinality(Knowing) + 1)
    <3>1. TypeOK /\ slept[n] \in Nat /\ n \in Survivor \ Knowing
      BY <1>2, <2>1 DEF Inv, TypeOK, Survivor
    <3> QED BY <2>2, <3>1, HeardLemma DEF ForgetInv
  <2>4. /\ Cardinality(Knowing) \in Nat
        /\ Cardinality(Knowing') = Cardinality(Knowing) + 1
        /\ Hop \in Nat
        /\ Reach(Cardinality(Knowing)) \in Int
        /\ Reach(Cardinality(Knowing) + 1) = Reach(Cardinality(Knowing)) + Hop
    <3>1. IsFiniteSet(Knowing) /\ Cardinality(Knowing) \in Nat
      BY KnowingIsFinite DEF ForgetTimes
    <3>2. Cardinality(Knowing \cup {n}) = Cardinality(Knowing) + 1
      BY <2>1, <3>1, FS_AddElement
    <3> QED BY <2>1, <3>1, <3>2, ReachGrows DEF ForgetTimes
  <2>5. since \in Nat /\ TTF \in Nat /\ TTC \in Nat
    BY ForgetAssumption, TimesAssumption DEF ForgetInv, OneBeat
  <2>6. HeardInTime'
    <3> SUFFICES ASSUME since <= TTF + TTC + 1
                 PROVE  /\ \A x \in Knowing' :
                              EntryInTime(list'[x][Gone], since, Cardinality(Knowing) + 1)
                        /\ \A c \in net' : Carries(c) =>
                              since <= TTF + c.age + Reach(Cardinality(Knowing) + 1)
      BY <2>4 DEF HeardInTime
    <3>1. ASSUME NEW x \in Knowing
          PROVE  EntryInTime(list'[x][Gone], since, Cardinality(Knowing) + 1)
      <4>1. EntryInTime(list[x][Gone], since, Cardinality(Knowing))
        BY DEF ForgetInv, HeardInTime
      <4>2. list[x][Gone].age \in Nat
        BY <1>4, AgeCapIsNat DEF Inv, TypeOK, ListOK, Entry
      <4> QED BY <1>7, <2>4, <2>5, <4>1, <4>2 DEF EntryInTime
    <3>2. ASSUME NEW c \in net', Carries(c)
          PROVE  since <= TTF + c.age + Reach(Cardinality(Knowing) + 1)
      <4>1. c \in net /\ c.age \in Nat
        BY <1>1, GossipAssumption DEF Inv, TypeOK, DatagramOK
      <4>2. since <= TTF + c.age + Reach(Cardinality(Knowing))
        BY <3>2, <4>1 DEF ForgetInv, HeardInTime
      <4> QED BY <2>4, <2>5, <4>1, <4>2
    <3> QED BY <2>1, <2>2, <2>3, <3>1, <3>2
  <2>7. ForgottenInTime'
    <3>1. \A x \in Knowing' : DropsInTime(list'[x][Gone], slept[x], since)
      BY <1>7, <2>1, <2>2, <2>3 DEF ForgetInv, ForgottenInTime
    <3> QED BY <1>1, <1>2, <3>1 DEF ForgetInv, ForgottenInTime
  <2> QED BY <1>9, <2>6, <2>7 DEF ForgetInv
<1> QED BY <1>10, <1>11

LEMMA NextForgetInTime ==
    ASSUME ForgetTimes, Inv, ForgetInv, [NextForget]_forgetVars
    PROVE  ForgetInv'
<1>1. CASE Tick /\ since' = IF since <= ForgetBound THEN since + 1 ELSE since
  BY <1>1, TickForget
<1>2. ASSUME NEW n \in Node, Callback(n), UNCHANGED since PROVE ForgetInv'
  BY <1>2, CallbackForget
<1>3. ASSUME NEW n \in Node, Retire(n) PROVE ForgetInv'
  BY <1>3 DEF Retire, ForgetInv, OneBeat
<1>4. ASSUME NEW n \in Node, HandleJoin(n) \/ Sleep(n), UNCHANGED since PROVE ForgetInv'
  BY <1>4, QuietForget DEF HandleJoin, Sleep
<1>5. ASSUME NEW n \in Node, Receive(n), UNCHANGED since PROVE ForgetInv'
  BY <1>5, ReceiveForget
<1>6. CASE Lose /\ UNCHANGED since
  BY <1>6, QuietForget DEF Lose
<1>7. CASE UNCHANGED forgetVars
  BY <1>7, QuietForget DEF forgetVars, vars
<1> QED BY <1>1, <1>2, <1>3, <1>4, <1>5, <1>6, <1>7 DEF NextForget, TimerThread

LEMMA InTimeForgets == ForgetTimes /\ Inv /\ ForgetInv => DeadIsForgotten
<1> SUFFICES ASSUME ForgetTimes, Inv, ForgetInv,
                    NEW n \in Node, First(Dead) \in DOMAIN list[n]
             PROVE  ~(since > ForgetBound)
  BY DEF DeadIsForgotten
<1>1. n \in Knowing
  BY DEF ForgetInv, OneBeat, Knowing, Survivor, Gone
<1>2. /\ list[n][Gone].failed \in BOOLEAN
      /\ DropsInTime(list[n][Gone], slept[n], since)
  BY <1>1 DEF Gone, Inv, TypeOK, ListOK, Entry, ForgetInv, ForgottenInTime
<1>3. /\ slept[n] \in Nat /\ slept[n] <= Interval /\ since \in Nat
      /\ TTF \in Nat /\ TTC \in Nat /\ Interval \in Nat /\ ForgetBound \in Nat
      /\ Latest \in Nat /\ ForgetBound >= Latest + TTF + TTC + 2 * Interval
  BY ForgetAssumption, TimesAssumption, GossipAssumption, ReachGrows
     DEF ForgetInv, OneBeat, Inv, TypeOK, ForgetTimes
<1> QED BY <1>2, <1>3 DEF DropsInTime

\* A machine that crashes is forgotten: with so few survivors that all have heard of
\* it before the first can have dropped it, it is in no list once each has had the
\* time to hear of it, suspect it and drop it, a timer interval late each time.
THEOREM DeadAlwaysForgotten ==
    ASSUME ForgetTimes
    PROVE  SpecForget => []DeadIsForgotten
<1>1. InitForget => Inv /\ ForgetInv
  BY InitForgetInv, InitInTime
<1>2. Inv /\ ForgetInv /\ [NextForget]_forgetVars => Inv' /\ ForgetInv'
  BY ForgetStep, NextInv, NextForgetInTime
<1>3. Inv /\ ForgetInv => DeadIsForgotten
  BY InTimeForgets
<1> QED BY <1>1, <1>2, <1>3, PTL DEF SpecForget

================================================================================
