----------------------------- MODULE RebalanceProofs -----------------------------
(* Proofs about Rebalance, for any machines, rings to start with, hash of the key, *)
(* values, joins and failures, in any order the actions allow.                     *)
(*                                                                                *)
(* Four invariants build on each other.  Types: what the variables hold, and that  *)
(* every command has a machine to go to.  Phase: at most one machine takes itself  *)
(* for the owner of the key, once what it should hand over is handed over; the     *)
(* messages which have been queued say so.  Kept, while nobody fails: the key is   *)
(* with one of the machines, or in a command on its way to the owner.  Repaired,   *)
(* while nobody joins: nobody has noticed the failures, or the owner will be told  *)
(* to take over the key and each replica it lacks will be given it.                *)
EXTENDS Rebalance, OperatorProofs

USE RebalanceAssumption, MaxHashAssumption

--------------------------------------------------------------------------------
(* The invariants                                                               *)

RingAt(m) == DOMAIN map[m]

Address == {IPOf[m] : m \in Machine}

Work == {msg \in Messages(Address) : msg.reason = "join" => msg.newMember \in Machine}

Commands == [op : {"fdelete"}, value : {NoValue}]
            \cup [op : {"finsert", "insert", "replicate"}, value : Value]

Jobs == [at : {"working"}, message : Work, to : Machine \cup {NoHash},
         todo : Seq(Commands), later : Seq(Commands)]

Stores == [{k} -> Item] \cup {EmptyStore}

\* A machine that does not run does nothing and has nothing; one that runs is on its
\* own ring; and the commands of a thread have somewhere to go.
Types ==
    /\ keyHash \in Hash /\ scenario \in Scenario
    /\ up \in SUBSET Machine /\ up # {}
    /\ map = [m \in Machine |-> View(RingAt(m))]
    /\ \A m \in Machine : RingAt(m) \in SUBSET Machine
    /\ \A m \in up : m \in RingAt(m)
    /\ queue \in [Machine -> Seq(Work)]
    /\ job \in [Machine -> Jobs \cup {Idle, Draining}]
    /\ \A m \in Machine : Busy(m) /\ job[m].todo # <<>> => job[m].to # NoHash
    /\ stores \in [Machine -> Stores]
    /\ \A m \in Machine \ up : queue[m] = <<>> /\ job[m] = Idle /\ stores[m] = EmptyStore
    /\ current \in Value \cup {NoValue}
    /\ joins \in Nat /\ failures \in Nat /\ recent \in 0..2

\* The messages that make a machine hand over, or take over, a range with the key
HandsOver(msg) == msg.role = "successor" /\ InRange(keyHash, msg.ownedStart, msg.newMember)
Inherits(msg)  == msg.role = "successor" /\ InRange(keyHash, msg.ownedStart, msg.failedMember)

Ops(commands) == {c.op : c \in ToSet(commands)}

\* While joins are dealt with, new is the only machine others have yet to hear of.  One
\* of them that takes itself for the owner and is not will hear of it, or has heard
\* and turns to handing over the key before anything else.
Old(m, new) ==
    /\ RingAt(m) \in {up, up \ {new}}
    /\ new \notin RingAt(m) => queue[m] = <<>>
    /\ \A msg \in ToSet(queue[m]) :
          /\ msg.newMember = new
          /\ msg.role = "successor" => (HandsOver(msg) <=> Owner = new)
    /\ Owns(m) /\ m # Owner =>
          /\ Owner = new /\ OwnerHash(up \ {new}, keyHash) = m
          /\ new \in RingAt(m) => queue[m] # <<>> /\ Head(queue[m]).role = "successor"

\* The new machine hears of the others, too, and has nothing to hand over to them.
New(new) ==
    /\ Owns(new) => Owner = new
    /\ \A msg \in ToSet(queue[new]) :
          msg.newMember \in up \ {new} /\ (HandsOver(msg) => Owner # new)

JoinJob(m) ==
    Busy(m) =>
        /\ job[m].message.reason = "join"
        /\ Ops(job[m].todo) \cap {"replicate", "insert"} # {} => job[m].to = Owner
        /\ Ops(job[m].later) \subseteq {"fdelete"}

Joining(new) ==
    /\ new \in up
    /\ \A m \in up : RingAt(m) \subseteq up /\ JoinJob(m)
    /\ \A m \in up : \A msg \in ToSet(queue[m]) : msg.reason = "join"
    /\ \A m \in up \ {new} : Old(m, new)
    /\ New(new)

\* While failures are dealt with, nobody is unknown to anybody.  A machine that will
\* take over a range with the key is the owner.
Failing(m) ==
    /\ up \subseteq RingAt(m)
    /\ Owns(m) => m = Owner
    /\ \A msg \in ToSet(queue[m]) : msg.reason = "failure" /\ (Inherits(msg) => m = Owner)
    /\ Busy(m) => Ops(job[m].todo) \cup Ops(job[m].later) \subseteq {"fdelete", "finsert"}

Phase ==
    \/ recent = 0 /\ \E new \in up : Joining(new)
    \/ recent # 0 /\ \A m \in up : Failing(m)

\* No other machine takes itself for the owner when all is settled.
OneOwner == Settled => \A m \in up : Owns(m) => m = Owner

\* The key is on its way to the owner.
Carries(m) == Busy(m) /\ "insert" \in Ops(job[m].todo)

AfterOwner(m) == m # Owner /\ Predecessor(up, m) = Owner /\ RingAt(m) = up

\* What a thread sends: the key, to the owner, which is the machine before; or
\* commands for replicas while the owner has the key.
KeptJob(m) ==
    Busy(m) =>
        IF Ops(job[m].todo) \cap {"replicate", "insert"} # {}
        THEN /\ job[m].todo \in {<<Send("insert", current)>>,
                                <<Send("replicate", current), Send("insert", current)>>}
             /\ AfterOwner(m)
        ELSE /\ job[m].todo # <<>> => job[m].to # Owner /\ Owns(Owner)
             /\ job[m].later # <<>> => Owns(Owner) /\ AfterOwner(m)

\* Who takes himself for the owner has what clients stored last; the owner has no
\* mere replica; and the key is with one of the machines, or on its way.
OwnedAsStored == \A m \in up : Owns(m) => stores[m][k].value = current
OwnerOwns     == Holds(Owner) => Owns(Owner)
Somewhere     == current # NoValue => \E m \in up : Owns(m) \/ Carries(m)

Kept ==
    /\ recent = 0
    /\ OwnedAsStored /\ OwnerOwns /\ Somewhere
    /\ \A m \in up : KeptJob(m)

KeptUnlessFailed == failures = 0 => Kept

--------------------------------------------------------------------------------
(* Sequences                                                                    *)

LEMMA Elements ==
    ASSUME NEW S, NEW s \in Seq(S)
    PROVE  /\ ToSet(s) \subseteq S
           /\ s # <<>> => /\ Head(s) \in S /\ Tail(s) \in Seq(S)
                          /\ ToSet(s) = {Head(s)} \cup ToSet(Tail(s))
<1>1. ToSet(s) = {s[i] : i \in 1..Len(s)}
  <2>1. DOMAIN s = 1..Len(s)
    OBVIOUS
  <2>2. QED
    BY <2>1, Zenon DEF ToSet
<1>2. ASSUME s # <<>>
      PROVE  Head(s) \in S /\ Tail(s) \in Seq(S) /\ ToSet(s) = {Head(s)} \cup ToSet(Tail(s))
  <2>1. /\ Head(s) = s[1] /\ Tail(s) \in Seq(S) /\ Len(s) \in Nat \ {0}
        /\ Len(Tail(s)) = Len(s) - 1
        /\ \A i \in 1..Len(Tail(s)) : Tail(s)[i] = s[i + 1]
    BY <1>2, HeadTailProperties
  <2>2. ToSet(Tail(s)) = {Tail(s)[i] : i \in 1..Len(Tail(s))}
    <3>1. DOMAIN Tail(s) = 1..Len(Tail(s))
      BY <2>1
    <3>2. QED
      BY <3>1, Zenon DEF ToSet
  <2>3. ToSet(s) \subseteq {Head(s)} \cup ToSet(Tail(s))
    <3>1. ASSUME NEW i \in 1..Len(s), i # 1 PROVE s[i] \in ToSet(Tail(s))
      <4>1. PICK j \in 1..Len(Tail(s)) : i = j + 1
        <5>1. i - 1 \in 1..Len(Tail(s)) /\ i = (i - 1) + 1
          BY <2>1, <3>1
        <5>2. QED
          BY <5>1
      <4>2. QED
        BY <2>1, <2>2, <4>1
    <3>2. QED
      BY <1>1, <2>1, <3>1
  <2>4. {Head(s)} \cup ToSet(Tail(s)) \subseteq ToSet(s)
    BY <1>1, <2>1, <2>2
  <2>5. QED
    BY <2>1, <2>3, <2>4
<1>3. QED
  BY <1>1, <1>2

LEMMA ElementsOfBoth ==
    ASSUME NEW S, NEW s \in Seq(S), NEW t \in Seq(S)
    PROVE  s \o t \in Seq(S) /\ ToSet(s \o t) = ToSet(s) \cup ToSet(t)
<1>1. /\ s \o t \in Seq(S) /\ Len(s \o t) = Len(s) + Len(t)
      /\ Len(s) \in Nat /\ Len(t) \in Nat
      /\ \A i \in 1..Len(s) : (s \o t)[i] = s[i]
      /\ \A i \in 1..Len(t) : (s \o t)[Len(s) + i] = t[i]
  BY ConcatProperties
<1> DEFINE u == s \o t
<1> HIDE DEF u
<1>0. u \in Seq(S)
  BY <1>1 DEF u
<1>2. /\ ToSet(s) = {s[i] : i \in 1..Len(s)} /\ ToSet(t) = {t[i] : i \in 1..Len(t)}
      /\ ToSet(u) = {u[i] : i \in 1..Len(u)}
  <2>1. DOMAIN s = 1..Len(s) /\ DOMAIN t = 1..Len(t) /\ DOMAIN u = 1..Len(u)
    BY <1>0
  <2>2. QED
    BY <2>1, Zenon DEF ToSet
<1>3. ASSUME NEW i \in 1..Len(u) PROVE u[i] \in ToSet(s) \cup ToSet(t)
  <2>1. CASE i \in 1..Len(s)
    BY <1>1, <1>2, <2>1 DEF u
  <2>2. CASE i \notin 1..Len(s)
    <3>1. PICK j \in 1..Len(t) : i = Len(s) + j
      <4>1. i - Len(s) \in 1..Len(t) /\ i = Len(s) + (i - Len(s))
        BY <1>1, <2>2 DEF u
      <4>2. QED
        BY <4>1
    <3>2. u[i] = t[j]
      BY <1>1, <3>1 DEF u
    <3>3. QED
      BY <1>2, <3>2
  <2>3. QED
    BY <2>1, <2>2
<1>4. ASSUME NEW i \in 1..Len(s) PROVE s[i] \in ToSet(u)
  <2>1. u[i] = s[i] /\ i \in 1..Len(u)
    BY <1>1 DEF u
  <2>2. QED
    BY <1>2, <2>1
<1>5. ASSUME NEW i \in 1..Len(t) PROVE t[i] \in ToSet(u)
  <2>1. u[Len(s) + i] = t[i] /\ Len(s) + i \in 1..Len(u)
    BY <1>1 DEF u
  <2>2. QED
    BY <1>2, <2>1
<1>6. ToSet(u) = ToSet(s) \cup ToSet(t)
  <2>1. ToSet(u) \subseteq ToSet(s) \cup ToSet(t)
    BY <1>2, <1>3, Zenon
  <2>2. ToSet(s) \subseteq ToSet(u)
    BY <1>2, <1>4, Zenon
  <2>3. ToSet(t) \subseteq ToSet(u)
    BY <1>2, <1>5, Zenon
  <2>4. QED
    BY <2>1, <2>2, <2>3
<1>7. QED
  BY <1>1, <1>6 DEF u

LEMMA FewElements ==
    /\ ToSet(<<>>) = {}
    /\ \A a : ToSet(<<a>>) = {a}
    /\ \A a, b : ToSet(<<a, b>>) = {a, b}
<1>1. ToSet(<<>>) = {}
  BY DEF ToSet
<1>2. ASSUME NEW a PROVE ToSet(<<a>>) = {a}
  BY DEF ToSet
<1>3. ASSUME NEW a, NEW b PROVE ToSet(<<a, b>>) = {a, b}
  <2>1. DOMAIN <<a, b>> = {1, 2}
    OBVIOUS
  <2>2. QED
    BY <2>1 DEF ToSet
<1>4. QED
  BY <1>1, <1>2, <1>3

\* The commands still to be sent, the first of them aside.
LEMMA OpsLeft ==
    ASSUME NEW s \in Seq(Commands), s # <<>>
    PROVE  Ops(s) = {Head(s).op} \cup Ops(Tail(s))
BY Elements DEF Ops

LEMMA OpsOfFew ==
    /\ Ops(<<>>) = {}
    /\ \A a : Ops(<<a>>) = {a.op}
    /\ \A a, b : Ops(<<a, b>>) = {a.op, b.op}
BY FewElements DEF Ops

--------------------------------------------------------------------------------
(* Stores                                                                       *)

\* The store that holds the key and nothing else
Single(value, owned) == [x \in {k} |-> MakeItem(value, owned)]

LEMMA EmptyStoreIs == DOMAIN EmptyStore = {} /\ EmptyStore \in Stores
BY DEF EmptyStore, Stores

LEMMA StoreIs ==
    ASSUME NEW S \in Stores
    PROVE  /\ k \in DOMAIN S => DOMAIN S = {k} /\ S[k] \in Item
           /\ k \notin DOMAIN S => S = EmptyStore
<1>1. CASE S \in [{k} -> Item]
  BY <1>1
<1>2. CASE S = EmptyStore
  BY <1>2, EmptyStoreIs
<1>3. QED
  BY <1>1, <1>2 DEF Stores

LEMMA SingleIs ==
    ASSUME NEW value \in Value, NEW owned \in BOOLEAN
    PROVE  /\ Single(value, owned) \in Stores
           /\ DOMAIN Single(value, owned) = {k}
           /\ Single(value, owned)[k].value = value
           /\ Single(value, owned)[k].owner = owned
<1>1. MakeItem(value, owned) \in Item
      /\ MakeItem(value, owned).value = value /\ MakeItem(value, owned).owner = owned
  BY DEF MakeItem, Item
<1>2. QED
  BY <1>1 DEF Single, Stores

LEMMA InsertMeans ==
    ASSUME NEW S \in Stores, NEW value \in Value, NEW owned \in BOOLEAN
    PROVE  Insert(S, k, value, owned).store =
               IF k \in DOMAIN S THEN S ELSE Single(value, owned)
<1>1. CASE k \in DOMAIN S
  BY <1>1 DEF Insert
<1>2. CASE k \notin DOMAIN S
  <2>1. DOMAIN S = {}
    BY <1>2, StoreIs, EmptyStoreIs
  <2>2. Put(S, k, MakeItem(value, owned)) = Single(value, owned)
    BY <2>1 DEF Put, Single
  <2>3. QED
    BY <1>2, <2>2 DEF Insert
<1>3. QED
  BY <1>1, <1>2

LEMMA DeleteMeans ==
    ASSUME NEW S \in Stores
    PROVE  Delete(S, k).store = EmptyStore
<1>1. DOMAIN S \ {k} = {}
  BY StoreIs, EmptyStoreIs
<1>2. QED
  BY <1>1 DEF Delete, Drop, EmptyStore

LEMMA UpdateMeans ==
    ASSUME NEW S \in Stores, NEW value \in Value
    PROVE  Update(S, k, value).store =
               IF k \in DOMAIN S THEN Single(value, S[k].owner) ELSE S
<1>1. CASE k \in DOMAIN S
  <2>1. DOMAIN S = {k} /\ S[k] \in Item
    BY <1>1, StoreIs
  <2>2. [S[k] EXCEPT !.value = value] = MakeItem(value, S[k].owner)
    BY <2>1 DEF MakeItem, Item
  <2>3. [S EXCEPT ![k].value = value] = Single(value, S[k].owner)
    BY <2>1, <2>2 DEF Single
  <2>4. QED
    BY <1>1, <2>3 DEF Update
<1>2. QED
  BY <1>1 DEF Update

\* The machines a machine passes an insert on to
Passes(to, m) == m \in up /\ IsReplica(RingAt(to), to, m)

\* What the machines have after one has executed a command
Effect(to, c, E) ==
    /\ c.op = "fdelete" =>
         \A m \in Machine : E[m] = IF m = to THEN EmptyStore ELSE stores[m]
    /\ c.op = "finsert" =>
         \A m \in Machine : E[m] = IF m = to /\ ~Holds(m)
                                   THEN Single(c.value, FALSE) ELSE stores[m]
    /\ c.op = "insert" =>
         \A m \in Machine : E[m] = IF m = to /\ ~Holds(m)
                                   THEN Single(c.value, TRUE) ELSE stores[m]
    /\ c.op = "replicate" =>
         \A m \in Machine : E[m] = IF Passes(to, m) /\ ~Holds(m)
                                   THEN Single(c.value, FALSE) ELSE stores[m]

LEMMA ExecutedMeans ==
    ASSUME stores \in [Machine -> Stores], NEW to \in Machine, NEW c \in Commands,
           NEW E, E = Executed(to, c)
    PROVE  /\ c.op \in {"fdelete", "finsert", "insert", "replicate"}
           /\ E \in [Machine -> Stores]
           /\ Effect(to, c, E)
<1>1. /\ c.op \in {"fdelete", "finsert", "insert", "replicate"}
      /\ c.op # "fdelete" => c.value \in Value
  BY DEF Commands
<1>2. \A m \in Machine : stores[m] \in Stores
  OBVIOUS
<1>3. CASE c.op = "fdelete"
  <2>1. E = [stores EXCEPT ![to] = Delete(@, k).store]
    BY <1>3, Zenon DEF Executed
  <2>2. Delete(stores[to], k).store = EmptyStore
    BY <1>2, DeleteMeans
  <2>3. E = [stores EXCEPT ![to] = EmptyStore]
    BY <2>1, <2>2
  <2>4. QED
    BY <1>3, <2>3, EmptyStoreIs DEF Effect
<1>4. CASE c.op = "finsert"
  <2>1. E = [stores EXCEPT ![to] = Insert(@, k, c.value, FALSE).store]
    BY <1>4 DEF Executed
  <2>2. Insert(stores[to], k, c.value, FALSE).store =
            IF Holds(to) THEN stores[to] ELSE Single(c.value, FALSE)
    BY <1>1, <1>2, <1>4, InsertMeans DEF Holds
  <2>3. E = [stores EXCEPT ![to] = IF Holds(to) THEN stores[to] ELSE Single(c.value, FALSE)]
    BY <2>1, <2>2
  <2>4. Single(c.value, FALSE) \in Stores
    BY <1>1, <1>4, SingleIs
  <2>5. E \in [Machine -> Stores]
    BY <2>3, <2>4
  <2>6. \A m \in Machine : E[m] = IF m = to /\ ~Holds(m)
                                  THEN Single(c.value, FALSE) ELSE stores[m]
    BY <2>3
  <2>7. QED
    BY <1>4, <2>5, <2>6 DEF Effect
<1>5. CASE c.op = "insert"
  <2>1. E = [stores EXCEPT ![to] = Insert(@, k, c.value, TRUE).store]
    BY <1>5 DEF Executed
  <2>2. Insert(stores[to], k, c.value, TRUE).store =
            IF Holds(to) THEN stores[to] ELSE Single(c.value, TRUE)
    BY <1>1, <1>2, <1>5, InsertMeans DEF Holds
  <2>3. E = [stores EXCEPT ![to] = IF Holds(to) THEN stores[to] ELSE Single(c.value, TRUE)]
    BY <2>1, <2>2
  <2>4. Single(c.value, TRUE) \in Stores
    BY <1>1, <1>5, SingleIs
  <2>5. E \in [Machine -> Stores]
    BY <2>3, <2>4
  <2>6. \A m \in Machine : E[m] = IF m = to /\ ~Holds(m)
                                  THEN Single(c.value, TRUE) ELSE stores[m]
    BY <2>3
  <2>7. QED
    BY <1>5, <2>5, <2>6 DEF Effect
<1>6. CASE c.op = "replicate"
  <2>1. E = [m \in Machine |->
                IF Passes(to, m) THEN Insert(stores[m], k, c.value, FALSE).store ELSE stores[m]]
    BY <1>6 DEF Executed, Passes, RingAt
  <2>2. \A m \in Machine : Insert(stores[m], k, c.value, FALSE).store =
            IF Holds(m) THEN stores[m] ELSE Single(c.value, FALSE)
    BY <1>1, <1>2, <1>6, InsertMeans DEF Holds
  <2>3. \A m \in Machine : E[m] = IF Passes(to, m) /\ ~Holds(m)
                                  THEN Single(c.value, FALSE) ELSE stores[m]
    BY <2>1, <2>2
  <2>4. Single(c.value, FALSE) \in Stores
    BY <1>1, <1>6, SingleIs
  <2>5. E \in [Machine -> Stores]
    BY <2>1, <2>3, <2>4
  <2>6. QED
    BY <1>6, <2>3, <2>5 DEF Effect
<1>7. QED
  BY <1>1, <1>3, <1>4, <1>5, <1>6

--------------------------------------------------------------------------------
(* Jobs                                                                         *)

LEMMA WorkingIs ==
    ASSUME NEW msg \in Work, NEW to \in Machine \cup {NoHash},
           NEW todo \in Seq(Commands), NEW later \in Seq(Commands)
    PROVE  /\ Working(msg, to, todo, later) \in Jobs
           /\ Working(msg, to, todo, later).at = "working"
           /\ Working(msg, to, todo, later).message = msg
           /\ Working(msg, to, todo, later).to = to
           /\ Working(msg, to, todo, later).todo = todo
           /\ Working(msg, to, todo, later).later = later
BY DEF Working, Jobs

\* A thread works on a message or does not.
LEMMA JobIs ==
    ASSUME job \in [Machine -> Jobs \cup {Idle, Draining}], NEW m \in Machine
    PROVE  /\ Busy(m) <=> job[m] \in Jobs
           /\ ~Busy(m) <=> job[m] \in {Idle, Draining}
           /\ Busy(m) => /\ job[m].message \in Work /\ job[m].to \in Machine \cup {NoHash}
                         /\ job[m].todo \in Seq(Commands) /\ job[m].later \in Seq(Commands)
<1>1. Idle.at # "working" /\ Draining.at # "working"
  BY DEF Idle, Draining
<1>2. \A j \in Jobs : /\ j.at = "working" /\ j.message \in Work /\ j.to \in Machine \cup {NoHash}
                      /\ j.todo \in Seq(Commands) /\ j.later \in Seq(Commands)
  BY DEF Jobs
<1>3. QED
  BY <1>1, <1>2 DEF Busy

\* What a step of a thread leaves of its job.
LEMMA JobMoves ==
    ASSUME NEW j \in Jobs, NEW to, NEW todo
    PROVE  /\ [j EXCEPT !.todo = todo] = Working(j.message, j.to, todo, j.later)
           /\ [j EXCEPT !.to = to, !.later = <<>>, !.todo = todo]
                = Working(j.message, to, todo, <<>>)
<1>1. PICK a \in Work, b \in Machine \cup {NoHash}, c \in Seq(Commands), d \in Seq(Commands) :
          j = Working(a, b, c, d)
  BY DEF Jobs, Working
<1>2. j.message = a /\ j.to = b /\ j.todo = c /\ j.later = d
  BY <1>1 DEF Working
<1>3. [Working(a, b, c, d) EXCEPT !.todo = todo] = Working(a, b, todo, d)
  BY DEF Working
<1>4. [Working(a, b, c, d) EXCEPT !.to = to, !.later = <<>>, !.todo = todo]
          = Working(a, to, todo, <<>>)
  <2> DEFINE r == Working(a, b, c, d)
             e == [r EXCEPT !.to = to, !.later = <<>>, !.todo = todo]
  <2>1. r = [x \in DOMAIN r |-> r[x]] /\ DOMAIN r = {"at", "message", "to", "todo", "later"}
        /\ r["at"] = "working" /\ r["message"] = a
    BY DEF Working
  <2> HIDE DEF r
  <2>2. e = [x \in {"at", "message", "to", "todo", "later"} |->
               IF x = "to" THEN to ELSE IF x = "later" THEN <<>>
               ELSE IF x = "todo" THEN todo ELSE r[x]]
    BY <2>1
  <2> HIDE DEF e
  <2>3. e = Working(a, to, todo, <<>>)
    BY <2>1, <2>2 DEF Working
  <2>4. QED
    BY <2>3, Zenon DEF e, r
<1>5. QED
  BY <1>1, <1>2, <1>3, <1>4, Zenon

LEMMA SendIs ==
    /\ Send("fdelete", NoValue) \in Commands
    /\ \A value \in Value, op \in {"finsert", "insert", "replicate"} : Send(op, value) \in Commands
    /\ \A op, value : Send(op, value).op = op /\ Send(op, value).value = value
BY DEF Send, Commands

\* The lists of commands the handlers make.
LEMMA CommandsAre ==
    ASSUME Types, NEW m \in Machine, Holds(m)
    PROVE  /\ Replicate(m) \in Seq(Commands) /\ Ops(Replicate(m)) = {"fdelete", "finsert"}
           /\ Transfer(m) \in Seq(Commands) /\ Ops(Transfer(m)) = {"replicate", "insert"}
<1>1. stores[m][k].value \in Value
  BY StoreIs DEF Types, Holds, Item
<1>2. /\ Send("fdelete", NoValue) \in Commands /\ Send("finsert", stores[m][k].value) \in Commands
      /\ Send("replicate", stores[m][k].value) \in Commands
      /\ Send("insert", stores[m][k].value) \in Commands
  BY <1>1, SendIs
<1>3. Replicate(m) \in Seq(Commands) /\ Transfer(m) \in Seq(Commands)
  BY <1>2 DEF Replicate, Transfer
<1>4. Ops(Replicate(m)) = {"fdelete", "finsert"} /\ Ops(Transfer(m)) = {"replicate", "insert"}
  <2> DEFINE v == stores[m][k].value
  <2>1. Ops(Replicate(m)) = {Send("fdelete", NoValue).op, Send("finsert", v).op}
    BY OpsOfFew, Zenon DEF Replicate
  <2>2. Ops(Transfer(m)) = {Send("replicate", v).op, Send("insert", v).op}
    BY OpsOfFew, Zenon DEF Transfer
  <2>3. QED
    BY <2>1, <2>2, SendIs, Zenon
<1>5. QED
  BY <1>3, <1>4

LEMMA DeleteCommandsAre ==
    ASSUME NEW start, NEW end
    PROVE  /\ DeleteCommands(start, end) \in Seq(Commands)
           /\ Ops(DeleteCommands(start, end)) \subseteq {"fdelete"}
<1>1. CASE start > end /\ keyHash < end
  BY <1>1, OpsOfFew DEF DeleteCommands
<1>2. CASE ~(start > end /\ keyHash < end)
  <2>1. DeleteCommands(start, end) = <<Send("fdelete", NoValue)>>
    BY <1>2 DEF DeleteCommands
  <2>2. QED
    BY <2>1, OpsOfFew, SendIs
<1>3. QED
  BY <1>1, <1>2

--------------------------------------------------------------------------------
(* The machines and their rings                                                 *)

LEMMA RingsAre ==
    ASSUME Types
    PROVE  /\ up \in SUBSET Hash /\ Owner \in up
           /\ \A m \in up : RingAt(m) \in SUBSET Hash /\ m \in RingAt(m)
           /\ \A m \in Machine : map[m] \in [RingAt(m) -> Address]
<1>1. up \in SUBSET Hash /\ up # {} /\ keyHash \in Hash
  BY DEF Types
<1>2. Owner \in up
  BY <1>1, OwnerOnRing DEF Owner
<1>3. \A m \in up : RingAt(m) \in SUBSET Hash /\ m \in RingAt(m)
  BY DEF Types
<1>4. ASSUME NEW m \in Machine PROVE map[m] \in [RingAt(m) -> Address]
  <2>1. map[m] = View(RingAt(m)) /\ RingAt(m) \in SUBSET Machine
    BY DEF Types
  <2>2. QED
    BY <2>1 DEF View, Address
<1>5. QED
  BY <1>1, <1>2, <1>3, <1>4

LEMMA AddressIs ==
    /\ \A ip \in Address : At(ip) \in Machine
    /\ NoIP \notin Address
<1>1. ASSUME NEW ip \in Address PROVE At(ip) \in Machine
  <2>1. \E m \in Machine : IPOf[m] = ip
    BY DEF Address
  <2>2. QED
    BY <2>1, Zenon DEF At
<1>2. QED
  BY <1>1 DEF Address

\* The replicas of a machine are other machines on its ring, if there are any.
LEMMA ReplicasAre ==
    ASSUME Types, NEW m \in up
    PROVE  /\ FirstReplica(m) \in Machine \cup {NoHash}
           /\ SecondReplica(m) \in Machine \cup {NoHash}
           /\ \A x \in up : Passes(m, x) => x # m
<1> DEFINE R == RingAt(m)
           n == Cardinality(R)
           s == Successor(R, m)
           t == Successor(R, s)
<1>1. R \in SUBSET Hash /\ R \in SUBSET Machine /\ m \in R
  BY RingsAre DEF Types
<1>2. /\ HashAtDistance(R, m, 1) = IF n < 2 THEN NoHash ELSE s
      /\ HashAtDistance(R, m, 2) = IF n < 3 THEN NoHash ELSE t
  BY <1>1, HashAtDistances
<1>3. /\ s \in R /\ t \in R /\ n \in Nat
      /\ n >= 2 => s # m
      /\ n >= 3 => t # m
  BY <1>1, RingSizeForward
<1>4. FirstReplica(m) = HashAtDistance(R, m, 1) /\ SecondReplica(m) = HashAtDistance(R, m, 2)
  BY DEF FirstReplica, SecondReplica, RingAt
<1> HIDE DEF n, s, t, R
<1>5. FirstReplica(m) \in Machine \cup {NoHash} /\ SecondReplica(m) \in Machine \cup {NoHash}
  BY <1>1, <1>2, <1>3, <1>4
<1>6. ASSUME NEW x \in up, Passes(m, x) PROVE x # m
  <2>1. x = HashAtDistance(R, m, 1) \/ x = HashAtDistance(R, m, 2)
    BY <1>6 DEF Passes, IsReplica, R
  <2>2. x # NoHash
    BY RingsAre DEF Hash, NoHash
  <2>3. QED
    BY <1>2, <1>3, <2>1, <2>2
<1>7. QED
  BY <1>5, <1>6

\* A machine changes its ring.
LEMMA MapChanges ==
    ASSUME Types, NEW m \in Machine, NEW S \in SUBSET Machine,
           map' = [map EXCEPT ![m] = View(S)]
    PROVE  /\ map' = [x \in Machine |-> View(RingAt(x)')]
           /\ \A x \in Machine : RingAt(x)' = IF x = m THEN S ELSE RingAt(x)
<1>1. map = [x \in Machine |-> View(RingAt(x))] /\ \A x \in Machine : map[x] = View(RingAt(x))
  BY DEF Types
<1>2. \A T : DOMAIN View(T) = T
  BY DEF View
<1>3. ASSUME NEW x \in Machine
      PROVE  /\ map'[x] = IF x = m THEN View(S) ELSE View(RingAt(x))
             /\ RingAt(x)' = IF x = m THEN S ELSE RingAt(x)
  BY <1>1, <1>2 DEF RingAt
<1>4. map' = [x \in Machine |-> map'[x]]
  BY <1>1
<1>5. \A x \in Machine : map'[x] = View(RingAt(x)')
  BY <1>3
<1>6. QED
  BY <1>3, <1>4, <1>5

--------------------------------------------------------------------------------
(* The messages                                                                 *)

\* What a join queues: work that names the new member.
Announces(M, m, new, ring) ==
    /\ M \in Seq(Work)
    /\ \A msg \in ToSet(M) : msg.reason = "join" /\ msg.newMember = new
    /\ \A msg \in ToSet(M) : msg.role = "successor" =>
         (HandsOver(msg) <=> OwnerHash(ring, keyHash) = new)
    /\ new = Predecessor(ring, m) => M # <<>> /\ Head(M).role = "successor"

LEMMA JoinWork ==
    ASSUME Types, NEW m \in up, NEW new \in up \ RingAt(m), NEW M,
           M = JoinMessages(RingAt(m) \cup {new}, m, new)
    PROVE  Announces(M, m, new, RingAt(m) \cup {new})
<1> DEFINE R == RingAt(m) \cup {new}
           a == JoinAsSuccessor(R, m, new)
           b == JoinAsPredecessor(new)
<1>1. /\ R \in SUBSET Hash /\ m \in R /\ new \in R \ {m} /\ new \in Machine
      /\ keyHash \in Hash
  BY RingsAre DEF Types
<1> HIDE DEF R
<1> DEFINE J == JoinMessages(R, m, new)
<1>0. M = J
  BY Zenon DEF R
<1>2. /\ J \in Seq(Messages(Address))
      /\ {J[i] : i \in 1..Len(J)} = (IF IsPredecessor(R, m, new) THEN {a} ELSE {})
                                    \cup (IF IsReplica(R, m, new) THEN {b} ELSE {})
      /\ IsPredecessor(R, m, new) => J # <<>> /\ Head(J) = a
  BY <1>1, JoinMessagesMean
<1> HIDE DEF J
<1>3. IsPredecessor(R, m, new) <=> new = Predecessor(R, m)
  BY <1>1, IsPredecessorMeans
<1>4. new = Predecessor(R, m) =>
          /\ a.reason = "join" /\ a.role = "successor" /\ a.newMember = new
          /\ a.ownedStart = Predecessor(R, new)
  BY <1>1, JoinAsSuccessorMeans
<1>5. b.reason = "join" /\ b.role = "predecessor" /\ b.newMember = new
  BY DEF JoinAsPredecessor
<1> HIDE DEF a, b
<1>6. DOMAIN J = 1..Len(J)
  BY <1>2
<1>7. ToSet(J) = (IF IsPredecessor(R, m, new) THEN {a} ELSE {})
                 \cup (IF IsReplica(R, m, new) THEN {b} ELSE {})
  BY <1>2, <1>6, Zenon DEF ToSet
<1>8. \A msg \in ToSet(J) : msg.reason = "join" /\ msg.newMember = new
  BY <1>3, <1>4, <1>5, <1>7
<1>9. J \in Seq(Work)
  <2>1. \A msg \in Messages(Address) : msg \in ToSet(J) => msg \in Work
    BY <1>1, <1>8, Zenon DEF Work
  <2>2. \A i \in 1..Len(J) : J[i] \in ToSet(J)
    BY <1>6, Zenon DEF ToSet
  <2>3. \A i \in 1..Len(J) : J[i] \in Work
    BY <1>2, <2>1, <2>2
  <2>4. QED
    BY <1>2, <2>3
<1>10. ASSUME NEW msg \in ToSet(J), msg.role = "successor"
       PROVE  HandsOver(msg) <=> OwnerHash(R, keyHash) = new
  <2>1. msg = a /\ new = Predecessor(R, m)
    BY <1>3, <1>5, <1>7, <1>10
  <2>2. Predecessor(R, new) # new
    BY <1>1, NotItsOwnNeighbour
  <2>3. OwnerHash(R, keyHash) = new <=> InRange(keyHash, Predecessor(R, new), new)
    BY <1>1, <2>2, OwnedRange
  <2>4. QED
    BY <1>4, <1>10, <2>1, <2>3 DEF HandsOver
<1>11. new = Predecessor(R, m) => J # <<>> /\ Head(J).role = "successor"
  BY <1>2, <1>3, <1>4
<1>12. QED
  BY <1>0, <1>8, <1>9, <1>10, <1>11 DEF R, Announces

\* What a failure queues, in full.
LEMMA FailureQueues ==
    ASSUME Types, NEW m \in up, NEW lost \in RingAt(m) \ {m}, NEW M,
           M = FailureMessages(map[m], m, lost)
    PROVE  LET R  == RingAt(m)
               s2 == Successor(R, Successor(R, m))
               ip == IF Cardinality(R) < 4 THEN NoIP ELSE map[m][Successor(R, s2)]
               a  == [reason |-> "failure", role |-> "successor", failedMember |-> lost,
                      ownedStart |-> Predecessor(R, lost)]
               b  == [reason |-> "failure", role |-> "predecessor", failedMember |-> lost,
                      newSecondReplica |-> ip]
           IN  /\ M \in Seq(Messages(Address))
               /\ lost = Predecessor(R, m) => M = <<a>>
               /\ lost # Predecessor(R, m) /\ lost \in {Successor(R, m), s2} => M = <<b>>
               /\ lost # Predecessor(R, m) /\ lost \notin {Successor(R, m), s2} => M = << >>
<1> DEFINE R  == DOMAIN map[m]
           s2 == Successor(R, Successor(R, m))
           ip == IF Cardinality(R) < 4 THEN NoIP ELSE map[m][Successor(R, s2)]
           a  == [reason |-> "failure", role |-> "successor", failedMember |-> lost,
                  ownedStart |-> Predecessor(R, lost)]
           b  == [reason |-> "failure", role |-> "predecessor", failedMember |-> lost,
                  newSecondReplica |-> ip]
<1>1. /\ DOMAIN map[m] \in SUBSET Hash /\ map[m] \in [DOMAIN map[m] -> Address]
      /\ m \in DOMAIN map[m] /\ lost \in DOMAIN map[m] \ {m}
  BY RingsAre DEF Types, RingAt
<1> DEFINE F == FailureMessages(map[m], m, lost)
<1>2. /\ F \in Seq(Messages(Address))
      /\ lost = Predecessor(R, m) => F = <<a>>
      /\ lost # Predecessor(R, m) /\ lost \in {Successor(R, m), s2} => F = <<b>>
      /\ lost # Predecessor(R, m) /\ lost \notin {Successor(R, m), s2} => F = << >>
  BY <1>1, FailureMessagesMean, Zenon
<1>3. /\ M \in Seq(Messages(Address))
      /\ lost = Predecessor(R, m) => M = <<a>>
      /\ lost # Predecessor(R, m) /\ lost \in {Successor(R, m), s2} => M = <<b>>
      /\ lost # Predecessor(R, m) /\ lost \notin {Successor(R, m), s2} => M = << >>
  BY <1>2, Zenon
<1>4. R = RingAt(m)
  BY DEF RingAt
<1> QED BY <1>3, <1>4, Zenon DEF RingAt

\* What a failure queues: work to take over the range the machine owns from now on.
LEMMA FailureWork ==
    ASSUME Types, NEW m \in up, NEW lost \in RingAt(m) \ {m}, NEW M,
           M = FailureMessages(map[m], m, lost)
    PROVE  /\ M \in Seq(Work)
           /\ \A msg \in ToSet(M) :
                /\ msg.reason = "failure"
                /\ Inherits(msg) => OwnerHash(RingAt(m) \ {lost}, keyHash) = m
<1> DEFINE R  == DOMAIN map[m]
           s2 == Successor(R, Successor(R, m))
           ip == IF Cardinality(R) < 4 THEN NoIP ELSE map[m][Successor(R, s2)]
           p  == Predecessor(R, lost)
           a  == [reason |-> "failure", role |-> "successor", failedMember |-> lost,
                  ownedStart |-> p]
           b  == [reason |-> "failure", role |-> "predecessor", failedMember |-> lost,
                  newSecondReplica |-> ip]
<1>1. /\ R \in SUBSET Hash /\ m \in R /\ lost \in R \ {m} /\ m \in Machine
      /\ keyHash \in Hash /\ map[m] \in [R -> Address] /\ DOMAIN map[m] = R
  BY RingsAre DEF Types, RingAt
<1>2. /\ M \in Seq(Messages(Address))
      /\ lost = Predecessor(R, m) => M = <<a>>
      /\ lost # Predecessor(R, m) /\ lost \in {Successor(R, m), s2} => M = <<b>>
      /\ lost # Predecessor(R, m) /\ lost \notin {Successor(R, m), s2} => M = << >>
  BY <1>1, FailureQueues, Zenon DEF RingAt
<1>3. /\ a.reason = "failure" /\ a.role = "successor" /\ a.failedMember = lost
      /\ a.ownedStart = p /\ b.reason = "failure" /\ b.role = "predecessor"
  OBVIOUS
<1> HIDE DEF a, b
<1>4. \A msg \in ToSet(M) :
          /\ msg.reason = "failure"
          /\ \/ msg = a /\ lost = Predecessor(R, m)
             \/ msg = b
  BY <1>2, <1>3, FewElements
<1>5. M \in Seq(Work)
  <2>1. \A msg \in Messages(Address) : msg \in ToSet(M) => msg \in Work
    BY <1>4, Zenon DEF Work
  <2>2. DOMAIN M = 1..Len(M)
    BY <1>2
  <2>3. \A i \in 1..Len(M) : M[i] \in ToSet(M)
    BY <2>2, Zenon DEF ToSet
  <2>4. \A i \in 1..Len(M) : M[i] \in Work
    BY <1>2, <2>1, <2>3
  <2>5. QED
    BY <1>2, <2>4
<1>6. ASSUME NEW msg \in ToSet(M), Inherits(msg) PROVE OwnerHash(R \ {lost}, keyHash) = m
  <2>1. msg = a /\ lost = Predecessor(R, m)
    BY <1>3, <1>4, <1>6 DEF Inherits
  <2>2. InRange(keyHash, p, lost)
    BY <1>3, <1>6, <2>1 DEF Inherits
  <2>3. /\ R \ {lost} \in SUBSET Hash /\ lost \in Hash \ (R \ {lost}) /\ m \in R \ {lost}
        /\ (R \ {lost}) \cup {lost} = R
    BY <1>1
  <2>4. OwnerHash(R \ {lost}, keyHash) = m
    BY <1>1, <2>1, <2>2, <2>3, OwnedRangeMoves
  <2>5. QED
    BY <2>4
<1>7. QED
  BY <1>4, <1>5, <1>6 DEF RingAt

--------------------------------------------------------------------------------
(* What the actions do                                                          *)

\* A machine takes a message from its queue.
LEMMA PopMeans ==
    ASSUME Types, NEW m \in Machine, NEW reason, NEW role, Pop(m, reason, role)
    PROVE  /\ m \in up /\ ~Busy(m)
           /\ queue[m] # <<>> /\ Head(queue[m]) \in Work /\ Head(queue[m]) \in ToSet(queue[m])
           /\ Head(queue[m]).reason = reason /\ Head(queue[m]).role = role
           /\ queue' \in [Machine -> Seq(Work)]
           /\ \A x \in Machine : /\ ToSet(queue'[x]) \subseteq ToSet(queue[x])
                                 /\ x # m => queue'[x] = queue[x]
           /\ UNCHANGED <<fixed, current, up, map, membership>>
<1>1. queue[m] \in Seq(Work) /\ queue[m] # <<>> /\ queue' = [queue EXCEPT ![m] = Tail(queue[m])]
  BY DEF Types, Pop
<1>2. /\ Head(queue[m]) \in Work /\ Tail(queue[m]) \in Seq(Work)
      /\ ToSet(queue[m]) = {Head(queue[m])} \cup ToSet(Tail(queue[m]))
  BY <1>1, Elements
<1>3. /\ queue' \in [Machine -> Seq(Work)]
      /\ \A x \in Machine : /\ ToSet(queue'[x]) \subseteq ToSet(queue[x])
                            /\ x # m => queue'[x] = queue[x]
  BY <1>1, <1>2 DEF Types
<1>4. QED
  BY <1>2, <1>3 DEF Pop

\* The thread of m turns from having no work to a message, or goes on with one.
JobBecomes(m, msg, to, todo, later) ==
    /\ msg \in Work /\ to \in Machine \cup {NoHash}
    /\ todo \in Seq(Commands) /\ later \in Seq(Commands)
    /\ todo # <<>> => to # NoHash
    /\ job' = [job EXCEPT ![m] = Working(msg, to, todo, later)]

LEMMA JobBecomesMeans ==
    ASSUME Types, NEW m \in Machine, NEW msg, NEW to, NEW todo, NEW later,
           JobBecomes(m, msg, to, todo, later)
    PROVE  /\ job' \in [Machine -> Jobs \cup {Idle, Draining}]
           /\ \A x \in Machine \ {m} : job'[x] = job[x]
           /\ job'[m] \in Jobs /\ job'[m].at = "working" /\ job'[m].message = msg
           /\ job'[m].to = to /\ job'[m].todo = todo /\ job'[m].later = later
<1>1. job' = [job EXCEPT ![m] = Working(msg, to, todo, later)] /\ job \in [Machine -> Jobs \cup {Idle, Draining}]
  BY DEF JobBecomes, Types
<1>2. /\ Working(msg, to, todo, later) \in Jobs
      /\ Working(msg, to, todo, later).at = "working"
      /\ Working(msg, to, todo, later).message = msg
      /\ Working(msg, to, todo, later).to = to
      /\ Working(msg, to, todo, later).todo = todo
      /\ Working(msg, to, todo, later).later = later
  BY WorkingIs DEF JobBecomes
<1>3. job'[m] = Working(msg, to, todo, later) /\ \A x \in Machine \ {m} : job'[x] = job[x]
  BY <1>1
<1>4. job' \in [Machine -> Jobs \cup {Idle, Draining}]
  BY <1>1, <1>2
<1>5. QED
  BY <1>2, <1>3, <1>4, Zenon


LEMMA JoinEventAsPredecessorMeans ==
    ASSUME Types, NEW m \in Machine, JoinEventAsPredecessor(m)
    PROVE  LET msg == Head(queue[m])
           IN  /\ Pop(m, "join", "predecessor")
               /\ JobBecomes(m, msg, msg.newMember, IF Owns(m) THEN Replicate(m) ELSE <<>>, <<>>)
               /\ stores' = stores
<1>1. Pop(m, "join", "predecessor")
  BY DEF JoinEventAsPredecessor
<1>2. Head(queue[m]) \in Work /\ Head(queue[m]).newMember \in Machine
  BY <1>1, PopMeans DEF Work
<1>3. Owns(m) => Replicate(m) \in Seq(Commands)
  BY CommandsAre DEF Owns
<1>4. \A x \in Machine : x # NoHash
  BY DEF Hash, NoHash
<1>5. QED
  BY <1>1, <1>2, <1>3, <1>4 DEF JoinEventAsPredecessor, JobBecomes

LEMMA JoinEventAsSuccessorMeans ==
    ASSUME Types, NEW m \in Machine, JoinEventAsSuccessor(m)
    PROVE  LET msg == Head(queue[m])
           IN  /\ Pop(m, "join", "successor")
               /\ Moves(m, msg) =>
                    /\ JobBecomes(m, msg, msg.newMember, Transfer(m),
                                  DeleteCommands(msg.ownedStart, msg.newMember))
                    /\ stores' = [stores EXCEPT ![m] = EmptyStore]
               /\ ~Moves(m, msg) =>
                    JobBecomes(m, msg, msg.newMember, <<>>, <<>>) /\ stores' = stores
<1> DEFINE msg == Head(queue[m])
<1>1. Pop(m, "join", "successor")
  BY DEF JoinEventAsSuccessor
<1>2. msg \in Work /\ msg.newMember \in Machine
  BY <1>1, PopMeans DEF Work
<1>3. \A x \in Machine : x # NoHash
  BY DEF Hash, NoHash
<1>4. CASE Moves(m, msg)
  <2>1. Transfer(m) \in Seq(Commands)
    BY <1>4, CommandsAre DEF Moves, Owns
  <2>2. DeleteCommands(msg.ownedStart, msg.newMember) \in Seq(Commands)
    BY DeleteCommandsAre
  <2>3. Delete(stores[m], k).store = EmptyStore
    BY DeleteMeans DEF Types
  <2>4. stores' = [stores EXCEPT ![m] = EmptyStore]
    BY <1>4, <2>3 DEF JoinEventAsSuccessor
  <2>5. job' = [job EXCEPT ![m] = Working(msg, msg.newMember, Transfer(m),
                               DeleteCommands(msg.ownedStart, msg.newMember))]
    BY <1>4, Zenon DEF JoinEventAsSuccessor
  <2>6. QED
    BY <1>1, <1>2, <1>3, <1>4, <2>1, <2>2, <2>4, <2>5, Zenon DEF JobBecomes
<1>5. CASE ~Moves(m, msg)
  BY <1>1, <1>2, <1>3, <1>5 DEF JoinEventAsSuccessor, JobBecomes
<1>6. QED
  BY <1>4, <1>5

LEMMA FailureEventAsPredecessorMeans ==
    ASSUME Types, NEW m \in Machine, FailureEventAsPredecessor(m)
    PROVE  /\ Pop(m, "failure", "predecessor")
           /\ \E to, todo : /\ JobBecomes(m, Head(queue[m]), to, todo, <<>>)
                            /\ Ops(todo) \subseteq {"fdelete", "finsert"}
           /\ stores' = stores
<1> DEFINE msg  == Head(queue[m])
           some == msg.newSecondReplica # NoIP
           to   == IF some THEN At(msg.newSecondReplica) ELSE NoHash
           todo == IF some /\ Owns(m) THEN Replicate(m) ELSE <<>>
<1>1. Pop(m, "failure", "predecessor")
  BY DEF FailureEventAsPredecessor
<1>2. msg \in Work /\ msg.reason = "failure" /\ msg.role = "predecessor"
  BY <1>1, PopMeans
<1>3. msg.newSecondReplica \in Address \cup {NoIP}
  BY <1>2 DEF Work, Messages
<1>4. /\ to \in Machine \cup {NoHash}
      /\ some => to \in Machine /\ to # NoHash
  BY <1>3, AddressIs DEF Hash, NoHash
<1>5. Owns(m) => Replicate(m) \in Seq(Commands) /\ Ops(Replicate(m)) = {"fdelete", "finsert"}
  BY CommandsAre DEF Owns
<1>6. todo \in Seq(Commands) /\ Ops(todo) \subseteq {"fdelete", "finsert"}
      /\ (todo # <<>> => some)
  BY <1>5, OpsOfFew
<1>7. job' = [job EXCEPT ![m] = Working(msg, to, todo, <<>>)] /\ stores' = stores
  BY Zenon DEF FailureEventAsPredecessor
<1> HIDE DEF msg, to, todo, some
<1>8. JobBecomes(m, msg, to, todo, <<>>)
  BY <1>2, <1>4, <1>6, <1>7 DEF JobBecomes
<1>9. QED
  BY <1>1, <1>6, <1>7, <1>8, Zenon DEF msg

LEMMA FailureEventAsSuccessorMeans ==
    ASSUME Types, NEW m \in Machine, FailureEventAsSuccessor(m)
    PROVE  /\ Pop(m, "failure", "successor")
           /\ \E to, todo, later :
                 /\ JobBecomes(m, Head(queue[m]), to, todo, later)
                 /\ Ops(todo) \cup Ops(later) \subseteq {"fdelete", "finsert"}
           /\ stores' \in [Machine -> Stores]
           /\ \A x \in Machine \ {m} : stores'[x] = stores[x]
           /\ Owns(m)' => Owns(m) \/ Inherits(Head(queue[m]))
<1> DEFINE msg   == Head(queue[m])
           first == FirstReplica(m)
<1>1. Pop(m, "failure", "successor")
  BY DEF FailureEventAsSuccessor
<1>2. msg \in Work /\ msg.role = "successor" /\ m \in up /\ first \in Machine \cup {NoHash}
  BY <1>1, PopMeans, ReplicasAre
<1>3. CASE TakesOver(m, msg)
  <2> DEFINE todo == IF first = NoHash THEN <<>> ELSE Replicate(m)
  <2>1. Replicate(m) \in Seq(Commands) /\ Ops(Replicate(m)) = {"fdelete", "finsert"}
    BY <1>3, CommandsAre DEF TakesOver
  <2>2. todo \in Seq(Commands) /\ Ops(todo) \subseteq {"fdelete", "finsert"}
        /\ (todo # <<>> => first # NoHash)
    BY <2>1, OpsOfFew
  <2>3. job' = [job EXCEPT ![m] = Working(msg, first, todo, Replicate(m))]
    BY <1>3, Zenon DEF FailureEventAsSuccessor
  <2>4. stores' = [stores EXCEPT ![m][k].owner = TRUE]
    BY <1>3, Zenon DEF FailureEventAsSuccessor, ChangedToOwned
  <2>5. stores[m] \in [{k} -> Item] /\ stores \in [Machine -> Stores]
    <3>1. stores[m] \in Stores /\ k \in DOMAIN stores[m] /\ stores \in [Machine -> Stores]
      BY <1>3 DEF TakesOver, Holds, Types
    <3>2. QED
      BY <3>1, EmptyStoreIs DEF Stores
  <2>6. [stores[m] EXCEPT ![k].owner = TRUE] \in [{k} -> Item]
    <3>1. [stores[m][k] EXCEPT !.owner = TRUE] \in Item
      BY <2>5 DEF Item
    <3>2. QED
      BY <2>5, <3>1
  <2>7. /\ stores' \in [Machine -> Stores]
        /\ \A x \in Machine \ {m} : stores'[x] = stores[x]
    <3>1. stores' = [stores EXCEPT ![m] = [stores[m] EXCEPT ![k].owner = TRUE]]
      BY <2>4
    <3>2. QED
      BY <2>5, <2>6, <3>1 DEF Stores
  <2> HIDE DEF msg, first, todo
  <2>8. JobBecomes(m, msg, first, todo, Replicate(m))
    BY <1>2, <2>1, <2>2, <2>3 DEF JobBecomes
  <2>9. Inherits(msg)
    BY <1>2, <1>3 DEF TakesOver, Inherits
  <2>10. Ops(todo) \cup Ops(Replicate(m)) \subseteq {"fdelete", "finsert"}
    BY <2>1, <2>2
  <2>11. QED
    BY <1>1, <2>7, <2>8, <2>9, <2>10, Zenon DEF msg
<1>4. CASE ~TakesOver(m, msg)
  <2>1. job' = [job EXCEPT ![m] = Working(msg, first, <<>>, <<>>)] /\ stores' = stores
    BY <1>4, Zenon DEF FailureEventAsSuccessor
  <2> HIDE DEF msg, first
  <2>2. JobBecomes(m, msg, first, <<>>, <<>>)
    BY <1>2, <2>1 DEF JobBecomes
  <2>3. Ops(<<>>) \cup Ops(<<>>) \subseteq {"fdelete", "finsert"}
    BY OpsOfFew
  <2>4. stores' \in [Machine -> Stores] /\ (Owns(m)' => Owns(m))
        /\ \A x \in Machine \ {m} : stores'[x] = stores[x]
    BY <2>1 DEF Types, Owns, Holds
  <2>5. QED
    BY <1>1, <2>2, <2>3, <2>4, Zenon DEF msg
<1>5. QED
  BY <1>3, <1>4


\* A thread sends a command; the machine it goes to executes it, if it runs.
LEMMA SendCommandMeans ==
    ASSUME Types, NEW m \in Machine, SendCommand(m)
    PROVE  LET c == Head(job[m].todo)
           IN  /\ m \in up /\ Busy(m) /\ job[m].todo # <<>> /\ c \in Commands
               /\ job[m].to \in Machine
               /\ JobBecomes(m, job[m].message, job[m].to, Tail(job[m].todo), job[m].later)
               /\ stores' = IF job[m].to \in up THEN Executed(job[m].to, c) ELSE stores
               /\ UNCHANGED <<fixed, current, up, map, queue, membership>>
<1>1. m \in up /\ Busy(m) /\ job[m].todo # <<>>
  BY DEF SendCommand
<1>2. /\ job[m] \in Jobs /\ job[m].message \in Work /\ job[m].to \in Machine \cup {NoHash}
      /\ job[m].todo \in Seq(Commands) /\ job[m].later \in Seq(Commands)
  BY <1>1, JobIs DEF Types
<1>3. Head(job[m].todo) \in Commands /\ Tail(job[m].todo) \in Seq(Commands)
  BY <1>1, <1>2, Elements
<1>4. job[m].to # NoHash
  BY <1>1 DEF Types
<1>5. job' = [job EXCEPT ![m] = Working(job[m].message, job[m].to, Tail(job[m].todo), job[m].later)]
  <2>1. PICK j \in Jobs : j = job[m]
    BY <1>2
  <2>2. job' = [job EXCEPT ![m] = [j EXCEPT !.todo = Tail(j.todo)]]
    BY <2>1 DEF SendCommand
  <2>3. [j EXCEPT !.todo = Tail(j.todo)] = Working(j.message, j.to, Tail(j.todo), j.later)
    BY JobMoves
  <2>4. QED
    BY <2>1, <2>2, <2>3
<1>6. JobBecomes(m, job[m].message, job[m].to, Tail(job[m].todo), job[m].later)
  BY <1>2, <1>3, <1>4, <1>5 DEF JobBecomes
<1>7. job[m].to \in Machine
  BY <1>2, <1>4
<1>8. QED
  BY <1>1, <1>3, <1>6, <1>7 DEF SendCommand

\* A thread turns to its second replica.
LEMMA ContactSecondReplicaMeans ==
    ASSUME Types, NEW m \in Machine, ContactSecondReplica(m)
    PROVE  LET todo == IF /\ job[m].message.reason = "join" => DeletingRequired(m)
                          /\ SecondReplica(m) # NoHash
                       THEN job[m].later ELSE <<>>
           IN  /\ m \in up /\ Busy(m) /\ job[m].todo = <<>> /\ job[m].later # <<>>
               /\ JobBecomes(m, job[m].message, SecondReplica(m), todo, <<>>)
               /\ UNCHANGED <<fixed, current, up, map, queue, stores, membership>>
<1> DEFINE second == SecondReplica(m)
           todo   == IF /\ job[m].message.reason = "join" => DeletingRequired(m)
                        /\ second # NoHash
                     THEN job[m].later ELSE <<>>
<1>1. m \in up /\ Busy(m) /\ job[m].todo = <<>> /\ job[m].later # <<>>
  BY DEF ContactSecondReplica
<1>2. /\ job[m] \in Jobs /\ job[m].message \in Work
      /\ job[m].later \in Seq(Commands) /\ second \in Machine \cup {NoHash}
  BY <1>1, JobIs, ReplicasAre DEF Types
<1>3. todo \in Seq(Commands) /\ (todo # <<>> => second # NoHash)
  BY <1>2
<1>4. job' = [job EXCEPT ![m] = Working(job[m].message, second, todo, <<>>)]
  <2>1. PICK j \in Jobs : j = job[m]
    BY <1>2
  <2>2. job' = [job EXCEPT ![m] = [j EXCEPT !.to = second, !.later = <<>>, !.todo = todo]]
    BY <2>1 DEF ContactSecondReplica
  <2>3. [j EXCEPT !.to = second, !.later = <<>>, !.todo = todo]
            = Working(j.message, second, todo, <<>>)
    BY JobMoves
  <2>4. QED
    BY <2>1, <2>2, <2>3
<1> HIDE DEF second, todo
<1>5. JobBecomes(m, job[m].message, second, todo, <<>>)
  BY <1>2, <1>3, <1>4 DEF JobBecomes
<1>6. UNCHANGED <<fixed, current, up, map, queue, stores, membership>>
  BY DEF ContactSecondReplica
<1>7. QED
  BY <1>1, <1>5, <1>6 DEF second, todo

\* A handler returns.  It has dropped nothing the machine takes itself for the owner of.
LEMMA ReturnMeans ==
    ASSUME Types, NEW m \in Machine, Return(m)
    PROVE  /\ m \in up /\ Busy(m) /\ job[m].todo = <<>> /\ job[m].later = <<>>
           /\ job' \in [Machine -> Jobs \cup {Idle, Draining}]
           /\ job'[m] \in {Idle, Draining} /\ \A x \in Machine \ {m} : job'[x] = job[x]
           /\ \/ stores' = stores
              \/ ~Owns(m) /\ stores' = [stores EXCEPT ![m] = EmptyStore]
           /\ UNCHANGED <<fixed, current, up, map, queue, membership>>
<1>1. /\ m \in up /\ Busy(m) /\ job[m].todo = <<>> /\ job[m].later = <<>>
      /\ job' = [job EXCEPT ![m] = IF queue[m] = <<>> THEN Idle ELSE Draining]
      /\ UNCHANGED <<fixed, current, up, map, queue, membership>>
  BY DEF Return
<1>2. job \in [Machine -> Jobs \cup {Idle, Draining}] /\ stores \in [Machine -> Stores]
  BY DEF Types
<1>3. \/ Dropped(m, job[m].message) = stores[m]
      \/ ~Owns(m) /\ Dropped(m, job[m].message) = EmptyStore
  <2>1. Delete(stores[m], k).store = EmptyStore
    BY <1>2, DeleteMeans
  <2>2. QED
    BY <2>1 DEF Dropped
<1>4. stores' = stores \/ stores' = [stores EXCEPT ![m] = Dropped(m, job[m].message)]
  BY DEF Return
<1>5. [stores EXCEPT ![m] = stores[m]] = stores
  BY <1>2
<1>6. \/ stores' = stores
      \/ ~Owns(m) /\ stores' = [stores EXCEPT ![m] = EmptyStore]
  BY <1>3, <1>4, <1>5
<1>7. /\ job' \in [Machine -> Jobs \cup {Idle, Draining}]
      /\ job'[m] \in {Idle, Draining} /\ \A x \in Machine \ {m} : job'[x] = job[x]
  BY <1>1, <1>2
<1>8. QED
  BY <1>1, <1>6, <1>7

\* A command changes who takes himself for the owner on the owner's machine only.
LEMMA PerformMeans ==
    ASSUME NEW S \in Stores, NEW c \in Question, NEW force \in BOOLEAN,
           NEW T, T = Perform(S, Command(c, force)).store
    PROVE  /\ T \in Stores
           /\ k \in DOMAIN T /\ T[k].owner /\ force => k \in DOMAIN S /\ S[k].owner
           /\ k \in DOMAIN T /\ ~force /\ (k \in DOMAIN S => S[k].owner) => T[k].owner
<1> DEFINE d == Command(c, force)
<1>1. /\ d.op = c.op /\ d.key = k /\ d.value = c.value /\ d.force = force
      /\ c.op \in {"insert", "delete", "update", "lookup"}
      /\ c.op \in {"insert", "update"} => c.value \in Value
  BY DEF Command, Question, Operation
<1>2. k \in DOMAIN S => S[k].owner \in BOOLEAN
  BY StoreIs DEF Item
<1> HIDE DEF d
<1>3. CASE c.op = "insert"
  <2>1. T = Insert(S, k, c.value, ~force).store
    BY <1>1, <1>3 DEF Perform, d
  <2>2. PICK owned \in BOOLEAN : owned = ~force
    OBVIOUS
  <2>3. T = IF k \in DOMAIN S THEN S ELSE Single(c.value, owned)
    BY <1>1, <1>3, <2>1, <2>2, InsertMeans
  <2>4. /\ Single(c.value, owned) \in Stores /\ Single(c.value, owned)[k].owner = owned
    BY <1>1, <1>3, SingleIs
  <2>5. QED
    BY <2>2, <2>3, <2>4
<1>4. CASE c.op = "delete"
  <2>1. T = EmptyStore
    BY <1>1, <1>4, DeleteMeans DEF Perform, d
  <2>2. QED
    BY <2>1, EmptyStoreIs
<1>5. CASE c.op = "update"
  <2>1. T = Update(S, k, c.value).store
    BY <1>1, <1>5 DEF Perform, d
  <2>2. T = IF k \in DOMAIN S THEN Single(c.value, S[k].owner) ELSE S
    BY <1>1, <1>5, <2>1, UpdateMeans
  <2>3. CASE k \in DOMAIN S
    <3>1. T \in Stores /\ T[k].owner = S[k].owner
      BY <1>1, <1>2, <1>5, <2>2, <2>3, SingleIs
    <3>2. QED
      BY <2>3, <3>1
  <2>4. QED
    BY <2>2, <2>3
<1>6. CASE c.op = "lookup"
  <2>1. T = S
    BY <1>1, <1>6 DEF Perform, Lookup, d
  <2>2. QED
    BY <2>1
<1>7. QED
  BY <1>1, <1>3, <1>4, <1>5, <1>6

LEMMA ClientCommandMeans ==
    ASSUME Types, NEW c \in Question, ClientCommand(c)
    PROVE  /\ Settled
           /\ stores' \in [Machine -> Stores]
           /\ \A x \in Machine \ up : stores'[x] = stores[x]
           /\ \A x \in Machine : Owns(x)' => Owns(x) \/ x = Owner
           /\ (Holds(Owner) => Owns(Owner)) => (Holds(Owner)' => stores'[Owner][k].owner)
           /\ current' = IF Holds(Owner)' THEN stores'[Owner][k].value ELSE NoValue
           /\ UNCHANGED <<fixed, up, map, queue, job, membership>>
<1> DEFINE after(m) == Perform(stores[m], Command(c, m # Owner)).store
<1>1. /\ Settled /\ UNCHANGED <<fixed, up, map, queue, job, membership>>
      /\ stores' = [m \in Machine |-> IF m \in up /\ m \in Copies(up, keyHash)
                                      THEN after(m) ELSE stores[m]]
      /\ current' = Lookup(after(Owner), k).reply
  BY DEF ClientCommand
<1>2. \A m \in Machine : stores[m] \in Stores
  BY DEF Types
<1>3. ASSUME NEW m \in Machine
      PROVE  /\ after(m) \in Stores
             /\ k \in DOMAIN after(m) /\ after(m)[k].owner /\ m # Owner =>
                  k \in DOMAIN stores[m] /\ stores[m][k].owner
             /\ k \in DOMAIN after(m) /\ m = Owner /\ (k \in DOMAIN stores[m] => stores[m][k].owner)
                  => after(m)[k].owner
  <2>1. PICK force \in BOOLEAN : force = (m # Owner)
    OBVIOUS
  <2>2. PICK T : T = Perform(stores[m], Command(c, force)).store
    OBVIOUS
  <2>3. /\ T \in Stores
        /\ k \in DOMAIN T /\ T[k].owner /\ force => k \in DOMAIN stores[m] /\ stores[m][k].owner
        /\ k \in DOMAIN T /\ ~force /\ (k \in DOMAIN stores[m] => stores[m][k].owner) => T[k].owner
    BY <1>2, <2>2, PerformMeans
  <2>4. T = after(m)
    BY <2>1, <2>2
  <2> HIDE DEF after
  <2>5. QED
    BY <2>1, <2>3, <2>4
<1> HIDE DEF after
<1>4. Owner \in up /\ Owner \in Machine /\ Owner \in Copies(up, keyHash)
  BY RingsAre DEF Types, Copies, Owner
<1>5. stores' \in [Machine -> Stores]
  BY <1>1, <1>2, <1>3
<1>6. \A x \in Machine : stores'[x] = after(x) \/ stores'[x] = stores[x]
  BY <1>1
<1>7. \A x \in Machine \ up : stores'[x] = stores[x]
  BY <1>1
<1>8. stores'[Owner] = after(Owner)
  BY <1>1, <1>4
<1>9. \A x \in Machine : Owns(x)' => Owns(x) \/ x = Owner
  BY <1>3, <1>6 DEF Owns, Holds
<1>10. PICK o \in up : o = Owner /\ stores'[o] = after(o) /\ o \in Machine
  BY <1>4, <1>8
<1>11. (Holds(o) => Owns(o)) => (k \in DOMAIN stores'[o] => stores'[o][k].owner)
  BY <1>3, <1>10 DEF Owns, Holds
<1>12. current' = IF k \in DOMAIN stores'[o] THEN stores'[o][k].value ELSE NoValue
  BY <1>1, <1>10 DEF Lookup
<1>13. Owner' = Owner
  BY <1>1 DEF Owner, fixed
<1>14. Holds(Owner)' <=> k \in DOMAIN stores'[o]
  BY <1>10, <1>13 DEF Holds
<1>15. QED
  BY <1>1, <1>5, <1>7, <1>9, <1>10, <1>11, <1>12, <1>14


\* A machine hears of a new member, or drops a lost one.
LEMMA AddToListMeans ==
    ASSUME Types, NEW m \in Machine, NEW new \in Machine, AddToList(m, new)
    PROVE  LET M == JoinMessages(RingAt(m) \cup {new}, m, new)
           IN  /\ m \in up /\ new \in up \ RingAt(m)
               /\ map' = [x \in Machine |-> View(RingAt(x)')]
               /\ \A x \in Machine : RingAt(x)' = IF x = m THEN RingAt(m) \cup {new} ELSE RingAt(x)
               /\ queue' = [queue EXCEPT ![m] = @ \o M]
               /\ UNCHANGED <<fixed, current, up, job, stores, membership>>
<1>1. /\ m \in up /\ new \in up \ RingAt(m)
      /\ map' = [map EXCEPT ![m] = View(RingAt(m) \cup {new})]
      /\ queue' = [queue EXCEPT ![m] = @ \o JoinMessages(DOMAIN map'[m], m, new)]
      /\ UNCHANGED <<fixed, current, up, job, stores, membership>>
  BY DEF AddToList, RingAt
<1>2. RingAt(m) \cup {new} \in SUBSET Machine
  BY DEF Types
<1>3. /\ map' = [x \in Machine |-> View(RingAt(x)')]
      /\ \A x \in Machine : RingAt(x)' = IF x = m THEN RingAt(m) \cup {new} ELSE RingAt(x)
  BY <1>1, <1>2, MapChanges
<1>4. DOMAIN map'[m] = RingAt(m) \cup {new}
  BY <1>3 DEF RingAt
<1>5. QED
  BY <1>1, <1>3, <1>4

LEMMA RemoveFromListMeans ==
    ASSUME Types, NEW m \in Machine, NEW lost \in Machine, RemoveFromList(m, lost)
    PROVE  /\ m \in up /\ lost \in RingAt(m) \ up /\ job[m] = Idle
           /\ map' = [x \in Machine |-> View(RingAt(x)')]
           /\ \A x \in Machine : RingAt(x)' = IF x = m THEN RingAt(m) \ {lost} ELSE RingAt(x)
           /\ queue' = [queue EXCEPT ![m] = @ \o FailureMessages(map[m], m, lost)]
           /\ UNCHANGED <<fixed, current, up, job, stores, membership>>
<1>1. /\ m \in up /\ lost \in RingAt(m) \ up /\ job[m] = Idle
      /\ map' = [map EXCEPT ![m] = View(RingAt(m) \ {lost})]
      /\ queue' = [queue EXCEPT ![m] = @ \o FailureMessages(map[m], m, lost)]
      /\ UNCHANGED <<fixed, current, up, job, stores, membership>>
  BY DEF RemoveFromList, RingAt
<1>2. RingAt(m) \ {lost} \in SUBSET Machine
  BY DEF Types
<1>3. /\ map' = [x \in Machine |-> View(RingAt(x)')]
      /\ \A x \in Machine : RingAt(x)' = IF x = m THEN RingAt(m) \ {lost} ELSE RingAt(x)
  BY <1>1, <1>2, MapChanges
<1>4. QED
  BY <1>1, <1>3

\* A machine starts, or is lost.
LEMMA JoinMeans ==
    ASSUME Types, NEW m \in Machine, Join(m)
    PROVE  /\ Settled /\ m \in Machine \ up /\ up' = up \cup {m} /\ recent' = 0
           /\ joins' = joins + 1 /\ failures' = failures
           /\ map' = [x \in Machine |-> View(RingAt(x)')]
           /\ \A x \in Machine : RingAt(x)' = IF x = m THEN {m} ELSE RingAt(x)
           /\ UNCHANGED <<fixed, current, queue, job, stores>>
<1>1. /\ Settled /\ m \in Machine \ up /\ up' = up \cup {m} /\ recent' = 0
      /\ joins' = joins + 1 /\ failures' = failures
      /\ map' = [map EXCEPT ![m] = View({m})]
      /\ UNCHANGED <<fixed, current, queue, job, stores>>
  BY DEF Join
<1>2. /\ map' = [x \in Machine |-> View(RingAt(x)')]
      /\ \A x \in Machine : RingAt(x)' = IF x = m THEN {m} ELSE RingAt(x)
  <2>1. {m} \in SUBSET Machine
    OBVIOUS
  <2>2. QED
    BY <1>1, <2>1, MapChanges
<1>3. QED
  BY <1>1, <1>2

LEMMA FailMeans ==
    ASSUME Types, NEW m \in Machine, Fail(m)
    PROVE  /\ m \in up /\ up' = up \ {m} /\ up' # {}
           /\ \/ Settled /\ recent' = 1
              \/ recent = 1 /\ recent' = 2
           /\ failures' = failures + 1 /\ joins' = joins
           /\ stores' = [stores EXCEPT ![m] = EmptyStore]
           /\ queue' = [queue EXCEPT ![m] = <<>>]
           /\ job' = [job EXCEPT ![m] = Idle]
           /\ UNCHANGED <<fixed, current, map>>
BY DEF Fail

--------------------------------------------------------------------------------
(* Types                                                                        *)

\* A step that leaves the machines and their rings alone, and those that do not run.
LEMMA TypesKept ==
    ASSUME Types, UNCHANGED <<fixed, up, map, membership>>,
           current' \in Value \cup {NoValue},
           queue' \in [Machine -> Seq(Work)],
           job' \in [Machine -> Jobs \cup {Idle, Draining}],
           stores' \in [Machine -> Stores],
           \A x \in Machine : job'[x] = job[x] \/ (job'[x].at = "working" /\ job'[x].todo # <<>>
                                                    => job'[x].to # NoHash),
           \A x \in Machine \ up : queue'[x] = queue[x] /\ job'[x] = job[x] /\ stores'[x] = stores[x]
    PROVE  Types'
<1>1. /\ keyHash' = keyHash /\ scenario' = scenario /\ up' = up /\ map' = map
      /\ joins' = joins /\ failures' = failures /\ recent' = recent
  BY DEF fixed, membership
<1>2. \A x \in Machine : Busy(x)' /\ job'[x].todo # <<>> => job'[x].to # NoHash
  BY DEF Types, Busy
<1>3. QED
  BY <1>1, <1>2 DEF Types, RingAt

\* So does a step of the thread of m.
LEMMA TypesKeptByThread ==
    ASSUME Types, NEW m \in up, UNCHANGED <<fixed, up, map, current, membership>>,
           queue' \in [Machine -> Seq(Work)], \A x \in Machine \ {m} : queue'[x] = queue[x],
           NEW msg, NEW to, NEW todo, NEW later, JobBecomes(m, msg, to, todo, later),
           stores' \in [Machine -> Stores], \A x \in Machine \ up : stores'[x] = stores[x]
    PROVE  Types'
<1>1. m \in Machine /\ current \in Value \cup {NoValue}
  BY DEF Types
<1>2. /\ job' \in [Machine -> Jobs \cup {Idle, Draining}]
      /\ \A x \in Machine \ {m} : job'[x] = job[x]
      /\ job'[m].todo = todo /\ job'[m].to = to
  BY <1>1, JobBecomesMeans
<1>3. todo # <<>> => to # NoHash
  BY DEF JobBecomes
<1>4. QED
  BY <1>1, <1>2, <1>3, TypesKept

LEMMA TypesInitially == Init => Types
<1> SUFFICES ASSUME Init PROVE Types
  OBVIOUS
<1>1. /\ keyHash \in Hash /\ scenario \in Scenario /\ up = scenario.start
      /\ map = [m \in Machine |-> IF m \in up THEN View(up) ELSE View({})]
      /\ queue = [m \in Machine |-> <<>>] /\ job = [m \in Machine |-> Idle]
      /\ current \in Value /\ stores = Placed(up, current)
      /\ joins = 0 /\ failures = 0 /\ recent = 0
  BY DEF Init
<1>2. up \in SUBSET Machine /\ up # {}
  BY <1>1
<1>3. /\ map = [m \in Machine |-> View(RingAt(m))]
      /\ \A m \in Machine : RingAt(m) = IF m \in up THEN up ELSE {}
  <2>1. \A S : DOMAIN View(S) = S
    BY DEF View
  <2>2. \A m \in Machine : RingAt(m) = IF m \in up THEN up ELSE {}
    BY <1>1, <2>1 DEF RingAt
  <2>3. QED
    BY <1>1, <2>2
<1>4. /\ queue \in [Machine -> Seq(Work)] /\ job \in [Machine -> Jobs \cup {Idle, Draining}]
      /\ \A m \in Machine : queue[m] = <<>> /\ job[m] = Idle
  BY <1>1
<1>5. Idle.at # "working"
  BY DEF Idle
<1>6. /\ stores \in [Machine -> Stores]
      /\ \A m \in Machine \ up : stores[m] = EmptyStore
  <2>1. \A m \in Machine : Placed(up, current)[m] \in Stores
    <3> SUFFICES ASSUME NEW m \in Machine PROVE Placed(up, current)[m] \in Stores
      OBVIOUS
    <3>1. PICK owned \in BOOLEAN : owned = (m = OwnerHash(up, keyHash))
      OBVIOUS
    <3>2. Put(EmptyStore, k, MakeItem(current, owned)) = Single(current, owned)
      BY EmptyStoreIs DEF Put, Single
    <3>3. Single(current, owned) \in Stores /\ EmptyStore \in Stores
      BY <1>1, SingleIs, EmptyStoreIs
    <3>4. QED
      BY <3>1, <3>2, <3>3 DEF Placed
  <2>2. QED
    BY <1>1, <2>1 DEF Placed
<1>7. QED
  BY <1>1, <1>2, <1>3, <1>4, <1>5, <1>6 DEF Types, Busy

LEMMA TypesStep ==
    ASSUME Types, [Next]_vars
    PROVE  Types'
<1>0. /\ job \in [Machine -> Jobs \cup {Idle, Draining}] /\ queue \in [Machine -> Seq(Work)]
      /\ stores \in [Machine -> Stores] /\ current \in Value \cup {NoValue}
      /\ up \in SUBSET Machine
  BY DEF Types
<1>1. ASSUME NEW m \in Machine, Join(m) PROVE Types'
  <2>1. /\ m \in Machine \ up /\ up' = up \cup {m} /\ recent' = 0
        /\ joins' = joins + 1 /\ failures' = failures
        /\ map' = [x \in Machine |-> View(RingAt(x)')]
        /\ \A x \in Machine : RingAt(x)' = IF x = m THEN {m} ELSE RingAt(x)
        /\ keyHash' = keyHash /\ scenario' = scenario /\ current' = current
        /\ queue' = queue /\ job' = job /\ stores' = stores
    BY <1>1, JoinMeans DEF fixed
  <2>2. /\ keyHash' \in Hash /\ scenario' \in Scenario
        /\ up' \in SUBSET Machine /\ up' # {}
        /\ current' \in Value \cup {NoValue}
        /\ joins' \in Nat /\ failures' \in Nat /\ recent' \in 0..2
    BY <2>1 DEF Types
  <2>3. /\ \A x \in Machine : RingAt(x)' \in SUBSET Machine
        /\ \A x \in up' : x \in RingAt(x)'
    <3>1. \A x \in Machine : RingAt(x)' = IF x = m THEN {m} ELSE RingAt(x)
      BY <2>1
    <3>2. /\ \A x \in Machine : RingAt(x) \in SUBSET Machine
          /\ \A x \in up : x \in RingAt(x)
      BY DEF Types
    <3>3. m \in Machine \ up /\ up' = up \cup {m}
      BY <2>1
    <3>4. ASSUME NEW x \in Machine PROVE RingAt(x)' \in SUBSET Machine
      <4>1. RingAt(x) \in SUBSET Machine /\ RingAt(m) \in SUBSET Machine
        BY <3>2
      <4>2. QED
        BY <1>0, <3>1, <3>3, <4>1
    <3>5. ASSUME NEW x \in up' PROVE x \in RingAt(x)'
      <4>1. x \in Machine /\ (x \in up => x \in RingAt(x)) /\ m \in Machine
        BY <1>0, <3>2, <3>3
      <4>2. QED
        BY <3>1, <3>3, <4>1
    <3>6. QED
      BY <3>4, <3>5
  <2>4. /\ \A x \in Machine : Busy(x)' /\ job'[x].todo # <<>> => job'[x].to # NoHash
        /\ \A x \in Machine \ up' : queue'[x] = <<>> /\ job'[x] = Idle /\ stores'[x] = EmptyStore
    BY <2>1 DEF Types, Busy
  <2>5. QED
    BY <1>0, <2>1, <2>2, <2>3, <2>4, Zenon DEF Types
<1>2. ASSUME NEW m \in Machine, Fail(m) PROVE Types'
  <2>1. /\ m \in up /\ up' = up \ {m} /\ up' # {} /\ recent' \in 0..2
        /\ failures' = failures + 1 /\ joins' = joins
        /\ stores' = [stores EXCEPT ![m] = EmptyStore]
        /\ queue' = [queue EXCEPT ![m] = <<>>]
        /\ job' = [job EXCEPT ![m] = Idle]
        /\ keyHash' = keyHash /\ scenario' = scenario /\ current' = current /\ map' = map
    BY <1>2, FailMeans DEF fixed
  <2>2. /\ stores' \in [Machine -> Stores] /\ queue' \in [Machine -> Seq(Work)]
        /\ job' \in [Machine -> Jobs \cup {Idle, Draining}]
    BY <1>0, <2>1, EmptyStoreIs
  <2>3. \A x \in Machine \ up' : queue'[x] = <<>> /\ job'[x] = Idle /\ stores'[x] = EmptyStore
    BY <1>0, <2>1 DEF Types
  <2>4. \A x \in Machine : Busy(x)' /\ job'[x].todo # <<>> => job'[x].to # NoHash
    <3>1. Idle.at # "working"
      BY DEF Idle
    <3>2. QED
      BY <1>0, <2>1, <3>1 DEF Types, Busy
  <2>5. /\ keyHash' \in Hash /\ scenario' \in Scenario
        /\ up' \in SUBSET Machine /\ up' # {}
        /\ current' \in Value \cup {NoValue}
        /\ joins' \in Nat /\ failures' \in Nat /\ recent' \in 0..2
    BY <2>1 DEF Types
  <2>6. /\ map' = [x \in Machine |-> View(RingAt(x)')]
        /\ \A x \in Machine : RingAt(x)' \in SUBSET Machine
        /\ \A x \in up' : x \in RingAt(x)'
    BY <2>1 DEF Types, RingAt
  <2>7. QED
    BY <2>2, <2>3, <2>4, <2>5, <2>6, Zenon DEF Types
<1>3. ASSUME NEW m \in Machine, NEW new \in Machine, AddToList(m, new) PROVE Types'
  <2> DEFINE M == JoinMessages(RingAt(m) \cup {new}, m, new)
  <2>1. /\ m \in up /\ new \in up \ RingAt(m)
        /\ map' = [x \in Machine |-> View(RingAt(x)')]
        /\ \A x \in Machine : RingAt(x)' = IF x = m THEN RingAt(m) \cup {new} ELSE RingAt(x)
        /\ queue' = [queue EXCEPT ![m] = @ \o M]
        /\ UNCHANGED <<fixed, current, up, job, stores, membership>>
    BY <1>3, AddToListMeans
  <2>2. M \in Seq(Work)
    BY <2>1, JoinWork DEF Announces
  <2> HIDE DEF M
  <2>3. queue[m] \o M \in Seq(Work)
    BY <1>0, <2>2, ElementsOfBoth
  <2>4. queue' \in [Machine -> Seq(Work)] /\ \A x \in Machine \ up : queue'[x] = queue[x]
    BY <1>0, <2>1, <2>3
  <2>5. /\ keyHash' = keyHash /\ scenario' = scenario /\ up' = up /\ current' = current
        /\ joins' = joins /\ failures' = failures /\ recent' = recent
        /\ job' = job /\ stores' = stores
    BY <2>1 DEF fixed, membership
  <2>6. /\ \A x \in Machine : RingAt(x)' \in SUBSET Machine
        /\ \A x \in up' : x \in RingAt(x)'
    <3>1. \A x \in Machine : RingAt(x)' = IF x = m THEN RingAt(m) \cup {new} ELSE RingAt(x)
      BY <2>1
    <3>2. /\ \A x \in Machine : RingAt(x) \in SUBSET Machine
          /\ \A x \in up : x \in RingAt(x)
      BY DEF Types
    <3>3. m \in up /\ new \in up /\ up' = up
      BY <2>1, <2>5
    <3>4. ASSUME NEW x \in Machine PROVE RingAt(x)' \in SUBSET Machine
      <4>1. RingAt(x) \in SUBSET Machine /\ RingAt(m) \in SUBSET Machine
        BY <3>2
      <4>2. QED
        BY <1>0, <3>1, <3>3, <4>1
    <3>5. ASSUME NEW x \in up' PROVE x \in RingAt(x)'
      <4>1. x \in Machine /\ (x \in up => x \in RingAt(x)) /\ m \in Machine
        BY <1>0, <3>2, <3>3
      <4>2. QED
        BY <3>1, <3>3, <4>1
    <3>6. QED
      BY <3>4, <3>5
  <2>7. /\ \A x \in Machine : Busy(x)' /\ job'[x].todo # <<>> => job'[x].to # NoHash
        /\ \A x \in Machine \ up' : queue'[x] = <<>> /\ job'[x] = Idle /\ stores'[x] = EmptyStore
    BY <2>4, <2>5 DEF Types, Busy
  <2>8. /\ keyHash' \in Hash /\ scenario' \in Scenario
        /\ up' \in SUBSET Machine /\ up' # {}
        /\ current' \in Value \cup {NoValue}
        /\ joins' \in Nat /\ failures' \in Nat /\ recent' \in 0..2
        /\ job' \in [Machine -> Jobs \cup {Idle, Draining}]
        /\ stores' \in [Machine -> Stores]
    BY <2>5 DEF Types
  <2>9. QED
    BY <2>1, <2>4, <2>6, <2>7, <2>8, Zenon DEF Types
<1>4. ASSUME NEW m \in Machine, NEW lost \in Machine, RemoveFromList(m, lost) PROVE Types'
  <2> DEFINE M == FailureMessages(map[m], m, lost)
  <2>1. /\ m \in up /\ lost \in RingAt(m) \ up
        /\ map' = [x \in Machine |-> View(RingAt(x)')]
        /\ \A x \in Machine : RingAt(x)' = IF x = m THEN RingAt(m) \ {lost} ELSE RingAt(x)
        /\ queue' = [queue EXCEPT ![m] = @ \o M]
        /\ UNCHANGED <<fixed, current, up, job, stores, membership>>
    BY <1>4, RemoveFromListMeans
  <2>2. M \in Seq(Work)
    BY <2>1, FailureWork
  <2> HIDE DEF M
  <2>3. queue[m] \o M \in Seq(Work)
    BY <1>0, <2>2, ElementsOfBoth
  <2>4. queue' \in [Machine -> Seq(Work)] /\ \A x \in Machine \ up : queue'[x] = queue[x]
    BY <1>0, <2>1, <2>3
  <2>5. /\ keyHash' = keyHash /\ scenario' = scenario /\ up' = up /\ current' = current
        /\ joins' = joins /\ failures' = failures /\ recent' = recent
        /\ job' = job /\ stores' = stores
    BY <2>1 DEF fixed, membership
  <2>6. /\ \A x \in Machine : RingAt(x)' \in SUBSET Machine
        /\ \A x \in up' : x \in RingAt(x)'
    <3>1. \A x \in Machine : RingAt(x)' = IF x = m THEN RingAt(m) \ {lost} ELSE RingAt(x)
      BY <2>1
    <3>2. /\ \A x \in Machine : RingAt(x) \in SUBSET Machine
          /\ \A x \in up : x \in RingAt(x)
      BY DEF Types
    <3>3. m \in up /\ lost \notin up /\ up' = up
      BY <2>1, <2>5
    <3>4. ASSUME NEW x \in Machine PROVE RingAt(x)' \in SUBSET Machine
      <4>1. RingAt(x) \in SUBSET Machine /\ RingAt(m) \in SUBSET Machine
        BY <3>2
      <4>2. QED
        BY <1>0, <3>1, <3>3, <4>1
    <3>5. ASSUME NEW x \in up' PROVE x \in RingAt(x)'
      <4>1. x \in Machine /\ (x \in up => x \in RingAt(x)) /\ m \in Machine
        BY <1>0, <3>2, <3>3
      <4>2. QED
        BY <3>1, <3>3, <4>1
    <3>6. QED
      BY <3>4, <3>5
  <2>7. /\ \A x \in Machine : Busy(x)' /\ job'[x].todo # <<>> => job'[x].to # NoHash
        /\ \A x \in Machine \ up' : queue'[x] = <<>> /\ job'[x] = Idle /\ stores'[x] = EmptyStore
    BY <2>4, <2>5 DEF Types, Busy
  <2>8. /\ keyHash' \in Hash /\ scenario' \in Scenario
        /\ up' \in SUBSET Machine /\ up' # {}
        /\ current' \in Value \cup {NoValue}
        /\ joins' \in Nat /\ failures' \in Nat /\ recent' \in 0..2
        /\ job' \in [Machine -> Jobs \cup {Idle, Draining}]
        /\ stores' \in [Machine -> Stores]
    BY <2>5 DEF Types
  <2>9. QED
    BY <2>1, <2>4, <2>6, <2>7, <2>8, Zenon DEF Types
<1>5. ASSUME NEW m \in Machine, JoinEventAsPredecessor(m) PROVE Types'
  <2>1. /\ Pop(m, "join", "predecessor")
        /\ \E msg, to, todo, later : JobBecomes(m, msg, to, todo, later)
        /\ stores' = stores
    BY <1>5, JoinEventAsPredecessorMeans
  <2>2. /\ m \in up /\ UNCHANGED <<fixed, up, map, current, membership>>
        /\ queue' \in [Machine -> Seq(Work)] /\ \A x \in Machine \ {m} : queue'[x] = queue[x]
    BY <2>1, PopMeans
  <2>3. stores' \in [Machine -> Stores] /\ \A x \in Machine \ up : stores'[x] = stores[x]
    BY <1>0, <2>1, <2>2
  <2>4. QED
    BY <2>1, <2>2, <2>3, TypesKeptByThread, Zenon
<1>6. ASSUME NEW m \in Machine, JoinEventAsSuccessor(m) PROVE Types'
  <2>1. /\ Pop(m, "join", "successor")
        /\ \E msg, to, todo, later : JobBecomes(m, msg, to, todo, later)
        /\ stores' = stores \/ stores' = [stores EXCEPT ![m] = EmptyStore]
    BY <1>6, JoinEventAsSuccessorMeans
  <2>2. m \in up
    BY <2>1, PopMeans
  <2>3. stores' \in [Machine -> Stores] /\ \A x \in Machine \ up : stores'[x] = stores[x]
    BY <1>0, <2>1, <2>2, EmptyStoreIs
  <2>4. /\ UNCHANGED <<fixed, up, map, current, membership>>
        /\ queue' \in [Machine -> Seq(Work)] /\ \A x \in Machine \ {m} : queue'[x] = queue[x]
    BY <2>1, PopMeans
  <2>5. QED
    BY <2>1, <2>2, <2>3, <2>4, TypesKeptByThread, Zenon
<1>7. ASSUME NEW m \in Machine, FailureEventAsPredecessor(m) PROVE Types'
  <2>1. /\ Pop(m, "failure", "predecessor")
        /\ \E msg, to, todo, later : JobBecomes(m, msg, to, todo, later)
        /\ stores' = stores
    BY <1>7, FailureEventAsPredecessorMeans
  <2>2. /\ m \in up /\ UNCHANGED <<fixed, up, map, current, membership>>
        /\ queue' \in [Machine -> Seq(Work)] /\ \A x \in Machine \ {m} : queue'[x] = queue[x]
    BY <2>1, PopMeans
  <2>3. stores' \in [Machine -> Stores] /\ \A x \in Machine \ up : stores'[x] = stores[x]
    BY <1>0, <2>1, <2>2
  <2>4. QED
    BY <2>1, <2>2, <2>3, TypesKeptByThread, Zenon
<1>8. ASSUME NEW m \in Machine, FailureEventAsSuccessor(m) PROVE Types'
  <2>1. /\ Pop(m, "failure", "successor")
        /\ \E msg, to, todo, later : JobBecomes(m, msg, to, todo, later)
        /\ stores' \in [Machine -> Stores] /\ \A x \in Machine \ {m} : stores'[x] = stores[x]
    BY <1>8, FailureEventAsSuccessorMeans
  <2>2. /\ m \in up /\ UNCHANGED <<fixed, up, map, current, membership>>
        /\ queue' \in [Machine -> Seq(Work)] /\ \A x \in Machine \ {m} : queue'[x] = queue[x]
    BY <2>1, PopMeans
  <2>3. stores' \in [Machine -> Stores] /\ \A x \in Machine \ up : stores'[x] = stores[x]
    BY <1>0, <2>1, <2>2
  <2>4. QED
    BY <2>1, <2>2, <2>3, TypesKeptByThread, Zenon
<1>9. ASSUME NEW m \in Machine, SendCommand(m) PROVE Types'
  <2> DEFINE c == Head(job[m].todo)
  <2>1. /\ m \in up /\ c \in Commands /\ job[m].to \in Machine
        /\ \E msg, to, todo, later : JobBecomes(m, msg, to, todo, later)
        /\ stores' = IF job[m].to \in up THEN Executed(job[m].to, c) ELSE stores
        /\ UNCHANGED <<fixed, current, up, map, queue, membership>>
    BY <1>9, SendCommandMeans
  <2> HIDE DEF c
  <2>2. stores' \in [Machine -> Stores] /\ \A x \in Machine \ up : stores'[x] = stores[x]
    <3>1. PICK E : E = Executed(job[m].to, c)
      OBVIOUS
    <3>2. PICK to \in Machine : to = job[m].to
      BY <2>1
    <3>3. E = Executed(to, c)
      BY <3>1, <3>2
    <3>4. /\ c.op \in {"fdelete", "finsert", "insert", "replicate"}
          /\ E \in [Machine -> Stores] /\ Effect(to, c, E)
      <4>1. c \in Commands /\ stores \in [Machine -> Stores]
        BY <1>0, <2>1
      <4>2. QED
        BY <3>3, <4>1, ExecutedMeans
    <3>5. \A x \in Machine : x # to /\ x \notin up => E[x] = stores[x]
      BY <3>4 DEF Effect, Passes
    <3>6. QED
      BY <1>0, <2>1, <3>1, <3>2, <3>4, <3>5
  <2>3. QED
    BY <1>0, <2>1, <2>2, TypesKeptByThread
<1>10. ASSUME NEW m \in Machine, ContactSecondReplica(m) PROVE Types'
  <2>1. /\ m \in up
        /\ \E msg, to, todo, later : JobBecomes(m, msg, to, todo, later)
        /\ UNCHANGED <<fixed, current, up, map, queue, stores, membership>>
    BY <1>10, ContactSecondReplicaMeans
  <2>2. QED
    BY <1>0, <2>1, TypesKeptByThread
<1>11. ASSUME NEW m \in Machine, Return(m) PROVE Types'
  <2>1. /\ m \in up
        /\ job' \in [Machine -> Jobs \cup {Idle, Draining}]
        /\ job'[m] \in {Idle, Draining} /\ \A x \in Machine \ {m} : job'[x] = job[x]
        /\ stores' = stores \/ stores' = [stores EXCEPT ![m] = EmptyStore]
        /\ UNCHANGED <<fixed, current, up, map, queue, membership>>
    BY <1>11, ReturnMeans
  <2>2. stores' \in [Machine -> Stores] /\ \A x \in Machine \ up : stores'[x] = stores[x]
    <3>1. stores \in [Machine -> Stores]
      BY <1>0 DEF Types
    <3>2. stores' = [stores EXCEPT ![m] = EmptyStore] =>
            stores' \in [Machine -> Stores] /\ \A x \in Machine \ {m} : stores'[x] = stores[x]
      BY <3>1, EmptyStoreIs
    <3>3. QED
      BY <2>1, <3>1, <3>2
  <2>3. Idle.at # "working" /\ Draining.at # "working"
    BY DEF Idle, Draining
  <2>4. QED
    BY <1>0, <2>1, <2>2, <2>3, TypesKept
<1>12. ASSUME NEW c \in Question, ClientCommand(c) PROVE Types'
  <2>1. /\ stores' \in [Machine -> Stores]
        /\ \A x \in Machine \ up : stores'[x] = stores[x]
        /\ current' = IF Holds(Owner)' THEN stores'[Owner][k].value ELSE NoValue
        /\ keyHash' = keyHash /\ up' = up
        /\ UNCHANGED <<fixed, up, map, queue, job, membership>>
    BY <1>12, ClientCommandMeans DEF fixed
  <2>2. PICK o \in Machine : o = Owner
    BY <1>0, RingsAre
  <2>3. Holds(Owner)' <=> k \in DOMAIN stores'[o]
    BY <2>1, <2>2 DEF Holds, Owner
  <2>4. current' \in Value \cup {NoValue}
    <3>1. stores'[o] \in Stores
      BY <2>1
    <3>2. k \in DOMAIN stores'[o] => stores'[o][k] \in Item
      BY <3>1, StoreIs
    <3>3. QED
      BY <2>1, <2>2, <2>3, <3>2 DEF Item
  <2>5. QED
    BY <1>0, <2>1, <2>4, TypesKept
<1>13. CASE UNCHANGED vars
  BY <1>13 DEF Types, vars, fixed, membership, RingAt, Busy
<1>14. QED
  BY <1>1, <1>2, <1>3, <1>4, <1>5, <1>6, <1>7, <1>8, <1>9, <1>10, <1>11, <1>12, <1>13
     DEF Next, TimerThread

\* The variables hold what they should, and every command has a machine to go to.
THEOREM TypesAlways == Spec => []Types
<1>1. QED
  BY TypesInitially, TypesStep, PTL DEF Spec

\* Every reachable state is well typed: no command is without the value it needs or
\* without a machine to go to, and the stores hold nothing but values.
THEOREM TypeCorrect == Spec => []TypeOK
<1>1. Types => TypeOK
  <2> SUFFICES ASSUME Types PROVE TypeOK
    OBVIOUS
  <2>1. ASSUME NEW m \in up PROVE m \in DOMAIN map[m] /\ map[m] = View(DOMAIN map[m] \cap Machine)
    <3>1. map[m] = View(RingAt(m)) /\ RingAt(m) \in SUBSET Machine /\ m \in RingAt(m)
      BY DEF Types
    <3>2. RingAt(m) \cap Machine = RingAt(m)
      BY <3>1
    <3>3. QED
      BY <3>1, <3>2 DEF RingAt
  <2>2. Address \subseteq IP
    BY DEF Address
  <2>3. Work \subseteq Messages(IP)
    BY <2>2 DEF Work, Messages
  <2>4. ASSUME NEW m \in Machine, NEW i \in DOMAIN queue[m] PROVE queue[m][i] \in Messages(IP)
    BY <2>3 DEF Types
  <2>5. ASSUME NEW todo \in Seq(Commands) PROVE TodoOK(todo)
    <3>1. \A i \in DOMAIN todo : todo[i] \in Commands
      OBVIOUS
    <3>2. QED
      BY <3>1 DEF TodoOK, Commands
  <2>6. ASSUME NEW m \in Machine PROVE JobOK(job[m])
    <3>1. CASE Busy(m)
      <4>1. /\ job[m] \in Jobs /\ job[m].message \in Work /\ job[m].to \in Machine \cup {NoHash}
            /\ job[m].todo \in Seq(Commands) /\ job[m].later \in Seq(Commands)
            /\ job[m].todo # <<>> => job[m].to # NoHash
        BY <3>1, JobIs DEF Types
      <4>2. QED
        BY <2>3, <2>5, <3>1, <4>1 DEF JobOK, Busy
    <3>2. CASE ~Busy(m)
      BY <3>2, JobIs DEF Types, JobOK
    <3>3. QED
      BY <3>1, <3>2
  <2>7. ASSUME NEW m \in Machine, Holds(m) PROVE DOMAIN stores[m] = {k} /\ stores[m][k] \in Item
    BY <2>7, StoreIs DEF Types, Holds
  <2>8. QED
    BY <2>1, <2>4, <2>6, <2>7 DEF TypeOK, Types
<1>2. QED
  BY <1>1, TypesAlways, PTL


--------------------------------------------------------------------------------
(* Who takes himself for the owner                                              *)

\* What Owner, and what the messages mean, changes with the machines only.
LEMMA SameMeaning ==
    ASSUME keyHash' = keyHash
    PROVE  /\ up' = up => Owner' = Owner
           /\ \A msg : HandsOver(msg)' = HandsOver(msg) /\ Inherits(msg)' = Inherits(msg)
BY DEF Owner, HandsOver, Inherits

\* A step of the thread of m that makes nobody but the owner an owner, and leaves the
\* queue to a machine that takes itself for the owner and is not.
ThreadStep(m) ==
    /\ UNCHANGED <<fixed, up, map, membership>>
    /\ \A x \in up : ToSet(queue'[x]) \subseteq ToSet(queue[x])
    /\ \A x \in up : queue[x] = <<>> => queue'[x] = <<>>
    /\ \A x \in up \ {m} : queue'[x] = queue[x] /\ job'[x] = job[x]
    /\ \A x \in up : Owns(x)' => Owns(x) \/ x = Owner

LEMMA JoiningKept ==
    ASSUME Types, NEW new \in up, Joining(new), NEW m \in up, ThreadStep(m),
           Owns(m)' /\ m # Owner => queue'[m] = queue[m],
           JoinJob(m)'
    PROVE  Joining(new)'
<1>1. /\ keyHash' = keyHash /\ up' = up /\ Owner' = Owner
      /\ \A msg : HandsOver(msg)' = HandsOver(msg)
      /\ \A x : RingAt(x)' = RingAt(x)
  BY SameMeaning DEF ThreadStep, fixed, RingAt
<1>2. ASSUME NEW x \in up PROVE RingAt(x)' \subseteq up' /\ JoinJob(x)'
  <2>1. RingAt(x) \subseteq up /\ JoinJob(x)
    BY DEF Joining
  <2>2. CASE x = m
    BY <1>1, <2>1, <2>2
  <2>3. CASE x # m
    <3>1. job'[x] = job[x]
      BY <2>3 DEF ThreadStep
    <3>2. JoinJob(x)'
      BY <1>1, <2>1, <3>1 DEF JoinJob, Busy
    <3>3. QED
      BY <1>1, <2>1, <3>2
  <2>4. QED
    BY <2>2, <2>3
<1>3. \A x \in up : \A msg \in ToSet(queue[x])' : msg.reason = "join"
  BY DEF ThreadStep, Joining
<1>4. ASSUME NEW x \in up \ {new} PROVE Old(x, new)'
  <2>1. Old(x, new)
    BY DEF Joining
  <2>2. ToSet(queue[x])' \subseteq ToSet(queue[x]) /\ (x # m => queue'[x] = queue[x])
    BY DEF ThreadStep
  <2>3. RingAt(x)' \in {up', up' \ {new}}
    BY <1>1, <2>1 DEF Old
  <2>4. new \notin RingAt(x)' => queue'[x] = <<>>
    <3> SUFFICES ASSUME new \notin RingAt(x) PROVE queue'[x] = <<>>
      BY <1>1
    <3>1. queue[x] = <<>>
      BY <2>1 DEF Old
    <3>2. QED
      BY <3>1 DEF ThreadStep
  <2>5. ASSUME NEW msg \in ToSet(queue'[x])
        PROVE  /\ msg.newMember = new
               /\ msg.role = "successor" => (HandsOver(msg)' <=> Owner' = new)
    <3>1. msg \in ToSet(queue[x])
      BY <2>2
    <3>2. /\ msg.newMember = new
          /\ msg.role = "successor" => (HandsOver(msg) <=> Owner = new)
      BY <2>1, <3>1 DEF Old
    <3>3. QED
      BY <1>1, <3>2
  <2>6. ASSUME Owns(x)', x # Owner
        PROVE  /\ Owner' = new /\ OwnerHash(up' \ {new}, keyHash') = x
               /\ new \in RingAt(x)' => queue'[x] # <<>> /\ Head(queue'[x]).role = "successor"
    <3>1. Owns(x)
      BY <2>6 DEF ThreadStep
    <3>2. queue'[x] = queue[x]
      BY <2>2, <2>6
    <3>3. /\ Owner = new /\ OwnerHash(up \ {new}, keyHash) = x
          /\ new \in RingAt(x) => queue[x] # <<>> /\ Head(queue[x]).role = "successor"
      BY <2>1, <2>6, <3>1 DEF Old
    <3>4. QED
      BY <1>1, <3>2, <3>3
  <2>7. x # Owner' <=> x # Owner
    BY <1>1
  <2>8. QED
    BY <2>3, <2>4, <2>5, <2>6, <2>7, Zenon DEF Old
<1>5. New(new)'
  <2>1. New(new) /\ (Owns(new)' => Owns(new) \/ new = Owner)
    BY DEF Joining, ThreadStep
  <2>2. Owns(new)' => Owner' = new
    BY <1>1, <2>1 DEF New
  <2>3. ASSUME NEW msg \in ToSet(queue'[new])
        PROVE  msg.newMember \in up' \ {new} /\ (HandsOver(msg)' => Owner' # new)
    <3>1. msg \in ToSet(queue[new])
      BY DEF ThreadStep
    <3>2. msg.newMember \in up \ {new} /\ (HandsOver(msg) => Owner # new)
      BY <2>1, <3>1 DEF New
    <3>3. QED
      BY <1>1, <3>2
  <2>4. QED
    BY <2>2, <2>3, Zenon DEF New
<1>6. QED
  BY <1>1, <1>2, <1>3, <1>4, <1>5, Zenon DEF Joining

LEMMA FailingKept ==
    ASSUME Types, \A x \in up : Failing(x), NEW m \in up, ThreadStep(m),
           Busy(m)' => (Ops(job[m].todo) \cup Ops(job[m].later))' \subseteq {"fdelete", "finsert"}
    PROVE  \A x \in up' : Failing(x)'
<1>1. /\ keyHash' = keyHash /\ up' = up /\ Owner' = Owner
      /\ \A msg : Inherits(msg)' = Inherits(msg)
      /\ \A x : RingAt(x)' = RingAt(x)
  BY SameMeaning DEF ThreadStep, fixed, RingAt
<1>2. ASSUME NEW x \in up PROVE Failing(x)'
  <2>1. Failing(x)
    OBVIOUS
  <2>2. up' \subseteq RingAt(x)' /\ (Owns(x)' => x = Owner')
    BY <1>1, <2>1 DEF Failing, ThreadStep
  <2>3. ASSUME NEW msg \in ToSet(queue'[x])
        PROVE  msg.reason = "failure" /\ (Inherits(msg)' => x = Owner')
    <3>1. msg \in ToSet(queue[x])
      BY DEF ThreadStep
    <3>2. msg.reason = "failure" /\ (Inherits(msg) => x = Owner)
      BY <2>1, <3>1 DEF Failing
    <3>3. QED
      BY <1>1, <3>2
  <2>4. Busy(x)' => Ops(job'[x].todo) \cup Ops(job'[x].later) \subseteq {"fdelete", "finsert"}
    <3>1. CASE x = m
      BY <3>1 DEF Ops
    <3>2. CASE x # m
      <4>1. job'[x] = job[x]
        BY <3>2 DEF ThreadStep
      <4>2. QED
        BY <2>1, <4>1 DEF Failing, Busy
    <3>3. QED
      BY <3>1, <3>2
  <2>5. QED
    BY <2>2, <2>3, <2>4, Zenon DEF Failing, Ops
<1>3. QED
  BY <1>1, <1>2

\* A machine that takes itself for the owner and is not is about to hand over the key.
LEMMA StaleOwner ==
    ASSUME Types, NEW new \in up, Joining(new), NEW m \in up,
           Owns(m), m # Owner, queue[m] # <<>>
    PROVE  LET msg == Head(queue[m])
           IN  /\ m # new /\ Owner = new /\ msg.role = "successor" /\ msg.newMember = new
               /\ HandsOver(msg) /\ RingAt(m) = up /\ Predecessor(up, m) = new
<1>1. New(new) /\ m # new
  BY DEF Joining, New
<1>2. Old(m, new)
  BY <1>1 DEF Joining
<1>3. queue[m] \in Seq(Work) /\ keyHash \in Hash /\ up \in SUBSET Hash
  BY RingsAre DEF Types
<1>4. Head(queue[m]) \in ToSet(queue[m])
  BY <1>3, Elements
<1>5. RingAt(m) \in {up, up \ {new}} /\ (new \notin RingAt(m) => queue[m] = <<>>)
  BY <1>2 DEF Old
<1>6. RingAt(m) = up
  BY <1>5
<1>7. Owner = new /\ OwnerHash(up \ {new}, keyHash) = m /\ Head(queue[m]).role = "successor"
  BY <1>2, <1>6 DEF Old
<1>8. Head(queue[m]).newMember = new /\ HandsOver(Head(queue[m]))
  BY <1>2, <1>4, <1>7 DEF Old
<1>9. Predecessor(up, m) = new
  <2>1. PICK small \in SUBSET Hash : small = up \ {new}
    BY <1>3
  <2>2. new \in Hash \ small /\ m \in small /\ small \cup {new} = up
    BY <1>1, <1>3, <2>1
  <2>3. OwnerHash(small, keyHash) = m /\ OwnerHash(small \cup {new}, keyHash) = new
    BY <1>7, <2>1, <2>2 DEF Owner
  <2>4. Predecessor(small \cup {new}, m) = new
    BY <1>3, <2>2, <2>3, OwnedRangeMoves
  <2>5. QED
    BY <2>2, <2>4
<1>10. QED
  BY <1>1, <1>6, <1>7, <1>8, <1>9

\* What is handed over goes to the owner, from another machine.
LEMMA HandedToOwner ==
    ASSUME Types, NEW new \in up, Joining(new), NEW m \in up, queue[m] # <<>>,
           Head(queue[m]).role = "successor", Moves(m, Head(queue[m]))
    PROVE  Head(queue[m]).newMember = Owner /\ m # Owner
<1>1. Head(queue[m]) \in ToSet(queue[m])
  BY Elements DEF Types
<1>2. HandsOver(Head(queue[m])) /\ Owns(m)
  BY DEF Moves, HandsOver
<1>3. m # new
  BY <1>1, <1>2 DEF Joining, New
<1>4. QED
  BY <1>1, <1>2, <1>3 DEF Joining, Old

LEMMA JoinJobBecomes ==
    ASSUME Types, NEW m \in Machine, NEW msg, NEW to, NEW todo, NEW later,
           JobBecomes(m, msg, to, todo, later), Owner' = Owner,
           msg.reason = "join",
           Ops(todo) \cap {"replicate", "insert"} # {} => to = Owner,
           Ops(later) \subseteq {"fdelete"}
    PROVE  JoinJob(m)'
BY JobBecomesMeans DEF JoinJob, Ops

LEMMA PopIsThreadStep ==
    ASSUME Types, NEW m \in Machine, NEW reason, NEW role, Pop(m, reason, role),
           NEW msg, NEW to, NEW todo, NEW later, JobBecomes(m, msg, to, todo, later),
           \A x \in up : Owns(x)' => Owns(x) \/ x = Owner
    PROVE  ThreadStep(m) /\ Owner' = Owner
<1>1. /\ m \in up /\ queue[m] # <<>>
      /\ \A x \in Machine : /\ ToSet(queue'[x]) \subseteq ToSet(queue[x])
                            /\ x # m => queue'[x] = queue[x]
      /\ UNCHANGED <<fixed, up, map, membership>>
  BY PopMeans
<1>2. \A x \in Machine \ {m} : job'[x] = job[x]
  BY JobBecomesMeans
<1>3. up \in SUBSET Machine
  BY DEF Types
<1>4. Owner' = Owner
  BY <1>1, SameMeaning DEF fixed
<1>5. QED
  BY <1>1, <1>2, <1>3, <1>4 DEF ThreadStep

\* A message is of the kind of the phase.
LEMMA MessageOfPhase ==
    ASSUME Types, Phase, NEW m \in up, queue[m] # <<>>
    PROVE  /\ Head(queue[m]).reason = "join" => recent = 0 /\ \E new \in up : Joining(new)
           /\ Head(queue[m]).reason = "failure" =>
                recent # 0 /\ (\A x \in up : Failing(x))
                /\ (Inherits(Head(queue[m])) => m = Owner)
<1>1. Head(queue[m]) \in ToSet(queue[m])
  BY Elements DEF Types
<1>2. ASSUME NEW new \in up, Joining(new) PROVE Head(queue[m]).reason = "join"
  BY <1>1, <1>2 DEF Joining
<1>3. ASSUME Failing(m) PROVE Head(queue[m]).reason = "failure"
                              /\ (Inherits(Head(queue[m])) => m = Owner)
  BY <1>1, <1>3 DEF Failing
<1>4. QED
  BY <1>2, <1>3 DEF Phase

\* What a store has after a step, and who takes himself for the owner
LEMMA EmptiedOwns ==
    ASSUME Types, NEW m \in Machine, stores' = [stores EXCEPT ![m] = EmptyStore]
    PROVE  ~Owns(m)' /\ \A x \in Machine : Owns(x)' => Owns(x)
<1>1. \A x \in Machine : stores'[x] = IF x = m THEN EmptyStore ELSE stores[x]
  BY DEF Types
<1>2. QED
  BY <1>1, EmptyStoreIs DEF Owns, Holds

\* Only the insert of a transfer makes an owner.
LEMMA SendOwns ==
    ASSUME Types, NEW m \in Machine, SendCommand(m)
    PROVE  \A x \in Machine :
               Owns(x)' => Owns(x) \/ (Head(job[m].todo).op = "insert" /\ x = job[m].to)
<1> DEFINE c == Head(job[m].todo)
<1>1. /\ c \in Commands /\ job[m].to \in Machine
      /\ stores' = IF job[m].to \in up THEN Executed(job[m].to, c) ELSE stores
  BY SendCommandMeans
<1> HIDE DEF c
<1>2. CASE stores' = stores
  BY <1>2 DEF Owns, Holds
<1>3. CASE stores' = Executed(job[m].to, c)
  <2>1. PICK to \in Machine : to = job[m].to
    BY <1>1
  <2>2. PICK E : E = Executed(to, c)
    OBVIOUS
  <2>3. stores \in [Machine -> Stores]
    BY DEF Types
  <2>4. c.op \in {"fdelete", "finsert", "insert", "replicate"} /\ Effect(to, c, E)
    BY <1>1, <2>2, <2>3, ExecutedMeans
  <2>5. stores' = E
    BY <1>3, <2>1, <2>2
  <2>6. ASSUME NEW x \in Machine
        PROVE  \/ E[x] = stores[x] \/ E[x] = EmptyStore \/ E[x] = Single(c.value, FALSE)
               \/ c.op = "insert" /\ x = to
    BY <2>4 DEF Effect
  <2>7. Single(c.value, FALSE)[k].owner = FALSE
    BY DEF Single, MakeItem
  <2>8. DOMAIN EmptyStore = {}
    BY EmptyStoreIs
  <2>9. ASSUME NEW x \in Machine, Owns(x)' PROVE Owns(x) \/ (c.op = "insert" /\ x = to)
    <3>1. k \in DOMAIN E[x] /\ E[x][k].owner
      BY <2>5, <2>9 DEF Owns, Holds
    <3>2. CASE E[x] = stores[x]
      BY <3>1, <3>2 DEF Owns, Holds
    <3>3. QED
      BY <2>6, <2>7, <2>8, <3>1, <3>2
  <2>10. QED
    BY <2>1, <2>9 DEF c
<1>4. QED
  BY <1>1, <1>2, <1>3


\* The phase, kept by a step of a thread.
LEMMA PhaseKept ==
    ASSUME Types, Phase, NEW m \in up, ThreadStep(m),
           \A new \in up : recent = 0 /\ Joining(new) =>
               JoinJob(m)' /\ (Owns(m)' /\ m # Owner => queue'[m] = queue[m]),
           recent # 0 /\ (\A x \in up : Failing(x)) /\ Busy(m)' =>
               (Ops(job[m].todo) \cup Ops(job[m].later))' \subseteq {"fdelete", "finsert"}
    PROVE  Phase'
<1>1. up' = up /\ recent' = recent
  BY DEF ThreadStep, membership
<1>2. ASSUME NEW new \in up, recent = 0, Joining(new) PROVE Joining(new)'
  BY <1>2, JoiningKept
<1>3. recent # 0 /\ (\A x \in up : Failing(x)) => \A x \in up' : Failing(x)'
  <2> SUFFICES ASSUME recent # 0, \A x \in up : Failing(x) PROVE \A x \in up' : Failing(x)'
    OBVIOUS
  <2>1. QED
    BY FailingKept, Zenon
<1>4. CASE recent = 0 /\ \E new \in up : Joining(new)
  BY <1>1, <1>2, <1>4, Zenon DEF Phase
<1>5. CASE recent # 0 /\ \A x \in up : Failing(x)
  BY <1>1, <1>3, <1>5, Zenon DEF Phase
<1>6. QED
  BY <1>4, <1>5, Zenon DEF Phase

LEMMA PhaseJoinAsPredecessor ==
    ASSUME Types, Phase, NEW m \in Machine, JoinEventAsPredecessor(m)
    PROVE  Phase'
<1> DEFINE msg == Head(queue[m])
           todo == IF Owns(m) THEN Replicate(m) ELSE <<>>
<1>1. /\ Pop(m, "join", "predecessor") /\ stores' = stores
      /\ JobBecomes(m, msg, msg.newMember, todo, <<>>)
  BY JoinEventAsPredecessorMeans
<1>2. /\ m \in up /\ queue[m] # <<>> /\ msg.reason = "join" /\ msg.role = "predecessor"
  BY <1>1, PopMeans
<1>3. \A x : Owns(x)' <=> Owns(x)
  BY <1>1 DEF Owns, Holds
<1>4. Ops(todo) \subseteq {"fdelete", "finsert"} /\ Ops(<<>>) = {}
  BY CommandsAre, OpsOfFew DEF Owns
<1> HIDE DEF msg, todo
<1>5. ThreadStep(m) /\ Owner' = Owner
  BY <1>1, <1>3, PopIsThreadStep
<1>6. JoinJob(m)'
  BY <1>1, <1>2, <1>4, <1>5, JoinJobBecomes
<1>7. ASSUME NEW new \in up, Joining(new) PROVE ~(Owns(m) /\ m # Owner)
  BY <1>2, <1>7, StaleOwner DEF msg
<1>8. ~(\A x \in up : Failing(x))
  <2>1. msg \in ToSet(queue[m])
    BY <1>2, Elements DEF Types, msg
  <2>2. Failing(m) => msg.reason = "failure"
    BY <2>1 DEF Failing
  <2>3. QED
    BY <1>2, <2>2
<1>9. QED
  BY <1>2, <1>3, <1>5, <1>6, <1>7, <1>8, PhaseKept

LEMMA PhaseJoinAsSuccessor ==
    ASSUME Types, Phase, NEW m \in Machine, JoinEventAsSuccessor(m)
    PROVE  Phase'
<1> DEFINE msg == Head(queue[m])
<1>1. /\ Pop(m, "join", "successor")
      /\ Moves(m, msg) =>
           /\ JobBecomes(m, msg, msg.newMember, Transfer(m),
                         DeleteCommands(msg.ownedStart, msg.newMember))
           /\ stores' = [stores EXCEPT ![m] = EmptyStore]
      /\ ~Moves(m, msg) =>
           JobBecomes(m, msg, msg.newMember, <<>>, <<>>) /\ stores' = stores
  BY JoinEventAsSuccessorMeans
<1>2. /\ m \in up /\ queue[m] # <<>> /\ msg.reason = "join" /\ msg.role = "successor"
  BY <1>1, PopMeans
<1>3. PICK new \in up : Joining(new)
  BY <1>2, MessageOfPhase
<1>4. ~(\A x \in up : Failing(x))
  <2>1. msg \in ToSet(queue[m])
    BY <1>2, Elements DEF Types
  <2>2. Failing(m) => msg.reason = "failure"
    BY <2>1 DEF Failing
  <2>3. QED
    BY <1>2, <2>2
<1>5. Ops(<<>>) = {} /\ Ops(DeleteCommands(msg.ownedStart, msg.newMember)) \subseteq {"fdelete"}
  BY OpsOfFew, DeleteCommandsAre
<1>6. CASE Moves(m, msg)
  <2>1. msg.newMember = Owner
    BY <1>2, <1>3, <1>6, HandedToOwner
  <2>2. ~Owns(m)' /\ \A x \in Machine : Owns(x)' => Owns(x)
    BY <1>1, <1>6, EmptiedOwns
  <2> HIDE DEF msg
  <2>3. up \in SUBSET Machine
    BY DEF Types
  <2>4. ThreadStep(m) /\ Owner' = Owner
    BY <1>1, <1>6, <2>2, <2>3, PopIsThreadStep
  <2>5. JoinJob(m)'
    BY <1>1, <1>2, <1>5, <1>6, <2>1, <2>4, JoinJobBecomes
  <2>6. QED
    BY <1>2, <1>4, <2>2, <2>4, <2>5, PhaseKept
<1>7. CASE ~Moves(m, msg)
  <2>1. \A x : Owns(x)' <=> Owns(x)
    BY <1>1, <1>7 DEF Owns, Holds
  <2>2. ASSUME NEW other \in up, Joining(other) PROVE ~(Owns(m) /\ m # Owner)
    BY <1>2, <1>7, <2>2, StaleOwner DEF Moves, HandsOver
  <2> HIDE DEF msg
  <2>3. ThreadStep(m) /\ Owner' = Owner
    BY <1>1, <1>7, <2>1, PopIsThreadStep
  <2>4. JoinJob(m)'
    BY <1>1, <1>2, <1>5, <1>7, <2>3, JoinJobBecomes
  <2>5. QED
    BY <1>2, <1>4, <2>1, <2>2, <2>3, <2>4, PhaseKept
<1>8. QED
  BY <1>6, <1>7

LEMMA PhaseFailure ==
    ASSUME Types, Phase, NEW m \in Machine,
           FailureEventAsPredecessor(m) \/ FailureEventAsSuccessor(m)
    PROVE  Phase'
<1> DEFINE msg == Head(queue[m])
<1>1. \E role : Pop(m, "failure", role)
  BY DEF FailureEventAsPredecessor, FailureEventAsSuccessor
<1>2. /\ m \in up /\ queue[m] # <<>> /\ msg.reason = "failure"
  BY <1>1, PopMeans
<1>3. /\ \E to, todo, later : /\ JobBecomes(m, msg, to, todo, later)
                              /\ Ops(todo) \cup Ops(later) \subseteq {"fdelete", "finsert"}
      /\ \A x \in Machine : Owns(x)' => Owns(x) \/ (x = m /\ Inherits(msg))
  <2>1. CASE FailureEventAsPredecessor(m)
    <3>1. Ops(<<>>) = {}
      BY OpsOfFew
    <3>2. \A x \in Machine : Owns(x)' => Owns(x)
      BY <2>1, FailureEventAsPredecessorMeans DEF Owns, Holds
    <3>3. QED
      BY <2>1, <3>1, <3>2, FailureEventAsPredecessorMeans
  <2>2. CASE FailureEventAsSuccessor(m)
    <3>1. \A x \in Machine \ {m} : Owns(x)' => Owns(x)
      BY <2>2, FailureEventAsSuccessorMeans DEF Owns, Holds
    <3>2. QED
      BY <2>2, <3>1, FailureEventAsSuccessorMeans
  <2>3. QED
    BY <2>1, <2>2
<1>4. /\ \A x \in up : Failing(x)
      /\ Inherits(msg) => m = Owner
      /\ ~(\E new \in up : Joining(new))
  <2>1. msg \in ToSet(queue[m])
    BY <1>2, Elements DEF Types
  <2>2. \A new \in up : Joining(new) => msg.reason = "join"
    BY <1>2, <2>1 DEF Joining
  <2>3. QED
    BY <1>2, <2>2, MessageOfPhase
<1> HIDE DEF msg
<1>5. PICK to, todo, later : /\ JobBecomes(m, msg, to, todo, later)
                             /\ Ops(todo) \cup Ops(later) \subseteq {"fdelete", "finsert"}
  BY <1>3
<1>6. \A x \in up : Owns(x)' => Owns(x) \/ x = Owner
  BY <1>3, <1>4 DEF Types
<1>7. ThreadStep(m)
  BY <1>1, <1>5, <1>6, PopIsThreadStep
<1>8. (Ops(job[m].todo) \cup Ops(job[m].later))' \subseteq {"fdelete", "finsert"}
  BY <1>5, JobBecomesMeans DEF Ops
<1>9. QED
  BY <1>2, <1>4, <1>7, <1>8, PhaseKept


LEMMA PhaseSendCommand ==
    ASSUME Types, Phase, NEW m \in Machine, SendCommand(m)
    PROVE  Phase'
<1> DEFINE c == Head(job[m].todo)
<1>1. /\ m \in up /\ Busy(m) /\ job[m].todo # <<>>
      /\ JobBecomes(m, job[m].message, job[m].to, Tail(job[m].todo), job[m].later)
      /\ UNCHANGED <<fixed, current, up, map, queue, membership>>
  BY SendCommandMeans
<1>2. job[m].todo \in Seq(Commands)
  BY <1>1, JobIs DEF Types
<1>3. Ops(job[m].todo) = {c.op} \cup Ops(Tail(job[m].todo))
  BY <1>1, <1>2, OpsLeft
<1>4. \A x \in Machine : Owns(x)' => Owns(x) \/ (c.op = "insert" /\ x = job[m].to)
  BY SendOwns
<1> HIDE DEF c
<1>5. \A x \in Machine \ {m} : job'[x] = job[x]
  BY <1>1, JobBecomesMeans
<1>6. up \in SUBSET Machine /\ Owner' = Owner
  BY <1>1, SameMeaning DEF Types, fixed
<1>7. CASE recent = 0
  <2>1. \E new \in up : Joining(new)
    BY <1>7 DEF Phase
  <2>2. JoinJob(m)
    BY <1>1, <2>1 DEF Joining
  <2>3. /\ job[m].message.reason = "join"
        /\ Ops(job[m].todo) \cap {"replicate", "insert"} # {} => job[m].to = Owner
        /\ Ops(job[m].later) \subseteq {"fdelete"}
    BY <1>1, <2>2 DEF JoinJob
  <2>4. \A x \in up : Owns(x)' => Owns(x) \/ x = Owner
    BY <1>3, <1>4, <1>6, <2>3
  <2>5. JoinJob(m)'
    BY <1>1, <1>3, <1>6, <2>3, JoinJobBecomes
  <2>6. ThreadStep(m)
    BY <1>1, <1>5, <1>6, <2>4 DEF ThreadStep
  <2>7. QED
    BY <1>1, <1>7, <2>5, <2>6, PhaseKept
<1>8. CASE recent # 0
  <2>1. \A x \in up : Failing(x)
    BY <1>8 DEF Phase
  <2>2. Ops(job[m].todo) \cup Ops(job[m].later) \subseteq {"fdelete", "finsert"}
    BY <1>1, <2>1 DEF Failing
  <2>3. (Ops(job[m].todo) \cup Ops(job[m].later))' \subseteq {"fdelete", "finsert"}
    BY <1>1, <1>3, <2>2, JobBecomesMeans DEF Ops
  <2>4. \A x \in up : Owns(x)' => Owns(x)
    BY <1>3, <1>4, <1>6, <2>2
  <2>5. ThreadStep(m)
    BY <1>1, <1>5, <1>6, <2>4 DEF ThreadStep
  <2>6. QED
    BY <1>1, <1>8, <2>3, <2>5, PhaseKept
<1>9. QED
  BY <1>7, <1>8

LEMMA PhaseContactSecondReplica ==
    ASSUME Types, Phase, NEW m \in Machine, ContactSecondReplica(m)
    PROVE  Phase'
<1> DEFINE second == SecondReplica(m)
           todo   == IF /\ job[m].message.reason = "join" => DeletingRequired(m)
                        /\ second # NoHash
                     THEN job[m].later ELSE <<>>
<1>1. /\ m \in up /\ Busy(m)
      /\ JobBecomes(m, job[m].message, second, todo, <<>>)
      /\ UNCHANGED <<fixed, current, up, map, queue, stores, membership>>
  BY ContactSecondReplicaMeans
<1>2. Ops(todo) \subseteq Ops(job[m].later) /\ Ops(<<>>) = {}
  BY OpsOfFew
<1> HIDE DEF second, todo
<1>3. \A x \in Machine \ {m} : job'[x] = job[x]
  BY <1>1, JobBecomesMeans
<1>4. up \in SUBSET Machine /\ Owner' = Owner
  BY <1>1, SameMeaning DEF Types, fixed
<1>5. \A x : Owns(x)' <=> Owns(x)
  BY <1>1 DEF Owns, Holds
<1>6. ThreadStep(m)
  BY <1>1, <1>3, <1>4, <1>5 DEF ThreadStep
<1>7. ASSUME NEW new \in up, Joining(new) PROVE JoinJob(m)'
  <2>1. JoinJob(m)
    BY <1>1, <1>7 DEF Joining
  <2>2. job[m].message.reason = "join" /\ Ops(job[m].later) \subseteq {"fdelete"}
    BY <1>1, <2>1 DEF JoinJob
  <2>3. Ops(todo) \cap {"replicate", "insert"} = {}
    BY <1>2, <2>2
  <2>4. QED
    BY <1>1, <1>2, <1>4, <2>2, <2>3, JoinJobBecomes
<1>8. ASSUME \A x \in up : Failing(x)
      PROVE  (Ops(job[m].todo) \cup Ops(job[m].later))' \subseteq {"fdelete", "finsert"}
  <2>1. Ops(job[m].todo) \cup Ops(job[m].later) \subseteq {"fdelete", "finsert"}
    BY <1>1, <1>8 DEF Failing
  <2>2. job'[m].todo = todo /\ job'[m].later = <<>>
    BY <1>1, JobBecomesMeans
  <2>3. (Ops(job[m].todo) \cup Ops(job[m].later))' = Ops(todo) \cup Ops(<<>>)
    BY <2>2 DEF Ops
  <2>4. QED
    BY <1>2, <2>1, <2>3
<1>9. QED
  BY <1>1, <1>6, <1>7, <1>8, PhaseKept

LEMMA PhaseReturn ==
    ASSUME Types, Phase, NEW m \in Machine, Return(m)
    PROVE  Phase'
<1>1. /\ m \in up
      /\ job'[m] \in {Idle, Draining} /\ \A x \in Machine \ {m} : job'[x] = job[x]
      /\ \/ stores' = stores
         \/ stores' = [stores EXCEPT ![m] = EmptyStore]
      /\ UNCHANGED <<fixed, current, up, map, queue, membership>>
  BY ReturnMeans
<1>2. ~Busy(m)'
  BY <1>1 DEF Busy, Idle, Draining
<1>3. \A x \in Machine : Owns(x)' => Owns(x)
  <2>1. stores' = stores => \A x \in Machine : Owns(x)' => Owns(x)
    BY DEF Owns, Holds
  <2>2. QED
    BY <1>1, <2>1, EmptiedOwns
<1>4. ThreadStep(m)
  BY <1>1, <1>3 DEF ThreadStep, Types
<1>5. JoinJob(m)'
  BY <1>2 DEF JoinJob
<1>6. queue' = queue
  BY <1>1
<1>7. QED
  BY <1>1, <1>2, <1>4, <1>5, <1>6, PhaseKept

\* A command of a client, and no step at all
LEMMA PhaseKeptByOthers ==
    ASSUME Types, Phase,
           UNCHANGED <<fixed, up, map, queue, job, membership>>,
           \A x \in Machine : Owns(x)' => Owns(x) \/ x = Owner
    PROVE  Phase'
<1>1. Owner \in up /\ up \in SUBSET Machine
  BY RingsAre DEF Types
<1>2. PICK m \in up : m = Owner
  BY <1>1
<1>3. ThreadStep(m)
  BY <1>1 DEF ThreadStep
<1>4. Owner' = Owner
  BY SameMeaning DEF fixed
<1>5. ASSUME NEW new \in up, Joining(new) PROVE JoinJob(m)'
  BY <1>4, <1>5 DEF Joining, JoinJob, Busy
<1>6. ASSUME \A x \in up : Failing(x), Busy(m)'
      PROVE  (Ops(job[m].todo) \cup Ops(job[m].later))' \subseteq {"fdelete", "finsert"}
  <2>1. job'[m] = job[m] /\ Busy(m)
    BY <1>6 DEF Busy
  <2>2. Ops(job[m].todo) \cup Ops(job[m].later) \subseteq {"fdelete", "finsert"}
    BY <1>6, <2>1 DEF Failing
  <2>3. QED
    BY <2>1, <2>2 DEF Ops
<1>7. QED
  BY <1>2, <1>3, <1>5, <1>6, PhaseKept

\* What a machine is to the others, when they hear or lose somebody and it does not
LEMMA OldKept ==
    ASSUME NEW x, NEW new, Old(x, new), keyHash' = keyHash, up' = up,
           RingAt(x)' = RingAt(x), queue'[x] = queue[x], stores'[x] = stores[x]
    PROVE  Old(x, new)'
<1>1. Owner' = Owner /\ \A msg : HandsOver(msg)' = HandsOver(msg)
  BY SameMeaning
<1>2. Owns(x)' = Owns(x)
  BY DEF Owns, Holds
<1>3. QED
  BY <1>1, <1>2 DEF Old

LEMMA NewKept ==
    ASSUME NEW new, New(new), keyHash' = keyHash, up' = up,
           queue'[new] = queue[new], stores'[new] = stores[new]
    PROVE  New(new)'
<1>1. Owner' = Owner /\ \A msg : HandsOver(msg)' = HandsOver(msg)
  BY SameMeaning
<1>2. Owns(new)' = Owns(new)
  BY DEF Owns, Holds
<1>3. QED
  BY <1>1, <1>2 DEF New

LEMMA FailingKeptAt ==
    ASSUME NEW x, Failing(x), keyHash' = keyHash, up' = up,
           RingAt(x)' = RingAt(x), queue'[x] = queue[x], stores'[x] = stores[x],
           job'[x] = job[x]
    PROVE  Failing(x)'
<1>1. Owner' = Owner /\ \A msg : Inherits(msg)' = Inherits(msg)
  BY SameMeaning
<1>2. Owns(x)' = Owns(x) /\ Busy(x)' = Busy(x)
  BY DEF Owns, Holds, Busy
<1>3. QED
  BY <1>1, <1>2 DEF Failing, Ops

LEMMA PhaseAddToList ==
    ASSUME Types, Phase, NEW m \in Machine, NEW x \in Machine, AddToList(m, x)
    PROVE  Phase'
<1>0. PICK M : M = JoinMessages(RingAt(m) \cup {x}, m, x)
  OBVIOUS
<1>1. /\ m \in up /\ x \in up \ RingAt(m)
      /\ \A y \in Machine : RingAt(y)' = IF y = m THEN RingAt(m) \cup {x} ELSE RingAt(y)
      /\ queue' = [queue EXCEPT ![m] = @ \o M]
      /\ UNCHANGED <<fixed, current, up, job, stores, membership>>
  BY <1>0, AddToListMeans
<1>2. /\ M \in Seq(Work)
      /\ \A msg \in ToSet(M) : msg.reason = "join" /\ msg.newMember = x
      /\ \A msg \in ToSet(M) : msg.role = "successor" =>
           (HandsOver(msg) <=> OwnerHash(RingAt(m) \cup {x}, keyHash) = x)
      /\ x = Predecessor(RingAt(m) \cup {x}, m) => M # <<>> /\ Head(M).role = "successor"
  <2>1. Announces(M, m, x, RingAt(m) \cup {x})
    BY <1>0, <1>1, JoinWork
  <2>2. QED
    BY <2>1, Zenon DEF Announces
<1>3. /\ up \in SUBSET Machine /\ queue[m] \in Seq(Work)
      /\ \A y \in Machine : queue'[y] = IF y = m THEN queue[m] \o M ELSE queue[y]
  BY <1>1 DEF Types
<1>4. ToSet(queue'[m]) = ToSet(queue[m]) \cup ToSet(M)
  BY <1>1, <1>2, <1>3, ElementsOfBoth
<1>5. /\ up \in SUBSET Hash /\ keyHash \in Hash /\ Owner \in up
      /\ RingAt(m) \in SUBSET Hash /\ m \in RingAt(m)
  BY <1>1, RingsAre DEF Types
<1>6. recent = 0 /\ \E new \in up : Joining(new)
  <2>1. ~Failing(m)
    BY <1>1 DEF Failing
  <2>2. QED
    BY <1>1, <2>1 DEF Phase
<1>7. PICK new \in up : Joining(new)
  BY <1>6
<1>8. /\ keyHash' = keyHash /\ up' = up /\ recent' = 0 /\ Owner' = Owner
      /\ \A msg : HandsOver(msg)' = HandsOver(msg)
      /\ \A y \in up \ {m} : RingAt(y)' = RingAt(y) /\ queue'[y] = queue[y]
      /\ \A y \in up : stores'[y] = stores[y] /\ job'[y] = job[y]
      /\ RingAt(m)' = RingAt(m) \cup {x}
  BY <1>1, <1>3, <1>6, SameMeaning DEF fixed, membership
<1>9. \A y \in up : RingAt(y)' \subseteq up' /\ JoinJob(y)'
  <2>1. \A y \in up : RingAt(y) \subseteq up /\ JoinJob(y)
    BY <1>7 DEF Joining
  <2>2. \A y \in up : RingAt(y)' \subseteq up'
    BY <1>1, <1>8, <2>1
  <2>3. \A y \in up : JoinJob(y)'
    BY <1>8, <2>1 DEF JoinJob, Busy
  <2>4. QED
    BY <2>2, <2>3
<1>10. \A y \in up : \A msg \in ToSet(queue[y])' : msg.reason = "join"
  <2>1. \A y \in up : \A msg \in ToSet(queue[y]) : msg.reason = "join"
    BY <1>7 DEF Joining
  <2>2. QED
    BY <1>2, <1>4, <1>8, <2>1
<1>11. \A y \in up \ {new, m} : Old(y, new)'
  BY <1>7, <1>8, OldKept DEF Joining
<1>12. CASE m # new
  <2>1. Old(m, new)
    BY <1>1, <1>7, <1>12 DEF Joining
  <2>2. x = new /\ RingAt(m) = up \ {new}
    BY <1>1, <2>1 DEF Old
  <2>3. RingAt(m) \cup {x} = up /\ queue[m] = <<>>
    BY <1>1, <2>1, <2>2 DEF Old
  <2>4. queue'[m] = M /\ ToSet(queue'[m]) = ToSet(M)
    <3>1. <<>> \o M = M
      BY <1>2
    <3>2. queue'[m] = queue[m] \o M
      BY <1>1, <1>3
    <3>3. QED
      BY <2>3, <3>1, <3>2
  <2>5. RingAt(m)' \in {up', up' \ {new}} /\ new \in RingAt(m)'
    BY <1>8, <2>2, <2>3
  <2>6. ASSUME NEW msg \in ToSet(queue'[m])
        PROVE  /\ msg.newMember = new
               /\ msg.role = "successor" => (HandsOver(msg)' <=> Owner' = new)
    <3>1. OwnerHash(RingAt(m) \cup {x}, keyHash) = Owner
      BY <2>3 DEF Owner
    <3>2. QED
      BY <1>2, <1>8, <2>2, <2>4, <2>6, <3>1
  <2>7. ASSUME Owns(m)', m # Owner
        PROVE  /\ Owner' = new /\ OwnerHash(up' \ {new}, keyHash') = m
               /\ queue'[m] # <<>> /\ Head(queue'[m]).role = "successor"
    <3>1. Owns(m)
      BY <1>1, <1>8, <2>7 DEF Owns, Holds
    <3>2. Owner = new /\ OwnerHash(up \ {new}, keyHash) = m
      BY <2>1, <2>7, <3>1 DEF Old
    <3>3. new = Predecessor(up, m)
      <4>1. PICK small \in SUBSET Hash : small = up \ {new}
        BY <1>5
      <4>2. new \in Hash \ small /\ m \in small /\ small \cup {new} = up
        BY <1>1, <1>5, <1>12, <4>1
      <4>3. OwnerHash(small, keyHash) = m /\ OwnerHash(small \cup {new}, keyHash) = new
        BY <3>2, <4>1, <4>2 DEF Owner
      <4>4. Predecessor(small \cup {new}, m) = new
        BY <1>5, <4>2, <4>3, OwnedRangeMoves
      <4>5. QED
        BY <4>2, <4>4
    <3>4. QED
      BY <1>2, <1>8, <2>2, <2>3, <2>4, <3>2, <3>3
  <2>8. m # Owner' <=> m # Owner
    BY <1>8
  <2>9. Old(m, new)'
    BY <2>5, <2>6, <2>7, <2>8, Zenon DEF Old
  <2>10. New(new)'
    BY <1>7, <1>8, <1>12, NewKept DEF Joining
  <2>11. \A y \in up \ {new} : Old(y, new)'
    BY <1>11, <2>9
  <2>12. Joining(new)'
    BY <1>7, <1>8, <1>9, <1>10, <2>10, <2>11, Zenon DEF Joining
  <2>13. QED
    BY <1>8, <2>12, Zenon DEF Phase
<1>13. CASE m = new
  <2>1. New(new)
    BY <1>7 DEF Joining
  <2>2. Owns(new)' => Owner' = new
    BY <1>8, <2>1 DEF New, Owns, Holds
  <2>3. ASSUME NEW msg \in ToSet(queue'[new])
        PROVE  msg.newMember \in up' \ {new} /\ (HandsOver(msg)' => Owner' # new)
    <3>1. CASE msg \in ToSet(queue[new])
      BY <1>8, <2>1, <3>1 DEF New
    <3>2. CASE msg \in ToSet(M)
      <4>1. msg.newMember \in up' \ {new}
        BY <1>1, <1>2, <1>5, <1>8, <1>13, <3>2
      <4>2. ASSUME HandsOver(msg), Owner = new PROVE FALSE
        <5>1. OwnerHash(RingAt(m) \cup {x}, keyHash) = x
          BY <1>2, <3>2, <4>2 DEF HandsOver
        <5>2. PICK fewer \in SUBSET up : fewer = RingAt(m) \cup {x}
          BY <1>1, <1>7 DEF Joining
        <5>3. OwnerHash(up, keyHash) \in fewer
          BY <1>5, <1>13, <4>2, <5>2 DEF Owner
        <5>4. OwnerHash(fewer, keyHash) = OwnerHash(up, keyHash)
          BY <1>5, <5>3, OwnerAmongFewer
        <5>5. x = Owner
          BY <5>1, <5>2, <5>4 DEF Owner
        <5>6. QED
          BY <1>1, <1>5, <1>13, <4>2, <5>5
      <4>3. QED
        BY <1>8, <4>1, <4>2
    <3>3. QED
      BY <1>4, <1>13, <2>3, <3>1, <3>2
  <2>4. New(new)'
    BY <2>2, <2>3, Zenon DEF New
  <2>5. \A y \in up \ {new} : Old(y, new)'
    BY <1>11, <1>13
  <2>6. Joining(new)'
    BY <1>7, <1>8, <1>9, <1>10, <2>4, <2>5, Zenon DEF Joining
  <2>7. QED
    BY <1>8, <2>6, Zenon DEF Phase
<1>14. QED
  BY <1>12, <1>13


LEMMA PhaseRemoveFromList ==
    ASSUME Types, Phase, NEW m \in Machine, NEW lost \in Machine, RemoveFromList(m, lost)
    PROVE  Phase'
<1>0. PICK M : M = FailureMessages(map[m], m, lost)
  OBVIOUS
<1>1. /\ m \in up /\ lost \in RingAt(m) \ up
      /\ \A y \in Machine : RingAt(y)' = IF y = m THEN RingAt(m) \ {lost} ELSE RingAt(y)
      /\ queue' = [queue EXCEPT ![m] = @ \o M]
      /\ UNCHANGED <<fixed, current, up, job, stores, membership>>
  BY <1>0, RemoveFromListMeans
<1>2. /\ M \in Seq(Work)
      /\ \A msg \in ToSet(M) :
           /\ msg.reason = "failure"
           /\ Inherits(msg) => OwnerHash(RingAt(m) \ {lost}, keyHash) = m
  <2>1. lost \in RingAt(m) \ {m}
    BY <1>1
  <2>2. QED
    BY <1>0, <1>1, <2>1, FailureWork, Zenon
<1>3. /\ up \in SUBSET Machine /\ queue[m] \in Seq(Work)
      /\ \A y \in Machine : queue'[y] = IF y = m THEN queue[m] \o M ELSE queue[y]
  BY <1>1 DEF Types
<1>4. ToSet(queue'[m]) = ToSet(queue[m]) \cup ToSet(M)
  BY <1>1, <1>2, <1>3, ElementsOfBoth
<1>5. /\ up \in SUBSET Hash /\ keyHash \in Hash /\ Owner \in up
      /\ RingAt(m) \in SUBSET Hash
  BY <1>1, RingsAre DEF Types
<1>6. recent # 0 /\ \A y \in up : Failing(y)
  <2>1. \A new \in up : ~Joining(new)
    BY <1>1 DEF Joining
  <2>2. QED
    BY <2>1 DEF Phase
<1>7. /\ keyHash' = keyHash /\ up' = up /\ recent' = recent /\ Owner' = Owner
      /\ \A msg : Inherits(msg)' = Inherits(msg)
      /\ \A y \in up \ {m} : RingAt(y)' = RingAt(y) /\ queue'[y] = queue[y]
      /\ \A y \in up : stores'[y] = stores[y] /\ job'[y] = job[y]
      /\ RingAt(m)' = RingAt(m) \ {lost}
  BY <1>1, <1>3, SameMeaning DEF fixed, membership
<1>8. \A y \in up \ {m} : Failing(y)'
  BY <1>6, <1>7, FailingKeptAt
<1>9. Failing(m)'
  <2>1. Failing(m)
    BY <1>1, <1>6
  <2>2. up' \subseteq RingAt(m)' /\ (Owns(m)' => m = Owner')
    BY <1>1, <1>7, <2>1 DEF Failing, Owns, Holds
  <2>3. ASSUME NEW msg \in ToSet(queue'[m])
        PROVE  msg.reason = "failure" /\ (Inherits(msg)' => m = Owner')
    <3>1. CASE msg \in ToSet(queue[m])
      BY <1>7, <2>1, <3>1 DEF Failing
    <3>2. CASE msg \in ToSet(M)
      <4>1. ASSUME Inherits(msg) PROVE m = Owner
        <5>1. PICK ring \in SUBSET Hash : ring = RingAt(m) \ {lost}
          BY <1>5
        <5>2. OwnerHash(ring, keyHash) = m
          BY <1>2, <3>2, <4>1, <5>1
        <5>3. up \in SUBSET ring
          BY <1>1, <2>1, <5>1 DEF Failing
        <5>4. OwnerHash(up, keyHash) = OwnerHash(ring, keyHash)
          BY <1>1, <1>5, <5>2, <5>3, OwnerAmongFewer
        <5>5. QED
          BY <5>2, <5>4 DEF Owner
      <4>2. QED
        BY <1>2, <1>7, <3>2, <4>1
    <3>3. QED
      BY <1>4, <2>3, <3>1, <3>2
  <2>4. (Busy(m) => Ops(job[m].todo) \cup Ops(job[m].later) \subseteq {"fdelete", "finsert"})'
    BY <1>1, <1>7, <2>1 DEF Failing, Busy, Ops
  <2>5. QED
    BY <2>2, <2>3, <2>4, Zenon DEF Failing
<1>10. QED
  BY <1>6, <1>7, <1>8, <1>9 DEF Phase

\* Once all is settled, the owner is the only one that takes itself for it.
LEMMA SettledOneOwner ==
    ASSUME Types, Phase, Settled, NEW m \in up
    PROVE  /\ RingAt(m) = up /\ queue[m] = <<>> /\ job[m] = Idle /\ ~Busy(m)
           /\ Owns(m) => m = Owner
<1>1. RingAt(m) = up /\ queue[m] = <<>> /\ job[m] = Idle
  BY DEF Settled, RingAt
<1>2. ~Busy(m)
  BY <1>1 DEF Busy, Idle
<1>3. ASSUME Owns(m), NEW new \in up, Joining(new) PROVE m = Owner
  <2>1. CASE m = new
    BY <1>3, <2>1 DEF Joining, New
  <2>2. CASE m # new
    <3>1. Old(m, new)
      BY <1>3, <2>2 DEF Joining
    <3>2. QED
      BY <1>1, <1>3, <3>1 DEF Old
  <2>3. QED
    BY <2>1, <2>2
<1>4. Failing(m) => (Owns(m) => m = Owner)
  BY DEF Failing
<1>5. QED
  BY <1>1, <1>2, <1>3, <1>4 DEF Phase

LEMMA PhaseJoin ==
    ASSUME Types, Phase, NEW m \in Machine, Join(m)
    PROVE  Phase'
<1>1. /\ Settled /\ m \in Machine \ up /\ up' = up \cup {m} /\ recent' = 0
      /\ \A x \in Machine : RingAt(x)' = IF x = m THEN {m} ELSE RingAt(x)
      /\ UNCHANGED <<fixed, current, queue, job, stores>>
  BY JoinMeans
<1>2. /\ up \in SUBSET Machine /\ up \in SUBSET Hash /\ up # {} /\ m \in Hash
      /\ keyHash \in Hash /\ keyHash' = keyHash /\ job' = job /\ queue' = queue
      /\ queue[m] = <<>> /\ job[m] = Idle /\ stores[m] = EmptyStore
  BY <1>1 DEF Types, fixed
<1>3. \A x \in up : /\ RingAt(x)' = up /\ queue'[x] = <<>> /\ job'[x] = Idle
                    /\ Owns(x)' => x = Owner
  <2>1. \A x \in up : RingAt(x) = up /\ queue[x] = <<>> /\ job[x] = Idle
                      /\ (Owns(x) => x = Owner)
    BY <1>1, SettledOneOwner
  <2>2. QED
    BY <1>1, <1>2, <2>1 DEF Owns, Holds
<1>4. RingAt(m)' = {m} /\ queue'[m] = <<>> /\ job'[m] = Idle /\ ~Owns(m)'
  BY <1>1, <1>2, EmptyStoreIs DEF Owns, Holds
<1>5. Owner' \in {Owner, m}
  BY <1>1, <1>2, OwnerAfterAdding DEF Owner
<1>6. \A x \in up' : RingAt(x)' \subseteq up' /\ JoinJob(x)' /\ ToSet(queue'[x]) = {}
  BY <1>1, <1>3, <1>4, FewElements DEF JoinJob, Busy, Idle
<1>7. up' \ {m} = up
  BY <1>1
<1>8. ASSUME NEW x \in up PROVE Old(x, m)'
  <2>1. RingAt(x)' \in {up', up' \ {m}} /\ m \notin RingAt(x)'
    BY <1>1, <1>3, <1>7
  <2>2. queue'[x] = <<>> /\ ToSet(queue'[x]) = {}
    BY <1>3, FewElements
  <2>3. ASSUME Owns(x)', x # Owner' PROVE Owner' = m /\ OwnerHash(up' \ {m}, keyHash') = x
    BY <1>2, <1>3, <1>5, <1>7, <2>3 DEF Owner
  <2>4. QED
    BY <2>1, <2>2, <2>3, Zenon DEF Old
<1>9. New(m)'
  BY <1>4, FewElements DEF New
<1>10. Joining(m)'
  BY <1>1, <1>6, <1>7, <1>8, <1>9 DEF Joining
<1>11. QED
  BY <1>1, <1>10 DEF Phase

LEMMA PhaseFail ==
    ASSUME Types, Phase, NEW m \in Machine, Fail(m)
    PROVE  Phase'
<1>1. /\ m \in up /\ up' = up \ {m} /\ up' # {}
      /\ \/ Settled /\ recent' = 1
         \/ recent = 1 /\ recent' = 2
      /\ stores' = [stores EXCEPT ![m] = EmptyStore]
      /\ queue' = [queue EXCEPT ![m] = <<>>]
      /\ job' = [job EXCEPT ![m] = Idle]
      /\ UNCHANGED <<fixed, current, map>>
  BY FailMeans
<1>2. /\ up \in SUBSET Machine /\ up \in SUBSET Hash
      /\ keyHash \in Hash /\ keyHash' = keyHash
  BY <1>1, RingsAre DEF Types, fixed
<1>3. \A x \in up' : /\ RingAt(x)' = RingAt(x) /\ queue'[x] = queue[x] /\ job'[x] = job[x]
                     /\ stores'[x] = stores[x] /\ x \in up
  BY <1>1, <1>2 DEF Types, RingAt
<1>4. Owner \in up' => Owner' = Owner
  BY <1>1, <1>2, OwnerAmongFewer DEF Owner
<1>5. \A msg : Inherits(msg)' = Inherits(msg)
  BY <1>2, SameMeaning
<1>6. ASSUME NEW x \in up' PROVE Failing(x)'
  <2>1. x = Owner => x = Owner'
    BY <1>4
  <2>2. /\ Owns(x)' = Owns(x) /\ Busy(x)' = Busy(x)
    BY <1>3 DEF Owns, Holds, Busy
  <2>3. CASE Settled
    <3>1. RingAt(x) = up /\ queue[x] = <<>> /\ ~Busy(x) /\ (Owns(x) => x = Owner)
      BY <1>3, <2>3, SettledOneOwner
    <3>2. ToSet(queue'[x]) = {}
      BY <1>3, <3>1, FewElements
    <3>3. up' \subseteq RingAt(x)' /\ (Owns(x)' => x = Owner') /\ ~Busy(x)'
      BY <1>1, <1>3, <2>1, <2>2, <3>1
    <3>4. QED
      BY <3>2, <3>3, Zenon DEF Failing
  <2>4. CASE recent = 1
    <3>1. Failing(x)
      BY <1>3, <2>4 DEF Phase
    <3>2. up' \subseteq RingAt(x)' /\ (Owns(x)' => x = Owner')
      BY <1>1, <1>3, <2>1, <2>2, <3>1 DEF Failing
    <3>3. \A msg \in ToSet(queue'[x]) :
              msg.reason = "failure" /\ (Inherits(msg)' => x = Owner')
      BY <1>3, <1>5, <2>1, <3>1 DEF Failing
    <3>4. (Busy(x) => Ops(job[x].todo) \cup Ops(job[x].later) \subseteq {"fdelete", "finsert"})'
      BY <1>3, <2>2, <3>1 DEF Failing, Ops
    <3>5. QED
      BY <3>2, <3>3, <3>4, Zenon DEF Failing
  <2>5. QED
    BY <1>1, <2>3, <2>4
<1>7. recent' # 0
  BY <1>1
<1>8. QED
  BY <1>6, <1>7 DEF Phase


LEMMA PhaseInitially ==
    ASSUME Types, Init
    PROVE  Phase
<1>1. Owner \in up /\ up \in SUBSET Machine
  BY RingsAre DEF Types
<1>2. PICK new \in up : new = Owner
  BY <1>1
<1>3. recent = 0 /\ stores = Placed(up, current)
  BY DEF Init
<1>4. ASSUME NEW m \in up
      PROVE  /\ RingAt(m) = up /\ queue[m] = <<>> /\ ToSet(queue[m]) = {} /\ ~Busy(m)
             /\ Owns(m) => m = Owner
  <2>1. map[m] = View(up) /\ queue[m] = <<>> /\ job[m] = Idle
    BY <1>1 DEF Init
  <2>2. RingAt(m) = up /\ ~Busy(m)
    BY <2>1 DEF RingAt, View, Busy, Idle
  <2>3. ASSUME Owns(m) PROVE m = Owner
    <3>1. stores[m] \in {Put(EmptyStore, k, MakeItem(current, m = Owner)), EmptyStore}
      BY <1>1, <1>3 DEF Placed, Owner
    <3>2. DOMAIN EmptyStore = {}
      BY EmptyStoreIs
    <3>3. stores[m] = Put(EmptyStore, k, MakeItem(current, m = Owner))
      BY <2>3, <3>1, <3>2 DEF Owns, Holds
    <3>4. stores[m][k].owner = (m = Owner)
      BY <3>2, <3>3 DEF Put, MakeItem
    <3>5. QED
      BY <2>3, <3>4 DEF Owns
  <2>4. QED
    BY <2>1, <2>2, <2>3, FewElements
<1>5. \A m \in up : JoinJob(m)
  BY <1>4 DEF JoinJob
<1>6. \A m \in up \ {new} : Old(m, new)
  BY <1>2, <1>4 DEF Old
<1>7. New(new)
  BY <1>2, <1>4 DEF New
<1>8. Joining(new)
  BY <1>4, <1>5, <1>6, <1>7 DEF Joining
<1>9. QED
  BY <1>3, <1>8 DEF Phase

LEMMA PhaseStep ==
    ASSUME Types, Phase, [Next]_vars
    PROVE  Phase'
<1>1. ASSUME NEW m \in Machine, TimerThread(m) PROVE Phase'
  <2>1. CASE JoinEventAsPredecessor(m)
    BY <2>1, PhaseJoinAsPredecessor
  <2>2. CASE JoinEventAsSuccessor(m)
    BY <2>2, PhaseJoinAsSuccessor
  <2>3. CASE FailureEventAsPredecessor(m) \/ FailureEventAsSuccessor(m)
    BY <2>3, PhaseFailure
  <2>4. CASE SendCommand(m)
    BY <2>4, PhaseSendCommand
  <2>5. CASE ContactSecondReplica(m)
    BY <2>5, PhaseContactSecondReplica
  <2>6. CASE Return(m)
    BY <2>6, PhaseReturn
  <2>7. QED
    BY <1>1, <2>1, <2>2, <2>3, <2>4, <2>5, <2>6 DEF TimerThread
<1>2. ASSUME NEW c \in Question, ClientCommand(c) PROVE Phase'
  <2>1. /\ \A x \in Machine : Owns(x)' => Owns(x) \/ x = Owner
        /\ UNCHANGED <<fixed, up, map, queue, job, membership>>
    BY <1>2, ClientCommandMeans
  <2>2. QED
    BY <2>1, PhaseKeptByOthers
<1>3. CASE UNCHANGED vars
  <2>1. UNCHANGED <<fixed, up, map, queue, job, membership>> /\ stores' = stores
    BY <1>3 DEF vars
  <2>2. \A x \in Machine : Owns(x)' => Owns(x)
    BY <2>1 DEF Owns, Holds
  <2>3. QED
    BY <2>1, <2>2, PhaseKeptByOthers
<1>4. QED
  BY <1>1, <1>2, <1>3, PhaseJoin, PhaseFail, PhaseAddToList, PhaseRemoveFromList DEF Next

LEMMA PhaseAlways == Spec => [](Types /\ Phase)
<1>1. Init => Types /\ Phase
  BY TypesInitially, PhaseInitially
<1>2. Types /\ Phase /\ [Next]_vars => (Types /\ Phase)'
  BY TypesStep, PhaseStep
<1>3. QED
  BY <1>1, <1>2, PTL DEF Spec

\* What a machine hands over goes to the owner: while joins are dealt with, the new
\* member is the only machine anybody has yet to hear of, so that the machine which
\* is next to it (handleJoinEventAsSuccessor) sends the key to the one machine all
\* others take for the owner, and that one, whichever others it has heard of, takes
\* itself for the owner and executes the insert (updateKeyValue).
THEOREM TransferTargets == Spec => []TransfersReachOwner
<1>1. ASSUME Types, Phase, NEW m \in up, Busy(m), job[m].todo # <<>>,
             Head(job[m].todo).op \in {"replicate", "insert"}
      PROVE  OwnerHash(DOMAIN map[job[m].to], keyHash) = job[m].to
  <2>1. job[m].todo \in Seq(Commands)
    BY <1>1, JobIs DEF Types
  <2>2. Ops(job[m].todo) \cap {"replicate", "insert"} # {}
    BY <1>1, <2>1, OpsLeft
  <2>3. ~Failing(m)
    BY <1>1, <2>2 DEF Failing
  <2>4. PICK new \in up : Joining(new)
    BY <1>1, <2>3 DEF Phase
  <2>5. job[m].to = Owner
    BY <1>1, <2>2, <2>4 DEF Joining, JoinJob
  <2>6. up \in SUBSET Hash /\ Owner \in up /\ keyHash \in Hash /\ Owner \in RingAt(Owner)
    BY <1>1, RingsAre DEF Types
  <2>7. RingAt(Owner) \in SUBSET up
    BY <2>4, <2>6 DEF Joining
  <2>8. OwnerHash(RingAt(Owner), keyHash) = OwnerHash(up, keyHash)
    BY <2>6, <2>7, OwnerAmongFewer DEF Owner
  <2>9. QED
    BY <2>5, <2>8 DEF RingAt, Owner
<1>2. Types /\ Phase => TransfersReachOwner
  BY <1>1 DEF TransfersReachOwner
<1>3. QED
  BY <1>2, PhaseAlways, PTL

\* When all is settled, no machine but the owner takes itself for the owner of the
\* key, however many machines have joined and failed: the machine which had it has
\* given it away (getCommandsToTransferOwnedKeysAtJoin), and only the one next to a
\* failed member turns its replica into the original (changeKeyToOwned).
THEOREM OnlyOneOwner == Spec => []OneOwner
<1>1. Types /\ Phase => OneOwner
  BY SettledOneOwner DEF OneOwner
<1>2. QED
  BY <1>1, PhaseAlways, PTL


--------------------------------------------------------------------------------
(* Where the key is, as long as nobody fails                                    *)

LEMMA KeptJobKept ==
    ASSUME NEW x, KeptJob(x), keyHash' = keyHash, up' = up, current' = current,
           job'[x] = job[x], AfterOwner(x) => RingAt(x)' = RingAt(x),
           Owns(Owner) => Owns(Owner)'
    PROVE  KeptJob(x)'
<1>1. Owner' = Owner
  BY SameMeaning
<1>2. AfterOwner(x) => AfterOwner(x)'
  BY <1>1 DEF AfterOwner
<1>3. Busy(x)' = Busy(x)
  BY DEF Busy
<1>4. QED
  BY <1>1, <1>2, <1>3 DEF KeptJob, Ops

\* A step of the thread of m that leaves the owner what it has.
LEMMA KeptStep ==
    ASSUME Types, Kept, NEW m \in up,
           UNCHANGED <<fixed, up, map, current, membership>>,
           \A x \in up \ {m} : job'[x] = job[x],
           OwnedAsStored', OwnerOwns', Somewhere', Owns(Owner) => Owns(Owner)',
           KeptJob(m)'
    PROVE  Kept'
<1>1. keyHash' = keyHash /\ up' = up /\ recent' = 0 /\ map' = map /\ current' = current
  BY DEF Kept, fixed, membership
<1>2. ASSUME NEW x \in up \ {m} PROVE KeptJob(x)'
  <2>1. KeptJob(x) /\ job'[x] = job[x] /\ RingAt(x)' = RingAt(x)
    BY <1>1 DEF Kept, RingAt
  <2>2. QED
    BY <1>1, <2>1, KeptJobKept
<1>3. \A x \in up' : KeptJob(x)'
  BY <1>1, <1>2
<1>4. QED
  BY <1>1, <1>3, Zenon DEF Kept

\* The step changes no store.
LEMMA KeptWithStores ==
    ASSUME Types, Kept, NEW m \in up,
           UNCHANGED <<fixed, up, map, current, membership>>, stores' = stores,
           \A x \in up \ {m} : job'[x] = job[x],
           ~Carries(m), KeptJob(m)'
    PROVE  Kept'
<1>1. keyHash' = keyHash /\ up' = up /\ current' = current /\ Owner' = Owner
  BY SameMeaning DEF fixed
<1>2. \A x : Owns(x)' = Owns(x) /\ Holds(x)' = Holds(x)
  BY DEF Owns, Holds
<1>3. OwnedAsStored'
  BY <1>1, <1>2 DEF Kept, OwnedAsStored
<1>4. Owns(Owner)' = Owns(Owner) /\ OwnerOwns'
  BY <1>1 DEF Kept, OwnerOwns, Owns, Holds
<1>5. \A x \in up \ {m} : Carries(x)' = Carries(x)
  BY DEF Carries, Busy, Ops
<1>6. Somewhere'
  BY <1>1, <1>2, <1>5 DEF Kept, Somewhere
<1>7. QED
  BY <1>3, <1>4, <1>6, KeptStep

\* A thread between two messages sends nothing.
LEMMA IdleCarriesNothing ==
    ASSUME NEW m, ~Busy(m) \/ job[m].todo = <<>>
    PROVE  ~Carries(m)
BY OpsOfFew DEF Carries

LEMMA KeptJobBecomes ==
    ASSUME Types, NEW m \in Machine, NEW msg, NEW to, NEW todo, NEW later,
           JobBecomes(m, msg, to, todo, later),
           Ops(todo) \cap {"replicate", "insert"} = {},
           todo # <<>> => to # Owner' /\ Owns(Owner)',
           later # <<>> => Owns(Owner)' /\ AfterOwner(m)'
    PROVE  KeptJob(m)'
<1>1. job'[m].to = to /\ job'[m].todo = todo /\ job'[m].later = later
  BY JobBecomesMeans
<1>2. QED
  BY <1>1 DEF KeptJob, Ops

LEMMA KeptJoinAsPredecessor ==
    ASSUME Types, Phase, Kept, NEW m \in Machine, JoinEventAsPredecessor(m)
    PROVE  Kept'
<1> DEFINE msg == Head(queue[m])
           todo == IF Owns(m) THEN Replicate(m) ELSE <<>>
<1>1. /\ Pop(m, "join", "predecessor") /\ stores' = stores
      /\ JobBecomes(m, msg, msg.newMember, todo, <<>>)
  BY JoinEventAsPredecessorMeans
<1>2. /\ m \in up /\ ~Busy(m) /\ queue[m] # <<>> /\ msg \in ToSet(queue[m])
      /\ msg.reason = "join" /\ msg.role = "predecessor"
      /\ UNCHANGED <<fixed, current, up, map, membership>>
  BY <1>1, PopMeans
<1>3. PICK new \in up : Joining(new)
  BY <1>2, MessageOfPhase
<1>4. Ops(todo) \subseteq {"fdelete", "finsert"} /\ (todo # <<>> => Owns(m))
  BY CommandsAre, OpsOfFew DEF Owns
<1>5. Owns(m) => m = Owner
  BY <1>2, <1>3, StaleOwner
<1>6. m = Owner => msg.newMember # Owner
  <2>1. CASE m = new
    BY <1>2, <1>3, <2>1 DEF Joining, New
  <2>2. CASE m # new
    <3>1. Old(m, new)
      BY <1>2, <1>3, <2>2 DEF Joining
    <3>2. QED
      BY <1>2, <2>2, <3>1 DEF Old
  <2>3. QED
    BY <2>1, <2>2
<1> HIDE DEF msg, todo
<1>7. Owner' = Owner /\ Owns(Owner)' = Owns(Owner)
  <2>1. Owner' = Owner
    BY <1>2, SameMeaning DEF fixed
  <2>2. QED
    BY <1>1, <2>1 DEF Owns, Holds
<1>8. KeptJob(m)'
  <2>1. Ops(todo) \cap {"replicate", "insert"} = {}
    BY <1>4
  <2>2. todo # <<>> => msg.newMember # Owner' /\ Owns(Owner)'
    BY <1>4, <1>5, <1>6, <1>7
  <2>3. QED
    BY <1>1, <2>1, <2>2, KeptJobBecomes
<1>9. \A x \in Machine \ {m} : job'[x] = job[x]
  BY <1>1, JobBecomesMeans
<1>10. up \in SUBSET Machine
  BY DEF Types
<1>11. ~Carries(m)
  BY <1>2, IdleCarriesNothing
<1>12. QED
  BY <1>1, <1>2, <1>8, <1>9, <1>10, <1>11, KeptWithStores


LEMMA KeptJoinAsSuccessor ==
    ASSUME Types, Phase, Kept, NEW m \in Machine, JoinEventAsSuccessor(m)
    PROVE  Kept'
<1> DEFINE msg == Head(queue[m])
<1>1. /\ Pop(m, "join", "successor")
      /\ Moves(m, msg) =>
           /\ JobBecomes(m, msg, msg.newMember, Transfer(m),
                         DeleteCommands(msg.ownedStart, msg.newMember))
           /\ stores' = [stores EXCEPT ![m] = EmptyStore]
      /\ ~Moves(m, msg) =>
           JobBecomes(m, msg, msg.newMember, <<>>, <<>>) /\ stores' = stores
  BY JoinEventAsSuccessorMeans
<1>2. /\ m \in up /\ ~Busy(m) /\ queue[m] # <<>>
      /\ msg.reason = "join" /\ msg.role = "successor"
      /\ UNCHANGED <<fixed, current, up, map, membership>>
  BY <1>1, PopMeans
<1>3. PICK new \in up : Joining(new)
  BY <1>2, MessageOfPhase
<1>4. Owner' = Owner /\ keyHash' = keyHash /\ up' = up /\ current' = current
      /\ up \in SUBSET Machine
  BY <1>2, SameMeaning DEF fixed, Types
<1>5. ~Carries(m)
  BY <1>2, IdleCarriesNothing
<1>6. CASE ~Moves(m, msg)
  <2>1. KeptJob(m)'
    BY <1>1, <1>6, OpsOfFew, KeptJobBecomes
  <2>2. \A x \in Machine \ {m} : job'[x] = job[x]
    BY <1>1, <1>6, JobBecomesMeans
  <2>3. QED
    BY <1>1, <1>2, <1>4, <1>5, <1>6, <2>1, <2>2, KeptWithStores
<1>7. CASE Moves(m, msg)
  <2>1. msg.newMember = Owner /\ m # Owner /\ Owns(m)
    BY <1>2, <1>3, <1>7, HandedToOwner DEF Moves
  <2>2. Owner = new /\ RingAt(m) = up /\ Predecessor(up, m) = new
    BY <1>2, <1>3, <2>1, StaleOwner
  <2>3. AfterOwner(m)'
    BY <1>2, <1>4, <2>1, <2>2 DEF AfterOwner, RingAt
  <2>4. stores[m][k].value = current
    BY <1>2, <2>1 DEF Kept, OwnedAsStored
  <2>5. /\ Transfer(m) = <<Send("replicate", current'), Send("insert", current')>>
        /\ Ops(Transfer(m)) = {"replicate", "insert"}
    BY <1>4, <2>1, <2>4, CommandsAre DEF Transfer, Owns
  <2>6. /\ \A x \in Machine \ {m} : job'[x] = job[x]
        /\ job'[m].at = "working" /\ job'[m].todo = Transfer(m)
    BY <1>1, <1>7, JobBecomesMeans
  <2> HIDE DEF msg
  <2>7. KeptJob(m)'
    BY <2>3, <2>5, <2>6 DEF KeptJob, Ops
  <2>8. Carries(m)'
    BY <2>5, <2>6 DEF Carries, Busy, Ops
  <2>9. \A x \in Machine : stores'[x] = IF x = m THEN EmptyStore ELSE stores[x]
    BY <1>1, <1>7 DEF Types
  <2>10. Owner \in up
    BY RingsAre
  <2>11. ~Owns(m)' /\ \A x \in Machine : Owns(x)' => Owns(x)
    BY <1>1, <1>7, EmptiedOwns
  <2>12. OwnedAsStored'
    BY <1>4, <2>9, <2>11 DEF Kept, OwnedAsStored
  <2>13. (Owns(Owner)' <=> Owns(Owner)) /\ OwnerOwns'
    <3>1. stores'[Owner] = stores[Owner]
      BY <1>4, <2>1, <2>9, <2>10
    <3>2. QED
      BY <1>4, <3>1 DEF Kept, OwnerOwns, Owns, Holds
  <2>14. Somewhere'
    BY <1>2, <1>4, <2>8 DEF Somewhere
  <2>15. QED
    BY <1>2, <1>4, <2>6, <2>7, <2>12, <2>13, <2>14, KeptStep
<1>8. QED
  BY <1>6, <1>7

\* The commands of a thread which is not handing over the key
LEMMA KeptContactSecondReplica ==
    ASSUME Types, Phase, Kept, NEW m \in Machine, ContactSecondReplica(m)
    PROVE  Kept'
<1> DEFINE second == SecondReplica(m)
           todo   == IF /\ job[m].message.reason = "join" => DeletingRequired(m)
                        /\ second # NoHash
                     THEN job[m].later ELSE <<>>
<1>1. /\ m \in up /\ Busy(m) /\ job[m].todo = <<>> /\ job[m].later # <<>>
      /\ JobBecomes(m, job[m].message, second, todo, <<>>)
      /\ UNCHANGED <<fixed, current, up, map, queue, stores, membership>>
  BY ContactSecondReplicaMeans
<1>2. Ops(<<>>) = {}
  BY OpsOfFew
<1>3. recent = 0 /\ KeptJob(m)
  BY <1>1 DEF Kept
<1>4. Owns(Owner) /\ AfterOwner(m)
  BY <1>1, <1>2, <1>3 DEF KeptJob
<1>5. PICK new \in up : Joining(new)
  BY <1>3 DEF Phase
<1>6. job[m].message.reason = "join" /\ Ops(job[m].later) \subseteq {"fdelete"}
  BY <1>1, <1>5 DEF Joining, JoinJob
<1>7. up \in SUBSET Hash /\ Owner \in up /\ up \in SUBSET Machine
      /\ Cardinality(up) \in Nat
  BY RingsAre, RingIsFinite DEF Types
<1>8. todo # <<>> => second # Owner
  <2> SUFFICES ASSUME todo # <<>> PROVE second # Owner
    OBVIOUS
  <2>1. Cardinality(up) > 3 /\ RingAt(m) = up
    BY <1>4, <1>6 DEF DeletingRequired, AfterOwner, RingAt
  <2>2. Predecessor(up, m) = Owner
    BY <1>4 DEF AfterOwner
  <2>3. Successor(up, Owner) = m
    BY <1>1, <1>7, <2>2, SuccessorOfPredecessor
  <2>4. PICK s2 : s2 = Successor(up, m)
    OBVIOUS
  <2>5. PICK s3 : s3 = Successor(up, s2)
    OBVIOUS
  <2>6. PICK n : n = Cardinality(up)
    OBVIOUS
  <2>7. n >= 4 => s3 \notin {Owner, m, s2}
    BY <1>7, <2>3, <2>4, <2>5, <2>6, RingSizeForward
  <2>8. HashAtDistance(up, m, 2) = IF n < 3 THEN NoHash ELSE s3
    BY <1>1, <1>7, <2>4, <2>5, <2>6, HashAtDistances
  <2>9. second = HashAtDistance(up, m, 2)
    BY <2>1 DEF SecondReplica, RingAt
  <2>10. QED
    BY <1>7, <2>1, <2>6, <2>7, <2>8, <2>9
<1>9. Ops(todo) \cap {"replicate", "insert"} = {}
  BY <1>2, <1>6
<1> HIDE DEF second, todo
<1>10. Owner' = Owner /\ Owns(Owner)'
  <2>1. Owner' = Owner
    BY <1>1, SameMeaning DEF fixed
  <2>2. QED
    BY <1>1, <1>4, <2>1 DEF Owns, Holds
<1>11. KeptJob(m)'
  BY <1>1, <1>8, <1>9, <1>10, KeptJobBecomes
<1>12. \A x \in Machine \ {m} : job'[x] = job[x]
  BY <1>1, JobBecomesMeans
<1>13. ~Carries(m)
  BY <1>1, IdleCarriesNothing
<1>14. QED
  BY <1>1, <1>7, <1>11, <1>12, <1>13, KeptWithStores

LEMMA KeptReturn ==
    ASSUME Types, Phase, Kept, NEW m \in Machine, Return(m)
    PROVE  Kept'
<1>1. /\ m \in up /\ Busy(m) /\ job[m].todo = <<>> /\ job[m].later = <<>>
      /\ job'[m] \in {Idle, Draining} /\ \A x \in Machine \ {m} : job'[x] = job[x]
      /\ \/ stores' = stores
         \/ ~Owns(m) /\ stores' = [stores EXCEPT ![m] = EmptyStore]
      /\ UNCHANGED <<fixed, current, up, map, queue, membership>>
  BY ReturnMeans
<1>2. KeptJob(m)'
  <2>1. ~Busy(m)'
    BY <1>1 DEF Busy, Idle, Draining
  <2>2. QED
    BY <2>1 DEF KeptJob
<1>3. ~Carries(m)
  BY <1>1, IdleCarriesNothing
<1>4. Owner \in up /\ up \in SUBSET Machine
      /\ Owner' = Owner /\ keyHash' = keyHash /\ up' = up /\ current' = current
  BY <1>1, RingsAre, SameMeaning DEF Types, fixed
<1>5. CASE stores' = stores
  BY <1>1, <1>2, <1>3, <1>4, <1>5, KeptWithStores
<1>6. CASE ~Owns(m) /\ stores' = [stores EXCEPT ![m] = EmptyStore]
  <2>1. \A x \in Machine : stores'[x] = IF x = m THEN EmptyStore ELSE stores[x]
    BY <1>6 DEF Types
  <2>2. \A x \in Machine : Owns(x)' <=> Owns(x)
    BY <1>6, <2>1, EmptyStoreIs DEF Owns, Holds
  <2>3. OwnedAsStored'
    BY <1>4, <1>6, <2>1, <2>2 DEF Kept, OwnedAsStored
  <2>4. (Owns(Owner) => Owns(Owner)') /\ OwnerOwns'
    <3>1. stores'[Owner] \in {EmptyStore, stores[Owner]}
      BY <1>4, <2>1
    <3>2. Owns(Owner) => stores'[Owner] = stores[Owner]
      BY <1>4, <1>6, <2>1
    <3>3. QED
      BY <1>4, <3>1, <3>2, EmptyStoreIs DEF Kept, OwnerOwns, Owns, Holds
  <2>5. Somewhere'
    <3>1. \A x \in up \ {m} : Carries(x)' = Carries(x)
      BY <1>1, <1>4 DEF Carries, Busy, Ops
    <3>2. QED
      BY <1>3, <1>4, <2>2, <3>1 DEF Kept, Somewhere
  <2>6. QED
    BY <1>1, <1>2, <1>4, <2>3, <2>4, <2>5, KeptStep
<1>7. QED
  BY <1>1, <1>5, <1>6


\* What the thread of m sends: the first half of a transfer, the second half, or a
\* command for a replica while the owner has the key.
FirstHalf(m, c, rest) ==
    /\ c = Send("replicate", current) /\ rest = <<Send("insert", current)>>
    /\ job[m].to = Owner /\ AfterOwner(m)

SecondHalf(m, c, rest) ==
    /\ c = Send("insert", current) /\ rest = <<>>
    /\ job[m].to = Owner /\ AfterOwner(m)

ForReplica(m, c, rest) ==
    /\ c.op \in {"fdelete", "finsert"} /\ job[m].to # Owner /\ Owns(Owner)
    /\ Ops(rest) \cap {"replicate", "insert"} = {}

LEMMA WhatIsSent ==
    ASSUME Types, Phase, Kept, NEW m \in up, Busy(m), job[m].todo # <<>>,
           NEW c, c = Head(job[m].todo), NEW rest, rest = Tail(job[m].todo)
    PROVE  \/ FirstHalf(m, c, rest) \/ SecondHalf(m, c, rest) \/ ForReplica(m, c, rest)
<1>1. KeptJob(m) /\ recent = 0
  BY DEF Kept
<1>2. job[m].todo \in Seq(Commands) /\ c \in Commands
  BY JobIs, Elements DEF Types
<1>3. Ops(job[m].todo) = {c.op} \cup Ops(rest)
  BY <1>2, OpsLeft
<1>4. c.op \in {"fdelete", "finsert", "insert", "replicate"}
  BY <1>2 DEF Commands
<1>5. CASE Ops(job[m].todo) \cap {"replicate", "insert"} # {}
  <2>1. /\ job[m].todo \in {<<Send("insert", current)>>,
                            <<Send("replicate", current), Send("insert", current)>>}
        /\ AfterOwner(m)
    BY <1>1, <1>5 DEF KeptJob
  <2>2. job[m].to = Owner
    <3>1. JoinJob(m)
      BY <1>1 DEF Phase, Joining
    <3>2. QED
      BY <1>5, <3>1 DEF JoinJob
  <2>3. CASE job[m].todo = <<Send("insert", current)>>
    <3>1. c = Send("insert", current) /\ rest = <<>>
      BY <2>3
    <3>2. QED
      BY <2>1, <2>2, <3>1 DEF SecondHalf
  <2>4. CASE job[m].todo = <<Send("replicate", current), Send("insert", current)>>
    <3>1. c = Send("replicate", current) /\ rest = <<Send("insert", current)>>
      BY <2>4
    <3>2. QED
      BY <2>1, <2>2, <3>1 DEF FirstHalf
  <2>5. QED
    BY <2>1, <2>3, <2>4
<1>6. CASE Ops(job[m].todo) \cap {"replicate", "insert"} = {}
  <2>1. job[m].to # Owner /\ Owns(Owner)
    BY <1>1, <1>6 DEF KeptJob
  <2>2. c.op \in {"fdelete", "finsert"} /\ Ops(rest) \cap {"replicate", "insert"} = {}
    BY <1>3, <1>4, <1>6
  <2>3. QED
    BY <2>1, <2>2 DEF ForReplica
<1>7. QED
  BY <1>5, <1>6

\* A command that makes nobody an owner, and is not executed by one.
NoOwnerMade(x, E) ==
    \/ E[x] = stores[x] \/ E[x] = EmptyStore
    \/ \E v : E[x] = Single(v, FALSE)

LEMMA OwnersUntouched ==
    ASSUME Types, Kept, UNCHANGED <<fixed, up, current>>, NEW E, stores' = E,
           E[Owner] = stores[Owner],
           \A x \in up : NoOwnerMade(x, E)
    PROVE  /\ OwnedAsStored' /\ OwnerOwns'
           /\ (Owns(Owner)' <=> Owns(Owner))
           /\ Owns(Owner) => Somewhere'
<1>1. /\ keyHash' = keyHash /\ up' = up /\ current' = current /\ Owner' = Owner /\ Owner \in up
  BY SameMeaning, RingsAre DEF fixed
<1>2. \A v : Single(v, FALSE)[k].owner = FALSE
  BY DEF Single, MakeItem
<1>3. DOMAIN EmptyStore = {}
  BY EmptyStoreIs
<1>4. ASSUME NEW x \in up, Owns(x)' PROVE E[x] = stores[x]
  <2>1. k \in DOMAIN E[x] /\ E[x][k].owner
    BY <1>4 DEF Owns, Holds
  <2>2. QED
    BY <1>2, <1>3, <2>1 DEF NoOwnerMade
<1>5. OwnedAsStored'
  <2>1. ASSUME NEW x \in up, Owns(x)' PROVE stores'[x][k].value = current
    <3>1. stores'[x] = stores[x]
      BY <1>4, <2>1
    <3>2. Owns(x)
      BY <2>1, <3>1 DEF Owns, Holds
    <3>3. QED
      BY <3>1, <3>2 DEF Kept, OwnedAsStored
  <2>2. QED
    BY <1>1, <2>1 DEF OwnedAsStored
<1>6. (Owns(Owner)' <=> Owns(Owner)) /\ OwnerOwns'
  BY <1>1 DEF Kept, OwnerOwns, Owns, Holds
<1>7. Owns(Owner) => Somewhere'
  BY <1>1, <1>6 DEF Somewhere
<1>8. QED
  BY <1>5, <1>6, <1>7

LEMMA KeptSendCommand ==
    ASSUME Types, Phase, Kept, NEW m \in Machine, SendCommand(m)
    PROVE  Kept'
<1>0. PICK c, rest : c = Head(job[m].todo) /\ rest = Tail(job[m].todo)
  OBVIOUS
<1>1. /\ m \in up /\ Busy(m) /\ job[m].todo # <<>> /\ c \in Commands /\ job[m].to \in Machine
      /\ JobBecomes(m, job[m].message, job[m].to, rest, job[m].later)
      /\ stores' = IF job[m].to \in up THEN Executed(job[m].to, c) ELSE stores
      /\ UNCHANGED <<fixed, current, up, map, queue, membership>>
  BY <1>0, SendCommandMeans
<1>2. /\ up \in SUBSET Machine /\ Owner \in up /\ Owner \in Machine
      /\ stores \in [Machine -> Stores]
      /\ keyHash' = keyHash /\ Owner' = Owner /\ up' = up /\ current' = current /\ map' = map
  BY <1>1, RingsAre, SameMeaning DEF Types, fixed
<1>3. /\ \A x \in Machine \ {m} : job'[x] = job[x]
      /\ job'[m].at = "working" /\ job'[m].to = job[m].to /\ job'[m].todo = rest
      /\ job'[m].later = job[m].later
  BY <1>1, JobBecomesMeans
<1>4. AfterOwner(m)' <=> AfterOwner(m)
  BY <1>2 DEF AfterOwner, RingAt
<1>5. KeptJob(m)
  BY <1>1 DEF Kept
<1>6. PICK E : E = stores'
  OBVIOUS
<1>7. CASE c = Send("replicate", current) /\ rest = <<Send("insert", current)>>
           /\ job[m].to = Owner /\ AfterOwner(m)
  <2>1. c.op = "replicate"
    BY <1>7, SendIs
  <2>2. PICK to \in Machine : to = Owner
    BY <1>2
  <2>3. E = Executed(to, c)
    BY <1>1, <1>2, <1>6, <1>7, <2>2
  <2>4. Effect(to, c, E)
    BY <1>1, <1>2, <2>3, ExecutedMeans
  <2>5. \A x \in Machine : E[x] = IF Passes(to, x) /\ ~Holds(x)
                                  THEN Single(c.value, FALSE) ELSE stores[x]
    BY <2>1, <2>4 DEF Effect
  <2>6. ~Passes(to, to)
    BY <1>2, <2>2, ReplicasAre
  <2>7. E[Owner] = stores[Owner]
    BY <1>2, <2>2, <2>5, <2>6
  <2>8. OwnedAsStored' /\ OwnerOwns' /\ (Owns(Owner)' <=> Owns(Owner))
    <3>1. \A x \in up : NoOwnerMade(x, E)
      BY <1>2, <2>5 DEF NoOwnerMade
    <3>2. UNCHANGED <<fixed, up, current>> /\ stores' = E
      BY <1>1, <1>6
    <3>3. QED
      BY <2>7, <3>1, <3>2, OwnersUntouched
  <2>9. Ops(rest) = {"insert"}
    BY <1>7, OpsOfFew, SendIs
  <2>10. Carries(m)' /\ KeptJob(m)'
    <3>1. Ops(job[m].todo)' = {"insert"}
      BY <1>3, <2>9 DEF Ops
    <3>2. job'[m].todo = <<Send("insert", current')>>
      BY <1>2, <1>3, <1>7
    <3>3. QED
      BY <1>3, <1>4, <1>7, <3>1, <3>2 DEF Carries, Busy, KeptJob
  <2>11. Somewhere'
    BY <1>1, <1>2, <2>10 DEF Somewhere
  <2>12. QED
    BY <1>1, <1>2, <1>3, <2>8, <2>10, <2>11, KeptStep
<1>8. CASE c = Send("insert", current) /\ rest = <<>>
           /\ job[m].to = Owner /\ AfterOwner(m)
  <2>1. c.op = "insert" /\ c.value = current
    BY <1>8, SendIs
  <2>2. PICK to \in Machine : to = Owner
    BY <1>2
  <2>3. E = Executed(to, c)
    BY <1>1, <1>2, <1>6, <1>8, <2>2
  <2>4. Effect(to, c, E)
    BY <1>1, <1>2, <2>3, ExecutedMeans
  <2>5. \A x \in Machine : E[x] = IF x = Owner /\ ~Holds(x)
                                  THEN Single(current, TRUE) ELSE stores[x]
    BY <2>1, <2>2, <2>4 DEF Effect
  <2>6. /\ k \in DOMAIN Single(current, TRUE) /\ Single(current, TRUE)[k].owner
        /\ Single(current, TRUE)[k].value = current
    BY DEF Single, MakeItem
  <2>7. Owns(Owner)'
    <3>1. CASE Holds(Owner)
      <4>1. E[Owner] = stores[Owner] /\ Owns(Owner)
        BY <1>2, <2>5, <3>1 DEF Kept, OwnerOwns
      <4>2. QED
        BY <1>2, <1>6, <4>1 DEF Owns, Holds
    <3>2. CASE ~Holds(Owner)
      <4>1. E[Owner] = Single(current, TRUE)
        BY <1>2, <2>5, <3>2
      <4>2. QED
        BY <1>2, <1>6, <2>6, <4>1 DEF Owns, Holds
    <3>3. QED
      BY <3>1, <3>2
  <2>8. OwnedAsStored'
    <3>1. ASSUME NEW x \in up, Owns(x)' PROVE stores'[x][k].value = current
      <4>1. CASE E[x] = Single(current, TRUE)
        BY <1>6, <2>6, <4>1
      <4>2. CASE E[x] = stores[x]
        <5>1. Owns(x)
          BY <1>6, <3>1, <4>2 DEF Owns, Holds
        <5>2. QED
          BY <1>6, <4>2, <5>1 DEF Kept, OwnedAsStored
      <4>3. QED
        BY <1>2, <2>5, <4>1, <4>2
    <3>2. QED
      BY <1>2, <3>1 DEF OwnedAsStored
  <2>9. OwnerOwns' /\ Somewhere'
    BY <1>2, <2>7 DEF OwnerOwns, Somewhere
  <2>10. KeptJob(m)'
    <3>1. Ops(job[m].todo)' = {} /\ job'[m].todo = <<>>
      BY <1>3, <1>8, OpsOfFew DEF Ops
    <3>2. QED
      BY <1>3, <1>4, <1>8, <2>7, <3>1 DEF KeptJob
  <2>11. QED
    BY <1>1, <1>2, <1>3, <2>7, <2>8, <2>9, <2>10, KeptStep
<1>9. CASE c.op \in {"fdelete", "finsert"} /\ job[m].to # Owner /\ Owns(Owner)
           /\ Ops(rest) \cap {"replicate", "insert"} = {}
  <2>1. /\ E[Owner] = stores[Owner]
        /\ \A x \in up : NoOwnerMade(x, E)
    <3>1. CASE job[m].to \in up
      <4>1. PICK to \in Machine : to = job[m].to
        BY <1>1
      <4>2. E = Executed(to, c)
        BY <1>1, <1>6, <3>1, <4>1
      <4>3. Effect(to, c, E)
        BY <1>1, <1>2, <4>2, ExecutedMeans
      <4>4. \A x \in Machine : \/ E[x] = stores[x]
                               \/ x = to /\ E[x] \in {EmptyStore, Single(c.value, FALSE)}
        BY <1>9, <4>3 DEF Effect
      <4>5. QED
        BY <1>2, <1>9, <4>1, <4>4 DEF NoOwnerMade
    <3>2. CASE job[m].to \notin up
      BY <1>1, <1>6, <3>2 DEF NoOwnerMade
    <3>3. QED
      BY <3>1, <3>2
  <2>2. /\ OwnedAsStored' /\ OwnerOwns' /\ (Owns(Owner)' <=> Owns(Owner))
        /\ Owns(Owner) => Somewhere'
    <3>1. UNCHANGED <<fixed, up, current>> /\ stores' = E
      BY <1>1, <1>6
    <3>2. QED
      BY <2>1, <3>1, OwnersUntouched
  <2>3. KeptJob(m)'
    <3>1. Ops(job[m].todo)' = Ops(rest)
      BY <1>3 DEF Ops
    <3>2. Ops(job[m].todo) \cap {"replicate", "insert"} = {} \/ job[m].to = Owner
      <4>1. PICK new \in up : Joining(new)
        BY DEF Kept, Phase
      <4>2. JoinJob(m)
        BY <1>1, <4>1 DEF Joining
      <4>3. QED
        BY <1>1, <4>2 DEF JoinJob
    <3>3. job[m].later # <<>> => AfterOwner(m)
      BY <1>1, <1>5, <1>9, <3>2 DEF KeptJob
    <3>4. QED
      BY <1>2, <1>3, <1>4, <1>9, <2>2, <3>1, <3>3 DEF KeptJob
  <2>4. QED
    BY <1>1, <1>2, <1>3, <1>9, <2>2, <2>3, KeptStep
<1>10. QED
  <2>1. FirstHalf(m, c, rest) \/ SecondHalf(m, c, rest) \/ ForReplica(m, c, rest)
    BY <1>0, <1>1, WhatIsSent
  <2>2. QED
    BY <1>7, <1>8, <1>9, <2>1 DEF FirstHalf, SecondHalf, ForReplica


\* While all is settled nobody carries anything.
LEMMA KeptSettled ==
    ASSUME Types, Phase, Kept, Settled
    PROVE  /\ \A m \in up : ~Busy(m) /\ ~Carries(m) /\ (Owns(m) => m = Owner)
           /\ current # NoValue => Owns(Owner) /\ stores[Owner][k].value = current
           /\ current = NoValue => ~Holds(Owner)
<1>1. \A m \in up : ~Busy(m) /\ ~Carries(m) /\ (Owns(m) => m = Owner)
  BY SettledOneOwner DEF Carries
<1>2. Owner \in up /\ Owner \in Machine
  BY RingsAre DEF Types
<1>3. ASSUME current # NoValue PROVE Owns(Owner) /\ stores[Owner][k].value = current
  BY <1>1, <1>2, <1>3 DEF Kept, Somewhere, OwnedAsStored
<1>4. ASSUME current = NoValue, Holds(Owner) PROVE FALSE
  <2>1. stores[Owner][k].value = NoValue
    BY <1>2, <1>4 DEF Kept, OwnerOwns, OwnedAsStored
  <2>2. stores[Owner][k] \in Item
    BY <1>2, <1>4, StoreIs DEF Types, Holds
  <2>3. QED
    BY <2>1, <2>2 DEF Item
<1>5. QED
  BY <1>1, <1>3, <1>4

LEMMA KeptAddToList ==
    ASSUME Types, Phase, Kept, NEW m \in Machine, NEW x \in Machine, AddToList(m, x)
    PROVE  Kept'
<1>1. /\ m \in up /\ x \in up \ RingAt(m)
      /\ \A y \in Machine : RingAt(y)' = IF y = m THEN RingAt(m) \cup {x} ELSE RingAt(y)
      /\ UNCHANGED <<fixed, current, up, job, stores, membership>>
  BY AddToListMeans
<1>2. /\ up \in SUBSET Machine /\ keyHash' = keyHash /\ up' = up /\ current' = current
      /\ Owner' = Owner /\ recent' = 0
  BY <1>1, SameMeaning DEF Types, fixed, membership, Kept
<1>3. \A y : Owns(y)' = Owns(y) /\ Carries(y)' = Carries(y)
  BY <1>1 DEF Owns, Holds, Carries, Busy, Ops
<1>4. OwnedAsStored' /\ OwnerOwns' /\ Somewhere' /\ (Owns(Owner) => Owns(Owner)')
  <2>1. OwnedAsStored'
    BY <1>1, <1>2, <1>3 DEF Kept, OwnedAsStored
  <2>2. OwnerOwns' /\ (Owns(Owner) => Owns(Owner)')
    BY <1>1, <1>2 DEF Kept, OwnerOwns, Owns, Holds
  <2>3. Somewhere'
    BY <1>2, <1>3 DEF Kept, Somewhere
  <2>4. QED
    BY <2>1, <2>2, <2>3
<1>5. ASSUME NEW y \in up PROVE KeptJob(y)'
  <2>1. KeptJob(y) /\ job'[y] = job[y]
    BY <1>1 DEF Kept
  <2>2. AfterOwner(y) => RingAt(y)' = RingAt(y)
    BY <1>1, <1>2 DEF AfterOwner
  <2>3. QED
    BY <1>2, <1>4, <2>1, <2>2, KeptJobKept
<1>6. QED
  BY <1>2, <1>4, <1>5, Zenon DEF Kept

LEMMA KeptJoin ==
    ASSUME Types, Phase, Kept, NEW m \in Machine, Join(m)
    PROVE  Kept'
<1>1. /\ Settled /\ m \in Machine \ up /\ up' = up \cup {m} /\ recent' = 0
      /\ UNCHANGED <<fixed, current, queue, job, stores>>
  BY JoinMeans
<1>2. /\ up \in SUBSET Hash /\ up # {} /\ m \in Hash /\ keyHash \in Hash /\ keyHash' = keyHash
      /\ current' = current /\ stores' = stores /\ job' = job
      /\ job[m] = Idle /\ stores[m] = EmptyStore
  BY <1>1 DEF Types, fixed
<1>3. Owner' \in {Owner, m}
  BY <1>1, <1>2, OwnerAfterAdding DEF Owner
<1>4. ~Holds(m) /\ ~Busy(m)
  BY <1>2, EmptyStoreIs DEF Holds, Busy, Idle
<1>5. \A x : (Owns(x)' <=> Owns(x)) /\ (Holds(x)' <=> Holds(x)) /\ (Busy(x)' <=> Busy(x))
  BY <1>2 DEF Owns, Holds, Busy
<1>6. \A x \in up' : KeptJob(x)'
  <2>1. \A x \in up : ~Busy(x)
    BY <1>1, KeptSettled
  <2>2. \A x \in up' : ~Busy(x)'
    BY <1>1, <1>4, <1>5, <2>1
  <2>3. QED
    BY <2>2 DEF KeptJob
<1>7. OwnedAsStored'
  BY <1>1, <1>2, <1>4, <1>5 DEF Kept, OwnedAsStored, Owns
<1>8. OwnerOwns'
  <2>1. CASE Owner' = m
    <3>1. ~Holds(Owner)'
      BY <1>2, <1>4, <2>1 DEF Holds
    <3>2. QED
      BY <3>1 DEF OwnerOwns
  <2>2. CASE Owner' = Owner
    BY <1>2, <2>2 DEF Kept, OwnerOwns, Owns, Holds
  <2>3. QED
    BY <1>3, <2>1, <2>2
<1>9. Somewhere'
  <2>1. ASSUME current' # NoValue PROVE \E x \in up' : Owns(x)' \/ Carries(x)'
    <3>1. PICK x \in up : Owns(x)
      <4>1. Owner \in up
        BY RingsAre
      <4>2. Owns(Owner)
        BY <1>1, <1>2, <2>1, KeptSettled
      <4>3. QED
        BY <4>1, <4>2
    <3>2. QED
      BY <1>1, <1>5, <3>1
  <2>2. QED
    BY <2>1 DEF Somewhere
<1>10. QED
  BY <1>1, <1>6, <1>7, <1>8, <1>9, Zenon DEF Kept

LEMMA KeptClientCommand ==
    ASSUME Types, Phase, Kept, NEW c \in Question, ClientCommand(c)
    PROVE  Kept'
<1>1. /\ Settled
      /\ \A x \in Machine : Owns(x)' => Owns(x) \/ x = Owner
      /\ (Holds(Owner) => Owns(Owner)) => (Holds(Owner)' => stores'[Owner][k].owner)
      /\ current' = IF Holds(Owner)' THEN stores'[Owner][k].value ELSE NoValue
      /\ UNCHANGED <<fixed, up, map, queue, job, membership>>
  BY ClientCommandMeans
<1>2. /\ up \in SUBSET Machine /\ Owner \in up /\ Owner' = Owner /\ up' = up /\ recent' = 0
      /\ job' = job
  BY <1>1, RingsAre, SameMeaning DEF Types, fixed, membership, Kept
<1>3. \A x \in up : ~Busy(x) /\ (Owns(x) => x = Owner)
  BY <1>1, KeptSettled
<1>4. \A x \in up' : KeptJob(x)'
  BY <1>2, <1>3 DEF KeptJob, Busy
<1>5. \A x \in up : Owns(x)' => x = Owner
  BY <1>1, <1>2, <1>3
<1>6. Holds(Owner)' => Owns(Owner)'
  BY <1>1, <1>2 DEF Kept, OwnerOwns, Owns
<1>7. OwnedAsStored'
  <2>1. ASSUME NEW x \in up, Owns(x)' PROVE stores'[x][k].value = current'
    <3>1. x = Owner
      BY <1>5, <2>1
    <3>2. Holds(Owner)'
      BY <1>2, <2>1, <3>1 DEF Owns, Holds
    <3>3. QED
      BY <1>1, <3>1, <3>2
  <2>2. QED
    BY <1>2, <2>1 DEF OwnedAsStored
<1>8. OwnerOwns'
  BY <1>6 DEF OwnerOwns
<1>9. Somewhere'
  <2>1. ASSUME current' # NoValue PROVE \E x \in up' : Owns(x)'
    <3>1. Owns(Owner)'
      BY <1>1, <1>6, <2>1
    <3>2. PICK x \in up : x = Owner
      BY <1>2
    <3>3. Owns(x)'
      BY <1>2, <3>1, <3>2 DEF Owns, Holds
    <3>4. QED
      BY <1>2, <3>3
  <2>2. QED
    BY <2>1 DEF Somewhere
<1>10. QED
  BY <1>2, <1>4, <1>7, <1>8, <1>9, Zenon DEF Kept

LEMMA KeptInitially ==
    ASSUME Types, Init
    PROVE  Kept
<1>1. /\ up \in SUBSET Hash /\ up \in SUBSET Machine /\ Owner \in up /\ keyHash \in Hash
      /\ recent = 0 /\ stores = Placed(up, current) /\ current \in Value /\ current # NoValue
  BY RingsAre DEF Types, Init
<1>2. \A m \in up : ~Busy(m)
  BY <1>1 DEF Init, Busy, Idle
<1>3. \A m \in up : stores[m] = IF m \in Copies(up, keyHash)
                                THEN Put(EmptyStore, k, MakeItem(current, m = Owner))
                                ELSE EmptyStore
  BY <1>1 DEF Placed, Owner
<1>4. \A owned : /\ DOMAIN Put(EmptyStore, k, MakeItem(current, owned)) = {k}
                 /\ Put(EmptyStore, k, MakeItem(current, owned))[k].value = current
                 /\ Put(EmptyStore, k, MakeItem(current, owned))[k].owner = owned
  BY EmptyStoreIs DEF Put, MakeItem
<1>5. OwnedAsStored
  BY <1>3, <1>4, EmptyStoreIs DEF OwnedAsStored, Owns, Holds
<1>6. Owns(Owner)
  <2>1. Owner \in Copies(up, keyHash)
    BY <1>1, CopyHolders DEF Owner
  <2>2. stores[Owner] = Put(EmptyStore, k, MakeItem(current, TRUE))
    BY <1>1, <1>3, <2>1
  <2>3. /\ DOMAIN Put(EmptyStore, k, MakeItem(current, TRUE)) = {k}
        /\ Put(EmptyStore, k, MakeItem(current, TRUE))[k].owner = TRUE
    BY <1>4
  <2>4. QED
    BY <2>2, <2>3 DEF Owns, Holds
<1>7. OwnerOwns /\ Somewhere
  BY <1>1, <1>6 DEF OwnerOwns, Somewhere
<1>8. \A m \in up : KeptJob(m)
  BY <1>2 DEF KeptJob
<1>9. QED
  BY <1>1, <1>5, <1>7, <1>8 DEF Kept


\* While joins are dealt with, nobody has failed and nobody is dropped.
LEMMA NothingFailed ==
    ASSUME Types, Phase, Kept, NEW m \in Machine
    PROVE  /\ ~FailureEventAsPredecessor(m) /\ ~FailureEventAsSuccessor(m)
           /\ \A lost \in Machine : ~RemoveFromList(m, lost)
<1>1. recent = 0 /\ \E new \in up : Joining(new)
  BY DEF Kept, Phase
<1>2. ASSUME NEW role, Pop(m, "failure", role) PROVE FALSE
  <2>1. m \in up /\ queue[m] # <<>> /\ Head(queue[m]).reason = "failure"
    BY <1>2, PopMeans
  <2>2. QED
    BY <1>1, <2>1, MessageOfPhase
<1>3. ASSUME NEW lost \in Machine, RemoveFromList(m, lost) PROVE FALSE
  <2>1. m \in up /\ lost \in RingAt(m) \ up
    BY <1>3, RemoveFromListMeans
  <2>2. QED
    BY <1>1, <2>1 DEF Joining
<1>4. QED
  BY <1>2, <1>3 DEF FailureEventAsPredecessor, FailureEventAsSuccessor

LEMMA KeptByStep ==
    ASSUME Types, Phase, KeptUnlessFailed, [Next]_vars
    PROVE  KeptUnlessFailed'
<1> SUFFICES ASSUME failures' = 0 PROVE Kept'
  BY DEF KeptUnlessFailed
<1>1. ASSUME NEW m \in Machine, Fail(m) PROVE FALSE
  <2>1. failures' = failures + 1 /\ failures \in Nat
    BY <1>1, FailMeans DEF Types
  <2>2. QED
    BY <2>1
<1>2. failures = 0
  <2>1. ASSUME NEW m \in Machine, Join(m) \/ TimerThread(m) PROVE failures' = failures
    BY <2>1 DEF Join, TimerThread, JoinEventAsPredecessor, JoinEventAsSuccessor,
                FailureEventAsPredecessor, FailureEventAsSuccessor, Pop, SendCommand,
                ContactSecondReplica, Return, membership
  <2>2. ASSUME NEW m \in Machine, NEW x \in Machine, AddToList(m, x) \/ RemoveFromList(m, x)
        PROVE  failures' = failures
    BY <2>2 DEF AddToList, RemoveFromList, membership
  <2>3. ASSUME NEW c \in Question, ClientCommand(c) PROVE failures' = failures
    BY <2>3 DEF ClientCommand, membership
  <2>4. UNCHANGED vars => failures' = failures
    BY DEF vars, membership
  <2>5. QED
    BY <1>1, <2>1, <2>2, <2>3, <2>4 DEF Next
<1>3. Kept
  BY <1>2 DEF KeptUnlessFailed
<1>4. ASSUME NEW m \in Machine, TimerThread(m) PROVE Kept'
  BY <1>3, <1>4, NothingFailed, KeptJoinAsPredecessor, KeptJoinAsSuccessor, KeptSendCommand,
     KeptContactSecondReplica, KeptReturn DEF TimerThread
<1>5. CASE UNCHANGED vars
  <2>1. /\ UNCHANGED <<fixed, up, map, current, membership>> /\ job' = job
        /\ stores' = stores /\ keyHash' = keyHash /\ up' = up /\ current' = current
        /\ map' = map /\ recent' = recent
    BY <1>5 DEF vars, fixed, membership
  <2>2. Owner' = Owner /\ Owns(Owner)' = Owns(Owner)
    BY <2>1, SameMeaning DEF Owns, Holds
  <2>3. \A x \in up : KeptJob(x)'
    BY <1>3, <2>1, <2>2, KeptJobKept DEF Kept, RingAt
  <2>4. OwnedAsStored' /\ OwnerOwns'
    BY <1>3, <2>1, <2>2 DEF Kept, OwnedAsStored, OwnerOwns, Owns, Holds
  <2>5. Somewhere'
    BY <1>3, <2>1 DEF Kept, Somewhere, Owns, Holds, Carries, Busy, Ops
  <2>6. recent' = 0
    BY <1>3, <2>1 DEF Kept
  <2>7. QED
    BY <2>1, <2>3, <2>4, <2>5, <2>6, Zenon DEF Kept
<1>6. QED
  BY <1>1, <1>3, <1>4, <1>5, NothingFailed, KeptJoin, KeptAddToList, KeptClientCommand DEF Next

LEMMA KeptAlways == Spec => [](Types /\ Phase /\ KeptUnlessFailed)
<1>1. Init => Types /\ Phase /\ KeptUnlessFailed
  BY TypesInitially, PhaseInitially, KeptInitially DEF KeptUnlessFailed
<1>2. Types /\ Phase /\ KeptUnlessFailed /\ [Next]_vars => (Types /\ Phase /\ KeptUnlessFailed)'
  BY TypesStep, PhaseStep, KeptByStep
<1>3. QED
  BY <1>1, <1>2, PTL DEF Spec

\* As long as no machine fails, however many join and in whatever order they are heard
\* of: whenever all is settled, the machine clients are sent to has the key with the
\* value they stored last, no other takes itself for the owner, and a key that was
\* deleted is with nobody as its owner (handleJoinEventAsSuccessor,
\* getIPToSendToFromKeyHash).
THEOREM OwnerServes == Spec => [](failures = 0 => OwnerServesWhenSettled)
<1>1. ASSUME Types, Phase, Kept, Settled
      PROVE  /\ Lookup(stores[Owner], k).reply = current
             /\ {m \in up : Owns(m)} = IF current = NoValue THEN {} ELSE {Owner}
  <2>1. /\ \A m \in up : Owns(m) => m = Owner
        /\ current # NoValue => Owns(Owner) /\ stores[Owner][k].value = current
        /\ current = NoValue => ~Holds(Owner)
        /\ Owner \in up
    BY <1>1, KeptSettled, RingsAre
  <2>2. CASE current = NoValue
    BY <2>1, <2>2 DEF Lookup, Owns, Holds
  <2>3. CASE current # NoValue
    BY <2>1, <2>3 DEF Lookup, Owns, Holds
  <2>4. QED
    BY <2>2, <2>3
<1>2. Types /\ Phase /\ KeptUnlessFailed => (failures = 0 => OwnerServesWhenSettled)
  BY <1>1 DEF KeptUnlessFailed, OwnerServesWhenSettled
<1>3. QED
  BY <1>2, KeptAlways, PTL

\* As long as no machine fails, the key is never nowhere: between the moment in which
\* getCommandsToTransferOwnedKeysAtJoin takes it out of the store and that in which
\* the new member executes the insert, the value clients stored last is in a command
\* still to be sent, and at every other moment a machine has it.
THEOREM CopyAlwaysSurvives == Spec => [](failures = 0 => CopySurvives)
<1>1. ASSUME Types, Kept, current # NoValue
      PROVE  \E m \in up :
                \/ Lookup(stores[m], k).reply = current
                \/ Busy(m) /\ Send("insert", current)
                                \in {job[m].todo[i] : i \in DOMAIN job[m].todo}
  <2>1. PICK m \in up : Owns(m) \/ Carries(m)
    BY <1>1 DEF Kept, Somewhere
  <2>2. CASE Owns(m)
    <3>1. Lookup(stores[m], k).reply = current
      BY <1>1, <2>2 DEF Kept, OwnedAsStored, Lookup, Owns, Holds
    <3>2. QED
      BY <3>1
  <2>3. CASE Carries(m)
    <3>1. Busy(m) /\ Ops(job[m].todo) \cap {"replicate", "insert"} # {}
      BY <2>3 DEF Carries
    <3>2. job[m].todo \in {<<Send("insert", current)>>,
                           <<Send("replicate", current), Send("insert", current)>>}
      BY <1>1, <3>1 DEF Kept, KeptJob
    <3>3. Send("insert", current) \in {job[m].todo[i] : i \in DOMAIN job[m].todo}
      <4>1. CASE job[m].todo = <<Send("insert", current)>>
        BY <4>1
      <4>2. CASE job[m].todo = <<Send("replicate", current), Send("insert", current)>>
        <5>1. 2 \in DOMAIN job[m].todo /\ job[m].todo[2] = Send("insert", current)
          BY <4>2
        <5>2. QED
          BY <5>1
      <4>3. QED
        BY <3>2, <4>1, <4>2
    <3>4. QED
      BY <3>1, <3>3
  <2>4. QED
    BY <2>1, <2>2, <2>3
<1>2. Types /\ Phase /\ KeptUnlessFailed => (failures = 0 => CopySurvives)
  BY <1>1 DEF KeptUnlessFailed, CopySurvives
<1>3. QED
  BY <1>2, KeptAlways, PTL

--------------------------------------------------------------------------------
(* What failures leave                                                          *)

\* The store with the key as clients stored it last, and with nothing if they deleted it.
StoreWith(value, owned) == IF value = NoValue THEN EmptyStore ELSE Single(value, owned)

HasCopy(x, owned) == stores[x] = StoreWith(current, owned)

\* What the owner sends to a replica, and what is left of that after the first command.
SecondCommand == <<Send("finsert", current)>>
Refresh       == <<Send("fdelete", NoValue), Send("finsert", current)>>

\* The owner is going to give x the key.
Gives(x) ==
    \/ Busy(Owner) /\ job[Owner].todo # <<>> /\ job[Owner].to = x
    \/ Busy(Owner) /\ job[Owner].later # <<>> /\ SecondReplica(Owner) = x
    \/ \E msg \in ToSet(queue[Owner]) :
           msg.role = "predecessor" /\ msg.newSecondReplica = IPOf[x]

\* The owner is the owner on its own ring, too.
Ready == OwnerHash(RingAt(Owner), keyHash) = Owner

\* Nobody but the owner sends anything, and it sends to its replicas.
RepairJob(m) ==
    Busy(m) =>
        /\ job[m].message.reason = "failure"
        /\ job[m].todo \in {<<>>, SecondCommand, Refresh} /\ job[m].later \in {<<>>, Refresh}
        /\ job[m].todo # <<>> \/ job[m].later # <<>> => m = Owner /\ Owns(m)
        /\ job[m].todo # <<>> /\ job[m].to \in up => IsReplica(up, Owner, job[m].to)

\* The owner has taken over the key, or the message that makes it do so comes; the
\* others have nothing they need not have.
RepairStore(x) ==
    IF x = Owner
    THEN \/ HasCopy(x, TRUE) /\ Ready
         \/ HasCopy(x, FALSE) /\ (Ready => \E msg \in ToSet(queue[x]) : Inherits(msg))
    ELSE stores[x] = EmptyStore \/ (HasCopy(x, FALSE) /\ IsReplica(up, Owner, x))

RepairQueue ==
    \A msg \in ToSet(queue[Owner]) :
        /\ Inherits(msg) => Ready
        /\ msg.role = "predecessor" =>
             \A x \in up : msg.newSecondReplica = IPOf[x] => IsReplica(up, Owner, x)

\* Once it is its owner, it has given or will give the key to the replicas it knows of.
Served ==
    Owns(Owner) =>
        \A x \in up : IsReplica(RingAt(Owner), Owner, x) => HasCopy(x, FALSE) \/ Gives(x)

Repairing ==
    /\ recent # 0
    /\ \A x \in up : RepairJob(x) /\ RepairStore(x)
    /\ RepairQueue
    /\ Served

\* Nobody has noticed that one or two of the machines of R are lost.
Untouched(R) ==
    /\ up \subseteq R
    /\ \A m \in up : /\ RingAt(m) = R /\ queue[m] = <<>> /\ job[m] = Idle
                     /\ stores[m] = Placed(R, current)[m]
    /\ \E a, b \in Machine : R \subseteq up \cup {a, b}
    /\ recent = 1 => \E a \in Machine : R \subseteq up \cup {a}

Repaired ==
    \/ \E R \in SUBSET Machine : Untouched(R)
    \/ Repairing /\ (recent = 1 => \E x \in up : RingAt(x) = up)

RepairedUnlessJoined == joins = 0 => Repaired

LEMMA StoreWithMeans ==
    ASSUME NEW value \in Value \cup {NoValue}, NEW owned \in BOOLEAN,
           NEW S, S = StoreWith(value, owned)
    PROVE  /\ S \in Stores
           /\ k \in DOMAIN S <=> value # NoValue
           /\ k \in DOMAIN S => S[k].value = value /\ S[k].owner = owned
<1>1. CASE value = NoValue
  BY <1>1, EmptyStoreIs DEF StoreWith
<1>2. CASE value # NoValue
  <2>1. value \in Value /\ S = Single(value, owned)
    BY <1>2 DEF StoreWith
  <2> QED BY <1>2, <2>1, SingleIs
<1> QED BY <1>1, <1>2

LEMMA CopyMeans ==
    ASSUME Types, NEW x \in Machine, NEW owned \in BOOLEAN, HasCopy(x, owned)
    PROVE  /\ Holds(x) <=> current # NoValue
           /\ Owns(x) <=> current # NoValue /\ owned
           /\ Holds(x) => stores[x][k].value = current /\ stores[x][k].owner = owned
<1>1. current \in Value \cup {NoValue}
  BY DEF Types
<1>2. /\ k \in DOMAIN stores[x] <=> current # NoValue
      /\ k \in DOMAIN stores[x] => stores[x][k].value = current /\ stores[x][k].owner = owned
  BY <1>1, StoreWithMeans DEF HasCopy
<1> QED BY <1>2 DEF Holds, Owns

\* The stores as they should be
LEMMA PlacedMeans ==
    ASSUME NEW R \in SUBSET Machine, NEW m \in Machine, NEW value
    PROVE  Placed(R, value)[m] =
               IF m \in R /\ m \in Copies(R, keyHash)
               THEN StoreWith(value, m = OwnerHash(R, keyHash)) ELSE EmptyStore
<1>1. ASSUME NEW owned PROVE Put(EmptyStore, k, MakeItem(value, owned)) = Single(value, owned)
  BY DEF Put, EmptyStore, Single
<1>2. Placed(R, value)[m] =
          IF value # NoValue /\ m \in R /\ m \in Copies(R, keyHash)
          THEN Put(EmptyStore, k, MakeItem(value, m = OwnerHash(R, keyHash))) ELSE EmptyStore
  BY DEF Placed
<1> QED BY <1>1, <1>2 DEF StoreWith

\* The copies are on the owner and its replicas.
LEMMA PlacedAt ==
    ASSUME Types, NEW m \in Machine
    PROVE  Placed(up, current)[m] =
               IF m = Owner THEN StoreWith(current, TRUE)
               ELSE IF m \in up /\ IsReplica(up, Owner, m) THEN StoreWith(current, FALSE)
               ELSE EmptyStore
<1>1. up \in SUBSET Hash /\ up \in SUBSET Machine /\ Owner \in up /\ keyHash \in Hash
  BY RingsAre DEF Types
<1>2. Placed(up, current)[m] =
          IF m \in up /\ m \in Copies(up, keyHash)
          THEN StoreWith(current, m = Owner) ELSE EmptyStore
  BY <1>1, PlacedMeans DEF Owner
<1>3. m \in up => (m \in Copies(up, keyHash) <=> m = Owner \/ IsReplica(up, Owner, m))
  BY <1>1, CopiesMean DEF Owner
<1>4. CASE m = Owner
  BY <1>1, <1>2, <1>3, <1>4
<1>5. CASE m # Owner
  BY <1>1, <1>2, <1>3, <1>5
<1> QED BY <1>4, <1>5

\* When the repair is at its end the key is where it should be.
LEMMA RepairedAtTheEnd ==
    ASSUME Types, Repaired, Settled
    PROVE  stores = Placed(up, current)
<1>1. /\ \A m \in up : RingAt(m) = up /\ queue[m] = <<>> /\ job[m] = Idle
      /\ up \in SUBSET Machine /\ Owner \in up /\ up # {}
      /\ stores \in [Machine -> Stores] /\ \A m \in Machine \ up : stores[m] = EmptyStore
  BY RingsAre DEF Settled, RingAt, Types
<1>2. \A m \in Machine \ up : Placed(up, current)[m] = EmptyStore
  BY <1>1, PlacedAt
<1>3. ASSUME NEW R \in SUBSET Machine, Untouched(R)
      PROVE  \A m \in up : stores[m] = Placed(up, current)[m]
  <2>1. R = up
    BY <1>1, <1>3 DEF Untouched
  <2> QED BY <1>3, <2>1 DEF Untouched
<1>4. ASSUME Repairing, NEW m \in up PROVE stores[m] = Placed(up, current)[m]
  <2>1. ToSet(queue[Owner]) = {} /\ ~Busy(Owner) /\ RingAt(Owner) = up /\ Ready
    BY <1>1, FewElements DEF Busy, Idle, Ready, Owner
  <2>2. HasCopy(Owner, TRUE)
    BY <1>1, <1>4, <2>1 DEF Repairing, RepairStore
  <2>3. CASE m = Owner
    BY <1>1, <2>2, <2>3, PlacedAt DEF HasCopy
  <2>4. CASE m # Owner /\ IsReplica(up, Owner, m)
    <3>1. Placed(up, current)[m] = StoreWith(current, FALSE)
      BY <1>1, <2>4, PlacedAt
    <3>2. CASE current = NoValue
      BY <1>4, <2>4, <3>1, <3>2 DEF Repairing, RepairStore, HasCopy, StoreWith
    <3>3. CASE current # NoValue
      <4>1. Owns(Owner)
        BY <1>1, <2>2, <3>3, CopyMeans
      <4>2. ~Gives(m)
        BY <2>1 DEF Gives
      <4>3. HasCopy(m, FALSE)
        BY <1>4, <2>1, <2>4, <4>1, <4>2 DEF Repairing, Served
      <4> QED BY <3>1, <4>3 DEF HasCopy
    <3> QED BY <3>2, <3>3
  <2>5. CASE m # Owner /\ ~IsReplica(up, Owner, m)
    BY <1>1, <1>4, <2>5, PlacedAt DEF Repairing, RepairStore
  <2> QED BY <2>3, <2>4, <2>5
<1>5. \A m \in Machine : stores[m] = Placed(up, current)[m]
  BY <1>1, <1>2, <1>3, <1>4 DEF Repaired
<1>6. DOMAIN Placed(up, current) = Machine
      /\ Placed(up, current) = [m \in Machine |-> Placed(up, current)[m]]
  BY DEF Placed
<1> QED BY <1>1, <1>5, <1>6

\* Two machines are lost and nobody has noticed: nothing is to be done yet but to notice.
LEMMA UntouchedIsRepairing ==
    ASSUME Types, NEW R \in SUBSET Machine, Untouched(R), recent # 0
    PROVE  Repairing
<1>1. PICK p : p = Owner
  OBVIOUS
<1>2. /\ p \in up /\ up \in SUBSET Hash /\ up # {} /\ up \in SUBSET Machine /\ keyHash \in Hash
      /\ R \in SUBSET Hash /\ up \in SUBSET R /\ p \in R /\ p = OwnerHash(up, keyHash)
      /\ \A m \in up : /\ RingAt(m) = R /\ queue[m] = <<>> /\ job[m] = Idle
                       /\ stores[m] = Placed(R, current)[m]
  BY <1>1, RingsAre DEF Types, Untouched, Owner
<1>3. p \in Copies(R, keyHash)
  <2>1. PICK a, b \in Machine : R \subseteq up \cup {a, b}
    BY DEF Untouched
  <2> QED BY <1>2, <2>1, HeirHasCopy
<1>4. OwnerHash(R, keyHash) \in up => OwnerHash(R, keyHash) = p
  BY <1>2, OwnerAmongFewer
<1>5. \A m \in up : stores[m] =
          IF m \in Copies(R, keyHash) THEN StoreWith(current, m = OwnerHash(R, keyHash))
          ELSE EmptyStore
  BY <1>2, PlacedMeans
<1>6. \A m \in up : ~Busy(m) /\ ToSet(queue[m]) = {}
  BY <1>2, FewElements DEF Busy, Idle
<1>7. ASSUME NEW x \in up, x # p, x \in Copies(R, keyHash)
      PROVE  HasCopy(x, FALSE) /\ IsReplica(up, p, x)
  <2>1. HasCopy(x, FALSE)
    BY <1>4, <1>5, <1>7 DEF HasCopy
  <2>2. x \in Copies(up, keyHash)
    BY <1>2, <1>7, CopyAmongFewer
  <2> QED BY <1>2, <1>7, <2>1, <2>2, CopiesMean
<1>8. ASSUME NEW x \in up PROVE RepairStore(x)
  <2>1. CASE x = p /\ p = OwnerHash(R, keyHash)
    BY <1>1, <1>2, <1>3, <1>5, <2>1 DEF RepairStore, HasCopy, Ready
  <2>2. CASE x = p /\ p # OwnerHash(R, keyHash)
    BY <1>1, <1>2, <1>3, <1>5, <2>2 DEF RepairStore, HasCopy, Ready
  <2>3. CASE x # p
    BY <1>1, <1>5, <1>7, <2>3 DEF RepairStore
  <2> QED BY <2>1, <2>2, <2>3
<1>9. Served
  <2> SUFFICES ASSUME Owns(p), NEW x \in up, IsReplica(R, p, x) PROVE HasCopy(x, FALSE)
    BY <1>1, <1>2 DEF Served
  <2>1. p = OwnerHash(R, keyHash)
    <3>1. p # OwnerHash(R, keyHash) => HasCopy(p, FALSE)
      BY <1>2, <1>3, <1>5 DEF HasCopy
    <3> QED BY <1>2, <3>1, CopyMeans
  <2>2. x \in Copies(R, keyHash) /\ x # p
    BY <1>2, <2>1, CopiesMean, NotItsOwnReplica
  <2> QED BY <1>7, <2>2
<1>10. \A x \in up : RepairJob(x)
  BY <1>6 DEF RepairJob
<1>11. RepairQueue
  BY <1>1, <1>2, <1>6 DEF RepairQueue
<1> QED BY <1>8, <1>9, <1>10, <1>11 DEF Repairing

\* What the repair speaks of stays the same when the machines do, and the owner's ring.
LEMMA SameRepair ==
    ASSUME UNCHANGED <<fixed, up, current>>, NEW p, p = Owner, RingAt(p)' = RingAt(p)
    PROVE  /\ keyHash' = keyHash /\ up' = up /\ current' = current /\ Owner' = p
           /\ Ready' = Ready /\ SecondReplica(p)' = SecondReplica(p)
           /\ Refresh' = Refresh /\ SecondCommand' = SecondCommand
           /\ \A msg : Inherits(msg)' = Inherits(msg)
           /\ \A x, owned : stores'[x] = stores[x] =>
                /\ HasCopy(x, owned)' = HasCopy(x, owned)
                /\ Holds(x)' = Holds(x) /\ Owns(x)' = Owns(x)
<1>1. keyHash' = keyHash /\ up' = up /\ current' = current
  BY DEF fixed
<1>2. Owner' = p
  BY <1>1 DEF Owner
<1>3. Ready' = Ready
  BY <1>1, <1>2 DEF Ready
<1>4. SecondReplica(p)' = SecondReplica(p)
  BY DEF SecondReplica, RingAt
<1>5. Refresh' = Refresh /\ SecondCommand' = SecondCommand
  BY <1>1 DEF Refresh, SecondCommand
<1>6. \A msg : Inherits(msg)' = Inherits(msg)
  BY <1>1, SameMeaning
<1>7. ASSUME NEW x, NEW owned, stores'[x] = stores[x]
      PROVE  /\ HasCopy(x, owned)' = HasCopy(x, owned)
             /\ Holds(x)' = Holds(x) /\ Owns(x)' = Owns(x)
  BY <1>1, <1>7 DEF HasCopy, Holds, Owns
<1> QED BY <1>1, <1>2, <1>3, <1>4, <1>5, <1>6, <1>7

\* A step that touches neither the stores nor the owner.
LEMMA RepairKeptByOthers ==
    ASSUME Types, Repairing, UNCHANGED <<fixed, up, current, stores, membership>>,
           NEW p, p = Owner,
           RingAt(p)' = RingAt(p), queue'[p] = queue[p], job'[p] = job[p],
           \A x \in up \ {p} : RepairJob(x)'
    PROVE  Repairing'
<1>1. /\ keyHash' = keyHash /\ up' = up /\ current' = current /\ Owner' = p
      /\ Ready' = Ready /\ SecondReplica(p)' = SecondReplica(p)
      /\ Refresh' = Refresh /\ SecondCommand' = SecondCommand
      /\ \A msg : Inherits(msg)' = Inherits(msg)
      /\ \A x, owned : /\ HasCopy(x, owned)' = HasCopy(x, owned)
                       /\ Holds(x)' = Holds(x) /\ Owns(x)' = Owns(x)
  BY SameRepair
<1>2. p \in up /\ recent' = recent /\ stores' = stores
  BY RingsAre DEF membership
<1>3. RepairJob(p)'
  BY <1>1, <1>2 DEF Repairing, RepairJob, Busy
<1>4. \A x \in up : RepairStore(x)'
  BY <1>1, <1>2 DEF Repairing, RepairStore
<1>5. RepairQueue'
  BY <1>1 DEF Repairing, RepairQueue
<1>6. \A x : Gives(x)' = Gives(x)
  BY <1>1 DEF Gives, Busy
<1>7. Served'
  BY <1>1, <1>6 DEF Repairing, Served
<1> QED BY <1>1, <1>2, <1>3, <1>4, <1>5, <1>7 DEF Repairing

\* A step of the owner's thread.
LEMMA RepairKeptByOwner ==
    ASSUME Types, Repairing, UNCHANGED <<fixed, up, map, current, membership>>,
           NEW p, p = Owner,
           \A x \in Machine \ {p} : job'[x] = job[x],
           ToSet(queue'[p]) \subseteq ToSet(queue[p]),
           RepairJob(p)', \A x \in up : RepairStore(x)', Served'
    PROVE  Repairing'
<1>1. /\ keyHash' = keyHash /\ up' = up /\ current' = current /\ Owner' = p
      /\ Ready' = Ready /\ Refresh' = Refresh /\ SecondCommand' = SecondCommand
      /\ \A msg : Inherits(msg)' = Inherits(msg)
  <2>1. RingAt(p)' = RingAt(p)
    BY DEF RingAt
  <2> QED BY <2>1, SameRepair
<1>2. recent' = recent /\ up \in SUBSET Machine
  BY DEF membership, Types
<1>3. ASSUME NEW x \in up \ {p} PROVE RepairJob(x)'
  <2>1. job'[x] = job[x] /\ RepairJob(x)
    BY <1>2 DEF Repairing
  <2>2. Busy(x)' => Busy(x)
    BY <2>1 DEF Busy
  <2>3. Busy(x) => job[x].todo = <<>> /\ job[x].later = <<>> /\ job[x].message.reason = "failure"
    BY <2>1 DEF RepairJob
  <2> QED BY <2>1, <2>2, <2>3 DEF RepairJob
<1>4. RepairQueue'
  BY <1>1 DEF Repairing, RepairQueue
<1> QED BY <1>1, <1>2, <1>3, <1>4 DEF Repairing

\* The rest of the queue, when its first message is taken.
LEMMA LeftInQueue ==
    ASSUME Types, NEW m \in Machine, NEW reason, NEW role, Pop(m, reason, role)
    PROVE  ToSet(queue[m]) = {Head(queue[m])} \cup ToSet(queue'[m])
<1>1. queue[m] \in Seq(Work) /\ queue[m] # <<>> /\ queue' = [queue EXCEPT ![m] = Tail(queue[m])]
      /\ queue \in [Machine -> Seq(Work)]
  BY DEF Types, Pop
<1>2. queue'[m] = Tail(queue[m])
  BY <1>1
<1> QED BY <1>1, <1>2, Elements

\* What the handlers of a failure do, in full.
LEMMA PredecessorHandles ==
    ASSUME Types, NEW m \in Machine, FailureEventAsPredecessor(m)
    PROVE  LET msg  == Head(queue[m])
               some == msg.newSecondReplica # NoIP
           IN  /\ Pop(m, "failure", "predecessor")
               /\ msg.newSecondReplica \in Address \cup {NoIP}
               /\ JobBecomes(m, msg, IF some THEN At(msg.newSecondReplica) ELSE NoHash,
                             IF some /\ Owns(m) THEN Replicate(m) ELSE <<>>, <<>>)
               /\ stores' = stores
<1> DEFINE msg  == Head(queue[m])
           some == msg.newSecondReplica # NoIP
           to   == IF some THEN At(msg.newSecondReplica) ELSE NoHash
           todo == IF some /\ Owns(m) THEN Replicate(m) ELSE <<>>
<1>1. Pop(m, "failure", "predecessor")
  BY DEF FailureEventAsPredecessor
<1>2. msg \in Work /\ msg.reason = "failure" /\ msg.role = "predecessor"
  BY <1>1, PopMeans
<1>3. msg.newSecondReplica \in Address \cup {NoIP}
  BY <1>2 DEF Work, Messages
<1>4. /\ to \in Machine \cup {NoHash}
      /\ some => to \in Machine /\ to # NoHash
  BY <1>3, AddressIs DEF Hash, NoHash
<1>5. Owns(m) => Replicate(m) \in Seq(Commands)
  BY CommandsAre DEF Owns
<1>6. todo \in Seq(Commands) /\ (todo # <<>> => some)
  BY <1>5
<1>7. job' = [job EXCEPT ![m] = Working(msg, to, todo, <<>>)] /\ stores' = stores
  BY Zenon DEF FailureEventAsPredecessor
<1> HIDE DEF msg, to, todo, some
<1>8. JobBecomes(m, msg, to, todo, <<>>)
  BY <1>2, <1>4, <1>6, <1>7 DEF JobBecomes
<1> QED BY <1>1, <1>3, <1>7, <1>8, Zenon DEF msg, some, to, todo

LEMMA SuccessorHandles ==
    ASSUME Types, NEW m \in Machine, FailureEventAsSuccessor(m)
    PROVE  LET msg   == Head(queue[m])
               first == FirstReplica(m)
           IN  /\ Pop(m, "failure", "successor")
               /\ TakesOver(m, msg) =>
                    /\ JobBecomes(m, msg, first, IF first = NoHash THEN <<>> ELSE Replicate(m),
                                  Replicate(m))
                    /\ stores' = [stores EXCEPT ![m] = Single(stores[m][k].value, TRUE)]
               /\ ~TakesOver(m, msg) =>
                    JobBecomes(m, msg, first, <<>>, <<>>) /\ stores' = stores
<1> DEFINE msg   == Head(queue[m])
           first == FirstReplica(m)
           todo  == IF first = NoHash THEN <<>> ELSE Replicate(m)
<1>1. Pop(m, "failure", "successor")
  BY DEF FailureEventAsSuccessor
<1>2. msg \in Work /\ msg.role = "successor" /\ m \in up /\ first \in Machine \cup {NoHash}
  BY <1>1, PopMeans, ReplicasAre
<1>3. CASE TakesOver(m, msg)
  <2>1. Replicate(m) \in Seq(Commands)
    BY <1>3, CommandsAre DEF TakesOver
  <2>2. todo \in Seq(Commands) /\ (todo # <<>> => first # NoHash)
    BY <2>1
  <2>3. job' = [job EXCEPT ![m] = Working(msg, first, todo, Replicate(m))]
    BY <1>3, Zenon DEF FailureEventAsSuccessor
  <2>4. stores' = [stores EXCEPT ![m][k].owner = TRUE]
    BY <1>3, Zenon DEF FailureEventAsSuccessor, ChangedToOwned
  <2>5. stores[m] \in [{k} -> Item]
    <3>1. stores[m] \in Stores /\ k \in DOMAIN stores[m]
      BY <1>3 DEF TakesOver, Holds, Types
    <3> QED BY <3>1, EmptyStoreIs DEF Stores
  <2>6. [stores[m] EXCEPT ![k].owner = TRUE] = Single(stores[m][k].value, TRUE)
    <3>1. [stores[m][k] EXCEPT !.owner = TRUE] = MakeItem(stores[m][k].value, TRUE)
      <4>1. PICK v \in Value, owned \in BOOLEAN : stores[m][k] = [value |-> v, owner |-> owned]
        BY <2>5 DEF Item
      <4>2. \A now : [[value |-> v, owner |-> owned] EXCEPT !.owner = now]
                        = [value |-> v, owner |-> now]
        OBVIOUS
      <4>3. [stores[m][k] EXCEPT !.owner = TRUE] = [value |-> v, owner |-> TRUE]
        BY <4>1, <4>2, Zenon
      <4> QED BY <4>1, <4>3 DEF MakeItem
    <3> QED BY <2>5, <3>1 DEF Single
  <2>7. stores' = [stores EXCEPT ![m] = Single(stores[m][k].value, TRUE)]
    BY <2>4, <2>6
  <2> HIDE DEF msg, first, todo
  <2>8. JobBecomes(m, msg, first, todo, Replicate(m))
    BY <1>2, <2>1, <2>2, <2>3 DEF JobBecomes
  <2> QED BY <1>1, <1>3, <2>7, <2>8, Zenon DEF msg, first, todo
<1>4. CASE ~TakesOver(m, msg)
  <2>1. job' = [job EXCEPT ![m] = Working(msg, first, <<>>, <<>>)] /\ stores' = stores
    BY <1>4, Zenon DEF FailureEventAsSuccessor
  <2> HIDE DEF msg, first
  <2>2. JobBecomes(m, msg, first, <<>>, <<>>)
    BY <1>2, <2>1 DEF JobBecomes
  <2> QED BY <1>1, <1>4, <2>1, <2>2, Zenon DEF msg, first
<1> QED BY <1>3, <1>4

--------------------------------------------------------------------------------
(* The steps of a repair                                                        *)

\* What the threads of other machines do changes nothing: they have no range with the
\* key to take over, and nothing to send.
LEMMA OthersRepair ==
    ASSUME Types, Phase, Repairing, NEW m \in up \ {Owner},
           \/ FailureEventAsPredecessor(m) \/ FailureEventAsSuccessor(m)
           \/ SendCommand(m) \/ ContactSecondReplica(m) \/ Return(m)
    PROVE  Repairing'
<1>1. PICK p : p = Owner
  OBVIOUS
<1>2. /\ m \in Machine /\ p \in up /\ m # p /\ p \in Machine
      /\ RepairJob(m) /\ RepairStore(m) /\ up \in SUBSET Machine
  BY <1>1, RingsAre DEF Repairing, Types
<1>3. ~Owns(m)
  <2>1. stores[m] = EmptyStore \/ HasCopy(m, FALSE)
    BY <1>1, <1>2 DEF RepairStore
  <2>2. stores[m] = EmptyStore => ~Owns(m)
    BY EmptyStoreIs DEF Owns, Holds
  <2> QED BY <1>2, <2>1, <2>2, CopyMeans
<1>4. ASSUME UNCHANGED <<fixed, up, map, current, membership>>, stores' = stores,
             \A x \in Machine \ {m} : queue'[x] = queue[x] /\ job'[x] = job[x],
             Busy(m)' => /\ job'[m].message.reason = "failure"
                         /\ job'[m].todo = <<>> /\ job'[m].later = <<>>
      PROVE  Repairing'
  <2>1. RingAt(p)' = RingAt(p) /\ queue'[p] = queue[p] /\ job'[p] = job[p]
    BY <1>2, <1>4 DEF RingAt
  <2>2. ASSUME NEW x \in up \ {p} PROVE RepairJob(x)'
    <3>1. CASE x = m
      BY <1>4, <3>1 DEF RepairJob
    <3>2. CASE x # m
      <4>1. job'[x] = job[x] /\ RepairJob(x)
        BY <1>2, <1>4, <3>2 DEF Repairing
      <4>2. Busy(x)' => Busy(x)
        BY <4>1 DEF Busy
      <4>3. Busy(x) => job[x].todo = <<>> /\ job[x].later = <<>>
                       /\ job[x].message.reason = "failure"
        BY <1>1, <4>1 DEF RepairJob
      <4> QED BY <4>1, <4>2, <4>3 DEF RepairJob
    <3> QED BY <3>1, <3>2
  <2> QED BY <1>1, <1>4, <2>1, <2>2, RepairKeptByOthers
<1>5. CASE FailureEventAsPredecessor(m)
  <2>1. /\ Pop(m, "failure", "predecessor") /\ stores' = stores
        /\ \E to : JobBecomes(m, Head(queue[m]), to, <<>>, <<>>)
    BY <1>2, <1>3, <1>5, PredecessorHandles
  <2>2. PICK to : JobBecomes(m, Head(queue[m]), to, <<>>, <<>>)
    BY <2>1
  <2>3. Head(queue[m]).reason = "failure" /\ UNCHANGED <<fixed, current, up, map, membership>>
        /\ \A x \in Machine \ {m} : queue'[x] = queue[x]
    BY <1>2, <2>1, PopMeans
  <2>4. /\ \A x \in Machine \ {m} : job'[x] = job[x]
        /\ job'[m].message = Head(queue[m]) /\ job'[m].todo = <<>> /\ job'[m].later = <<>>
    BY <1>2, <2>2, JobBecomesMeans
  <2> QED BY <1>4, <2>1, <2>3, <2>4
<1>6. CASE FailureEventAsSuccessor(m)
  <2>1. Pop(m, "failure", "successor")
    BY <1>2, <1>6, SuccessorHandles
  <2>2. Head(queue[m]).reason = "failure" /\ UNCHANGED <<fixed, current, up, map, membership>>
        /\ Head(queue[m]).role = "successor" /\ queue[m] # <<>>
        /\ \A x \in Machine \ {m} : queue'[x] = queue[x]
    BY <1>2, <2>1, PopMeans
  <2>3. ~Inherits(Head(queue[m]))
    BY <1>1, <1>2, <2>2, MessageOfPhase
  <2>4. ~TakesOver(m, Head(queue[m]))
    BY <2>2, <2>3 DEF TakesOver, Inherits
  <2>5. stores' = stores /\ JobBecomes(m, Head(queue[m]), FirstReplica(m), <<>>, <<>>)
    BY <1>2, <1>6, <2>4, SuccessorHandles
  <2>6. /\ \A x \in Machine \ {m} : job'[x] = job[x]
        /\ job'[m].message = Head(queue[m]) /\ job'[m].todo = <<>> /\ job'[m].later = <<>>
    BY <1>2, <2>5, JobBecomesMeans
  <2> QED BY <1>4, <2>2, <2>5, <2>6
<1>7. CASE SendCommand(m) \/ ContactSecondReplica(m)
  BY <1>1, <1>2, <1>7 DEF SendCommand, ContactSecondReplica, RepairJob
<1>8. CASE Return(m)
  <2>1. /\ Busy(m) /\ job'[m] \in {Idle, Draining}
        /\ \A x \in Machine \ {m} : job'[x] = job[x]
        /\ UNCHANGED <<fixed, current, up, map, queue, membership>>
    BY <1>2, <1>8, ReturnMeans
  <2>2. job[m].message.reason = "failure"
    BY <1>2, <2>1 DEF RepairJob
  <2>3. stores' = stores
    BY <1>8, <2>2 DEF Return
  <2>4. ~Busy(m)'
    BY <2>1 DEF Busy, Idle, Draining
  <2> QED BY <1>4, <2>1, <2>3, <2>4
<1> QED BY <1>5, <1>6, <1>7, <1>8

\* The owner has the key with the value clients stored last if it takes itself for the
\* owner; and what it then makes of it is what a replica needs.
LEMMA OwnerSends ==
    ASSUME Types, Repairing, NEW p, p = Owner, Holds(p)
    PROVE  /\ current # NoValue /\ stores[p][k].value = current
           /\ Replicate(p) = Refresh /\ Refresh # <<>> /\ SecondCommand # <<>>
           /\ Owns(p) => HasCopy(p, TRUE) /\ Ready
           /\ ~Owns(p) => HasCopy(p, FALSE)
<1>1. p \in up /\ p \in Machine
  BY RingsAre DEF Types
<1>2. (HasCopy(p, TRUE) /\ Ready) \/ HasCopy(p, FALSE)
  BY <1>1 DEF Repairing, RepairStore
<1>3. current # NoValue /\ stores[p][k].value = current
      /\ (HasCopy(p, TRUE) => Owns(p)) /\ (HasCopy(p, FALSE) => ~Owns(p))
  BY <1>1, <1>2, CopyMeans
<1>4. Replicate(p) = Refresh
  BY <1>3 DEF Replicate, Refresh
<1>5. Refresh # <<>> /\ SecondCommand # <<>>
  BY DEF Refresh, SecondCommand
<1> QED BY <1>2, <1>3, <1>4, <1>5

\* The owner turns to a message that tells it of a new second replica.
LEMMA OwnerAsPredecessor ==
    ASSUME Types, Phase, Repairing, NEW p, p = Owner, FailureEventAsPredecessor(p)
    PROVE  Repairing'
<1> DEFINE msg  == Head(queue[p])
           some == msg.newSecondReplica # NoIP
           to   == IF some THEN At(msg.newSecondReplica) ELSE NoHash
           todo == IF some /\ Owns(p) THEN Replicate(p) ELSE <<>>
<1>1. p \in up /\ p \in Machine /\ up \in SUBSET Machine
  BY RingsAre DEF Types
<1>2. /\ Pop(p, "failure", "predecessor") /\ stores' = stores
      /\ msg.newSecondReplica \in Address \cup {NoIP}
      /\ JobBecomes(p, msg, to, todo, <<>>)
  BY <1>1, PredecessorHandles
<1>3. /\ ~Busy(p) /\ msg \in ToSet(queue[p])
      /\ msg.reason = "failure" /\ msg.role = "predecessor"
      /\ ToSet(queue'[p]) \subseteq ToSet(queue[p])
      /\ UNCHANGED <<fixed, current, up, map, membership>>
  BY <1>1, <1>2, PopMeans
<1>4. ToSet(queue[p]) = {msg} \cup ToSet(queue'[p])
  BY <1>1, <1>2, LeftInQueue
<1>5. Owns(p) => todo \in {<<>>, Refresh} /\ (some => todo = Refresh) /\ Refresh # <<>>
  BY OwnerSends DEF Owns
<1>6. todo # <<>> => some /\ Owns(p)
  OBVIOUS
<1>7. \A x \in Machine : msg.newSecondReplica = IPOf[x] => some /\ to = x
  <2>1. ASSUME NEW x \in Machine, msg.newSecondReplica = IPOf[x] PROVE some /\ to = x
    <3>1. IPOf[x] # NoIP
      BY AddressIs DEF Address
    <3>2. At(IPOf[x]) = x
      <4>1. \A y \in Machine : IPOf[y] = IPOf[x] <=> y = x
        OBVIOUS
      <4> QED BY <4>1 DEF At
    <3> QED BY <2>1, <3>1, <3>2
  <2> QED BY <2>1
<1>8. some => \E x \in Machine : msg.newSecondReplica = IPOf[x]
  BY <1>2 DEF Address
<1> HIDE DEF msg, some, to, todo
<1>9. /\ \A x \in Machine \ {p} : job'[x] = job[x]
      /\ job'[p].at = "working" /\ job'[p].message = msg /\ job'[p].to = to
      /\ job'[p].todo = todo /\ job'[p].later = <<>>
  BY <1>1, <1>2, JobBecomesMeans
<1>10. /\ keyHash' = keyHash /\ up' = up /\ current' = current /\ Owner' = p
       /\ Ready' = Ready /\ Refresh' = Refresh /\ SecondCommand' = SecondCommand
       /\ RingAt(p)' = RingAt(p)
       /\ \A mm : Inherits(mm)' = Inherits(mm)
       /\ \A x, owned : /\ HasCopy(x, owned)' = HasCopy(x, owned)
                        /\ Holds(x)' = Holds(x) /\ Owns(x)' = Owns(x)
  <2>1. RingAt(p)' = RingAt(p)
    BY <1>3 DEF RingAt
  <2> QED BY <1>2, <1>3, <2>1, SameRepair
<1>11. RepairJob(p)'
  <2>1. job'[p].todo # <<>> /\ job'[p].to \in up => IsReplica(up, p, to)
    <3> SUFFICES ASSUME todo # <<>>, to \in up PROVE IsReplica(up, p, to)
      BY <1>9
    <3>1. PICK x \in Machine : msg.newSecondReplica = IPOf[x]
      BY <1>6, <1>8
    <3>2. x = to
      BY <1>7, <3>1
    <3> QED BY <1>3, <3>1, <3>2 DEF Repairing, RepairQueue
  <2>2. todo \in {<<>>, Refresh} /\ (todo # <<>> => Owns(p))
    BY <1>5, <1>6
  <2> QED BY <1>3, <1>9, <1>10, <2>1, <2>2 DEF RepairJob
<1>12. ASSUME NEW x \in up PROVE RepairStore(x)'
  <2>1. RepairStore(x)
    BY DEF Repairing
  <2>2. CASE x = p
    <3>1. ~Inherits(msg)
      BY <1>3 DEF Inherits
    <3>2. (\E mm \in ToSet(queue[p]) : Inherits(mm)) => \E mm \in ToSet(queue'[p]) : Inherits(mm)
      BY <1>4, <3>1
    <3> QED BY <1>10, <2>1, <2>2, <3>2 DEF RepairStore
  <2>3. CASE x # p
    BY <1>2, <1>10, <2>1, <2>3 DEF RepairStore
  <2> QED BY <2>2, <2>3
<1>13. Served'
  <2> SUFFICES ASSUME Owns(p), NEW x \in up, IsReplica(RingAt(p), p, x), ~HasCopy(x, FALSE)
               PROVE  Gives(x)'
    BY <1>10 DEF Served
  <2>1. PICK mm \in ToSet(queue[p]) : mm.role = "predecessor" /\ mm.newSecondReplica = IPOf[x]
    BY <1>3 DEF Repairing, Served, Gives
  <2>2. CASE mm = msg
    BY <1>1, <1>5, <1>7, <1>9, <1>10, <2>1, <2>2 DEF Gives, Busy
  <2>3. CASE mm # msg
    BY <1>4, <1>10, <2>1, <2>3 DEF Gives
  <2> QED BY <2>2, <2>3
<1> QED BY <1>3, <1>9, <1>11, <1>12, <1>13, RepairKeptByOwner

\* The first two members after the owner on its own ring are its replicas on the true one.
LEMMA ReplicasOfOwner ==
    ASSUME Types, NEW p, p = Owner, up \subseteq RingAt(p)
    PROVE  /\ p \in up /\ p \in Machine
           /\ FirstReplica(p) \in up => IsReplica(up, p, FirstReplica(p))
           /\ SecondReplica(p) \in up => IsReplica(up, p, SecondReplica(p))
           /\ \A x \in up : /\ IsReplica(RingAt(p), p, x) =>
                                 x = FirstReplica(p) \/ x = SecondReplica(p)
                            /\ x # NoHash
<1>1. /\ p \in up /\ p \in Machine /\ RingAt(p) \in SUBSET Hash /\ up \in SUBSET RingAt(p)
      /\ up \in SUBSET Hash
  BY RingsAre DEF Types
<1>2. \A x : IsReplica(RingAt(p), p, x) <=> x = FirstReplica(p) \/ x = SecondReplica(p)
  BY DEF IsReplica, FirstReplica, SecondReplica, RingAt
<1>3. \A x \in up : IsReplica(RingAt(p), p, x) => IsReplica(up, p, x)
  BY <1>1, ReplicaAmongFewer
<1>4. \A x \in up : x # NoHash
  BY <1>1 DEF NoHash, Hash
<1> QED BY <1>1, <1>2, <1>3, <1>4

\* The owner turns to a message that tells it to take over a range.
LEMMA OwnerAsSuccessor ==
    ASSUME Types, Phase, Repairing, NEW p, p = Owner, FailureEventAsSuccessor(p)
    PROVE  Repairing'
<1> DEFINE msg   == Head(queue[p])
           first == FirstReplica(p)
           todo  == IF first = NoHash THEN <<>> ELSE Replicate(p)
<1>1. p \in up /\ p \in Machine /\ up \in SUBSET Machine
  BY RingsAre DEF Types
<1>2. /\ Pop(p, "failure", "successor")
      /\ TakesOver(p, msg) =>
           /\ JobBecomes(p, msg, first, todo, Replicate(p))
           /\ stores' = [stores EXCEPT ![p] = Single(stores[p][k].value, TRUE)]
      /\ ~TakesOver(p, msg) => JobBecomes(p, msg, first, <<>>, <<>>) /\ stores' = stores
  BY <1>1, SuccessorHandles
<1>3. /\ ~Busy(p) /\ msg \in ToSet(queue[p]) /\ queue[p] # <<>>
      /\ msg.reason = "failure" /\ msg.role = "successor"
      /\ ToSet(queue'[p]) \subseteq ToSet(queue[p])
      /\ UNCHANGED <<fixed, current, up, map, membership>>
  BY <1>1, <1>2, PopMeans
<1>4. ToSet(queue[p]) = {msg} \cup ToSet(queue'[p])
  BY <1>1, <1>2, LeftInQueue
<1>5. up \subseteq RingAt(p)
  BY <1>1, <1>3, MessageOfPhase DEF Failing
<1>6. /\ keyHash' = keyHash /\ up' = up /\ current' = current /\ Owner' = p
      /\ Ready' = Ready /\ Refresh' = Refresh /\ SecondReplica(p)' = SecondReplica(p)
      /\ RingAt(p)' = RingAt(p)
      /\ \A mm : Inherits(mm)' = Inherits(mm)
      /\ \A x, owned : stores'[x] = stores[x] =>
           /\ HasCopy(x, owned)' = HasCopy(x, owned)
           /\ Holds(x)' = Holds(x) /\ Owns(x)' = Owns(x)
  <2>1. RingAt(p)' = RingAt(p)
    BY <1>3 DEF RingAt
  <2> QED BY <1>3, <2>1, SameRepair
<1>7. RepairStore(p) /\ \A x \in up : RepairStore(x)
  BY <1>1 DEF Repairing
<1>8. CASE TakesOver(p, msg)
  <2>1. Holds(p) /\ ~Owns(p) /\ Inherits(msg)
    BY <1>3, <1>8 DEF TakesOver, Inherits
  <2>2. current # NoValue /\ stores[p][k].value = current /\ Replicate(p) = Refresh
        /\ Refresh # <<>>
    BY <2>1, OwnerSends
  <2>3. Ready
    BY <1>3, <2>1 DEF Repairing, RepairQueue
  <2>4. /\ stores'[p] = Single(current, TRUE) /\ \A x \in Machine \ {p} : stores'[x] = stores[x]
    BY <1>1, <1>2, <1>8, <2>2 DEF Types
  <2>5. HasCopy(p, TRUE)' /\ Owns(p)'
    <3>1. HasCopy(p, TRUE)'
      BY <1>6, <2>2, <2>4 DEF HasCopy, StoreWith
    <3>2. current \in Value
      BY <2>2 DEF Types
    <3>3. Owns(p)'
      BY <2>4, <3>2, SingleIs DEF Owns, Holds
    <3> QED BY <3>1, <3>3
  <2> HIDE DEF msg, first
  <2>6. /\ \A x \in Machine \ {p} : job'[x] = job[x]
        /\ job'[p].at = "working" /\ job'[p].message = msg /\ job'[p].to = first
        /\ job'[p].todo = todo /\ job'[p].later = Refresh
    BY <1>1, <1>2, <1>8, <2>2, JobBecomesMeans
  <2>7. RepairJob(p)'
    <3>1. todo \in {<<>>, Refresh} /\ (first \in up => IsReplica(up, p, first))
      BY <1>5, <2>2, ReplicasOfOwner DEF first
    <3> HIDE DEF todo
    <3> QED BY <1>3, <1>6, <2>5, <2>6, <3>1 DEF RepairJob
  <2>8. ASSUME NEW x \in up PROVE RepairStore(x)'
    <3>1. CASE x = p
      BY <1>6, <2>3, <2>5, <3>1 DEF RepairStore
    <3>2. CASE x # p
      BY <1>1, <1>6, <1>7, <2>4, <3>2 DEF RepairStore
    <3> QED BY <3>1, <3>2
  <2>9. Served'
    <3> SUFFICES ASSUME NEW x \in up, IsReplica(RingAt(p), p, x) PROVE Gives(x)'
      BY <1>6 DEF Served
    <3>1. (x = first \/ x = SecondReplica(p)) /\ x # NoHash
      BY <1>5, ReplicasOfOwner DEF first
    <3>2. CASE x = first
      <4>1. todo # <<>>
        BY <2>2, <3>1, <3>2
      <4> QED BY <1>6, <2>6, <3>2, <4>1 DEF Gives, Busy
    <3>3. CASE x = SecondReplica(p)
      BY <1>6, <2>2, <2>6, <3>3 DEF Gives, Busy
    <3> QED BY <3>1, <3>2, <3>3
  <2> QED BY <1>3, <2>6, <2>7, <2>8, <2>9, RepairKeptByOwner
<1>9. CASE ~TakesOver(p, msg)
  <2>0. JobBecomes(p, msg, first, <<>>, <<>>) /\ stores' = stores
    BY <1>2, <1>9
  <2> HIDE DEF msg, first
  <2>1. /\ \A x \in Machine \ {p} : job'[x] = job[x]
        /\ job'[p].message = msg /\ job'[p].todo = <<>> /\ job'[p].later = <<>>
    BY <1>1, <2>0, JobBecomesMeans
  <2>2. RepairJob(p)'
    BY <1>3, <2>1 DEF RepairJob
  <2>3. Inherits(msg) => Ready /\ (HasCopy(p, FALSE) => HasCopy(p, TRUE))
    <3> SUFFICES ASSUME Inherits(msg) PROVE Ready /\ (HasCopy(p, FALSE) => HasCopy(p, TRUE))
      OBVIOUS
    <3>1. Ready
      BY <1>3 DEF Repairing, RepairQueue
    <3>2. Holds(p) => Owns(p)
      BY <1>9 DEF TakesOver, Inherits
    <3>3. HasCopy(p, FALSE) => current = NoValue
      BY <1>1, <3>2, CopyMeans
    <3> QED BY <3>1, <3>3 DEF HasCopy, StoreWith
  <2>4. ASSUME NEW x \in up PROVE RepairStore(x)'
    <3>1. CASE x = p
      <4>1. \/ HasCopy(p, TRUE) /\ Ready
            \/ HasCopy(p, FALSE) /\ (Ready => \E mm \in ToSet(queue'[p]) : Inherits(mm))
        BY <1>4, <1>7, <2>3 DEF RepairStore
      <4> QED BY <1>6, <2>0, <3>1, <4>1 DEF RepairStore
    <3>2. CASE x # p
      BY <1>6, <1>7, <2>0, <3>2 DEF RepairStore
    <3> QED BY <3>1, <3>2
  <2>5. Served'
    <3> SUFFICES ASSUME Owns(p), NEW x \in up, IsReplica(RingAt(p), p, x), ~HasCopy(x, FALSE)
                 PROVE  Gives(x)'
      BY <1>6, <2>0 DEF Served
    <3>1. PICK mm \in ToSet(queue[p]) : mm.role = "predecessor" /\ mm.newSecondReplica = IPOf[x]
      BY <1>3 DEF Repairing, Served, Gives
    <3>2. mm \in ToSet(queue'[p])
      BY <1>3, <1>4, <3>1
    <3> QED BY <1>6, <3>1, <3>2 DEF Gives
  <2> QED BY <1>3, <2>1, <2>2, <2>4, <2>5, RepairKeptByOwner
<1> QED BY <1>8, <1>9

\* The owner gives a replica what it has.
LEMMA OwnerSendsCommand ==
    ASSUME Types, Phase, Repairing, NEW p, p = Owner, SendCommand(p)
    PROVE  Repairing'
<1>0. PICK to : to = job[p].to
  OBVIOUS
<1> DEFINE c     == Head(job[p].todo)
           todo  == job[p].todo
           later == job[p].later
<1>1. p \in up /\ p \in Machine /\ up \in SUBSET Machine /\ up \in SUBSET Hash
  BY RingsAre DEF Types
<1>2. /\ Busy(p) /\ todo # <<>> /\ c \in Commands /\ to \in Machine
      /\ JobBecomes(p, job[p].message, to, Tail(todo), later)
      /\ stores' = IF to \in up THEN Executed(to, c) ELSE stores
      /\ UNCHANGED <<fixed, current, up, map, queue, membership>>
  BY <1>0, <1>1, SendCommandMeans
<1>3. /\ RepairJob(p) /\ \A x \in up : RepairStore(x)
  BY <1>1 DEF Repairing
<1>4. /\ job[p].message.reason = "failure" /\ later \in {<<>>, Refresh}
      /\ todo \in {SecondCommand, Refresh} /\ Owns(p)
      /\ to \in up => IsReplica(up, p, to)
  BY <1>0, <1>2, <1>3 DEF RepairJob
<1>5. current # NoValue /\ HasCopy(p, TRUE) /\ Ready /\ SecondCommand # <<>>
  BY <1>4, OwnerSends DEF Owns
<1>6. /\ todo = Refresh => c.op = "fdelete" /\ Tail(todo) = SecondCommand
      /\ todo = SecondCommand => c.op = "finsert" /\ c.value = current /\ Tail(todo) = <<>>
  <2>1. \A a, b : Head(<<a, b>>) = a /\ Tail(<<a, b>>) = <<b>>
    OBVIOUS
  <2>2. \A a : Head(<<a>>) = a /\ Tail(<<a>>) = <<>>
    OBVIOUS
  <2>3. /\ Head(Refresh) = Send("fdelete", NoValue) /\ Tail(Refresh) = SecondCommand
        /\ Head(SecondCommand) = Send("finsert", current) /\ Tail(SecondCommand) = <<>>
    BY <2>1, <2>2, Zenon DEF Refresh, SecondCommand
  <2> QED BY <2>3, SendIs
<1>7. to \in up => to # p
  BY <1>1, <1>4, NotItsOwnReplica
<1>8. /\ keyHash' = keyHash /\ up' = up /\ current' = current /\ Owner' = p
      /\ Ready' = Ready /\ Refresh' = Refresh /\ SecondReplica(p)' = SecondReplica(p)
      /\ RingAt(p)' = RingAt(p) /\ SecondCommand' = SecondCommand
      /\ \A x, owned : stores'[x] = stores[x] =>
           /\ HasCopy(x, owned)' = HasCopy(x, owned)
           /\ Holds(x)' = Holds(x) /\ Owns(x)' = Owns(x)
  <2>1. RingAt(p)' = RingAt(p)
    BY <1>2 DEF RingAt
  <2> QED BY <1>2, <2>1, SameRepair
<1>9. /\ \A x \in Machine : x # to \/ to \notin up => stores'[x] = stores[x]
      /\ to \in up /\ todo = Refresh => stores'[to] = EmptyStore
      /\ to \in up /\ todo = SecondCommand => HasCopy(to, FALSE)'
  <2>1. CASE to \notin up
    BY <1>2, <2>1
  <2>2. CASE to \in up
    <3>1. Effect(to, c, stores')
      <4>1. stores' = Executed(to, c) /\ stores \in [Machine -> Stores]
        BY <1>2, <2>2 DEF Types
      <4> QED BY <1>2, <4>1, ExecutedMeans
    <3>2. CASE todo = Refresh
      <4>1. todo # SecondCommand
        BY <1>6, <3>2
      <4> QED BY <1>1, <1>6, <2>2, <3>1, <3>2, <4>1 DEF Effect
    <3>3. CASE todo = SecondCommand
      <4>1. todo # Refresh
        BY <1>6, <3>3
      <4>2. \A x \in Machine : stores'[x] = IF x = to /\ ~Holds(x) THEN Single(current, FALSE)
                                            ELSE stores[x]
        BY <1>6, <3>1, <3>3 DEF Effect
      <4>3. Holds(to) => stores[to] = StoreWith(current, FALSE)
        <5>1. stores[to] = EmptyStore \/ HasCopy(to, FALSE)
          BY <1>3, <1>7, <2>2 DEF RepairStore
        <5> QED BY <5>1, EmptyStoreIs DEF HasCopy, Holds
      <4>4. stores'[to] = StoreWith(current, FALSE)
        BY <1>2, <1>5, <4>2, <4>3 DEF StoreWith
      <4>5. HasCopy(to, FALSE)'
        BY <1>8, <4>4 DEF HasCopy, StoreWith
      <4>6. \A x \in Machine : x # to => stores'[x] = stores[x]
        BY <4>2
      <4> HIDE DEF todo
      <4> QED BY <2>2, <4>1, <4>5, <4>6
    <3> QED BY <1>4, <3>2, <3>3
  <2> QED BY <2>1, <2>2
<1>10. stores'[p] = stores[p]
  BY <1>1, <1>7, <1>9
<1> HIDE DEF c
<1>11. /\ \A x \in Machine \ {p} : job'[x] = job[x]
       /\ job'[p].at = "working" /\ job'[p].message = job[p].message /\ job'[p].to = to
       /\ job'[p].todo = Tail(todo) /\ job'[p].later = later
  BY <1>1, <1>2, JobBecomesMeans
<1>12. RepairJob(p)'
  BY <1>4, <1>6, <1>8, <1>10, <1>11 DEF RepairJob
<1>13. ASSUME NEW x \in up PROVE RepairStore(x)'
  <2>1. CASE x = p
    BY <1>5, <1>8, <1>10, <2>1 DEF RepairStore
  <2>2. CASE x # p /\ x = to
    <3>1. stores'[x] = EmptyStore \/ HasCopy(x, FALSE)'
      BY <1>4, <1>9, <2>2
    <3> QED BY <1>4, <1>8, <2>2, <3>1 DEF RepairStore
  <2>3. CASE x # p /\ x # to
    <3>1. stores'[x] = stores[x]
      BY <1>1, <1>9, <2>3
    <3> QED BY <1>3, <1>8, <2>3, <3>1 DEF RepairStore
  <2> QED BY <2>1, <2>2, <2>3
<1>14. Served'
  <2> SUFFICES ASSUME NEW x \in up, IsReplica(RingAt(p), p, x)
               PROVE  HasCopy(x, FALSE)' \/ Gives(x)'
    BY <1>8 DEF Served
  <2>1. CASE x # to
    <3>1. HasCopy(x, FALSE) \/ Gives(x)
      BY <1>4 DEF Repairing, Served
    <3>2. HasCopy(x, FALSE)' = HasCopy(x, FALSE)
      BY <1>1, <1>8, <1>9, <2>1
    <3>3. Gives(x) => Gives(x)'
      BY <1>0, <1>2, <1>8, <1>11, <2>1 DEF Gives, Busy
    <3> QED BY <3>1, <3>2, <3>3
  <2>2. CASE x = to /\ todo = Refresh
    BY <1>5, <1>6, <1>8, <1>11, <2>2 DEF Gives, Busy
  <2>3. CASE x = to /\ todo = SecondCommand
    BY <1>9, <2>3
  <2> QED BY <1>4, <2>1, <2>2, <2>3
<1>15. ToSet(queue'[p]) \subseteq ToSet(queue[p])
  BY <1>2
<1> QED BY <1>2, <1>11, <1>12, <1>13, <1>14, <1>15, RepairKeptByOwner

\* The owner turns to its second replica, or is done with a message.
LEMMA OwnerContacts ==
    ASSUME Types, Phase, Repairing, NEW p, p = Owner, ContactSecondReplica(p),
           up \subseteq RingAt(p)
    PROVE  Repairing'
<1> DEFINE second == SecondReplica(p)
           todo   == IF second # NoHash THEN job[p].later ELSE <<>>
<1>1. p \in up /\ p \in Machine /\ up \in SUBSET Machine
  BY RingsAre DEF Types
<1>2. RepairJob(p) /\ \A x \in up : RepairStore(x)
  BY <1>1 DEF Repairing
<1>3. /\ Busy(p) /\ job[p].todo = <<>> /\ job[p].later # <<>>
      /\ JobBecomes(p, job[p].message, second, todo, <<>>)
      /\ UNCHANGED <<fixed, current, up, map, queue, stores, membership>>
      /\ job[p].message.reason = "failure"
  <2>1. Busy(p) /\ job[p].message.reason = "failure"
    BY <1>2 DEF ContactSecondReplica, RepairJob
  <2> QED BY <1>1, <2>1, ContactSecondReplicaMeans
<1>4. job[p].later = Refresh /\ Owns(p)
  BY <1>2, <1>3 DEF RepairJob
<1>5. Ready /\ Refresh # <<>>
  BY <1>4, OwnerSends DEF Owns
<1>6. /\ keyHash' = keyHash /\ up' = up /\ current' = current /\ Owner' = p
      /\ Ready' = Ready /\ Refresh' = Refresh /\ SecondReplica(p)' = second
      /\ RingAt(p)' = RingAt(p) /\ stores' = stores /\ queue' = queue
      /\ \A mm : Inherits(mm)' = Inherits(mm)
      /\ \A x, owned : /\ HasCopy(x, owned)' = HasCopy(x, owned)
                       /\ Holds(x)' = Holds(x) /\ Owns(x)' = Owns(x)
  <2>1. RingAt(p)' = RingAt(p)
    BY <1>3 DEF RingAt
  <2> QED BY <1>3, <2>1, SameRepair
<1> HIDE DEF second
<1>7. /\ \A x \in Machine \ {p} : job'[x] = job[x]
      /\ job'[p].at = "working" /\ job'[p].message = job[p].message /\ job'[p].to = second
      /\ job'[p].todo = todo /\ job'[p].later = <<>>
  BY <1>1, <1>3, JobBecomesMeans
<1>8. RepairJob(p)'
  <2>1. second \in up => IsReplica(up, p, second)
    BY ReplicasOfOwner DEF second
  <2>2. todo \in {<<>>, Refresh}
    BY <1>4
  <2> HIDE DEF todo
  <2> QED BY <1>3, <1>4, <1>6, <1>7, <2>1, <2>2 DEF RepairJob
<1>9. ASSUME NEW x \in up PROVE RepairStore(x)'
  BY <1>2, <1>6 DEF RepairStore
<1>10. Served'
  <2> SUFFICES ASSUME NEW x \in up, IsReplica(RingAt(p), p, x), ~HasCopy(x, FALSE)
               PROVE  Gives(x)'
    BY <1>6 DEF Served
  <2>1. Gives(x) /\ x # NoHash
    BY <1>4, ReplicasOfOwner DEF Repairing, Served
  <2>2. CASE x = second
    BY <1>4, <1>5, <1>6, <1>7, <2>1, <2>2 DEF Gives, Busy
  <2>3. CASE x # second
    BY <1>3, <1>6, <2>1, <2>3 DEF Gives, second
  <2> QED BY <2>2, <2>3
<1>11. ToSet(queue'[p]) \subseteq ToSet(queue[p])
  BY <1>3
<1> QED BY <1>3, <1>7, <1>8, <1>9, <1>10, <1>11, RepairKeptByOwner

LEMMA OwnerReturns ==
    ASSUME Types, Phase, Repairing, NEW p, p = Owner, Return(p)
    PROVE  Repairing'
<1>1. p \in up /\ p \in Machine /\ up \in SUBSET Machine
  BY RingsAre DEF Types
<1>2. /\ Busy(p) /\ job[p].todo = <<>> /\ job[p].later = <<>>
      /\ job'[p] \in {Idle, Draining} /\ \A x \in Machine \ {p} : job'[x] = job[x]
      /\ UNCHANGED <<fixed, current, up, map, queue, membership>>
  BY <1>1, ReturnMeans
<1>3. RepairJob(p) /\ \A x \in up : RepairStore(x)
  BY <1>1 DEF Repairing
<1>4. stores' = stores
  BY <1>2, <1>3 DEF RepairJob, Return
<1>5. /\ up' = up /\ Owner' = p /\ Ready' = Ready /\ RingAt(p)' = RingAt(p)
      /\ \A mm : Inherits(mm)' = Inherits(mm)
      /\ \A x, owned : /\ HasCopy(x, owned)' = HasCopy(x, owned)
                       /\ Holds(x)' = Holds(x) /\ Owns(x)' = Owns(x)
  <2>1. RingAt(p)' = RingAt(p)
    BY <1>2 DEF RingAt
  <2> QED BY <1>2, <1>4, <2>1, SameRepair
<1>6. RepairJob(p)'
  BY <1>2 DEF RepairJob, Busy, Idle, Draining
<1>7. ASSUME NEW x \in up PROVE RepairStore(x)'
  BY <1>2, <1>3, <1>4, <1>5 DEF RepairStore
<1>8. Served'
  <2>1. \A x : Gives(x) => Gives(x)'
    BY <1>2, <1>5 DEF Gives
  <2> QED BY <1>5, <2>1 DEF Repairing, Served
<1>9. ToSet(queue'[p]) \subseteq ToSet(queue[p])
  BY <1>2
<1> QED BY <1>2, <1>6, <1>7, <1>8, <1>9, RepairKeptByOwner

\* The owner drops a lost machine from its ring.  What that makes it the owner of, it
\* queues a message for, and so it does for the machine that becomes its replica.
LEMMA OwnerDropsMember ==
    ASSUME Types, Phase, Repairing, NEW p, p = Owner, NEW lost \in Machine,
           RemoveFromList(p, lost)
    PROVE  Repairing'
<1>0. PICK M : M = FailureMessages(map[p], p, lost)
  OBVIOUS
<1> DEFINE R == RingAt(p)
           s == Successor(R, p)
           t == Successor(R, s)
           u == Successor(R, t)
           f == R \ {lost}
<1>1. /\ p \in up /\ p \in Machine /\ up \in SUBSET Machine /\ up \in SUBSET Hash
      /\ R \in SUBSET Hash /\ R \in SUBSET Machine /\ p \in R /\ keyHash \in Hash
      /\ map[p] = View(R) /\ map[p] \in [R -> Address] /\ DOMAIN map[p] = R
  BY RingsAre DEF Types, RingAt
<1>2. /\ lost \in R \ up /\ job[p] = Idle
      /\ RingAt(p)' = f /\ queue' = [queue EXCEPT ![p] = @ \o M]
      /\ UNCHANGED <<fixed, current, up, job, stores, membership>>
  BY <1>0, <1>1, RemoveFromListMeans
<1>3. /\ lost \in R \ {p} /\ f \in SUBSET R /\ p \in f /\ up \in SUBSET f
      /\ f \in SUBSET Hash /\ lost \in Hash \ f /\ f \cup {lost} = R
  <2>1. up \subseteq R
    <3>1. \A new \in up : ~Joining(new)
      BY <1>1, <1>2 DEF Joining
    <3> QED BY <1>1, <3>1 DEF Phase, Failing
  <2> QED BY <1>1, <1>2, <2>1
<1>4. /\ M \in Seq(Work)
      /\ \A msg \in ToSet(M) : Inherits(msg) => OwnerHash(f, keyHash) = p
  BY <1>0, <1>1, <1>3, FailureWork, Zenon
<1>5. ToSet(queue'[p]) = ToSet(queue[p]) \cup ToSet(M)
  <2>1. queue[p] \in Seq(Work) /\ queue'[p] = queue[p] \o M
    BY <1>1, <1>2 DEF Types
  <2> QED BY <1>4, <2>1, ElementsOfBoth
<1>6. /\ keyHash' = keyHash /\ up' = up /\ current' = current /\ Owner' = p
      /\ stores' = stores /\ job' = job /\ recent' = recent
      /\ Refresh' = Refresh /\ SecondCommand' = SecondCommand
      /\ Ready' = (OwnerHash(f, keyHash) = p)
      /\ \A mm : Inherits(mm)' = Inherits(mm)
      /\ \A x, owned : /\ HasCopy(x, owned)' = HasCopy(x, owned) /\ Owns(x)' = Owns(x)
  <2>1. keyHash' = keyHash /\ up' = up /\ current' = current /\ stores' = stores
        /\ job' = job /\ recent' = recent
    BY <1>2 DEF fixed, membership
  <2>2. Owner' = p /\ \A mm : Inherits(mm)' = Inherits(mm)
    BY <2>1, SameMeaning
  <2>3. Ready' = (OwnerHash(f, keyHash) = p)
    BY <1>2, <2>1, <2>2 DEF Ready
  <2>4. \A x, owned : HasCopy(x, owned)' = HasCopy(x, owned) /\ Owns(x)' = Owns(x)
    BY <2>1 DEF HasCopy, Owns, Holds
  <2>5. Refresh' = Refresh /\ SecondCommand' = SecondCommand
    BY <2>1 DEF Refresh, SecondCommand
  <2> QED BY <2>1, <2>2, <2>3, <2>4, <2>5
<1> DEFINE a == [reason |-> "failure", role |-> "successor", failedMember |-> lost,
                 ownedStart |-> Predecessor(R, lost)]
           b == [reason |-> "failure", role |-> "predecessor", failedMember |-> lost,
                 newSecondReplica |-> IF Cardinality(R) < 4 THEN NoIP ELSE map[p][u]]
<1>7. /\ lost = Predecessor(R, p) => M = <<a>>
      /\ lost # Predecessor(R, p) /\ lost \in {s, t} => M = <<b>>
      /\ lost # Predecessor(R, p) /\ lost \notin {s, t} => M = << >>
  BY <1>0, <1>1, <1>3, FailureQueues, Zenon
<1>8. /\ a.role = "successor" /\ a.failedMember = lost /\ a.ownedStart = Predecessor(R, lost)
      /\ b.role = "predecessor"
      /\ Cardinality(R) < 4 => b.newSecondReplica = NoIP
      /\ ~(Cardinality(R) < 4) => b.newSecondReplica = map[p][u]
  OBVIOUS
<1> HIDE DEF a, b
<1>9. /\ lost = Predecessor(R, p) => ToSet(M) = {a}
      /\ \A msg \in ToSet(M) : msg = a \/ (msg = b /\ lost # Predecessor(R, p) /\ lost \in {s, t})
      /\ lost # Predecessor(R, p) /\ lost \in {s, t} => ToSet(M) = {b}
  BY <1>7, FewElements
<1>10. u \in R /\ map[p][u] = IPOf[u] /\ Cardinality(R) \in Nat
  <2>1. s \in R /\ t \in R /\ u \in R
    BY <1>1, RingSizeForward
  <2> HIDE DEF u
  <2>2. map[p][u] = IPOf[u]
    BY <1>1, <2>1 DEF View
  <2>3. Cardinality(R) \in Nat
    BY <1>1, RingSizeForward
  <2> QED BY <2>1, <2>2, <2>3
<1>11. /\ lost \in {s, t} /\ ~(Cardinality(R) < 4) => IsReplica(f, p, u)
       /\ \A x \in R \ {p, lost} :
            IsReplica(f, p, x) =>
                \/ IsReplica(R, p, x)
                \/ lost \in {s, t} /\ lost # Predecessor(R, p) /\ ~(Cardinality(R) < 4) /\ x = u
  <2>1. ~(Cardinality(R) < 4) <=> Cardinality(R) >= 4
    BY <1>10
  <2> QED BY <1>1, <1>3, <2>1, NewReplica
<1>12. Ready => Ready'
  <2>1. OwnerHash(R, keyHash) = p => OwnerHash(f, keyHash) = p
    BY <1>1, <1>3, OwnerAmongFewer
  <2>2. Ready => OwnerHash(R, keyHash) = p
    BY DEF Ready
  <2> QED BY <1>6, <2>1, <2>2
<1>13. ~Ready /\ Ready' => \E msg \in ToSet(M) : Inherits(msg)
  <2> SUFFICES ASSUME ~Ready, OwnerHash(f, keyHash) = p PROVE \E msg \in ToSet(M) : Inherits(msg)
    BY <1>6
  <2>1. OwnerHash(R, keyHash) # p
    BY DEF Ready
  <2>2. OwnerHash(R, keyHash) = lost
    <3>1. OwnerHash(f \cup {lost}, keyHash) \in {OwnerHash(f, keyHash), lost}
      <4> HIDE DEF f
      <4> QED BY <1>1, <1>3, OwnerAfterAdding
    <3> QED BY <1>3, <2>1, <3>1
  <2>3. Predecessor(R, p) = lost /\ InRange(keyHash, Predecessor(R, lost), lost)
    <3>1. OwnerHash(f, keyHash) = p /\ OwnerHash(f \cup {lost}, keyHash) = lost
      BY <1>3, <2>2
    <3>2. /\ Predecessor(f \cup {lost}, p) = lost
          /\ InRange(keyHash, Predecessor(f \cup {lost}, lost), lost)
      <4> HIDE DEF f
      <4> QED BY <1>1, <1>3, <3>1, OwnedRangeMoves
    <3> QED BY <1>3, <3>2
  <2>4. Inherits(a)
    BY <1>8, <2>3 DEF Inherits
  <2> QED BY <1>9, <2>3, <2>4
<1>14. ASSUME NEW x \in up PROVE RepairJob(x)'
  <2>1. RepairJob(x)
    BY DEF Repairing
  <2> QED BY <1>6, <2>1 DEF RepairJob, Busy
<1>15. ASSUME NEW x \in up PROVE RepairStore(x)'
  <2>1. RepairStore(x)
    BY DEF Repairing
  <2>2. CASE x = p
    <3>1. Ready' /\ HasCopy(p, FALSE) /\ ~(HasCopy(p, TRUE) /\ Ready)
              => \E msg \in ToSet(queue'[p]) : Inherits(msg)
      BY <1>5, <1>13, <2>1, <2>2 DEF RepairStore
    <3> QED BY <1>6, <1>12, <2>1, <2>2, <3>1 DEF RepairStore
  <2>3. CASE x # p
    BY <1>6, <2>1, <2>3 DEF RepairStore
  <2> QED BY <2>2, <2>3
<1>16. RepairQueue'
  <2>1. ASSUME NEW msg \in ToSet(queue'[p])
        PROVE  /\ Inherits(msg) => Ready'
               /\ msg.role = "predecessor" =>
                    \A x \in up : msg.newSecondReplica = IPOf[x] => IsReplica(up, p, x)
    <3>1. CASE msg \in ToSet(queue[p])
      BY <1>12, <3>1 DEF Repairing, RepairQueue
    <3>2. CASE msg \in ToSet(M)
      <4>1. Inherits(msg) => Ready'
        BY <1>4, <1>6, <3>2
      <4>2. ASSUME msg.role = "predecessor", NEW x \in up, msg.newSecondReplica = IPOf[x]
            PROVE  IsReplica(up, p, x)
        <5>1. msg = b /\ lost \in {s, t}
          BY <1>8, <1>9, <3>2, <4>2
        <5>2. IPOf[x] # NoIP
          BY <1>1, AddressIs DEF Address
        <5>3. ~(Cardinality(R) < 4) /\ IPOf[u] = IPOf[x]
          BY <1>8, <1>10, <4>2, <5>1, <5>2
        <5> HIDE DEF u, s, t, f
        <5>4. u = x
          BY <1>1, <1>10, <5>3
        <5>5. IsReplica(f, p, x)
          BY <1>11, <5>1, <5>3, <5>4
        <5>6. x \in up
          OBVIOUS
        <5> QED BY <1>1, <1>3, <5>5, <5>6, ReplicaAmongFewer
      <4> QED BY <4>1, <4>2
    <3> QED BY <1>5, <3>1, <3>2
  <2> QED BY <1>6, <2>1 DEF RepairQueue
<1>17. Served'
  <2> SUFFICES ASSUME Owns(p), NEW x \in up, IsReplica(f, p, x), ~HasCopy(x, FALSE)
               PROVE  Gives(x)'
    BY <1>2, <1>6 DEF Served
  <2>1. x \in R \ {p, lost}
    <3>1. x # p
      BY <1>1, <1>3, NotItsOwnReplica
    <3> QED BY <1>2, <1>3, <3>1
  <2>2. CASE IsReplica(R, p, x)
    <3>0. ~Busy(p)
      BY <1>2 DEF Busy, Idle
    <3>1. Gives(x) /\ ~Busy(p)
      BY <2>2, <3>0 DEF Repairing, Served
    <3>2. PICK msg \in ToSet(queue[p]) : msg.role = "predecessor" /\ msg.newSecondReplica = IPOf[x]
      BY <3>1 DEF Gives
    <3> QED BY <1>5, <1>6, <3>2 DEF Gives
  <2>3. CASE lost \in {s, t} /\ lost # Predecessor(R, p) /\ ~(Cardinality(R) < 4) /\ x = u
    <3>1. b \in ToSet(M) /\ b.role = "predecessor" /\ b.newSecondReplica = IPOf[x]
      BY <1>8, <1>9, <1>10, <2>3
    <3> QED BY <1>5, <1>6, <3>1 DEF Gives
  <2> QED BY <1>11, <2>1, <2>2, <2>3
<1>18. recent' # 0
  BY <1>6 DEF Repairing
<1> QED BY <1>6, <1>14, <1>15, <1>16, <1>17, <1>18 DEF Repairing

\* A machine drops a lost one from its ring.  When one machine is lost, the one that is
\* the first to notice need do nothing more.
LEMMA RepairRemoveFromList ==
    ASSUME Types, Phase, Repaired, NEW m \in Machine, NEW lost \in Machine,
           RemoveFromList(m, lost)
    PROVE  Repaired'
<1>1. /\ m \in up /\ lost \in RingAt(m) \ up
      /\ \A x \in Machine : RingAt(x)' = IF x = m THEN RingAt(m) \ {lost} ELSE RingAt(x)
      /\ queue' = [queue EXCEPT ![m] = @ \o FailureMessages(map[m], m, lost)]
      /\ UNCHANGED <<fixed, current, up, job, stores, membership>>
  BY RemoveFromListMeans
<1>2. PICK p : p = Owner
  OBVIOUS
<1>3. /\ up \in SUBSET Machine /\ p \in up /\ up' = up /\ recent' = recent
      /\ queue \in [Machine -> Seq(Work)]
  BY <1>1, <1>2, RingsAre DEF Types, membership
<1>4. recent # 0
  <2>1. \A new \in up : ~Joining(new)
    BY <1>1 DEF Joining
  <2> QED BY <2>1 DEF Phase
<1>5. Repairing
  BY <1>4, UntouchedIsRepairing DEF Repaired
<1>6. Repairing'
  <2>1. CASE m = p
    BY <1>2, <1>5, <2>1, OwnerDropsMember
  <2>2. CASE m # p
    <3>1. RingAt(p)' = RingAt(p) /\ queue'[p] = queue[p] /\ job'[p] = job[p]
      BY <1>1, <1>3, <2>2
    <3>2. ASSUME NEW x \in up \ {p} PROVE RepairJob(x)'
      <4>1. RepairJob(x) /\ job'[x] = job[x]
        BY <1>1, <1>5 DEF Repairing
      <4>2. Busy(x)' => Busy(x)
        BY <4>1 DEF Busy
      <4>3. Busy(x) => job[x].todo = <<>> /\ job[x].later = <<>>
                       /\ job[x].message.reason = "failure"
        BY <1>2, <4>1 DEF RepairJob
      <4> QED BY <4>1, <4>2, <4>3 DEF RepairJob
    <3> QED BY <1>1, <1>2, <1>5, <3>1, <3>2, RepairKeptByOthers
  <2> QED BY <2>1, <2>2
<1>7. ASSUME recent = 1 PROVE \E x \in up : RingAt(x)' = up
  <2>1. ASSUME NEW x \in up, RingAt(x) = up PROVE RingAt(x)' = up
    <3>1. x # m
      BY <1>1, <2>1
    <3> QED BY <1>1, <1>3, <2>1, <3>1
  <2>2. ASSUME NEW R \in SUBSET Machine, Untouched(R) PROVE RingAt(m)' = up
    <3>1. PICK a \in Machine : R \subseteq up \cup {a}
      BY <1>7, <2>2 DEF Untouched
    <3>2. RingAt(m) = R /\ up \subseteq R
      BY <1>1, <2>2 DEF Untouched
    <3>3. R \ {lost} = up
      BY <1>1, <3>1, <3>2
    <3> QED BY <1>1, <3>2, <3>3
  <2> QED BY <1>1, <1>7, <2>1, <2>2 DEF Repaired
<1>8. recent' = 1 => \E x \in up' : RingAt(x)' = up'
  BY <1>3, <1>7
<1> QED BY <1>6, <1>8 DEF Repaired

\* The threads work on failures, and only once a machine has noticed one.
LEMMA RepairTimerThread ==
    ASSUME Types, Phase, Repaired, NEW m \in Machine, TimerThread(m)
    PROVE  Repaired'
<1>1. m \in up /\ (Busy(m) \/ queue[m] # <<>>)
  BY DEF TimerThread, JoinEventAsPredecessor, JoinEventAsSuccessor, FailureEventAsPredecessor,
         FailureEventAsSuccessor, Pop, SendCommand, ContactSecondReplica, Return
<1>2. UNCHANGED <<up, map, membership>>
  BY DEF TimerThread, JoinEventAsPredecessor, JoinEventAsSuccessor, FailureEventAsPredecessor,
         FailureEventAsSuccessor, Pop, SendCommand, ContactSecondReplica, Return
<1>3. \A R \in SUBSET Machine : ~Untouched(R)
  BY <1>1 DEF Untouched, Busy, Idle
<1>4. Repairing /\ recent # 0 /\ (recent = 1 => \E x \in up : RingAt(x) = up)
  BY <1>3 DEF Repaired, Repairing
<1>5. PICK p : p = Owner
  OBVIOUS
<1>6. p \in up /\ up \subseteq RingAt(p)
  BY <1>4, <1>5, RingsAre DEF Phase, Failing
<1>7. ~JoinEventAsPredecessor(m) /\ ~JoinEventAsSuccessor(m)
  <2>1. ASSUME NEW role, Pop(m, "join", role) PROVE FALSE
    <3>1. queue[m] # <<>> /\ Head(queue[m]).reason = "join"
      BY <2>1, PopMeans
    <3> QED BY <1>1, <1>4, <3>1, MessageOfPhase
  <2> QED BY <2>1 DEF JoinEventAsPredecessor, JoinEventAsSuccessor
<1>8. Repairing'
  <2>1. CASE m = p
    BY <1>4, <1>5, <1>6, <1>7, <2>1, OwnerAsPredecessor, OwnerAsSuccessor, OwnerSendsCommand,
       OwnerContacts, OwnerReturns DEF TimerThread
  <2>2. CASE m # p
    <3>1. m \in up \ {Owner}
      BY <1>1, <1>5, <2>2
    <3> QED BY <1>4, <1>7, <3>1, OthersRepair DEF TimerThread
  <2> QED BY <2>1, <2>2
<1>9. up' = up /\ recent' = recent /\ \A x : RingAt(x)' = RingAt(x)
  BY <1>2 DEF membership, RingAt
<1> QED BY <1>4, <1>8, <1>9 DEF Repaired

\* Nobody is unknown to anybody.
LEMMA NobodyNew ==
    ASSUME Types, Phase, Repaired, NEW m \in Machine, NEW x \in Machine, AddToList(m, x)
    PROVE  FALSE
<1>1. m \in up /\ x \in up \ RingAt(m)
  BY AddToListMeans
<1>2. Repairing => up \subseteq RingAt(m)
  BY <1>1 DEF Repairing, Phase, Failing
<1> QED BY <1>1, <1>2 DEF Repaired, Untouched

\* Machines are lost, a second one only while nobody has noticed that the first one is.
LEMMA RepairFail ==
    ASSUME Together, Types, Phase, Repaired, NEW m \in Machine, Fail(m)
    PROVE  Repaired'
<1>1. /\ m \in up /\ up' = up \ {m} /\ up' # {}
      /\ stores' = [stores EXCEPT ![m] = EmptyStore]
      /\ queue' = [queue EXCEPT ![m] = <<>>]
      /\ job' = [job EXCEPT ![m] = Idle]
      /\ UNCHANGED <<fixed, current, map>>
  BY FailMeans
<1>2. /\ up \in SUBSET Machine /\ keyHash' = keyHash /\ current' = current
      /\ \A x : RingAt(x)' = RingAt(x)
      /\ \A x \in up' : x \in up /\ queue'[x] = queue[x] /\ job'[x] = job[x]
                        /\ stores'[x] = stores[x]
      /\ \A R : Placed(R, current)' = Placed(R, current)
  BY <1>1 DEF Types, RingAt, fixed, Placed
<1>3. ASSUME NEW R \in SUBSET Machine, up \subseteq R,
             \A x \in up : /\ RingAt(x) = R /\ queue[x] = <<>> /\ job[x] = Idle
                           /\ stores[x] = Placed(R, current)[x],
             NEW a \in Machine, R \subseteq up \cup {a}, recent' = 1 => R \subseteq up
      PROVE  Repaired'
  <2>1. \E b, c \in Machine : R \subseteq up' \cup {b, c}
    <3>1. R \subseteq up' \cup {a, m}
      BY <1>1, <1>3
    <3> QED BY <3>1
  <2>2. recent' = 1 => \E b \in Machine : R \subseteq up' \cup {b}
    <3>1. recent' = 1 => R \subseteq up' \cup {m}
      BY <1>1, <1>3
    <3> QED BY <3>1
  <2>3. up' \subseteq R /\ \A x \in up' : /\ RingAt(x)' = R /\ queue'[x] = <<>> /\ job'[x] = Idle
                                         /\ stores'[x] = Placed(R, current)'[x]
    BY <1>1, <1>2, <1>3
  <2>4. Untouched(R)'
    BY <2>1, <2>2, <2>3 DEF Untouched
  <2> QED BY <2>4 DEF Repaired
<1>4. CASE Settled
  <2>1. stores = Placed(up, current)
    BY <1>4, RepairedAtTheEnd
  <2>2. \A x \in up : RingAt(x) = up /\ queue[x] = <<>> /\ job[x] = Idle
    BY <1>4 DEF Settled, RingAt
  <2>3. PICK R : R = up
    OBVIOUS
  <2> QED BY <1>1, <1>2, <1>3, <2>1, <2>2, <2>3
<1>5. CASE ~Settled
  <2>1. recent = 1 /\ recent' = 2 /\ \A x \in up : RingAt(x) # up
    BY <1>5 DEF Fail, RingAt
  <2>2. PICK R \in SUBSET Machine : Untouched(R)
    BY <2>1 DEF Repaired
  <2>3. PICK a \in Machine : R \subseteq up \cup {a}
    BY <2>1, <2>2 DEF Untouched
  <2>4. /\ up \subseteq R
        /\ \A x \in up : /\ RingAt(x) = R /\ queue[x] = <<>> /\ job[x] = Idle
                         /\ stores[x] = Placed(R, current)[x]
    BY <2>2 DEF Untouched
  <2>5. recent' # 1
    BY <2>1
  <2> QED BY <1>3, <2>3, <2>4, <2>5
<1> QED BY <1>4, <1>5

\* What becomes of a value when a command is executed.
Commanded(value, c) ==
    CASE c.op = "insert" -> IF value = NoValue THEN c.value ELSE value
      [] c.op = "delete" -> NoValue
      [] c.op = "update" -> IF value = NoValue THEN NoValue ELSE c.value
      [] c.op = "lookup" -> value

\* The owner and its replicas come to the same value, each with its own mark.
LEMMA CommandOnCopy ==
    ASSUME NEW value \in Value \cup {NoValue}, NEW c \in Question, NEW owned \in BOOLEAN,
           NEW T, T = Perform(StoreWith(value, owned), Command(c, ~owned)).store
    PROVE  /\ T = StoreWith(Commanded(value, c), owned)
           /\ Commanded(value, c) \in Value \cup {NoValue}
<1> DEFINE d == Command(c, ~owned)
<1>0. PICK S : S = StoreWith(value, owned)
  OBVIOUS
<1>1. /\ d.op = c.op /\ d.key = k /\ d.value = c.value /\ (~d.force) = owned
      /\ c.op \in {"insert", "delete", "update", "lookup"}
      /\ c.op \in {"insert", "update"} => c.value \in Value
  BY DEF Command, Question, Operation
<1>2. /\ S \in Stores
      /\ k \in DOMAIN S <=> value # NoValue
      /\ k \in DOMAIN S => S[k].value = value /\ S[k].owner = owned
  BY <1>0, StoreWithMeans
<1>3. T = Perform(S, d).store
  BY <1>0
<1> HIDE DEF d
<1>4. CASE c.op = "insert"
  <2>0. T = Insert(S, k, c.value, ~d.force).store
    BY <1>1, <1>3, <1>4 DEF Perform
  <2>1. T = Insert(S, k, c.value, owned).store
    BY <1>1, <2>0, Zenon
  <2>2. T = IF k \in DOMAIN S THEN S ELSE Single(c.value, owned)
    BY <1>1, <1>2, <1>4, <2>1, InsertMeans
  <2>3. Commanded(value, c) = IF value = NoValue THEN c.value ELSE value
    BY <1>4 DEF Commanded
  <2> QED BY <1>0, <1>1, <1>2, <1>4, <2>2, <2>3 DEF StoreWith
<1>5. CASE c.op = "delete"
  <2>1. T = EmptyStore /\ Commanded(value, c) = NoValue
    BY <1>1, <1>2, <1>3, <1>5, DeleteMeans DEF Perform, Commanded
  <2> QED BY <2>1 DEF StoreWith
<1>6. CASE c.op = "update"
  <2>1. T = Update(S, k, c.value).store
    BY <1>1, <1>3, <1>6 DEF Perform
  <2>2. T = IF k \in DOMAIN S THEN Single(c.value, S[k].owner) ELSE S
    BY <1>1, <1>2, <1>6, <2>1, UpdateMeans
  <2>3. Commanded(value, c) = IF value = NoValue THEN NoValue ELSE c.value
    BY <1>6 DEF Commanded
  <2> QED BY <1>0, <1>1, <1>2, <1>6, <2>2, <2>3 DEF StoreWith
<1>7. CASE c.op = "lookup"
  <2>1. T = S /\ Commanded(value, c) = value
    BY <1>1, <1>3, <1>7 DEF Perform, Lookup, Commanded
  <2> QED BY <1>0, <2>1
<1> QED BY <1>1, <1>4, <1>5, <1>6, <1>7

\* Clients' commands leave the copies where they are, all with the new value.
LEMMA RepairClientCommand ==
    ASSUME Types, Repaired, NEW c \in Question, ClientCommand(c)
    PROVE  Repaired'
<1> DEFINE after(m) == Perform(stores[m], Command(c, m # Owner)).store
<1>1. /\ Settled /\ UNCHANGED <<fixed, up, map, queue, job, membership>>
      /\ stores' = [m \in Machine |-> IF m \in up /\ m \in Copies(up, keyHash)
                                      THEN after(m) ELSE stores[m]]
      /\ current' = Lookup(after(Owner), k).reply
  BY DEF ClientCommand
<1>2. stores = Placed(up, current)
  BY <1>1, RepairedAtTheEnd
<1>3. PICK R \in SUBSET Machine : R = up
  BY DEF Types
<1>4. PICK new : new = Commanded(current, c)
  OBVIOUS
<1>5. Owner \in R /\ Owner = OwnerHash(R, keyHash) /\ current \in Value \cup {NoValue}
  BY <1>3, RingsAre DEF Owner, Types
<1>6. Owner \in Copies(R, keyHash)
  BY <1>5 DEF Copies
<1>7. new \in Value \cup {NoValue}
      /\ \A m \in R : m \in Copies(R, keyHash) => after(m) = StoreWith(new, m = Owner)
  <2>1. ASSUME NEW m \in R, m \in Copies(R, keyHash)
        PROVE  new \in Value \cup {NoValue} /\ after(m) = StoreWith(new, m = Owner)
    <3>1. PICK owned \in BOOLEAN : owned = (m = Owner)
      OBVIOUS
    <3>2. stores[m] = StoreWith(current, owned)
      BY <1>2, <1>3, <1>5, <2>1, <3>1, PlacedMeans
    <3>3. PICK T : T = Perform(StoreWith(current, owned), Command(c, ~owned)).store
      OBVIOUS
    <3>4. T = StoreWith(new, owned) /\ new \in Value \cup {NoValue}
      BY <1>4, <1>5, <3>3, CommandOnCopy
    <3>5. after(m) = T
      BY <3>1, <3>2, <3>3
    <3> HIDE DEF after
    <3> QED BY <3>1, <3>4, <3>5
  <2> HIDE DEF after
  <2> QED BY <1>5, <1>6, <2>1
<1>8. current' = new
  <2>1. PICK T : T = after(Owner)
    OBVIOUS
  <2>2. T = StoreWith(new, TRUE)
    <3> HIDE DEF after
    <3>1. T = StoreWith(new, Owner = Owner)
      BY <1>5, <1>6, <1>7, <2>1
    <3> QED BY <3>1
  <2>3. /\ k \in DOMAIN T <=> new # NoValue
        /\ k \in DOMAIN T => T[k].value = new
    BY <1>7, <2>2, StoreWithMeans
  <2>4. current' = Lookup(T, k).reply
    BY <1>1, <2>1
  <2> QED BY <2>3, <2>4 DEF Lookup
<1> HIDE DEF after
<1>9. ASSUME NEW m \in R PROVE stores'[m] = Placed(R, new)[m]
  <2>1. m \in Machine
    BY <1>3
  <2>2. CASE m \in Copies(R, keyHash)
    BY <1>1, <1>3, <1>5, <1>7, <2>1, <2>2, PlacedMeans
  <2>3. CASE m \notin Copies(R, keyHash)
    BY <1>1, <1>2, <1>3, <2>1, <2>3, PlacedMeans
  <2> QED BY <2>2, <2>3
<1>10. Placed(R, current)' = Placed(R, new) /\ up' = R
  BY <1>1, <1>3, <1>8 DEF Placed, fixed
<1>11. \A m \in R : RingAt(m)' = R /\ queue'[m] = <<>> /\ job'[m] = Idle
  BY <1>1, <1>3 DEF Settled, RingAt
<1>12. PICK a \in Machine : a = Owner
  BY <1>5
<1>13. R \subseteq up' \cup {a, a} /\ R \subseteq up' \cup {a} /\ up' \subseteq R
  BY <1>10
<1>14. Untouched(R)'
  BY <1>9, <1>10, <1>11, <1>13 DEF Untouched
<1> QED BY <1>14 DEF Repaired

LEMMA RepairInitially ==
    ASSUME Types, Init
    PROVE  Repaired
<1>1. PICK R \in SUBSET Machine : R = up
  BY DEF Types
<1>2. /\ R # {} /\ stores = Placed(R, current)
      /\ \A m \in R : RingAt(m) = R /\ queue[m] = <<>> /\ job[m] = Idle
  BY <1>1 DEF Types, Init, RingAt, View
<1>3. PICK a \in R : TRUE
  BY <1>2
<1>4. R \subseteq up \cup {a, a} /\ R \subseteq up \cup {a} /\ a \in Machine /\ up \subseteq R
  BY <1>1
<1>5. Untouched(R)
  BY <1>1, <1>2, <1>4 DEF Untouched
<1> QED BY <1>5 DEF Repaired

LEMMA RepairStutters ==
    ASSUME Types, Phase, Repaired, UNCHANGED vars
    PROVE  Repaired'
<1>1. /\ UNCHANGED <<fixed, up, map, queue, job, stores, current, membership>>
      /\ keyHash' = keyHash /\ up' = up /\ current' = current /\ recent' = recent
      /\ queue' = queue /\ job' = job /\ stores' = stores
      /\ \A x : RingAt(x)' = RingAt(x)
  BY DEF vars, fixed, membership, RingAt
<1>2. ASSUME NEW R \in SUBSET Machine, Untouched(R) PROVE Untouched(R)'
  <2>1. Placed(R, current)' = Placed(R, current)
    BY <1>1 DEF Placed
  <2> QED BY <1>1, <1>2, <2>1 DEF Untouched
<1>3. ASSUME Repairing PROVE Repairing'
  <2>1. PICK p : p = Owner
    OBVIOUS
  <2>2. ASSUME NEW x \in up \ {p} PROVE RepairJob(x)'
    <3>1. RepairJob(x)
      BY <1>3 DEF Repairing
    <3>2. Busy(x)' = Busy(x)
      BY <1>1 DEF Busy
    <3>3. Busy(x) => job[x].todo = <<>> /\ job[x].later = <<>>
                     /\ job[x].message.reason = "failure"
      BY <2>1, <3>1 DEF RepairJob
    <3> QED BY <1>1, <3>2, <3>3 DEF RepairJob
  <2> QED BY <1>1, <1>3, <2>1, <2>2, RepairKeptByOthers
<1> QED BY <1>1, <1>2, <1>3 DEF Repaired

LEMMA RepairByStep ==
    ASSUME Together, Types, Phase, RepairedUnlessJoined, [Next]_vars
    PROVE  RepairedUnlessJoined'
<1> SUFFICES ASSUME joins' = 0 PROVE Repaired'
  BY DEF RepairedUnlessJoined
<1>1. ASSUME NEW m \in Machine, Join(m) PROVE FALSE
  <2>1. joins' = joins + 1 /\ joins \in Nat
    BY <1>1, JoinMeans DEF Types
  <2> QED BY <2>1
<1>2. joins = 0
  <2>1. ASSUME NEW m \in Machine, Fail(m) \/ TimerThread(m) PROVE joins' = joins
    BY <2>1 DEF Fail, TimerThread, JoinEventAsPredecessor, JoinEventAsSuccessor,
                FailureEventAsPredecessor, FailureEventAsSuccessor, Pop, SendCommand,
                ContactSecondReplica, Return, membership
  <2>2. ASSUME NEW m \in Machine, NEW x \in Machine, AddToList(m, x) \/ RemoveFromList(m, x)
        PROVE  joins' = joins
    BY <2>2 DEF AddToList, RemoveFromList, membership
  <2>3. ASSUME NEW c \in Question, ClientCommand(c) PROVE joins' = joins
    BY <2>3 DEF ClientCommand, membership
  <2>4. UNCHANGED vars => joins' = joins
    BY DEF vars, membership
  <2> QED BY <1>1, <2>1, <2>2, <2>3, <2>4 DEF Next
<1>3. Repaired
  BY <1>2 DEF RepairedUnlessJoined
<1> QED BY <1>1, <1>3, RepairFail, RepairTimerThread, NobodyNew, RepairRemoveFromList,
           RepairClientCommand, RepairStutters DEF Next

LEMMA RepairAlways ==
    ASSUME Together
    PROVE  Spec => [](Types /\ Phase /\ RepairedUnlessJoined)
<1>1. Init => Types /\ Phase /\ RepairedUnlessJoined
  BY TypesInitially, PhaseInitially, RepairInitially DEF RepairedUnlessJoined
<1>2. Types /\ Phase /\ RepairedUnlessJoined /\ [Next]_vars
          => (Types /\ Phase /\ RepairedUnlessJoined)'
  BY TypesStep, PhaseStep, RepairByStep
<1> QED BY <1>1, <1>2, PTL DEF Spec

\* As long as nobody joins, and a second machine is lost only before anybody has dropped
\* the first one from its ring: whenever all is settled, however many times machines have
\* failed, one alone or two together, the key is with its owner, marked as owned there and
\* nowhere else, and on its two replicas, all with the value clients stored last, and with
\* no other machine (handleFailOrLeaveEventAsPredecessor and -AsSuccessor).
THEOREM PlacedAlways ==
    ASSUME Together
    PROVE  Spec => []PlacedWhenSettled
<1>1. Types /\ Phase /\ RepairedUnlessJoined => PlacedWhenSettled
  BY RepairedAtTheEnd DEF RepairedUnlessJoined, PlacedWhenSettled
<1>2. Spec => [](Types /\ Phase /\ RepairedUnlessJoined)
  BY RepairAlways
<1> QED BY <1>1, <1>2, PTL

\* What OwnerServes says of joins holds of failures, too: whenever all is settled, the
\* machine clients are sent to has the key with the value they stored last, and no other
\* takes itself for the owner (changeKeyToOwned).
THEOREM OwnerServesAfterFailures ==
    ASSUME Together
    PROVE  Spec => [](joins = 0 => OwnerServesWhenSettled)
<1>1. ASSUME Types, Repaired, Settled
      PROVE  /\ Lookup(stores[Owner], k).reply = current
             /\ {m \in up : Owns(m)} = IF current = NoValue THEN {} ELSE {Owner}
  <2>1. stores = Placed(up, current) /\ Owner \in up /\ up \in SUBSET Machine
    BY <1>1, RepairedAtTheEnd, RingsAre DEF Types
  <2>2. HasCopy(Owner, TRUE)
    BY <1>1, <2>1, PlacedAt DEF HasCopy
  <2>3. ASSUME NEW m \in up, m # Owner PROVE ~Owns(m)
    <3>1. HasCopy(m, FALSE) \/ stores[m] = EmptyStore
      BY <1>1, <2>1, <2>3, PlacedAt DEF HasCopy
    <3>2. stores[m] = EmptyStore => ~Owns(m)
      BY EmptyStoreIs DEF Owns, Holds
    <3> QED BY <1>1, <2>1, <3>1, <3>2, CopyMeans
  <2>4. /\ Holds(Owner) <=> current # NoValue
        /\ Owns(Owner) <=> current # NoValue
        /\ Holds(Owner) => stores[Owner][k].value = current
    BY <1>1, <2>1, <2>2, CopyMeans
  <2> QED BY <2>1, <2>3, <2>4 DEF Lookup, Holds
<1>2. Types /\ Phase /\ RepairedUnlessJoined => (joins = 0 => OwnerServesWhenSettled)
  BY <1>1 DEF RepairedUnlessJoined, OwnerServesWhenSettled
<1>3. Spec => [](Types /\ Phase /\ RepairedUnlessJoined)
  BY RepairAlways
<1> QED BY <1>2, <1>3, PTL

LEMMA OwnerHasCopy ==
    ASSUME Types, Repaired
    PROVE  HasCopy(Owner, TRUE) \/ HasCopy(Owner, FALSE)
<1>1. PICK p : p = Owner
  OBVIOUS
<1>2. p \in up /\ up \in SUBSET Hash /\ up # {} /\ keyHash \in Hash /\ p = OwnerHash(up, keyHash)
  BY <1>1, RingsAre DEF Types, Owner
<1>3. CASE Repairing
  BY <1>1, <1>2, <1>3 DEF Repairing, RepairStore
<1>4. ASSUME NEW R \in SUBSET Machine, Untouched(R) PROVE HasCopy(p, TRUE) \/ HasCopy(p, FALSE)
  <2>1. PICK a, b \in Machine : R \subseteq up \cup {a, b}
    BY <1>4 DEF Untouched
  <2>2. R \in SUBSET Hash /\ up \in SUBSET R /\ p \in R /\ stores[p] = Placed(R, current)[p]
    BY <1>2, <1>4 DEF Untouched
  <2>3. p \in Copies(R, keyHash)
    BY <1>2, <2>1, <2>2, HeirHasCopy
  <2>4. stores[p] = StoreWith(current, p = OwnerHash(R, keyHash))
    BY <1>2, <2>2, <2>3, PlacedMeans
  <2>5. CASE p = OwnerHash(R, keyHash)
    BY <2>4, <2>5 DEF HasCopy
  <2>6. CASE p # OwnerHash(R, keyHash)
    BY <2>4, <2>6 DEF HasCopy
  <2> QED BY <2>5, <2>6
<1> QED BY <1>1, <1>3, <1>4 DEF Repaired

\* Under the same conditions the key is there at every moment, not only once all is
\* settled: the machine which becomes the owner has had it as a replica, and keeps it while
\* the others drop theirs and are given it anew.
THEOREM CopySurvivesFailures ==
    ASSUME Together
    PROVE  Spec => [](joins = 0 => CopySurvives)
<1>1. ASSUME Types, Repaired, current # NoValue
      PROVE  \E m \in up : Lookup(stores[m], k).reply = current
  <2>1. Owner \in up /\ Owner \in Machine
    BY <1>1, RingsAre DEF Types
  <2>2. Holds(Owner) /\ stores[Owner][k].value = current
    BY <1>1, <2>1, OwnerHasCopy, CopyMeans
  <2> QED BY <2>1, <2>2 DEF Lookup, Holds
<1>2. Types /\ Phase /\ RepairedUnlessJoined => (joins = 0 => CopySurvives)
  BY <1>1 DEF RepairedUnlessJoined, CopySurvives
<1>3. Spec => [](Types /\ Phase /\ RepairedUnlessJoined)
  BY RepairAlways
<1> QED BY <1>2, <1>3, PTL

\* What the README says of two failures at once (src/README.md) is true of any number of
\* them when nobody has joined and each pair comes together: what refutes it is a second
\* failure in the middle of the repair.
THEOREM ToleratesFailuresTogether ==
    ASSUME Together
    PROVE  Spec => [](joins = 0 => ToleratesTwoFailures)
<1>1. ASSUME Types, Repaired, current # NoValue PROVE \E m \in up : Holds(m)
  <2>1. Owner \in up /\ Owner \in Machine
    BY <1>1, RingsAre DEF Types
  <2>2. Holds(Owner)
    BY <1>1, <2>1, OwnerHasCopy, CopyMeans
  <2> QED BY <2>1, <2>2
<1>2. Types /\ Phase /\ RepairedUnlessJoined => (joins = 0 => ToleratesTwoFailures)
  BY <1>1 DEF RepairedUnlessJoined, ToleratesTwoFailures
<1>3. Spec => [](Types /\ Phase /\ RepairedUnlessJoined)
  BY RepairAlways
<1> QED BY <1>2, <1>3, PTL

================================================================================
