----------------------------- MODULE EarlyStoreProofs ----------------------------
(* Proofs about EarlyStore, for any machines, ring, hash of the key, values, joins *)
(* and departures: the key is lost only if a member that has left is looked up,    *)
(* which takes a missed join, and it ends with its owner unless a join has been    *)
(* missed.                                                                        *)
(*                                                                               *)
(* The inductive invariant Inv says that the key is in one place at a time: with  *)
(* one machine, its holder, or in one command on its way; and that a holder which *)
(* is no longer the owner on its own ring is told so by its Coordinator, which    *)
(* will name the machine before it.                                               *)
EXTENDS EarlyStore, OperatorProofs

USE EarlyStoreAssumption, MaxHashAssumption

--------------------------------------------------------------------------------
(* The invariant                                                                *)

Jobs == [why : {"join", "leave"}, at : {"taken", "routed", "here", "sent"},
         text : Range(Written) \cup {NoText}, place : Machine]

Merges == [at : {"added", "flagged"}, new : Machine]

Types ==
    /\ keyHash \in Hash /\ master \in up
    /\ up \in SUBSET Machine /\ leaving \in SUBSET (up \ {master})
    /\ view \in [Machine -> SUBSET Machine]
    /\ dropped \in [Machine -> SUBSET Machine]
    /\ merge \in [Machine -> Merges \cup {Unlocked}]
    /\ transfer \in [Machine -> BOOLEAN]
    /\ newMember \in [Machine -> Machine \cup {NoHash}]
    /\ job \in [Machine -> Jobs \cup {Idle}]
    /\ store \in [Machine -> Value \cup {NoValue}]
    /\ current \in Value \cup {NoValue}
    /\ raced \in BOOLEAN /\ misread \in BOOLEAN /\ joins \in Nat /\ leaves \in Nat

\* The machine's timer thread is sending what it leaves behind, or serving a join.
Leaving(m) == Busy(m) /\ job[m].why = "leave"
Serving(m) == Busy(m) /\ job[m].why = "join"

\* One machine leaves at a time.  It is not alone on its ring, and nobody has noted it as
\* a new member; once it sends its own nobody sees it and no command comes to it.
LeavesAlone ==
    \A g \in leaving :
        /\ leaving = {g}
        /\ view[g] # {g}
        /\ \A x \in up : Pending(x) # g
        /\ Leaving(g) =>
              /\ \A x \in up \ {g} : g \notin view[x]
              /\ \A x \in up : Busy(x) /\ (x # g \/ ~Is(x, "sent")) => job[x].place # g

\* What is so of one machine.
MachineInv(m) ==
    /\ m \in up => m \in view[m] /\ view[m] \subseteq up
    /\ m \in up => Pending(m) = NoHash \/ (Pending(m) = Predecessor(view[m], m) /\ Pending(m) # m)
    /\ m \notin up => job[m] = Idle /\ store[m] = NoValue /\ merge[m] = Unlocked /\ ~transfer[m]
    /\ Busy(m) => job[m].place \in up
    /\ Busy(m) /\ job[m].at = "taken" => job[m].why = "join" /\ job[m].place = m
    /\ Busy(m) /\ job[m].at \in {"routed", "here"} => job[m].text # NoText
    /\ Leaving(m) => m \in leaving

\* The hash the timer thread reads: it is that of a member unless a join has been missed.
\* A thread that serves a join has not missed one yet if the flag is still its own.
CoordinatorInv(m) ==
    /\ m \in up /\ transfer[m] /\ ~Stale(m) => newMember[m] \in view[m]
    /\ Serving(m) => newMember[m] # NoHash
    /\ Serving(m) /\ ~raced => transfer[m] /\ ~Stale(m)
    /\ Stale(m) /\ ~raced => transfer[m]
    /\ newMember[m] # NoHash /\ leaves = 0 => newMember[m] \in view[m]

\* A member is looked up in vain only if one has left.
Misreading ==
    /\ leaving # {} => leaves # 0
    /\ misread => raced /\ leaves # 0

\* The key is with m, and stays there; or it is in a command m has sent (Carrier).
Holder(m)  == store[m] # NoValue /\ ~Leaving(m)

OnePlace ==
    /\ \A m \in Machine : Holder(m) => store[m] = current
    /\ \A m \in Machine : Carrier(m) => current # NoValue /\ job[m].text = Written[<<"insert", current>>]
    /\ \A a, b \in Machine : Holder(a) /\ Holder(b) => a = b
    /\ \A a, b \in Machine : Carrier(a) /\ Carrier(b) => a = b
    /\ \A a, b \in Machine : ~(Holder(a) /\ Carrier(b))
    /\ current # NoValue /\ ~misread => \E m \in Machine : Holder(m) \/ Carrier(m)

\* A holder is the owner on its own ring, or will look at its Coordinator.
Placed(m) == Owner(view[m]) = m \/ ToBeServed(m)

HolderPlaced == ~MayBeStranded => \A m \in Machine : Holder(m) => Placed(m)

Inv ==
    /\ Types
    /\ LeavesAlone
    /\ \A m \in Machine : MachineInv(m) /\ CoordinatorInv(m)
    /\ Misreading
    /\ OnePlace
    /\ HolderPlaced

--------------------------------------------------------------------------------
(* The ring                                                                     *)

\* checkAndTransferKeys finds out whether the new member is the predecessor.
LEMMA TransferRequiredMeans ==
    ASSUME NEW ring \in SUBSET Hash, NEW self \in ring, NEW new \in ring \ {self}
    PROVE  TransferRequired(ring, self, new) <=> new = Predecessor(ring, self)
<1> DEFINE below == {x \in ring : x < self}
<1>1. Cardinality(ring) > 1
  BY RingOfTwo
<1>2. below \in SUBSET Hash /\ ring # {}
  OBVIOUS
<1>0. ring \in SUBSET Nat /\ self \in Nat /\ new \in Nat
  BY DEF Hash
<1>3. below # {} => Max(below) \in below /\ \A x \in below : x <= Max(below)
  <2> HIDE DEF below
  <2> QED
    BY <1>2, MaxIsGreatest
<1>4. Min(ring) \in ring /\ \A x \in ring : Min(ring) <= x
  BY <1>0, <1>2, MinIsLeast
<1>5. Max(ring) \in ring /\ \A x \in ring : x <= Max(ring)
  BY <1>2, MaxIsGreatest
<1>6. Predecessor(ring, self) = IF below # {} THEN Max(below) ELSE Max(ring)
  BY DEF Predecessor
<1>7. CASE below # {}
  <2>1. self # Min(ring)
    <3>1. PICK b \in ring : b < self
      BY <1>7
    <3>2. Min(ring) <= b /\ Min(ring) \in Nat /\ b \in Nat
      BY <1>0, <1>4, <3>1
    <3>3. QED
      BY <1>0, <3>1, <3>2
  <2>2. new < self /\ {h \in ring : new < h /\ h < self} = {} <=> new = Max(below)
    <3>1. PICK p : p = Max(below)
      OBVIOUS
    <3>2. p \in ring /\ p < self /\ \A x \in ring : x < self => x <= p
      BY <1>3, <1>7, <3>1
    <3>3. p \in Nat
      BY <1>0, <3>2
    <3>4. ASSUME new < self, {h \in ring : new < h /\ h < self} = {} PROVE new = p
      <4>1. ~(new < p) /\ new <= p
        BY <3>2, <3>4
      <4>2. QED
        BY <1>0, <3>3, <4>1
    <3>5. ASSUME new = p PROVE new < self /\ {h \in ring : new < h /\ h < self} = {}
      <4>1. \A h \in ring : ~(new < h /\ h < self)
        <5> SUFFICES ASSUME NEW h \in ring, new < h, h < self PROVE FALSE
          OBVIOUS
        <5>1. h <= p /\ h \in Nat
          BY <1>0, <3>2
        <5>2. QED
          BY <1>0, <3>3, <3>5, <5>1
      <4>2. QED
        BY <3>2, <3>5, <4>1
    <3>6. QED
      BY <3>1, <3>4, <3>5
  <2>3. QED
    BY <1>1, <1>6, <1>7, <2>1, <2>2 DEF TransferRequired
<1>8. CASE below = {}
  <2>1. self = Min(ring)
    <3>1. ~(Min(ring) < self) /\ Min(ring) <= self /\ Min(ring) \in Nat
      BY <1>0, <1>4, <1>8
    <3>2. QED
      BY <1>0, <3>1
  <2>2. ~(new < self)
    BY <1>8
  <2>3. QED
    BY <1>1, <1>6, <1>8, <2>1, <2>2 DEF TransferRequired
<1>9. QED
  BY <1>7, <1>8

\* A member that takes a key from its owner is before the owner on the ring.
LEMMA NewOwnerIsPredecessor ==
    ASSUME NEW ring \in SUBSET Hash, NEW h \in ring, NEW x \in Hash \ ring, NEW k \in Hash,
           OwnerHash(ring, k) = h, OwnerHash(ring \cup {x}, k) # h
    PROVE  x = Predecessor(ring \cup {x}, h)
<1>1. OwnerHash(ring \cup {x}, k) = x
  BY OwnerAfterAdding
<1>2. QED
  BY <1>1, OwnedRangeMoves

\* What getCommandsForJoin leaves in the store belongs to the machine, if the new
\* member is before it on the ring.
LEMMA UnselectedIsOwned ==
    ASSUME NEW ring \in SUBSET Hash, NEW h \in ring, ring # {h}, NEW k \in Hash, k # h,
           NEW p, p = Predecessor(ring, h), ~(k <= p \/ k > h)
    PROVE  OwnerHash(ring, k) = h
<1>1. p \in ring \ {h}
  BY NotItsOwnNeighbour
<1>2. p < k /\ k < h
  BY <1>1 DEF Hash
<1>3. \A x \in ring : Gap(p, h) <= Gap(x, h)
  BY <1>1, PredecessorIsNearest
<1>4. ASSUME NEW x \in ring PROVE Gap(k, h) <= Gap(k, x)
  <2>1. Gap(p, h) <= Gap(x, h)
    BY <1>3
  <2>2. p \in Hash /\ x \in Hash /\ h \in Hash /\ MaxHash \in Nat
    BY <1>1
  <2>3. QED
    BY <1>2, <2>1, <2>2 DEF Gap, Hash
<1>5. QED
  BY <1>4, OwnerIsNearest

--------------------------------------------------------------------------------
(* The texts                                                                    *)

\* The operations on a key there are, and their texts
Changes == {"insert", "update", "delete"}

LEMMA WrittenIs ==
    ASSUME NEW name \in Changes, NEW value \in Value \cup {<<>>}
    PROVE  /\ Written[<<name, value>>] = Build(name, Key, value)
           /\ Written[<<name, value>>] \in Range(Written)
           /\ Read[Written[<<name, value>>]] = ParseKeyValueStoreCmd(Build(name, Key, value))
<1>1. /\ DOMAIN Written = Changes \X (Value \cup {<<>>})
      /\ \A change \in Changes \X (Value \cup {<<>>}) :
            Written[change] = Build(change[1], Key, change[2])
  BY Zenon DEF Written, Changes
<1>2. <<name, value>> \in DOMAIN Written /\ <<name, value>>[1] = name /\ <<name, value>>[2] = value
  BY <1>1
<1>3. Written[<<name, value>>] = Build(name, Key, value)
  BY <1>1, <1>2, Zenon
<1>4. Written[<<name, value>>] \in Range(Written)
  BY <1>2, Zenon DEF Range
<1>5. QED
  BY <1>3, <1>4, Zenon DEF Read

\* buildCommand makes a text without a level of which Command.tla tells the parts.
LEMMA WrittenIsBuilt ==
    ASSUME NEW name \in Changes, NEW value \in Value \cup {<<>>}
    PROVE  \E S : /\ Symbols \subseteq S
                 /\ Built(S, Build(name, Key, value), <<>>, <<name>>, IntToString[Key], value)
<1> DEFINE S == Symbols \cup ToSet(Digit) \cup ToSet(value)
           digits == IntToString[Key]
<1>1. Symbols \subseteq S /\ ToSet(Digit) \subseteq S /\ ToSet(value) \subseteq S
  OBVIOUS
<1>2. digits \in Seq(ToSet(Digit))
  BY KeyAssumption
<1>3. value \in Seq(ToSet(value))
  <2>1. CASE value = <<>>
    BY <2>1
  <2>2. CASE value # <<>>
    <3>1. value \in Value
      BY <2>2
    <3>2. QED
      BY <3>1, Zenon DEF EarlyStoreAssumption
  <2>3. QED
    BY <2>1, <2>2
<1> HIDE DEF S, digits
<1>4. digits \in Seq(S) /\ value \in Seq(S)
  BY <1>1, <1>2, <1>3, LargerSet
<1>5. name \in Name /\ name \in S /\ "(" \in S
  BY <1>1 DEF Name, NeedsValue, NeedsKey, Changes, Symbols
<1>6. <<name>> \in Operations
  BY <1>5 DEF Operations
<1>7. Plain(<<name>>) = name
  BY DEF Plain
<1>8. <<name, "(">> = <<name>> \o <<"(">>
  OBVIOUS
<1>9. Build(name, Key, value) = BuildCommand(<<name>>, digits, value)
  BY <1>7, <1>8, Zenon DEF Build, BuildCommand, digits
<1>10. BuildCommand(<<name>>, digits, value) \in Seq(S)
  <2>1. <<Comma>> \in Seq(S) /\ <<")">> \in Seq(S) /\ <<name>> \in Seq(S) /\ <<"(">> \in Seq(S)
    BY <1>1, <1>5, CommaIs, OneSymbol DEF Symbols
  <2>2. <<Comma>> \o value \in Seq(S) /\ <<>> \in Seq(S)
    BY <1>4, <2>1, ConcatProperties
  <2>3. PICK rest \in Seq(S) : rest = IF Plain(<<name>>) \in NeedsValue THEN <<Comma>> \o value ELSE <<>>
    BY <2>2, Zenon
  <2>4. <<name>> \o <<"(">> \in Seq(S)
    BY <2>1, ConcatProperties
  <2>5. (<<name>> \o <<"(">>) \o digits \in Seq(S)
    BY <1>4, <2>4, ConcatProperties
  <2>6. ((<<name>> \o <<"(">>) \o digits) \o rest \in Seq(S)
    BY <2>3, <2>5, ConcatProperties
  <2>7. (((<<name>> \o <<"(">>) \o digits) \o rest) \o <<")">> \in Seq(S)
    BY <2>1, <2>6, ConcatProperties
  <2>8. QED
    BY <2>3, <2>7, Zenon DEF BuildCommand
<1>11. Build(name, Key, value) = <<>> \o BuildCommand(<<name>>, digits, value)
  BY <1>9, <1>10, ConcatEmptySeq
<1>12. <<>> \in Levels
  BY DEF Levels
<1>13. QED
  BY <1>1, <1>4, <1>6, <1>11, <1>12, Zenon DEF Built, digits

DigitSymbol == {"0", "1", "2", "3", "4", "5", "6", "7", "8", "9"}

\* A machine reads in such a text what was written: the key as a number, and a value
\* up to the last bracket, whatever it contains.
LEMMA ReadsWhatIsWritten ==
    ASSUME NEW name \in Changes, NEW value \in Value \cup {<<>>}
    PROVE  /\ Read[Written[<<name, value>>]] =
                 KeyValueStoreCommand(<<name>>, Key, IF name \in NeedsValue THEN value ELSE <<>>)
           /\ Written[<<name, value>>] # NoText
<1> DEFINE digits == IntToString[Key]
<1>1. PICK text : text = Build(name, Key, value)
  OBVIOUS
<1>2. PICK S : Symbols \subseteq S /\ Built(S, text, <<>>, <<name>>, digits, value)
  BY <1>1, WrittenIsBuilt
<1>3. digits \in Seq(ToSet(Digit)) /\ Atoi(digits) = Key
  BY KeyAssumption
<1>4. \A i \in 1..Len(digits) : digits[i] # Comma
  <2> SUFFICES ASSUME NEW i \in 1..Len(digits) PROVE digits[i] # Comma
    OBVIOUS
  <2>1. digits[i] \in ToSet(Digit)
    BY <1>3, ElementOfSeq
  <2>2. Comma \notin ToSet(Digit)
    <3>1. \A d \in ToSet(Digit) : d \in DigitSymbol
      BY DEF ToSet, Digit, DigitSymbol
    <3>2. Comma \notin DigitSymbol
      BY Zenon DEF Comma, DigitSymbol
    <3>3. QED
      BY <3>1, <3>2, Zenon
  <2>3. QED
    BY <2>1, <2>2
<1>5. Plain(<<name>>) = name /\ name \in Name /\ Len(<<name>>) = 1
  BY DEF Plain, Name, NeedsValue, NeedsKey, Changes
<1>6. PICK bracket : bracket = Bracket(<<>>, <<name>>)
  OBVIOUS
<1>7. PICK keyEnd : keyEnd = bracket + Len(digits)
  OBVIOUS
<1>8. /\ FirstOf(text, "(") = bracket
      /\ LastOf(text, ")") = Len(text)
      /\ Substring(text, IF LevelGiven(text) THEN 3 ELSE 1, bracket - 1) = <<name>>
      /\ ~LevelGiven(text)
  BY <1>2, <1>6, NameIsFound, Zenon
<1>9. /\ bracket \in Nat \ {0} /\ keyEnd \in Nat /\ Len(text) \in Nat \ {0}
      /\ Substring(text, bracket + 1, keyEnd) = digits
      /\ name \in NeedsValue =>
            /\ FirstOf(text, Comma) = keyEnd + 1
            /\ Substring(text, (keyEnd + 1) + 1, Len(text) - 1) = value
      /\ name \notin NeedsValue => FirstOf(text, Comma) = 0 /\ Len(text) - 1 = keyEnd
  <2> HIDE DEF digits
  <2>1. /\ Symbols \subseteq S /\ Built(S, text, <<>>, <<name>>, digits, value)
        /\ \A i \in 1..Len(digits) : digits[i] # Comma
    BY <1>2, <1>4
  <2>2. /\ Bracket(<<>>, <<name>>) \in Nat \ {0} /\ Bracket(<<>>, <<name>>) + Len(digits) \in Nat
        /\ Len(text) \in Nat \ {0}
        /\ Substring(text, Bracket(<<>>, <<name>>) + 1, Bracket(<<>>, <<name>>) + Len(digits)) = digits
        /\ Plain(<<name>>) \in NeedsValue =>
              /\ FirstOf(text, Comma) = Bracket(<<>>, <<name>>) + Len(digits) + 1
              /\ Substring(text, (Bracket(<<>>, <<name>>) + Len(digits) + 1) + 1, Len(text) - 1) = value
        /\ Plain(<<name>>) \notin NeedsValue =>
              FirstOf(text, Comma) = 0 /\ Len(text) - 1 = Bracket(<<>>, <<name>>) + Len(digits)
    BY <2>1, PartsAreFound
  <2>3. QED
    BY <1>5, <1>6, <1>7, <2>2, Zenon
<1>10. Bracket(<<>>, <<name>>) = 2 /\ SubSeq(text, 1, bracket - 1) = <<name>>
  BY <1>5, <1>6, <1>8 DEF Bracket, Substring
<1> HIDE DEF digits
<1>11. PICK comma, close : comma = FirstOf(text, Comma) /\ close = LastOf(text, ")")
  OBVIOUS
<1>12. ParseKeyValueStoreCmd(text) = KeyValueStoreCommand(<<name>>, Key, IF name \in NeedsValue THEN value ELSE <<>>)
  <2>1. CASE name \in NeedsValue
    <3>1. /\ comma = keyEnd + 1 /\ comma # 0 /\ comma - 1 = keyEnd
          /\ Substring(text, comma + 1, close - 1) = value
      BY <1>8, <1>9, <1>11, <2>1
    <3>2. <<name>> \in {<<n>> : n \in NeedsValue} /\ <<name>> \notin {<<n>> : n \in NeedsKey}
      BY <2>1 DEF NeedsValue, NeedsKey
    <3>3. close # 0 /\ bracket # 0
      BY <1>8, <1>9, <1>11
    <3>4. QED
      BY <1>3, <1>8, <1>9, <1>10, <1>11, <2>1, <3>1, <3>2, <3>3, Zenon DEF ParseKeyValueStoreCmd
  <2>2. CASE name \notin NeedsValue
    <3>1. comma = 0 /\ Len(text) - 1 = keyEnd /\ bracket # 0
      BY <1>9, <1>11, <2>2
    <3>2. <<name>> \in {<<n>> : n \in NeedsKey}
      BY <1>5, <2>2 DEF Name
    <3>4. QED
      BY <1>3, <1>8, <1>9, <1>10, <1>11, <2>2, <3>1, <3>2, Zenon DEF ParseKeyValueStoreCmd
  <2>3. QED
    BY <2>1, <2>2
<1>13. text # NoText
  BY <1>9 DEF NoText
<1>14. QED
  BY <1>1, <1>12, <1>13, WrittenIs, Zenon

\* What the owner of the key does with such a text is what its client meant.
LEMMA PerformedAsMeant ==
    ASSUME NEW name \in Changes, NEW value \in Value, NEW old
    PROVE  Performed(old, Written[<<name, value>>]) = Outcome(name, old, value)
<1>1. PICK command : command = Read[Written[<<name, value>>]]
  OBVIOUS
<1>2. command = KeyValueStoreCommand(<<name>>, Key, IF name \in NeedsValue THEN value ELSE <<>>)
  BY <1>1, ReadsWhatIsWritten
<1>3. command.key = Key /\ command.name = <<name>> /\ (name \in NeedsValue => command.value = value)
  BY <1>2 DEF KeyValueStoreCommand
<1>4. command.name \in {<<"insert">>, <<"update">>, <<"delete">>} /\ command.name[1] = name
  BY <1>3 DEF Changes
<1>5. Performed(old, Written[<<name, value>>]) = Outcome(name, old, command.value)
  BY <1>1, <1>3, <1>4, Zenon DEF Performed
<1>6. CASE name \in NeedsValue
  BY <1>3, <1>5, <1>6
<1>7. CASE name = "delete"
  BY <1>5, <1>7 DEF Outcome
<1>8. QED
  BY <1>6, <1>7 DEF Changes, NeedsValue

\* The command a value is moved with
LEMMA Moved ==
    ASSUME NEW value \in Value
    PROVE  LET text == Written[<<"insert", value>>]
           IN  /\ text \in Range(Written) /\ text # NoText
               /\ Read[text] = KeyValueStoreCommand(<<"insert">>, Key, value)
               /\ IsValid(Read[text])
               /\ \A old : Performed(old, text) = Insert(old, value)
<1>1. "insert" \in Changes /\ "insert" \in NeedsValue /\ value \in Value \cup {<<>>}
  BY DEF Changes, NeedsValue
<1>2. /\ Read[Written[<<"insert", value>>]] = KeyValueStoreCommand(<<"insert">>, Key, value)
      /\ Written[<<"insert", value>>] # NoText
  BY <1>1, ReadsWhatIsWritten
<1>3. IsValid(KeyValueStoreCommand(<<"insert">>, Key, value))
  BY <1>1 DEF IsValid, KeyValueStoreCommand, Operations, Name
<1>4. \A old : Outcome("insert", old, value) = Insert(old, value)
  BY DEF Outcome
<1>5. \A old : Performed(old, Written[<<"insert", value>>]) = Outcome("insert", old, value)
  BY <1>1, PerformedAsMeant
<1>6. QED
  BY <1>1, <1>2, <1>3, <1>4, <1>5, WrittenIs

--------------------------------------------------------------------------------
(* What the timer threads do                                                    *)

\* The fields of what a busy one does, and what they become.
LEMMA JobIs ==
    ASSUME NEW j \in Jobs
    PROVE  /\ j # Idle /\ j.at # "idle"
           /\ j.why \in {"join", "leave"} /\ j.at \in {"taken", "routed", "here", "sent"}
           /\ j.text \in Range(Written) \cup {NoText} /\ j.place \in Machine
BY DEF Jobs, Idle

LEMMA JobMade ==
    ASSUME NEW why \in {"join", "leave"}, NEW at \in {"taken", "routed", "here", "sent"},
           NEW text \in Range(Written) \cup {NoText}, NEW place \in Machine
    PROVE  /\ Job(why, at, text, place) \in Jobs
           /\ Job(why, at, text, place).why = why /\ Job(why, at, text, place).at = at
           /\ Job(why, at, text, place).text = text /\ Job(why, at, text, place).place = place
BY DEF Jobs, Job

JobMove(j, at, place, k) ==
    /\ k \in Jobs
    /\ k.why = j.why /\ k.at = at /\ k.text = j.text /\ k.place = place
    /\ k = [j EXCEPT !.at = at, !.place = place]
    /\ j.place = place => k = [j EXCEPT !.at = at]
    /\ j.at = at => k = [j EXCEPT !.place = place]

LEMMA JobMoved ==
    ASSUME NEW j \in Jobs, NEW at \in {"taken", "routed", "here", "sent"}, NEW place \in Machine,
           NEW k, k = Job(j.why, at, j.text, place)
    PROVE  JobMove(j, at, place, k)
<1>1. [j EXCEPT !.at = at] = Job(j.why, at, j.text, j.place)
  BY DEF Jobs, Job
<1>2. [j EXCEPT !.place = place] = Job(j.why, j.at, j.text, place)
  BY DEF Jobs, Job
<1>3. [j EXCEPT !.at = at, !.place = place] = [[j EXCEPT !.at = at] EXCEPT !.place = place]
  OBVIOUS
<1>4. [Job(j.why, at, j.text, j.place) EXCEPT !.place = place] = Job(j.why, at, j.text, place)
  BY DEF Job
<1>5. j.why \in {"join", "leave"} /\ j.text \in Range(Written) \cup {NoText}
  BY JobIs
<1>6. /\ k \in Jobs
      /\ k.why = j.why /\ k.at = at /\ k.text = j.text /\ k.place = place
  BY <1>5, JobMade
<1>7. QED
  BY <1>1, <1>2, <1>3, <1>4, <1>6 DEF JobMove

\* The same for the threads that merge lists.
LEMMA MergeIs ==
    ASSUME NEW j \in Merges
    PROVE  j # Unlocked /\ j.at \in {"added", "flagged"} /\ j.new \in Machine
BY DEF Merges, Unlocked

LEMMA MergeMade ==
    ASSUME NEW at \in {"added", "flagged"}, NEW new \in Machine
    PROVE  /\ Merging(at, new) \in Merges
           /\ Merging(at, new).at = at /\ Merging(at, new).new = new
BY DEF Merges, Merging

LEMMA NobodyMerges == Unlocked.at = "unlocked"
BY DEF Unlocked

--------------------------------------------------------------------------------
(* The invariant holds at first and is kept by every action                     *)

\* No machine has the hash NoHash.
LEMMA Hashes == Machine \subseteq Hash /\ Hash \subseteq Nat /\ NoHash \notin Machine
BY DEF Hash, NoHash

\* A machine that does not run does nothing and has nothing; one that does is on its
\* own ring, where it finds an owner for the key.
LEMMA RingOf ==
    ASSUME Types, NEW m \in up, MachineInv(m)
    PROVE  /\ view[m] \in SUBSET Hash /\ m \in view[m] /\ view[m] \subseteq up
           /\ m \in Machine /\ m \in Hash
           /\ Owner(view[m]) \in view[m] /\ Predecessor(view[m], m) \in view[m]
<1>1. m \in Machine /\ view[m] \in SUBSET Machine /\ m \in view[m] /\ view[m] \subseteq up
  BY DEF Types, MachineInv
<1>2. view[m] \in SUBSET Hash /\ m \in Hash /\ keyHash \in Hash
  BY <1>1 DEF Types
<1>3. Owner(view[m]) \in view[m]
  BY <1>1, <1>2, OwnerOnRing DEF Owner
<1>4. Predecessor(view[m], m) \in view[m]
  BY <1>1, <1>2, PredecessorOnRing
<1>5. QED
  BY <1>1, <1>2, <1>3, <1>4

LEMMA PendingIs ==
    ASSUME Types, NEW m \in Machine
    PROVE  /\ merge[m] = Unlocked =>
                 /\ ~Stale(m) /\ merge[m].at # "added"
                 /\ Pending(m) = IF transfer[m] THEN newMember[m] ELSE NoHash
           /\ merge[m] # Unlocked =>
                 /\ merge[m] \in Merges /\ merge[m].at \in {"added", "flagged"}
                 /\ Pending(m) = merge[m].new /\ Pending(m) \in Machine /\ Pending(m) # NoHash
           /\ merge[m].at \in {"added", "flagged"} => merge[m] # Unlocked
           /\ Pending(m) \in Machine \cup {NoHash}
<1>1. merge[m] \in Merges \cup {Unlocked} /\ newMember[m] \in Machine \cup {NoHash}
  BY DEF Types
<1>2. CASE merge[m] = Unlocked
  BY <1>1, <1>2, NobodyMerges DEF Stale, Pending
<1>3. CASE merge[m] # Unlocked
  BY <1>1, <1>3, MergeIs, Hashes DEF Pending
<1>4. QED
  BY <1>2, <1>3

LEMMA InitInv == Init => Inv
<1> SUFFICES ASSUME Init PROVE Inv
  OBVIOUS
<1>1. up \in SUBSET Machine /\ up # {} /\ up \subseteq Hash /\ keyHash \in Hash
  BY DEF Init
<1>2. Owner(up) \in up
  BY <1>1, OwnerOnRing DEF Owner
<1>3. \A m \in Machine : /\ view[m] = (IF m \in up THEN up ELSE {})
                         /\ merge[m] = Unlocked /\ ~transfer[m] /\ newMember[m] = NoHash
                         /\ job[m] = Idle
                         /\ store[m] = IF m = Owner(up) THEN current ELSE NoValue
  BY DEF Init
<1>4. current \in Value /\ current # NoValue
  BY DEF Init
<1>5. Types
  BY <1>1 DEF Init, Types
<1>6. LeavesAlone
  BY DEF Init, LeavesAlone
<1>7. \A m \in Machine : ~Busy(m) /\ Pending(m) = NoHash /\ ~Stale(m)
  BY <1>3, <1>5, PendingIs DEF Busy
<1>8. \A m \in Machine : MachineInv(m)
  BY <1>2, <1>3, <1>7 DEF MachineInv, Leaving
<1>9. \A m \in Machine : CoordinatorInv(m)
  BY <1>3, <1>7 DEF CoordinatorInv, Serving
<1>10. Misreading
  BY DEF Init, Misreading
<1>11. \A m \in Machine : Holder(m) <=> m = Owner(up)
  BY <1>3, <1>4, <1>7 DEF Holder, Leaving
<1>12. \A m \in Machine : ~Carrier(m)
  BY <1>7 DEF Carrier
<1>13. OnePlace
  BY <1>1, <1>2, <1>3, <1>11, <1>12, Zenon DEF OnePlace
<1>14. HolderPlaced
  BY <1>2, <1>3, <1>11 DEF HolderPlaced, Placed
<1>15. QED
  BY <1>5, <1>6, <1>8, <1>9, <1>10, <1>13, <1>14 DEF Inv

LEMMA JoinKeeps ==
    ASSUME Inv, NEW m \in Machine, Join(m)
    PROVE  Inv'
<1>1. /\ m \notin up /\ up' = up \cup {m} /\ leaving' = leaving /\ view[m] = {}
      /\ view' = [view EXCEPT ![m] = {m}]
      /\ merge' = merge /\ transfer' = transfer /\ newMember' = newMember
      /\ job' = job /\ store' = store /\ current' = current
      /\ raced' = raced /\ misread' = misread /\ keyHash' = keyHash /\ master' = master
      /\ dropped' = dropped /\ joins' = joins + 1 /\ leaves' = leaves
  BY DEF Join, fixed, data, coordinator, history
<1>2. /\ Types /\ LeavesAlone /\ Misreading /\ OnePlace /\ HolderPlaced
      /\ \A x \in Machine : MachineInv(x) /\ CoordinatorInv(x)
  BY DEF Inv
<1>3. /\ job[m] = Idle /\ store[m] = NoValue /\ merge[m] = Unlocked /\ ~transfer[m]
      /\ Pending(m) = NoHash /\ ~Stale(m)
  BY <1>1, <1>2, PendingIs DEF MachineInv
<1>4. /\ \A x \in Machine : view'[x] = IF x = m THEN {m} ELSE view[x]
      /\ view' \in [Machine -> SUBSET Machine]
  BY <1>1, <1>2 DEF Types
<1>5. Types'
  BY <1>1, <1>2, <1>4 DEF Types
<1>6. \A x \in Machine : Pending(x)' = Pending(x) /\ Stale(x)' = Stale(x)
  BY <1>1, Zenon DEF Pending, Stale
<1>7. LeavesAlone'
  <2> SUFFICES ASSUME NEW g \in leaving
               PROVE  /\ leaving = {g}
                      /\ view'[g] # {g}
                      /\ \A x \in up' : Pending(x)' # g
                      /\ Leaving(g) =>
                           /\ \A x \in up' \ {g} : g \notin view'[x]
                           /\ \A x \in up' : Busy(x) /\ (x # g \/ ~Is(x, "sent")) => job[x].place # g
    BY <1>1, Zenon DEF LeavesAlone, Leaving, Busy, Is
  <2>1. g \in Machine /\ g # m /\ up \subseteq Machine /\ g # NoHash
    BY <1>1, <1>2, Hashes DEF Types
  <2>2. ~Busy(m)
    BY <1>3 DEF Busy
  <2>3. QED
    BY <1>1, <1>2, <1>3, <1>4, <1>6, <2>1, <2>2 DEF LeavesAlone
<1>8. \A x \in Machine : MachineInv(x)'
  BY <1>1, <1>2, <1>3, <1>4, <1>6 DEF MachineInv, Busy, Leaving
<1>9. \A x \in Machine : CoordinatorInv(x)'
  BY <1>1, <1>2, <1>3, <1>4, <1>6 DEF CoordinatorInv, Busy, Serving
<1>10. Misreading'
  BY <1>1, <1>2 DEF Misreading
<1>11. OnePlace'
  BY <1>1, <1>2, Zenon DEF OnePlace, Holder, Carrier, Busy, Leaving, Is
<1>12. HolderPlaced'
  <2> SUFFICES ASSUME ~MayBeStranded', NEW x \in Machine, Holder(x)' PROVE Placed(x)'
    BY Zenon DEF HolderPlaced
  <2>1. Placed(x) /\ x # m
    BY <1>1, <1>2, <1>3 DEF HolderPlaced, MayBeStranded, Holder, Busy, Leaving
  <2>2. QED
    BY <1>1, <1>4, <1>6, <2>1 DEF Placed, ToBeServed, Owner, Busy
<1>13. QED
  BY <1>5, <1>7, <1>8, <1>9, <1>10, <1>11, <1>12 DEF Inv

LEMMA RequestRetirementKeeps ==
    ASSUME Inv, NEW m \in Machine, RequestRetirement(m)
    PROVE  Inv'
<1>1. /\ leaving = {} /\ leaving' = {m} /\ m \in up \ {master} /\ view[m] # {m}
      /\ \A x \in up : Pending(x) # m
      /\ up' = up /\ dropped' = dropped /\ joins' = joins /\ leaves' = leaves + 1
      /\ view' = view /\ merge' = merge /\ transfer' = transfer /\ newMember' = newMember
      /\ job' = job /\ store' = store /\ current' = current
      /\ raced' = raced /\ misread' = misread /\ keyHash' = keyHash /\ master' = master
  BY DEF RequestRetirement, fixed, data, coordinator, history
<1>2. /\ Types /\ Misreading /\ OnePlace /\ HolderPlaced
      /\ \A x \in Machine : MachineInv(x) /\ CoordinatorInv(x)
  BY DEF Inv
<1>3. \A x \in Machine : ~Leaving(x)
  BY <1>1, <1>2 DEF MachineInv
<1>4. Types' /\ leaves' # 0
  BY <1>1, <1>2 DEF Types
<1>5. \A x \in Machine : Pending(x)' = Pending(x) /\ Stale(x)' = Stale(x)
  BY <1>1, Zenon DEF Pending, Stale
<1>6. LeavesAlone'
  BY <1>1, <1>2, <1>3, <1>5 DEF LeavesAlone, Leaving, Busy, Types
<1>7. \A x \in Machine : MachineInv(x)'
  BY <1>1, <1>2, <1>3, <1>5 DEF MachineInv, Busy, Leaving
<1>8. \A x \in Machine : CoordinatorInv(x)'
  BY <1>1, <1>2, <1>4, <1>5 DEF CoordinatorInv, Busy, Serving
<1>9. Misreading'
  BY <1>1, <1>2, <1>4 DEF Misreading
<1>10. OnePlace'
  BY <1>1, <1>2, Zenon DEF OnePlace, Holder, Carrier, Busy, Leaving, Is
<1>11. HolderPlaced'
  <2> SUFFICES ASSUME ~MayBeStranded', NEW x \in Machine, Holder(x)' PROVE Placed(x)'
    BY Zenon DEF HolderPlaced
  <2>1. Placed(x)
    BY <1>1, <1>2, Zenon DEF HolderPlaced, MayBeStranded, Holder, Busy, Leaving
  <2>2. QED
    BY <1>1, <1>5, <2>1 DEF Placed, ToBeServed, Owner, Busy
<1>12. QED
  BY <1>2, <1>4, <1>6, <1>7, <1>8, <1>9, <1>10, <1>11 DEF Inv

\* The Coordinator will be told of the new member when it is before this one, and only
\* a new member that is before this one takes the key from it.
LEMMA AddToListKeeps ==
    ASSUME Inv, NEW m \in Machine, NEW new \in Machine, AddToList(m, new)
    PROVE  Inv'
<1> DEFINE ring == view[m] \cup {new}
           p    == Predecessor(ring, m)
<1>1. /\ m \in up /\ new \in up /\ new \notin view[m] /\ new \notin leaving
      /\ merge[m] = Unlocked
      /\ view' = [view EXCEPT ![m] = ring]
      /\ up' = up /\ leaving' = leaving /\ dropped' = dropped /\ joins' = joins /\ leaves' = leaves
      /\ transfer' = transfer /\ newMember' = newMember
      /\ job' = job /\ store' = store /\ current' = current
      /\ raced' = raced /\ misread' = misread /\ keyHash' = keyHash /\ master' = master
  BY DEF AddToList, fixed, data, membership, coordinator, history
<1>2. /\ Types /\ LeavesAlone /\ Misreading /\ OnePlace /\ HolderPlaced
      /\ \A x \in Machine : MachineInv(x) /\ CoordinatorInv(x)
  BY DEF Inv
<1>3. /\ \A x \in Machine : view'[x] = IF x = m THEN ring ELSE view[x]
      /\ view' \in [Machine -> SUBSET Machine]
  BY <1>1, <1>2 DEF Types
<1>4. merge' = IF TransferRequired(ring, m, new)
                 THEN [merge EXCEPT ![m] = Merging("added", new)] ELSE merge
  BY <1>3 DEF AddToList
<1>5. /\ view[m] \in SUBSET Hash /\ m \in view[m] /\ view[m] \subseteq up
      /\ m \in Hash /\ new \in Hash \ view[m] /\ new # m /\ keyHash \in Hash
  BY <1>1, <1>2, RingOf, Hashes DEF Types
<1>6. ring \in SUBSET Hash /\ m \in ring /\ new \in ring \ {m}
  BY <1>5
<1> HIDE DEF ring
<1>7. TransferRequired(ring, m, new) <=> new = p
  BY <1>6, TransferRequiredMeans
<1>8. new # p => Predecessor(view[m], m) = p
  <2> USE DEF ring
  <2> HIDE DEF p
  <2>1. p = Predecessor(view[m] \cup {new}, m)
    BY DEF p
  <2>2. QED
    BY <1>5, <2>1, PredecessorAfterAdding
<1>9. Owner(view[m]) = m /\ Owner(ring) # m => new = p
  BY <1>5, NewOwnerIsPredecessor DEF Owner, ring
<1> HIDE DEF p
<1>10. PICK j : j = Merging("added", new)
  OBVIOUS
<1>11. j \in Merges /\ j.at = "added" /\ j.new = new /\ j # Unlocked
  BY <1>10, MergeMade, MergeIs
<1>12. /\ \A x \in Machine : merge'[x] = IF x = m /\ new = p THEN j ELSE merge[x]
       /\ merge' \in [Machine -> Merges \cup {Unlocked}]
  BY <1>2, <1>4, <1>7, <1>10, <1>11 DEF Types
<1>13. Types'
  BY <1>1, <1>2, <1>3, <1>12 DEF Types
<1>14. \A x \in Machine : /\ Pending(x)' = IF x = m /\ new = p THEN new ELSE Pending(x)
                          /\ Stale(x)' <=> Stale(x)
  <2> SUFFICES ASSUME NEW x \in Machine
               PROVE  /\ Pending(x)' = IF x = m /\ new = p THEN new ELSE Pending(x)
                      /\ Stale(x)' <=> Stale(x)
    OBVIOUS
  <2>1. CASE x = m /\ new = p
    <3>1. Pending(m)' = new /\ ~Stale(m)'
      BY <1>11, <1>12, <2>1 DEF Pending, Stale
    <3>2. ~Stale(m)
      BY <1>1, <1>2, PendingIs
    <3>3. QED
      BY <2>1, <3>1, <3>2
  <2>2. CASE ~(x = m /\ new = p)
    BY <1>1, <1>12, <2>2 DEF Pending, Stale
  <2>3. QED
    BY <2>1, <2>2
<1>15. LeavesAlone'
  <2> SUFFICES ASSUME NEW g \in leaving
               PROVE  /\ leaving = {g}
                      /\ view'[g] # {g}
                      /\ \A x \in up : Pending(x)' # g
                      /\ Leaving(g) =>
                           /\ \A x \in up \ {g} : g \notin view'[x]
                           /\ \A x \in up : Busy(x) /\ (x # g \/ ~Is(x, "sent")) => job[x].place # g
    BY <1>1, Zenon DEF LeavesAlone, Leaving, Busy, Is
  <2>1. g \in Machine /\ g # new /\ up \subseteq Machine
    BY <1>1, <1>2 DEF Types
  <2>2. view'[g] # {g}
    BY <1>2, <1>3, <1>5, <1>6, <2>1 DEF LeavesAlone
  <2>3. Leaving(g) => \A x \in up \ {g} : g \notin view'[x]
    BY <1>2, <1>3, <2>1 DEF LeavesAlone, ring
  <2>4. QED
    BY <1>2, <1>14, <2>1, <2>2, <2>3 DEF LeavesAlone
<1>16. \A x \in Machine : MachineInv(x)'
  <2> SUFFICES ASSUME NEW x \in Machine PROVE MachineInv(x)'
    OBVIOUS
  <2>1. MachineInv(x) /\ new # NoHash /\ p = Predecessor(ring, m)
    BY <1>2, Hashes DEF p
  <2>2. CASE x # m
    <3>1. view'[x] = view[x] /\ Pending(x)' = Pending(x) /\ merge'[x] = merge[x]
      BY <1>3, <1>12, <1>14, <2>2
    <3>2. QED
      BY <1>1, <2>1, <3>1, Zenon DEF MachineInv, Busy, Leaving
  <2>3. CASE x = m
    <3>1. view'[m] = ring /\ Pending(m)' = IF new = p THEN new ELSE Pending(m)
      BY <1>3, <1>14
    <3>2. m \in ring /\ ring \subseteq up
      BY <1>1, <1>5 DEF ring
    <3>3. Pending(m)' = NoHash \/ (Pending(m)' = p /\ Pending(m)' # m)
      BY <1>1, <1>5, <1>8, <2>1, <2>3, <3>1 DEF MachineInv
    <3>4. QED
      BY <1>1, <2>1, <2>3, <3>1, <3>2, <3>3 DEF MachineInv, Busy, Leaving
  <2>4. QED
    BY <2>2, <2>3
<1>17. \A x \in Machine : CoordinatorInv(x)'
  <2> SUFFICES ASSUME NEW x \in Machine PROVE CoordinatorInv(x)'
    OBVIOUS
  <2>1. CoordinatorInv(x) /\ view[x] \subseteq view'[x] /\ (Stale(x)' <=> Stale(x))
    BY <1>2, <1>3, <1>14 DEF ring
  <2>2. QED
    BY <1>1, <2>1 DEF CoordinatorInv, Serving, Busy
<1>18. Misreading'
  BY <1>1, <1>2 DEF Misreading
<1>19. OnePlace'
  BY <1>1, <1>2, Zenon DEF OnePlace, Holder, Carrier, Busy, Leaving, Is
<1>20. HolderPlaced'
  <2> SUFFICES ASSUME ~MayBeStranded', NEW x \in Machine, Holder(x)'
               PROVE  Owner(view'[x]) = x \/ ToBeServed(x)'
    BY <1>1, Zenon DEF HolderPlaced, Placed, Owner
  <2>1. Placed(x) /\ new # NoHash
    BY <1>1, <1>2, Hashes DEF HolderPlaced, MayBeStranded, Holder, Busy, Leaving
  <2>2. CASE x # m
    <3>1. view'[x] = view[x] /\ Pending(x)' = Pending(x) /\ merge'[x] = merge[x]
      BY <1>3, <1>12, <1>14, <2>2
    <3>2. QED
      BY <1>1, <2>1, <3>1 DEF Placed, ToBeServed, Busy
  <2>3. CASE x = m
    <3>1. CASE new = p
      BY <1>11, <1>12, <1>14, <2>1, <2>3, <3>1 DEF ToBeServed
    <3>2. CASE new # p
      <4>1. Pending(m)' = Pending(m) /\ merge'[m] = merge[m] /\ view'[m] = ring
        BY <1>3, <1>12, <1>14, <3>2
      <4>2. Owner(view[m]) = m => Owner(ring) = m
        BY <1>9, <3>2
      <4>3. QED
        BY <1>1, <2>1, <2>3, <4>1, <4>2 DEF Placed, ToBeServed, Busy
    <3>3. QED
      BY <3>1, <3>2
  <2>4. QED
    BY <2>2, <2>3
<1>21. QED
  BY <1>13, <1>15, <1>16, <1>17, <1>18, <1>19, <1>20 DEF Inv

\* A flag that is set while the timer thread is serving a join is a join missed; else
\* the thread has not begun.
LEMMA SetTransferKeysToMemberKeeps ==
    ASSUME Inv, NEW m \in Machine, SetTransferKeysToMember(m)
    PROVE  Inv'
<1>1. /\ merge[m].at = "added"
      /\ transfer' = [transfer EXCEPT ![m] = TRUE]
      /\ merge' = [merge EXCEPT ![m].at = "flagged"]
      /\ raced' = (raced \/ Unnoticed(m))
      /\ up' = up /\ leaving' = leaving /\ dropped' = dropped /\ joins' = joins /\ leaves' = leaves
      /\ view' = view /\ newMember' = newMember
      /\ job' = job /\ store' = store /\ current' = current
      /\ misread' = misread /\ keyHash' = keyHash /\ master' = master
  BY DEF SetTransferKeysToMember, fixed, membership, data
<1>2. /\ Types /\ LeavesAlone /\ Misreading /\ OnePlace /\ HolderPlaced
      /\ \A x \in Machine : MachineInv(x) /\ CoordinatorInv(x)
  BY DEF Inv
<1>3. /\ merge[m] # Unlocked /\ merge[m] \in Merges
      /\ Pending(m) = merge[m].new /\ Pending(m) \in Machine
  BY <1>1, <1>2, PendingIs
<1>4. PICK j : j = [merge[m] EXCEPT !.at = "flagged"]
  OBVIOUS
<1>5. j \in Merges /\ j.at = "flagged" /\ j.new = merge[m].new /\ j # Unlocked
  BY <1>3, <1>4 DEF Merges, Unlocked
<1>6. /\ \A x \in Machine : merge'[x] = IF x = m THEN j ELSE merge[x]
      /\ \A x \in Machine : transfer'[x] = IF x = m THEN TRUE ELSE transfer[x]
      /\ merge' \in [Machine -> Merges \cup {Unlocked}] /\ transfer' \in [Machine -> BOOLEAN]
  BY <1>1, <1>2, <1>4, <1>5 DEF Types
<1>7. raced' \in BOOLEAN
  BY <1>1
<1>8. Types'
  BY <1>1, <1>2, <1>6, <1>7 DEF Types
<1>9. \A x \in Machine : Pending(x)' = Pending(x) /\ (Stale(x)' <=> Stale(x) \/ x = m)
  BY <1>1, <1>3, <1>5, <1>6 DEF Pending, Stale
<1>10. LeavesAlone'
  <2> SUFFICES ASSUME NEW g \in leaving
               PROVE  /\ leaving = {g}
                      /\ view[g] # {g}
                      /\ \A x \in up : Pending(x)' # g
                      /\ Leaving(g) =>
                           /\ \A x \in up \ {g} : g \notin view[x]
                           /\ \A x \in up : Busy(x) /\ (x # g \/ ~Is(x, "sent")) => job[x].place # g
    BY <1>1, Zenon DEF LeavesAlone, Leaving, Busy, Is
  <2>1. up \subseteq Machine
    BY <1>2 DEF Types
  <2>2. QED
    BY <1>2, <1>9, <2>1 DEF LeavesAlone
<1>11. \A x \in Machine : MachineInv(x)'
  <2> SUFFICES ASSUME NEW x \in Machine PROVE MachineInv(x)'
    OBVIOUS
  <2>1. MachineInv(x) /\ Pending(x)' = Pending(x) /\ (x = m => x \in up)
    BY <1>2, <1>3, <1>9 DEF MachineInv
  <2>2. QED
    BY <1>1, <1>6, <2>1 DEF MachineInv, Busy, Leaving
<1>12. \A x \in Machine : CoordinatorInv(x)'
  <2> SUFFICES ASSUME NEW x \in Machine PROVE CoordinatorInv(x)'
    OBVIOUS
  <2>1. CoordinatorInv(x) /\ (Stale(x)' <=> Stale(x) \/ x = m)
    BY <1>2, <1>9
  <2>2. QED
    BY <1>1, <1>6, <2>1 DEF CoordinatorInv, Serving, Unnoticed, Busy
<1>13. Misreading'
  BY <1>1, <1>2 DEF Misreading
<1>14. OnePlace'
  BY <1>1, <1>2, Zenon DEF OnePlace, Holder, Carrier, Busy, Leaving, Is
<1>15. HolderPlaced'
  <2> SUFFICES ASSUME ~MayBeStranded', NEW x \in Machine, Holder(x)'
               PROVE  Owner(view[x]) = x \/ ToBeServed(x)'
    BY <1>1, Zenon DEF HolderPlaced, Placed, Owner
  <2>1. Placed(x) /\ Holder(x) /\ ~Unnoticed(m)
    BY <1>1, <1>2 DEF HolderPlaced, MayBeStranded, Holder, Busy, Leaving
  <2>2. CASE x # m
    BY <1>1, <1>6, <1>9, <2>1, <2>2 DEF Placed, ToBeServed, Busy
  <2>3. CASE x = m
    <3>1. Busy(m) => job[m].why \in {"join", "leave"}
      BY <1>2, JobIs DEF Busy, Types
    <3>2. ~Busy(m)
      BY <2>1, <2>3, <3>1 DEF Unnoticed, Leaving, Holder
    <3>3. QED
      BY <1>1, <1>9, <2>1, <2>3, <3>2 DEF Placed, ToBeServed, Busy
  <2>4. QED
    BY <2>2, <2>3
<1>16. QED
  BY <1>8, <1>10, <1>11, <1>12, <1>13, <1>14, <1>15 DEF Inv

\* The hash follows the flag; if the timer thread has not used the old one the flag is
\* still set, and the thread has not begun to serve the join.
LEMMA SetNewMemberHashKeeps ==
    ASSUME Inv, NEW m \in Machine, SetNewMemberHash(m)
    PROVE  Inv'
<1>1. /\ merge[m].at = "flagged"
      /\ newMember' = [newMember EXCEPT ![m] = merge[m].new]
      /\ merge' = [merge EXCEPT ![m] = Unlocked]
      /\ up' = up /\ leaving' = leaving /\ dropped' = dropped /\ joins' = joins /\ leaves' = leaves
      /\ view' = view /\ transfer' = transfer
      /\ job' = job /\ store' = store /\ current' = current
      /\ raced' = raced /\ misread' = misread /\ keyHash' = keyHash /\ master' = master
  BY DEF SetNewMemberHash, fixed, membership, data, history
<1>2. /\ Types /\ LeavesAlone /\ Misreading /\ OnePlace /\ HolderPlaced
      /\ \A x \in Machine : MachineInv(x) /\ CoordinatorInv(x)
  BY DEF Inv
<1>3. /\ merge[m] # Unlocked /\ merge[m] \in Merges /\ Stale(m)
      /\ Pending(m) = merge[m].new /\ Pending(m) \in Machine /\ Pending(m) # NoHash
  BY <1>1, <1>2, PendingIs DEF Stale
<1>4. m \in up /\ Pending(m) = Predecessor(view[m], m) /\ Pending(m) \in view[m]
  BY <1>2, <1>3, RingOf DEF MachineInv
<1>5. /\ \A x \in Machine : merge'[x] = IF x = m THEN Unlocked ELSE merge[x]
      /\ \A x \in Machine : newMember'[x] = IF x = m THEN Pending(m) ELSE newMember[x]
      /\ merge' \in [Machine -> Merges \cup {Unlocked}]
      /\ newMember' \in [Machine -> Machine \cup {NoHash}]
  BY <1>1, <1>2, <1>3 DEF Types
<1>6. Types'
  BY <1>1, <1>2, <1>5 DEF Types
<1>7. \A x \in Machine :
         /\ Pending(x)' = IF x = m THEN IF transfer[m] THEN Pending(m) ELSE NoHash ELSE Pending(x)
         /\ Stale(x)' <=> Stale(x) /\ x # m
  <2> SUFFICES ASSUME NEW x \in Machine
               PROVE  /\ Pending(x)' = IF x = m THEN IF transfer[m] THEN Pending(m) ELSE NoHash
                                                ELSE Pending(x)
                      /\ Stale(x)' <=> Stale(x) /\ x # m
    OBVIOUS
  <2>1. CASE x = m
    <3>1. merge'[m] = Unlocked /\ newMember'[m] = Pending(m)
      BY <1>5
    <3>2. Pending(m)' = IF transfer[m] THEN Pending(m) ELSE NoHash
      BY <1>1, <3>1 DEF Pending
    <3>3. ~Stale(m)'
      BY <3>1, NobodyMerges DEF Stale
    <3>4. QED
      BY <2>1, <3>2, <3>3
  <2>2. CASE x # m
    BY <1>1, <1>5, <2>2 DEF Pending, Stale
  <2>3. QED
    BY <2>1, <2>2
<1>8. LeavesAlone'
  <2> SUFFICES ASSUME NEW g \in leaving
               PROVE  /\ leaving = {g}
                      /\ view[g] # {g}
                      /\ \A x \in up : Pending(x)' # g
                      /\ Leaving(g) =>
                           /\ \A x \in up \ {g} : g \notin view[x]
                           /\ \A x \in up : Busy(x) /\ (x # g \/ ~Is(x, "sent")) => job[x].place # g
    BY <1>1, Zenon DEF LeavesAlone, Leaving, Busy, Is
  <2>1. g \in Machine /\ up \subseteq Machine /\ g # NoHash
    BY <1>2, Hashes DEF Types
  <2>2. QED
    BY <1>2, <1>4, <1>7, <2>1 DEF LeavesAlone
<1>9. \A x \in Machine : MachineInv(x)'
  <2> SUFFICES ASSUME NEW x \in Machine PROVE MachineInv(x)'
    OBVIOUS
  <2>1. MachineInv(x) /\ (Pending(x)' = Pending(x) \/ Pending(x)' = NoHash)
    BY <1>2, <1>7
  <2>2. merge[x] = Unlocked => merge'[x] = Unlocked
    BY <1>5
  <2>3. QED
    BY <1>1, <2>1, <2>2 DEF MachineInv, Busy, Leaving
<1>10. \A x \in Machine : CoordinatorInv(x)'
  <2> SUFFICES ASSUME NEW x \in Machine PROVE CoordinatorInv(x)'
    OBVIOUS
  <2>1. CoordinatorInv(x)
    BY <1>2
  <2>2. CASE x = m
    <3>1. newMember'[m] \in view[m] /\ ~Stale(m)'
      BY <1>4, <1>5, <1>7
    <3>2. ~(Serving(m) /\ ~raced)
      BY <1>3, <2>1, <2>2 DEF CoordinatorInv
    <3>3. newMember'[m] # NoHash
      BY <1>3, <1>5
    <3>4. QED
      BY <1>1, <2>2, <3>1, <3>2, <3>3 DEF CoordinatorInv, Serving, Busy
  <2>3. CASE x # m
    BY <1>1, <1>5, <1>7, <2>1, <2>3 DEF CoordinatorInv, Serving, Busy
  <2>4. QED
    BY <2>2, <2>3
<1>11. Misreading'
  BY <1>1, <1>2 DEF Misreading
<1>12. OnePlace'
  BY <1>1, <1>2, Zenon DEF OnePlace, Holder, Carrier, Busy, Leaving, Is
<1>13. HolderPlaced'
  <2> SUFFICES ASSUME ~MayBeStranded', NEW x \in Machine, Holder(x)'
               PROVE  Owner(view[x]) = x \/ ToBeServed(x)'
    BY <1>1, Zenon DEF HolderPlaced, Placed, Owner
  <2>1. Placed(x) /\ Holder(x) /\ ~raced
    BY <1>1, <1>2 DEF HolderPlaced, MayBeStranded, Holder, Busy, Leaving
  <2>2. CASE x # m
    BY <1>1, <1>5, <1>7, <2>1, <2>2 DEF Placed, ToBeServed, Busy
  <2>3. CASE x = m
    <3>1. transfer[m] /\ ~Serving(m)
      BY <1>2, <1>3, <2>1 DEF CoordinatorInv
    <3>2. Busy(m) => job[m].why \in {"join", "leave"}
      BY <1>2, JobIs DEF Busy, Types
    <3>3. ~Busy(m)
      BY <2>1, <2>3, <3>1, <3>2 DEF Serving, Leaving, Holder
    <3>4. QED
      BY <1>1, <1>3, <1>7, <2>3, <3>1, <3>3 DEF ToBeServed, Busy
  <2>4. QED
    BY <2>2, <2>3
<1>14. QED
  BY <1>6, <1>8, <1>9, <1>10, <1>11, <1>12, <1>13 DEF Inv

\* Who leaves takes nothing from a ring that the key or the Coordinator depends on.
LEMMA MergeLeavingKeeps ==
    ASSUME Inv, NEW m \in Machine, NEW gone \in Machine, MergeLeaving(m, gone)
    PROVE  Inv'
<1> DEFINE ring == view[m] \ {gone}
<1>1. /\ m \in up /\ m # gone /\ gone \in leaving /\ gone \in view[m] /\ merge[m] = Unlocked
      /\ view' = [view EXCEPT ![m] = ring]
      /\ dropped' = [dropped EXCEPT ![m] = @ \cup {gone}]
      /\ up' = up /\ leaving' = leaving /\ joins' = joins /\ leaves' = leaves
      /\ merge' = merge /\ transfer' = transfer /\ newMember' = newMember
      /\ job' = job /\ store' = store /\ current' = current
      /\ raced' = raced /\ misread' = misread /\ keyHash' = keyHash /\ master' = master
  BY DEF MergeLeaving, fixed, data, coordinator, history
<1>2. /\ Types /\ LeavesAlone /\ Misreading /\ OnePlace /\ HolderPlaced
      /\ \A x \in Machine : MachineInv(x) /\ CoordinatorInv(x)
  BY DEF Inv
<1>3. /\ \A x \in Machine : view'[x] = IF x = m THEN ring ELSE view[x]
      /\ view' \in [Machine -> SUBSET Machine] /\ dropped' \in [Machine -> SUBSET Machine]
  BY <1>1, <1>2 DEF Types
<1>4. /\ view[m] \in SUBSET Hash /\ m \in view[m] /\ view[m] \subseteq up
      /\ m \in Hash /\ keyHash \in Hash
      /\ Owner(view[m]) \in view[m] /\ Predecessor(view[m], m) \in view[m]
  BY <1>1, <1>2, RingOf DEF Types
<1>5. m \in ring /\ ring \in SUBSET view[m]
  BY <1>1, <1>4
<1>6. Owner(view[m]) = m => Owner(ring) = m
  BY <1>4, <1>5, OwnerAmongFewer DEF Owner
<1>7. Predecessor(view[m], m) # gone => Predecessor(ring, m) = Predecessor(view[m], m)
  BY <1>4, <1>5, PredecessorAmongFewer
<1>8. Pending(m) # gone /\ leaving = {gone} /\ leaves # 0
  BY <1>1, <1>2 DEF LeavesAlone, Misreading
<1>9. Types'
  BY <1>1, <1>2, <1>3 DEF Types
<1>10. \A x \in Machine : Pending(x)' = Pending(x) /\ Stale(x)' = Stale(x)
  BY <1>1, Zenon DEF Pending, Stale
<1>11. \A x \in Machine : CoordinatorInv(x)'
  <2> SUFFICES ASSUME NEW x \in Machine PROVE CoordinatorInv(x)'
    OBVIOUS
  <2>1. CoordinatorInv(x) /\ view'[x] = IF x = m THEN ring ELSE view[x]
    BY <1>2, <1>3
  <2>2. CASE x # m
    BY <1>1, <1>10, <2>1, <2>2 DEF CoordinatorInv, Serving, Busy
  <2>3. CASE x = m
    <3>1. transfer[m] => newMember[m] # gone
      BY <1>1, <1>2, <1>8, PendingIs
    <3>2. QED
      BY <1>1, <1>8, <1>10, <2>1, <2>3, <3>1 DEF CoordinatorInv, Serving, Busy
  <2>4. QED
    BY <2>2, <2>3
<1> HIDE DEF ring
<1>12. LeavesAlone'
  <2> SUFFICES ASSUME NEW g \in leaving
               PROVE  /\ leaving = {g}
                      /\ view'[g] # {g}
                      /\ \A x \in up : Pending(x)' # g
                      /\ Leaving(g) =>
                           /\ \A x \in up \ {g} : g \notin view'[x]
                           /\ \A x \in up : Busy(x) /\ (x # g \/ ~Is(x, "sent")) => job[x].place # g
    BY <1>1, Zenon DEF LeavesAlone, Leaving, Busy, Is
  <2>1. g = gone /\ up \subseteq Machine
    BY <1>2, <1>8 DEF Types
  <2>2. view'[g] = view[g]
    BY <1>1, <1>3, <2>1
  <2>3. Leaving(g) => \A x \in up \ {g} : g \notin view'[x]
    BY <1>2, <1>3, <2>1 DEF LeavesAlone, ring
  <2>4. QED
    BY <1>2, <1>10, <2>1, <2>2, <2>3 DEF LeavesAlone
<1>13. \A x \in Machine : MachineInv(x)'
  <2> SUFFICES ASSUME NEW x \in Machine PROVE MachineInv(x)'
    OBVIOUS
  <2>1. MachineInv(x) /\ view'[x] = (IF x = m THEN ring ELSE view[x]) /\ Pending(x)' = Pending(x)
    BY <1>2, <1>3, <1>10
  <2>2. CASE x # m
    BY <1>1, <2>1, <2>2 DEF MachineInv, Busy, Leaving
  <2>3. CASE x = m
    <3>1. m \in ring /\ ring \subseteq up
      BY <1>4, <1>5
    <3>2. Pending(m) = NoHash \/ (Pending(m) = Predecessor(ring, m) /\ Pending(m) # m)
      BY <1>1, <1>7, <1>8, <2>1, <2>3 DEF MachineInv
    <3>3. QED
      BY <1>1, <2>1, <2>3, <3>1, <3>2 DEF MachineInv, Busy, Leaving
  <2>4. QED
    BY <2>2, <2>3
<1>14. Misreading'
  BY <1>1, <1>2 DEF Misreading
<1>15. OnePlace'
  BY <1>1, <1>2, Zenon DEF OnePlace, Holder, Carrier, Busy, Leaving, Is
<1>16. HolderPlaced'
  <2> SUFFICES ASSUME ~MayBeStranded', NEW x \in Machine, Holder(x)'
               PROVE  Owner(view'[x]) = x \/ ToBeServed(x)'
    BY <1>1, Zenon DEF HolderPlaced, Placed, Owner
  <2>1. Placed(x)
    BY <1>1, <1>2 DEF HolderPlaced, MayBeStranded, Holder, Busy, Leaving
  <2>2. QED
    BY <1>1, <1>3, <1>6, <1>10, <2>1 DEF Placed, ToBeServed, Busy
<1>17. QED
  BY <1>9, <1>11, <1>12, <1>13, <1>14, <1>15, <1>16 DEF Inv

\* The one who has the key moves it into a command, unless it owns it all the same.
LEMMA GetCommandsForJoinKeeps ==
    ASSUME Inv, NEW m \in Machine, GetCommandsForJoin(m)
    PROVE  Inv'
<1> DEFINE moves == store[m] # NoValue /\ Selected(m, newMember[m])
<1>1. /\ m \in up /\ job[m] = Idle /\ transfer[m] /\ newMember[m] # NoHash
      /\ up' = up /\ leaving' = leaving /\ dropped' = dropped /\ joins' = joins /\ leaves' = leaves
      /\ view' = view /\ merge' = merge /\ transfer' = transfer /\ newMember' = newMember
      /\ raced' = (raced \/ Stale(m))
      /\ current' = current /\ misread' = misread /\ keyHash' = keyHash /\ master' = master
  BY DEF GetCommandsForJoin, HasMessage, fixed, membership, coordinator, Busy
<1>2. /\ Types /\ LeavesAlone /\ Misreading /\ OnePlace /\ HolderPlaced
      /\ \A x \in Machine : MachineInv(x) /\ CoordinatorInv(x)
  BY DEF Inv
<1>3. moves => /\ current \in Value /\ store[m] = current
               /\ Commands(m) = Written[<<"insert", current>>] /\ Commands(m) # NoText
  <2>1. moves => store[m] \in Value /\ Holder(m)
    BY <1>1, <1>2 DEF Types, Holder, Leaving, Busy
  <2>2. moves => store[m] = current
    BY <1>2, <2>1 DEF OnePlace
  <2>3. moves => Commands(m) = Written[<<"insert", current>>]
    BY <2>1, <2>2 DEF Commands, LookupKey
  <2>4. QED
    BY <2>1, <2>2, <2>3, Moved
<1>4. PICK j : j = Job("join", "taken", IF moves THEN Commands(m) ELSE NoText, m)
  OBVIOUS
<1>5. /\ j \in Jobs /\ j.why = "join" /\ j.place = m /\ j # Idle /\ j.at = "taken"
      /\ moves => j.text = Written[<<"insert", current>>] /\ j.text # NoText
      /\ ~moves => j.text = NoText
  <2>1. PICK text : text = IF moves THEN Commands(m) ELSE NoText
    OBVIOUS
  <2>2. text \in Range(Written) \cup {NoText}
    BY <1>3, <2>1, Moved
  <2>3. j \in Jobs /\ j.why = "join" /\ j.place = m /\ j.at = "taken" /\ j.text = text
    BY <1>4, <2>1, <2>2, JobMade
  <2>4. QED
    BY <1>3, <2>1, <2>3, JobIs
<1>6. job' = [job EXCEPT ![m] = j] /\ store' = IF moves THEN [store EXCEPT ![m] = NoValue] ELSE store
  BY <1>4 DEF GetCommandsForJoin
<1>7. /\ \A x \in Machine : job'[x] = IF x = m THEN j ELSE job[x]
      /\ \A x \in Machine : store'[x] = IF x = m /\ moves THEN NoValue ELSE store[x]
      /\ job' \in [Machine -> Jobs \cup {Idle}] /\ store' \in [Machine -> Value \cup {NoValue}]
  BY <1>2, <1>5, <1>6 DEF Types
<1>8. moves => Holder(m)
  BY <1>1 DEF Holder, Leaving, Busy
<1>9. ~moves /\ Holder(m) /\ keyHash \notin Machine /\ merge[m] = Unlocked => Owner(view[m]) = m
  <2>1. SUFFICES ASSUME ~moves, Holder(m), keyHash \notin Machine, merge[m] = Unlocked
                 PROVE  Owner(view[m]) = m
    OBVIOUS
  <2>2. ~(keyHash <= newMember[m] \/ keyHash > m)
    BY <2>1 DEF Selected, Holder
  <2>3. newMember[m] = Predecessor(view[m], m) /\ newMember[m] # m
    BY <1>1, <1>2, <2>1, PendingIs DEF MachineInv
  <2>4. view[m] \in SUBSET Hash /\ m \in view[m] /\ keyHash \in Hash /\ keyHash # m
    BY <1>1, <1>2, <2>1, RingOf DEF Types
  <2>5. view[m] # {m}
    BY <1>1, <1>2, <2>3, RingOf
  <2>6. QED
    BY <2>2, <2>3, <2>4, <2>5, UnselectedIsOwned DEF Owner
<1> HIDE DEF moves
<1>10. Types'
  BY <1>1, <1>2, <1>7 DEF Types, Stale
<1>11. \A x \in Machine : Pending(x)' = Pending(x) /\ Stale(x)' = Stale(x)
  BY <1>1, Zenon DEF Pending, Stale
<1>12. LeavesAlone'
  <2> SUFFICES ASSUME NEW g \in leaving
               PROVE  /\ leaving = {g}
                      /\ view[g] # {g}
                      /\ \A x \in up : Pending(x)' # g
                      /\ Leaving(g)' =>
                           /\ \A x \in up \ {g} : g \notin view[x]
                           /\ \A x \in up : job'[x] # Idle /\ (x # g \/ job'[x].at # "sent")
                                               => job'[x].place # g
    BY <1>1, Zenon DEF LeavesAlone, Busy, Is
  <2>1. g \in Machine /\ up \subseteq Machine
    BY <1>2 DEF Types
  <2>2. Leaving(g)' => g # m /\ Leaving(g)
    BY <1>5, <1>7, <2>1 DEF Leaving, Busy
  <2>3. QED
    BY <1>2, <1>5, <1>7, <1>11, <2>1, <2>2 DEF LeavesAlone, Busy, Is
<1>13. \A x \in Machine : MachineInv(x)'
  BY <1>1, <1>2, <1>5, <1>7, <1>11 DEF MachineInv, Busy, Leaving
<1>14. \A x \in Machine : CoordinatorInv(x)'
  BY <1>1, <1>2, <1>5, <1>7, <1>11 DEF CoordinatorInv, Busy, Serving
<1>15. Misreading'
  BY <1>1, <1>2 DEF Misreading
<1>16. \A x \in Machine : /\ Holder(x)' <=> Holder(x) /\ ~(x = m /\ moves)
                          /\ Carrier(x)' <=> Carrier(x) \/ (x = m /\ moves)
  BY <1>1, <1>5, <1>7 DEF Holder, Carrier, Leaving, Busy, Is
<1>17. OnePlace'
  <2>1. \A x \in Machine : Carrier(x) => x # m
    BY <1>1 DEF Carrier, Busy
  <2>2. QED
    BY <1>1, <1>2, <1>3, <1>5, <1>7, <1>8, <1>16, <2>1 DEF OnePlace
<1>18. HolderPlaced'
  <2> SUFFICES ASSUME ~raced, ~Stale(m), keyHash \notin Machine, NEW x \in Machine, Holder(x)'
               PROVE  Owner(view[x]) = x \/ ToBeServed(x)'
    BY <1>1, Zenon DEF HolderPlaced, MayBeStranded, Placed, Owner
  <2>1. Holder(x) /\ ~(x = m /\ moves)
    BY <1>16
  <2>2. Placed(x)
    BY <1>2, <2>1 DEF HolderPlaced, MayBeStranded
  <2>3. CASE x # m
    BY <1>1, <1>7, <1>11, <2>2, <2>3 DEF Placed, ToBeServed, Busy
  <2>4. CASE x = m /\ merge[m] = Unlocked
    BY <1>9, <2>1, <2>4
  <2>5. CASE x = m /\ merge[m] # Unlocked
    <3>1. merge[m].at = "added" /\ Pending(m) # NoHash
      BY <1>2, <2>5, PendingIs DEF Stale
    <3>2. QED
      BY <1>1, <1>11, <2>5, <3>1 DEF ToBeServed
  <2>6. QED
    BY <2>3, <2>4, <2>5
<1>19. QED
  BY <1>10, <1>12, <1>13, <1>14, <1>15, <1>17, <1>18 DEF Inv

\* What is so after a step of a timer thread that only moves the command on, to a
\* machine that runs and does not leave.
LEMMA CommandMoves ==
    ASSUME Inv, NEW m \in Machine, Carrier(m), NEW j \in Jobs,
           j.why = job[m].why, j.text = job[m].text, j.at \in {"routed", "here"},
           j.place \in up, \A g \in leaving : Leaving(g) => j.place # g,
           UNCHANGED <<fixed, membership, view, merge, coordinator, data, history>>,
           job' = [job EXCEPT ![m] = j]
    PROVE  Inv'
<1>1. /\ up' = up /\ leaving' = leaving /\ dropped' = dropped /\ joins' = joins /\ leaves' = leaves
      /\ view' = view /\ merge' = merge /\ transfer' = transfer /\ newMember' = newMember
      /\ current' = current /\ store' = store
      /\ raced' = raced /\ misread' = misread /\ keyHash' = keyHash /\ master' = master
  BY DEF fixed, membership, data, coordinator, history
<1>2. /\ Types /\ LeavesAlone /\ Misreading /\ OnePlace /\ HolderPlaced
      /\ \A x \in Machine : MachineInv(x) /\ CoordinatorInv(x)
  BY DEF Inv
<1>3. /\ \A x \in Machine : job'[x] = IF x = m THEN j ELSE job[x]
      /\ job' \in [Machine -> Jobs \cup {Idle}]
  BY <1>2 DEF Types
<1>4. /\ j # Idle /\ j.at \notin {"taken", "sent"} /\ j.text # NoText
      /\ job[m] # Idle /\ job[m].at # "sent"
  BY JobIs DEF Carrier, Busy, Is
<1>5. Types'
  BY <1>1, <1>2, <1>3 DEF Types
<1>6. \A x \in Machine : /\ Busy(x)' <=> Busy(x)
                         /\ Leaving(x)' <=> Leaving(x)
                         /\ Serving(x)' <=> Serving(x)
                         /\ Holder(x)' <=> Holder(x)
                         /\ Carrier(x)' <=> Carrier(x)
                         /\ Pending(x)' = Pending(x)
                         /\ Stale(x)' <=> Stale(x)
  BY <1>1, <1>3, <1>4 DEF Busy, Leaving, Serving, Holder, Carrier, Is, Pending, Stale
<1>7. LeavesAlone'
  <2> SUFFICES ASSUME NEW g \in leaving
               PROVE  /\ leaving = {g}
                      /\ view[g] # {g}
                      /\ \A x \in up : Pending(x)' # g
                      /\ Leaving(g)' =>
                           /\ \A x \in up \ {g} : g \notin view[x]
                           /\ \A x \in up : job'[x] # Idle /\ (x # g \/ job'[x].at # "sent")
                                               => job'[x].place # g
    BY <1>1, Zenon DEF LeavesAlone, Busy, Is
  <2>1. g \in Machine /\ up \subseteq Machine
    BY <1>2 DEF Types
  <2>2. QED
    BY <1>2, <1>3, <1>6, <2>1 DEF LeavesAlone, Busy, Is
<1>8. \A x \in Machine : MachineInv(x)'
  BY <1>1, <1>2, <1>3, <1>4, <1>6 DEF MachineInv, Busy, Leaving
<1>9. \A x \in Machine : CoordinatorInv(x)'
  BY <1>1, <1>2, <1>6 DEF CoordinatorInv
<1>10. Misreading'
  BY <1>1, <1>2 DEF Misreading
<1>11. OnePlace'
  BY <1>1, <1>2, <1>3, <1>6 DEF OnePlace
<1>12. HolderPlaced'
  <2> SUFFICES ASSUME ~MayBeStranded', NEW x \in Machine, Holder(x)' PROVE Placed(x)'
    BY Zenon DEF HolderPlaced
  <2>1. Placed(x)
    BY <1>1, <1>2, <1>6 DEF HolderPlaced, MayBeStranded
  <2>2. QED
    BY <1>1, <1>6, <2>1 DEF Placed, ToBeServed, Owner
<1>13. QED
  BY <1>5, <1>7, <1>8, <1>9, <1>10, <1>11, <1>12 DEF Inv

\* A timer thread that has nothing to send, or nobody to send it to, is done: it has
\* lost the key in the second case, which takes a missed join.
LEMMA NothingIsSent ==
    ASSUME Inv, NEW m \in Machine, SendToNewMember(m),
           job[m].text = NoText \/ newMember[m] \notin view[m]
    PROVE  Inv'
<1>1. /\ Is(m, "taken") /\ job' = [job EXCEPT ![m].at = "sent"]
      /\ misread' = (misread \/ newMember[m] \notin view[m])
      /\ up' = up /\ leaving' = leaving /\ dropped' = dropped /\ joins' = joins /\ leaves' = leaves
      /\ view' = view /\ merge' = merge /\ transfer' = transfer /\ newMember' = newMember
      /\ current' = current /\ store' = store
      /\ raced' = raced /\ keyHash' = keyHash /\ master' = master
  BY DEF SendToNewMember, Become, fixed, membership, data, coordinator
<1>2. /\ Types /\ LeavesAlone /\ Misreading /\ OnePlace /\ HolderPlaced
      /\ \A x \in Machine : MachineInv(x) /\ CoordinatorInv(x)
  BY DEF Inv
<1>3. Busy(m) /\ job[m] \in Jobs
  BY <1>1, <1>2 DEF Types, Busy, Is, Idle
<1>4. m \in up /\ Serving(m) /\ job[m].place = m
  BY <1>1, <1>2, <1>3 DEF MachineInv, Serving, Busy, Is
<1>5. PICK j : j = Job(job[m].why, "sent", job[m].text, m)
  OBVIOUS
<1>6. /\ j \in Jobs /\ j.why = job[m].why /\ j.at = "sent" /\ j.place = m
      /\ j = [job[m] EXCEPT !.at = "sent"] /\ j # Idle
  <2>1. "sent" \in {"taken", "routed", "here", "sent"}
    OBVIOUS
  <2>2. JobMove(job[m], "sent", m, j)
    BY <1>3, <1>5, <2>1, JobMoved, Zenon
  <2>3. QED
    BY <1>4, <2>2, JobIs DEF JobMove
<1>7. /\ \A x \in Machine : job'[x] = IF x = m THEN j ELSE job[x]
      /\ job' \in [Machine -> Jobs \cup {Idle}]
  BY <1>1, <1>2, <1>6 DEF Types
<1>8. newMember[m] \notin view[m] => raced /\ leaves # 0
  BY <1>2, <1>4 DEF CoordinatorInv
<1>9. misread' \in BOOLEAN
  BY <1>1
<1>10. Types'
  BY <1>1, <1>2, <1>7, <1>9 DEF Types
<1>11. \A x \in Machine : /\ Busy(x)' <=> Busy(x)
                          /\ Leaving(x)' <=> Leaving(x)
                          /\ Serving(x)' <=> Serving(x)
                          /\ Holder(x)' <=> Holder(x)
                          /\ Carrier(x)' <=> Carrier(x) /\ x # m
                          /\ Pending(x)' = Pending(x)
                          /\ Stale(x)' <=> Stale(x)
  BY <1>1, <1>3, <1>6, <1>7 DEF Busy, Leaving, Serving, Holder, Carrier, Is, Pending, Stale
<1>12. LeavesAlone'
  <2> SUFFICES ASSUME NEW g \in leaving
               PROVE  /\ leaving = {g}
                      /\ view[g] # {g}
                      /\ \A x \in up : Pending(x)' # g
                      /\ Leaving(g)' =>
                           /\ \A x \in up \ {g} : g \notin view[x]
                           /\ \A x \in up : job'[x] # Idle /\ (x # g \/ job'[x].at # "sent")
                                               => job'[x].place # g
    BY <1>1, Zenon DEF LeavesAlone, Busy, Is
  <2>1. g \in Machine /\ up \subseteq Machine
    BY <1>2 DEF Types
  <2>2. ASSUME Leaving(g), NEW x \in up, job'[x] # Idle, x # g \/ job'[x].at # "sent"
        PROVE  job'[x].place # g
    <3>1. CASE x = m
      <4>1. Busy(m) /\ ~Is(m, "sent") /\ job'[m].place = job[m].place
        BY <1>1, <1>3, <1>4, <1>6, <1>7, <2>1 DEF Is
      <4>2. job[m].place # g
        BY <1>2, <1>4, <2>2, <4>1 DEF LeavesAlone
      <4>3. QED
        BY <3>1, <4>1, <4>2
    <3>2. CASE x # m
      BY <1>2, <1>7, <2>1, <2>2, <3>2 DEF LeavesAlone, Busy, Is
    <3>3. QED
      BY <3>1, <3>2
  <2>3. Leaving(g)' <=> Leaving(g)
    BY <1>11, <2>1
  <2>4. QED
    BY <1>2, <1>11, <2>1, <2>2, <2>3 DEF LeavesAlone
<1>13. \A x \in Machine : MachineInv(x)'
  BY <1>1, <1>2, <1>3, <1>4, <1>6, <1>7, <1>11 DEF MachineInv, Busy, Leaving
<1>14. \A x \in Machine : CoordinatorInv(x)'
  BY <1>1, <1>2, <1>11 DEF CoordinatorInv
<1>15. Misreading'
  BY <1>1, <1>2, <1>8 DEF Misreading
<1>16. OnePlace'
  <2>1. ~misread' => ~misread /\ ~Carrier(m)
    BY <1>1 DEF Carrier
  <2>2. \A x \in Machine : Carrier(x)' => job'[x] = job[x]
    BY <1>7, <1>11
  <2>3. QED
    BY <1>1, <1>2, <1>11, <2>1, <2>2 DEF OnePlace
<1>17. HolderPlaced'
  <2> SUFFICES ASSUME ~MayBeStranded', NEW x \in Machine, Holder(x)' PROVE Placed(x)'
    BY Zenon DEF HolderPlaced
  <2>1. Placed(x)
    BY <1>1, <1>2, <1>11 DEF HolderPlaced, MayBeStranded
  <2>2. QED
    BY <1>1, <1>11, <2>1 DEF Placed, ToBeServed, Owner
<1>18. QED
  BY <1>10, <1>12, <1>13, <1>14, <1>15, <1>16, <1>17 DEF Inv

\* Nobody who has begun to send what it leaves is on another one's ring.
LEMMA SendToNewMemberKeeps ==
    ASSUME Inv, NEW m \in Machine, SendToNewMember(m)
    PROVE  Inv'
<1>1. Types /\ LeavesAlone /\ MachineInv(m)
  BY DEF Inv
<1>2. CASE job[m].text = NoText \/ newMember[m] \notin view[m]
  BY <1>2, NothingIsSent
<1>3. CASE job[m].text # NoText /\ newMember[m] \in view[m]
  <2>1. /\ Is(m, "taken")
        /\ job' = [job EXCEPT ![m].at = "routed", ![m].place = newMember[m]]
        /\ UNCHANGED <<fixed, membership, view, merge, coordinator, data, history>>
    BY <1>1, <1>3 DEF SendToNewMember, history, Types
  <2>2. Busy(m) /\ job[m] \in Jobs
    BY <1>1, <2>1 DEF Types, Busy, Is, Idle
  <2>3. Carrier(m) /\ m \in up /\ job[m].why = "join"
    BY <1>1, <1>3, <2>1, <2>2 DEF Carrier, Is, MachineInv, Busy
  <2>4. newMember[m] \in up /\ newMember[m] \in Machine
    BY <1>1, <1>3, <2>3 DEF Types, MachineInv
  <2>5. PICK j : j = Job(job[m].why, "routed", job[m].text, newMember[m])
    OBVIOUS
  <2>6. /\ j \in Jobs /\ j.why = job[m].why /\ j.at = "routed" /\ j.text = job[m].text
        /\ j.place = newMember[m]
        /\ j = [job[m] EXCEPT !.at = "routed", !.place = newMember[m]]
    <3>1. "routed" \in {"taken", "routed", "here", "sent"}
      OBVIOUS
    <3>2. JobMove(job[m], "routed", newMember[m], j)
      BY <2>2, <2>4, <2>5, <3>1, JobMoved, Zenon
    <3>3. QED
      BY <3>2, Zenon DEF JobMove
  <2>7. job' = [job EXCEPT ![m] = j]
    BY <1>1, <2>1, <2>6 DEF Types
  <2>8. \A g \in leaving : Leaving(g) => j.place # g
    <3> SUFFICES ASSUME NEW g \in leaving, Leaving(g) PROVE newMember[m] # g
      BY <2>6
    <3>1. g # m
      BY <2>3 DEF Leaving
    <3>2. g \notin view[m]
      BY <1>1, <2>3, <3>1 DEF LeavesAlone
    <3>3. QED
      BY <1>3, <3>2
  <2>9. j \in Jobs /\ j.at \in {"routed", "here"} /\ j.place \in up
    BY <2>4, <2>6
  <2>10. QED
    BY <2>1, <2>3, <2>6, <2>7, <2>8, <2>9, CommandMoves
<1>4. QED
  BY <1>2, <1>3

\* Nobody sends a command to a machine that is sending what it leaves behind: it is
\* on nobody's ring.
LEMMA RouteKeeps ==
    ASSUME Inv, NEW m \in Machine, Route(m)
    PROVE  Inv'
<1> DEFINE place == job[m].place
           owner == Owner(view[place])
           at    == IF owner = place THEN "here" ELSE "routed"
<1>1. Types /\ LeavesAlone /\ \A x \in Machine : MachineInv(x)
  BY DEF Inv
<1>2. /\ Is(m, "routed") /\ place \in up
      /\ job' = IF owner = place THEN [job EXCEPT ![m].at = "here"]
                                 ELSE [job EXCEPT ![m].place = owner]
      /\ UNCHANGED <<fixed, membership, view, merge, coordinator, data, history>>
  BY DEF Route, Become
<1>3. Busy(m) /\ job[m] \in Jobs
  BY <1>1, <1>2 DEF Types, Busy, Is, Idle
<1>4. Carrier(m) /\ m \in up
  BY <1>1, <1>2, <1>3 DEF Carrier, Is, MachineInv, Busy
<1>5. owner \in view[place] /\ view[place] \subseteq up /\ up \subseteq Machine /\ place \in Machine
  BY <1>1, <1>2, RingOf DEF Types
<1>6. PICK j : j = Job(job[m].why, at, job[m].text, owner)
  OBVIOUS
<1>7. /\ j \in Jobs /\ j.why = job[m].why /\ j.at = at /\ j.text = job[m].text
      /\ j.place = owner /\ j.at \in {"routed", "here"}
      /\ place = owner => j = [job[m] EXCEPT !.at = at]
      /\ job[m].at = at => j = [job[m] EXCEPT !.place = owner]
  <2>1. at \in {"routed", "here"} /\ at \in {"taken", "routed", "here", "sent"} /\ owner \in Machine
    BY <1>5
  <2> HIDE DEF owner, at
  <2>2. JobMove(job[m], at, owner, j)
    BY <1>3, <1>6, <2>1, JobMoved, Zenon
  <2>3. QED
    BY <2>1, <2>2, Zenon DEF JobMove
<1>8. IF owner = place THEN j = [job[m] EXCEPT !.at = "here"]
                       ELSE j = [job[m] EXCEPT !.place = owner]
  <2> HIDE DEF owner
  <2>1. job[m].at = "routed"
    BY <1>2 DEF Is
  <2>2. QED
    BY <1>7, <2>1
<1>9. job' = [job EXCEPT ![m] = j]
  <2> HIDE DEF owner, place
  <2>1. QED
    BY <1>1, <1>2, <1>8 DEF Types
<1>10. \A g \in leaving : Leaving(g) => j.place # g
  <2> SUFFICES ASSUME NEW g \in leaving, Leaving(g) PROVE owner # g
    BY <1>7
  <2>1. place # g
    BY <1>1, <1>4 DEF LeavesAlone, Carrier
  <2>2. g \notin view[place]
    BY <1>1, <1>2, <2>1 DEF LeavesAlone
  <2>3. QED
    BY <1>5, <2>2
<1> HIDE DEF owner, place, at
<1>11. QED
  BY <1>2, <1>4, <1>5, <1>7, <1>9, <1>10, CommandMoves

\* The machine that executes the command has nothing yet, and owns the key; or it is
\* about to look at its Coordinator; or the join was missed.
LEMMA PerformKeeps ==
    ASSUME Inv, NEW m \in Machine, Perform(m)
    PROVE  Inv'
<1>1. /\ Types /\ LeavesAlone /\ Misreading /\ OnePlace /\ HolderPlaced
      /\ \A x \in Machine : MachineInv(x) /\ CoordinatorInv(x)
  BY DEF Inv
<1>2. PICK place : place = job[m].place
  OBVIOUS
<1>3. /\ Is(m, "here") /\ place \in up
      /\ store' = [store EXCEPT ![place] = Performed(@, job[m].text)]
      /\ raced' = (raced \/ Outdated(place))
      /\ job' = [job EXCEPT ![m].at = "sent"]
      /\ up' = up /\ leaving' = leaving /\ dropped' = dropped /\ joins' = joins /\ leaves' = leaves
      /\ view' = view /\ merge' = merge /\ transfer' = transfer /\ newMember' = newMember
      /\ current' = current /\ misread' = misread
      /\ keyHash' = keyHash /\ master' = master
  BY <1>2 DEF Perform, Become, fixed, membership, coordinator
<1>4. Busy(m) /\ job[m] \in Jobs
  BY <1>1, <1>3 DEF Types, Busy, Is, Idle
<1>5. Carrier(m) /\ m \in up /\ place \in Machine
  BY <1>1, <1>3, <1>4 DEF Carrier, Is, MachineInv, Busy, Types
<1>6. current \in Value /\ job[m].text = Written[<<"insert", current>>]
  BY <1>1, <1>5 DEF OnePlace, Types
<1>7. ~Leaving(place)
  <2>1. ASSUME Leaving(place) PROVE FALSE
    <3>1. place \in leaving
      BY <1>1, <1>5, <2>1 DEF MachineInv
    <3>2. job[m].place # place
      BY <1>1, <1>5, <2>1, <3>1 DEF LeavesAlone, Carrier
    <3>3. QED
      BY <1>2, <3>2
  <2>2. QED
    BY <2>1
<1>8. \A x \in Machine : ~Holder(x)
  BY <1>1, <1>5, Zenon DEF OnePlace
<1>9. store[place] = NoValue
  BY <1>5, <1>7, <1>8 DEF Holder
<1>10. Performed(store[place], job[m].text) = current
  BY <1>6, <1>9, Moved DEF Insert
<1>11. PICK j : j = Job(job[m].why, "sent", job[m].text, place)
  OBVIOUS
<1>12. /\ j \in Jobs /\ j.why = job[m].why /\ j.at = "sent" /\ j.place = place
       /\ j = [job[m] EXCEPT !.at = "sent"] /\ j # Idle /\ job[m].at # "taken"
  <2>1. /\ j \in Jobs /\ j.why = job[m].why /\ j.at = "sent" /\ j.place = place
        /\ j = [job[m] EXCEPT !.at = "sent"]
    <3>1. "sent" \in {"taken", "routed", "here", "sent"}
      OBVIOUS
    <3>2. JobMove(job[m], "sent", place, j)
      BY <1>4, <1>5, <1>11, <3>1, JobMoved, Zenon
    <3>3. QED
      BY <1>2, <3>2, Zenon DEF JobMove
  <2>2. QED
    BY <1>3, <2>1, JobIs DEF Is
<1>13. /\ \A x \in Machine : job'[x] = IF x = m THEN j ELSE job[x]
       /\ \A x \in Machine : store'[x] = IF x = place THEN current ELSE store[x]
       /\ job' \in [Machine -> Jobs \cup {Idle}] /\ store' \in [Machine -> Value \cup {NoValue}]
  BY <1>1, <1>3, <1>5, <1>6, <1>10, <1>12 DEF Types
<1>14. raced' \in BOOLEAN
  BY <1>3
<1>15. Types'
  BY <1>1, <1>3, <1>13, <1>14 DEF Types
<1>16. \A x \in Machine : /\ Busy(x)' <=> Busy(x)
                          /\ Leaving(x)' <=> Leaving(x)
                          /\ Serving(x)' <=> Serving(x)
                          /\ Pending(x)' = Pending(x)
                          /\ Stale(x)' <=> Stale(x)
                          /\ Holder(x)' <=> x = place
                          /\ ~Carrier(x)'
  <2> SUFFICES ASSUME NEW x \in Machine
               PROVE  /\ Busy(x)' <=> Busy(x)
                      /\ Leaving(x)' <=> Leaving(x)
                      /\ Serving(x)' <=> Serving(x)
                      /\ Pending(x)' = Pending(x)
                      /\ Stale(x)' <=> Stale(x)
                      /\ Holder(x)' <=> x = place
                      /\ ~Carrier(x)'
    OBVIOUS
  <2>1. (Busy(x)' <=> Busy(x)) /\ (Leaving(x)' <=> Leaving(x)) /\ (Serving(x)' <=> Serving(x))
    BY <1>4, <1>12, <1>13 DEF Busy, Leaving, Serving
  <2>0. Pending(x)' = Pending(x) /\ (Stale(x)' <=> Stale(x))
    BY <1>3, Zenon DEF Pending, Stale
  <2>2. Holder(x)' <=> x = place
    BY <1>6, <1>7, <1>8, <1>13, <2>1 DEF Holder
  <2>3. ~Carrier(x)'
    <3>1. Carrier(x) => x = m
      BY <1>1, <1>5, Zenon DEF OnePlace
    <3>2. QED
      BY <1>12, <1>13, <3>1 DEF Carrier, Busy, Is
  <2>4. QED
    BY <2>0, <2>1, <2>2, <2>3
<1>17. LeavesAlone'
  <2> SUFFICES ASSUME NEW g \in leaving
               PROVE  /\ leaving = {g}
                      /\ view[g] # {g}
                      /\ \A x \in up : Pending(x)' # g
                      /\ Leaving(g)' =>
                           /\ \A x \in up \ {g} : g \notin view[x]
                           /\ \A x \in up : job'[x] # Idle /\ (x # g \/ job'[x].at # "sent")
                                               => job'[x].place # g
    BY <1>3, Zenon DEF LeavesAlone, Busy, Is
  <2>1. g \in Machine /\ up \subseteq Machine
    BY <1>1 DEF Types
  <2>2. QED
    <3>1. ASSUME Leaving(g), NEW x \in up, job'[x] # Idle, x # g \/ job'[x].at # "sent"
          PROVE  job'[x].place # g
      <4>1. CASE x = m
        <5>1. Busy(m) /\ ~Is(m, "sent")
          BY <1>5 DEF Carrier
        <5>2. job[m].place # g
          BY <1>1, <1>5, <3>1, <5>1 DEF LeavesAlone
        <5>3. job'[m].place = job[m].place
          BY <1>2, <1>5, <1>12, <1>13, <2>1
        <5>4. QED
          BY <4>1, <5>2, <5>3
      <4>2. CASE x # m
        BY <1>1, <1>13, <2>1, <3>1, <4>2 DEF LeavesAlone, Busy, Is
      <4>3. QED
        BY <4>1, <4>2
    <3>2. Leaving(g)' <=> Leaving(g)
      BY <1>16, <2>1
    <3>3. QED
      BY <1>1, <1>16, <2>1, <3>1, <3>2 DEF LeavesAlone
<1>18. \A x \in Machine : MachineInv(x)'
  BY <1>1, <1>3, <1>4, <1>12, <1>13, <1>16 DEF MachineInv, Busy, Leaving
<1>19. \A x \in Machine : CoordinatorInv(x)'
  BY <1>1, <1>3, <1>16 DEF CoordinatorInv
<1>20. Misreading'
  BY <1>1, <1>3 DEF Misreading
<1>21. OnePlace'
  BY <1>3, <1>5, <1>13, <1>16 DEF OnePlace
<1>22. HolderPlaced'
  <2> SUFFICES ASSUME ~raced' PROVE Owner(view[place]) = place \/ ToBeServed(place)'
    BY <1>3, <1>16, Zenon DEF HolderPlaced, MayBeStranded, Placed, Owner
  <2>1. Owner(view[place]) = place \/ ToBeServed(place)
    BY <1>3 DEF Outdated
  <2>2. QED
    BY <1>3, <1>5, <1>16, <2>1 DEF ToBeServed
<1>23. QED
  BY <1>15, <1>17, <1>18, <1>19, <1>20, <1>21, <1>22 DEF Inv

\* While the flag was set the machine was busy with it, or the thread that will set it
\* again has not yet come to that; a flag that is cleared for another join is a join
\* missed.
LEMMA ClearMessageKeeps ==
    ASSUME Inv, NEW m \in Machine, ClearMessage(m)
    PROVE  Inv'
<1>1. /\ Types /\ LeavesAlone /\ Misreading /\ OnePlace /\ HolderPlaced
      /\ \A x \in Machine : MachineInv(x) /\ CoordinatorInv(x)
  BY DEF Inv
<1>2. /\ Is(m, "sent") /\ job[m].why = "join"
      /\ transfer' = [transfer EXCEPT ![m] = FALSE] /\ job' = [job EXCEPT ![m] = Idle]
      /\ up' = up /\ leaving' = leaving /\ dropped' = dropped /\ joins' = joins /\ leaves' = leaves
      /\ view' = view /\ merge' = merge /\ newMember' = newMember
      /\ store' = store /\ current' = current
      /\ raced' = raced /\ misread' = misread /\ keyHash' = keyHash /\ master' = master
  BY DEF ClearMessage, fixed, membership, data, history
<1>3. Busy(m) /\ Serving(m)
  BY <1>2 DEF Busy, Serving, Is, Idle
<1>4. /\ \A x \in Machine : job'[x] = IF x = m THEN Idle ELSE job[x]
      /\ \A x \in Machine : transfer'[x] = IF x = m THEN FALSE ELSE transfer[x]
      /\ job' \in [Machine -> Jobs \cup {Idle}] /\ transfer' \in [Machine -> BOOLEAN]
  BY <1>1, <1>2 DEF Types
<1>5. Types'
  BY <1>1, <1>2, <1>4 DEF Types
<1>6. \A x \in Machine : /\ Busy(x)' <=> Busy(x) /\ x # m
                         /\ Leaving(x)' <=> Leaving(x)
                         /\ Serving(x)' <=> Serving(x) /\ x # m
                         /\ Holder(x)' <=> Holder(x)
                         /\ Carrier(x)' <=> Carrier(x)
                         /\ Stale(x)' <=> Stale(x)
  BY <1>2, <1>4 DEF Busy, Leaving, Serving, Holder, Carrier, Is, Stale
<1>7. \A x \in Machine : Pending(x)' = IF x = m /\ merge[m] = Unlocked THEN NoHash ELSE Pending(x)
  BY <1>2, <1>4 DEF Pending
<1>8. LeavesAlone'
  <2> SUFFICES ASSUME NEW g \in leaving
               PROVE  /\ leaving = {g}
                      /\ view[g] # {g}
                      /\ \A x \in up : Pending(x)' # g
                      /\ Leaving(g)' =>
                           /\ \A x \in up \ {g} : g \notin view[x]
                           /\ \A x \in up : job'[x] # Idle /\ (x # g \/ job'[x].at # "sent")
                                               => job'[x].place # g
    BY <1>2, Zenon DEF LeavesAlone, Busy, Is
  <2>1. g \in Machine /\ up \subseteq Machine /\ g # NoHash
    BY <1>1, Hashes DEF Types
  <2>2. QED
    BY <1>1, <1>4, <1>6, <1>7, <2>1 DEF LeavesAlone, Busy, Is
<1>9. \A x \in Machine : MachineInv(x)'
  BY <1>1, <1>2, <1>4, <1>7 DEF MachineInv, Busy, Leaving
<1>10. \A x \in Machine : CoordinatorInv(x)'
  BY <1>1, <1>2, <1>3, <1>4, <1>6 DEF CoordinatorInv
<1>11. Misreading'
  BY <1>1, <1>2 DEF Misreading
<1>12. OnePlace'
  BY <1>1, <1>2, <1>3, <1>4, <1>6 DEF OnePlace, Carrier, Is
<1>13. HolderPlaced'
  <2> SUFFICES ASSUME ~MayBeStranded', NEW x \in Machine, Holder(x)'
               PROVE  Owner(view[x]) = x \/ ToBeServed(x)'
    BY <1>2, Zenon DEF HolderPlaced, Placed, Owner
  <2>1. Placed(x)
    BY <1>1, <1>2, <1>6 DEF HolderPlaced, MayBeStranded
  <2>2. CASE x # m
    BY <1>2, <1>6, <1>7, <2>1, <2>2 DEF Placed, ToBeServed
  <2>3. CASE x = m
    <3>1. ToBeServed(m) => merge[m] # Unlocked
      BY <1>1, <1>3, PendingIs DEF ToBeServed
    <3>2. QED
      BY <1>2, <1>6, <1>7, <2>1, <2>3, <3>1 DEF Placed, ToBeServed
  <2>4. QED
    BY <2>2, <2>3
<1>14. QED
  BY <1>5, <1>8, <1>9, <1>10, <1>11, <1>12, <1>13 DEF Inv

\* Who leaves passes the key to another machine, and gets none any more.
LEMMA GetCommandsForLeaveKeeps ==
    ASSUME Inv, NEW m \in Machine, GetCommandsForLeave(m)
    PROVE  Inv'
<1> DEFINE has == store[m] # NoValue
<1>1. /\ Types /\ LeavesAlone /\ Misreading /\ OnePlace /\ HolderPlaced
      /\ \A x \in Machine : MachineInv(x) /\ CoordinatorInv(x)
  BY DEF Inv
<1>2. /\ m \in leaving /\ job[m] = Idle
      /\ \A x \in up \ {m} : m \notin view[x] /\ (Busy(x) => job[x].place # m)
      /\ up' = up /\ leaving' = leaving /\ dropped' = dropped /\ joins' = joins /\ leaves' = leaves
      /\ view' = view /\ merge' = merge /\ transfer' = transfer /\ newMember' = newMember
      /\ store' = store /\ current' = current
      /\ raced' = raced /\ misread' = misread /\ keyHash' = keyHash /\ master' = master
  BY DEF GetCommandsForLeave, Elapsed, fixed, membership, data, coordinator, history, Busy
<1>3. m \in up /\ view[m] # {m} /\ leaving = {m} /\ up \subseteq Machine
  BY <1>1, <1>2 DEF Types, LeavesAlone
<1>4. Successor(view[m], m) \in view[m] \ {m} /\ view[m] \subseteq up
  BY <1>1, <1>3, RingOf, NotItsOwnNeighbour
<1>5. has => /\ current \in Value /\ Holder(m)
             /\ Commands(m) = Written[<<"insert", current>>] /\ Commands(m) # NoText
  <2>1. has => store[m] \in Value /\ Holder(m)
    BY <1>1, <1>2 DEF Types, Holder, Leaving, Busy
  <2>2. has => store[m] = current
    BY <1>1, <2>1 DEF OnePlace
  <2>3. QED
    BY <2>1, <2>2, Moved DEF Commands, LookupKey
<1>6. PICK j : j = IF has THEN Job("leave", "routed", Commands(m), Successor(view[m], m))
                          ELSE Job("leave", "sent", NoText, m)
  OBVIOUS
<1>7. /\ j \in Jobs /\ j.why = "leave" /\ j.place \in up /\ j # Idle
      /\ has => j.at = "routed" /\ j.text = Written[<<"insert", current>>] /\ j.place # m
              /\ j.text # NoText
      /\ ~has => j.at = "sent"
  <2>1. CASE has
    <3>1. Commands(m) \in Range(Written) \cup {NoText} /\ Successor(view[m], m) \in Machine
      BY <1>3, <1>4, <1>5, <2>1, Moved
    <3>2. PICK s, text : s = Successor(view[m], m) /\ text = Commands(m)
      OBVIOUS
    <3>3. j = Job("leave", "routed", text, s)
      BY <1>6, <2>1, <3>2
    <3>4. j \in Jobs /\ j.why = "leave" /\ j.at = "routed" /\ j.text = text /\ j.place = s
      BY <3>1, <3>2, <3>3, JobMade
    <3>5. QED
      BY <1>4, <1>5, <2>1, <3>2, <3>4, JobIs
  <2>2. CASE ~has
    BY <1>3, <1>6, <2>2, JobMade, JobIs
  <2>3. QED
    BY <2>1, <2>2
<1>8. job' = [job EXCEPT ![m] = j]
  BY <1>6 DEF GetCommandsForLeave
<1>9. /\ \A x \in Machine : job'[x] = IF x = m THEN j ELSE job[x]
      /\ job' \in [Machine -> Jobs \cup {Idle}]
  BY <1>1, <1>7, <1>8 DEF Types
<1>10. Types'
  BY <1>1, <1>2, <1>9 DEF Types
<1>11. \A x \in Machine : /\ Busy(x)' <=> Busy(x) \/ x = m
                          /\ Leaving(x)' <=> Leaving(x) \/ x = m
                          /\ Holder(x)' <=> Holder(x) /\ x # m
                          /\ Serving(x)' <=> Serving(x)
                          /\ Carrier(x)' <=> Carrier(x) \/ (x = m /\ has)
                          /\ Pending(x)' = Pending(x)
                          /\ Stale(x)' <=> Stale(x)
  BY <1>2, <1>7, <1>9 DEF Busy, Leaving, Serving, Holder, Carrier, Is, Pending, Stale
<1>12. ~Busy(m) /\ ~Carrier(m) /\ (Holder(m) => has)
  BY <1>2 DEF Busy, Carrier, Holder
<1> HIDE DEF has
<1>13. LeavesAlone'
  <2> SUFFICES ASSUME NEW g \in leaving
               PROVE  /\ leaving = {g}
                      /\ view[g] # {g}
                      /\ \A x \in up : Pending(x)' # g
                      /\ Leaving(g)' =>
                           /\ \A x \in up \ {g} : g \notin view[x]
                           /\ \A x \in up : job'[x] # Idle /\ (x # g \/ job'[x].at # "sent")
                                               => job'[x].place # g
    BY <1>2, Zenon DEF LeavesAlone, Busy, Is
  <2>1. g = m
    BY <1>3
  <2>2. QED
    BY <1>1, <1>2, <1>3, <1>7, <1>9, <1>11, <2>1 DEF LeavesAlone, Busy
<1>14. \A x \in Machine : MachineInv(x)'
  BY <1>1, <1>2, <1>3, <1>7, <1>9, <1>11 DEF MachineInv, Busy, Leaving
<1>15. \A x \in Machine : CoordinatorInv(x)'
  BY <1>1, <1>2, <1>11 DEF CoordinatorInv
<1>16. Misreading'
  BY <1>1, <1>2 DEF Misreading
<1>17. OnePlace'
  BY <1>1, <1>2, <1>5, <1>7, <1>9, <1>11, <1>12 DEF OnePlace
<1>18. HolderPlaced'
  <2> SUFFICES ASSUME ~MayBeStranded', NEW x \in Machine, Holder(x)' PROVE Placed(x)'
    BY Zenon DEF HolderPlaced
  <2>1. Placed(x) /\ x # m
    BY <1>1, <1>2, <1>11 DEF HolderPlaced, MayBeStranded
  <2>2. QED
    BY <1>2, <1>11, <2>1 DEF Placed, ToBeServed, Owner
<1>19. QED
  BY <1>10, <1>13, <1>14, <1>15, <1>16, <1>17, <1>18 DEF Inv

\* Who has gone is on nobody's ring and nobody's way.
LEMMA ExitKeeps ==
    ASSUME Inv, NEW m \in Machine, Exit(m)
    PROVE  Inv'
<1>1. /\ Types /\ LeavesAlone /\ Misreading /\ OnePlace /\ HolderPlaced
      /\ \A x \in Machine : MachineInv(x) /\ CoordinatorInv(x)
  BY DEF Inv
<1>2. /\ Is(m, "sent") /\ job[m].why = "leave"
      /\ up' = up \ {m} /\ leaving' = leaving \ {m}
      /\ store' = [store EXCEPT ![m] = NoValue] /\ merge' = [merge EXCEPT ![m] = Unlocked]
      /\ transfer' = [transfer EXCEPT ![m] = FALSE]
      /\ newMember' = [newMember EXCEPT ![m] = NoHash]
      /\ job' = [job EXCEPT ![m] = Idle]
      /\ dropped' = dropped /\ joins' = joins /\ leaves' = leaves
      /\ view' = view /\ current' = current /\ raced' = raced /\ misread' = misread
      /\ keyHash' = keyHash /\ master' = master
  BY DEF Exit, fixed, history
<1>3. Busy(m) /\ Leaving(m)
  BY <1>2 DEF Busy, Leaving, Is, Idle
<1>4. m \in leaving
  BY <1>1, <1>3 DEF MachineInv
<1>5. m \in up /\ leaving = {m} /\ leaving' = {} /\ m # master
  BY <1>1, <1>2, <1>4 DEF LeavesAlone, Types
<1>6. /\ \A x \in up \ {m} : m \notin view[x]
      /\ \A x \in up \ {m} : Busy(x) => job[x].place # m
  BY <1>1, <1>3, <1>4 DEF LeavesAlone
<1>7. /\ \A x \in Machine : job'[x] = IF x = m THEN Idle ELSE job[x]
      /\ \A x \in Machine : merge'[x] = IF x = m THEN Unlocked ELSE merge[x]
      /\ \A x \in Machine : transfer'[x] = IF x = m THEN FALSE ELSE transfer[x]
      /\ \A x \in Machine : newMember'[x] = IF x = m THEN NoHash ELSE newMember[x]
      /\ \A x \in Machine : store'[x] = IF x = m THEN NoValue ELSE store[x]
      /\ job' \in [Machine -> Jobs \cup {Idle}] /\ transfer' \in [Machine -> BOOLEAN]
      /\ merge' \in [Machine -> Merges \cup {Unlocked}]
      /\ newMember' \in [Machine -> Machine \cup {NoHash}]
      /\ store' \in [Machine -> Value \cup {NoValue}]
  BY <1>1, <1>2 DEF Types
<1>8. Types'
  BY <1>1, <1>2, <1>5, <1>7 DEF Types
<1>9. LeavesAlone'
  BY <1>5 DEF LeavesAlone
<1>10. \A x \in Machine : /\ Pending(x)' = IF x = m THEN NoHash ELSE Pending(x)
                          /\ Stale(x)' <=> Stale(x) /\ x # m
  BY <1>7, NobodyMerges DEF Pending, Stale
<1>11. \A x \in Machine : CoordinatorInv(x)'
  <2> SUFFICES ASSUME NEW x \in Machine PROVE CoordinatorInv(x)'
    OBVIOUS
  <2>1. CoordinatorInv(x) /\ leaves # 0
    BY <1>1, <1>4 DEF Misreading
  <2>2. QED
    BY <1>2, <1>5, <1>7, <1>10, <2>1 DEF CoordinatorInv, Serving, Busy
<1>12. Misreading'
  BY <1>1, <1>2, <1>5 DEF Misreading
<1>13. \A x \in Machine : MachineInv(x)'
  <2> SUFFICES ASSUME NEW x \in Machine PROVE MachineInv(x)'
    OBVIOUS
  <2>1. MachineInv(x)
    BY <1>1
  <2>2. CASE x = m
    BY <1>2, <1>7, <1>10, <2>2 DEF MachineInv, Busy, Leaving
  <2>3. CASE x # m
    <3>1. /\ job'[x] = job[x] /\ store'[x] = store[x] /\ view'[x] = view[x]
          /\ merge'[x] = merge[x] /\ transfer'[x] = transfer[x] /\ Pending(x)' = Pending(x)
      BY <1>2, <1>7, <1>10, <2>3
    <3>2. x \in up' <=> x \in up
      BY <1>2, <2>3
    <3>3. x \in up => view[x] \subseteq up'
      BY <1>2, <1>6, <2>1, <2>3 DEF MachineInv
    <3>4. Busy(x) => x \in up
      BY <2>1 DEF MachineInv, Busy
    <3>5. Busy(x) => job[x].place \in up'
      BY <1>2, <1>6, <2>1, <2>3, <3>4 DEF MachineInv
    <3>6. Leaving(x) => x \in leaving'
      BY <1>5, <2>1, <2>3 DEF MachineInv
    <3>7. QED
      BY <2>1, <3>1, <3>2, <3>3, <3>5, <3>6 DEF MachineInv, Busy, Leaving
  <2>4. QED
    BY <2>2, <2>3
<1>14. \A x \in Machine : Holder(x)' <=> Holder(x)
  BY <1>2, <1>3, <1>7 DEF Holder, Leaving, Busy
<1>15. \A x \in Machine : Carrier(x)' <=> Carrier(x)
  BY <1>2, <1>7 DEF Carrier, Busy, Is
<1>16. ~Holder(m) /\ ~Carrier(m)
  BY <1>2, <1>3 DEF Holder, Carrier
<1>17. OnePlace'
  BY <1>1, <1>2, <1>7, <1>14, <1>15, <1>16 DEF OnePlace
<1>18. HolderPlaced'
  <2> SUFFICES ASSUME ~MayBeStranded', NEW x \in Machine, Holder(x)' PROVE Placed(x)'
    BY Zenon DEF HolderPlaced
  <2>1. Placed(x) /\ x # m
    BY <1>1, <1>2, <1>14, <1>16 DEF HolderPlaced, MayBeStranded
  <2>2. QED
    BY <1>2, <1>7, <1>10, <2>1 DEF Placed, ToBeServed, Owner, Busy
<1>19. QED
  BY <1>8, <1>9, <1>13, <1>17, <1>18, <1>11, <1>12 DEF Inv

--------------------------------------------------------------------------------
(* Where the key is when nothing happens                                        *)

\* While nothing happens the key can only be with one machine, which is its owner unless
\* a join has been missed.
LEMMA SettledPlace ==
    ASSUME Inv, Settled, ~misread
    PROVE  /\ up \subseteq Machine
           /\ \A m \in Machine : job[m] = Idle
           /\ \E m \in up : /\ store = [x \in Machine |-> IF x = m THEN current ELSE NoValue]
                            /\ ~MayBeStranded => m = Owner(up)
<1>1. Types /\ OnePlace /\ HolderPlaced /\ \A x \in Machine : MachineInv(x)
  BY DEF Inv
<1>2. up \in SUBSET Machine /\ up # {} /\ keyHash \in Hash /\ up \in SUBSET Hash
  BY <1>1, Hashes DEF Types
<1>3. Owner(up) \in up
  BY <1>2, OwnerOnRing DEF Owner
<1>4. \A m \in Machine : job[m] = Idle
  BY <1>1 DEF Settled, MachineInv, Busy
<1>5. \A m \in Machine : ~Carrier(m) /\ (Holder(m) <=> store[m] # NoValue)
  BY <1>4 DEF Carrier, Holder, Leaving, Busy
<1>6. store \in [Machine -> Value \cup {NoValue}]
  BY <1>1 DEF Types
<1>7. CASE \E m \in Machine : Holder(m)
  <2>1. PICK m \in Machine : Holder(m)
    BY <1>7
  <2>2. m \in up
    BY <1>1, <1>5, <2>1 DEF MachineInv
  <2>3. \A x \in Machine : store[x] = IF x = m THEN current ELSE NoValue
    BY <1>1, <1>5, <2>1 DEF OnePlace
  <2>4. ~MayBeStranded => m = Owner(up)
    <3>1. ~MayBeStranded => Placed(m)
      BY <1>1, <2>1 DEF HolderPlaced
    <3>2. view[m] = up /\ Pending(m) = NoHash
      BY <2>2 DEF Settled
    <3>3. QED
      BY <3>1, <3>2 DEF Placed, ToBeServed
  <2>5. QED
    BY <1>2, <1>4, <1>6, <2>2, <2>3, <2>4
<1>8. CASE \A m \in Machine : ~Holder(m)
  <2>1. current = NoValue
    BY <1>1, <1>5, <1>8 DEF OnePlace
  <2>2. \A x \in Machine : store[x] = IF x = Owner(up) THEN current ELSE NoValue
    BY <1>5, <1>8, <2>1
  <2>3. QED
    BY <1>2, <1>3, <1>4, <1>6, <2>2
<1>9. QED
  BY <1>7, <1>8

LEMMA ClientCommandKeeps ==
    ASSUME Inv, ClientCommand
    PROVE  Inv'
<1>1. /\ Types /\ LeavesAlone /\ Misreading /\ OnePlace /\ HolderPlaced
      /\ \A x \in Machine : MachineInv(x) /\ CoordinatorInv(x)
  BY DEF Inv
<1>2. PICK name \in Changes, value \in Value :
         /\ Settled /\ ~MayBeStranded
         /\ current' = Outcome(name, current, value)
         /\ store' = [store EXCEPT ![Owner(up)] = Performed(@, Written[<<name, value>>])]
         /\ up' = up /\ leaving' = leaving /\ dropped' = dropped /\ joins' = joins /\ leaves' = leaves
         /\ view' = view /\ merge' = merge /\ transfer' = transfer /\ newMember' = newMember
         /\ job' = job
         /\ raced' = raced /\ misread' = misread /\ keyHash' = keyHash /\ master' = master
  BY DEF ClientCommand, fixed, membership, coordinator, history, Changes
<1>3. PICK owner : owner = Owner(up)
  OBVIOUS
<1>4. /\ owner \in up /\ up \subseteq Machine
      /\ \A m \in Machine : job[m] = Idle
      /\ store = [m \in Machine |-> IF m = owner THEN current ELSE NoValue]
  <2>1. ~misread
    BY <1>1, <1>2 DEF Misreading, MayBeStranded
  <2>2. QED
    BY <1>2, <1>3, <2>1, SettledPlace
<1>5. Performed(current, Written[<<name, value>>]) = Outcome(name, current, value)
  BY PerformedAsMeant
<1>6. /\ store' \in [Machine -> {current', NoValue}]
      /\ \A m \in Machine : store'[m] = IF m = owner THEN current' ELSE NoValue
  BY <1>2, <1>3, <1>4, <1>5
<1>7. current' \in Value \cup {NoValue}
  <2>1. current \in Value \cup {NoValue}
    BY <1>1 DEF Types
  <2>2. QED
    BY <1>2, <2>1 DEF Outcome, Changes, Insert, Update, Delete
<1>8. Types'
  BY <1>1, <1>2, <1>6, <1>7 DEF Types
<1>9. LeavesAlone'
  BY <1>2 DEF LeavesAlone, Settled
<1>10. \A x \in Machine : Pending(x)' = Pending(x) /\ Stale(x)' = Stale(x)
  BY <1>2, Zenon DEF Pending, Stale
<1>11. \A x \in Machine : MachineInv(x)'
  BY <1>1, <1>2, <1>4, <1>6, <1>10 DEF MachineInv, Busy, Leaving
<1>12. \A x \in Machine : CoordinatorInv(x)'
  BY <1>1, <1>2, <1>10 DEF CoordinatorInv, Serving, Busy
<1>13. Misreading'
  BY <1>1, <1>2 DEF Misreading
<1>14. \A x \in Machine : ~Carrier(x)' /\ (Holder(x)' <=> x = owner /\ current' # NoValue)
  BY <1>2, <1>4, <1>6 DEF Carrier, Holder, Leaving, Busy
<1>15. OnePlace'
  BY <1>4, <1>6, <1>14 DEF OnePlace
<1>16. HolderPlaced'
  <2> SUFFICES ASSUME NEW x \in Machine, Holder(x)' PROVE Placed(x)'
    BY Zenon DEF HolderPlaced
  <2>1. x = owner /\ view[x] = up
    BY <1>2, <1>4, <1>14 DEF Settled
  <2>2. QED
    BY <1>2, <1>3, <2>1 DEF Placed, Owner
<1>17. QED
  BY <1>8, <1>9, <1>11, <1>12, <1>13, <1>15, <1>16 DEF Inv

--------------------------------------------------------------------------------
(* What holds in every state                                                    *)

LEMMA NextKeeps == Inv /\ [Next]_vars => Inv'
<1> SUFFICES ASSUME Inv, [Next]_vars PROVE Inv'
  OBVIOUS
<1>1. ASSUME NEW m \in Machine, Join(m) PROVE Inv'
  BY <1>1, JoinKeeps
<1>2. ASSUME NEW m \in Machine, RequestRetirement(m) PROVE Inv'
  BY <1>2, RequestRetirementKeeps
<1>3. ASSUME NEW m \in Machine, Receive(m) PROVE Inv'
  <2>1. ASSUME NEW x \in Machine, AddToList(m, x) PROVE Inv'
    BY <2>1, AddToListKeeps
  <2>2. ASSUME NEW x \in Machine, MergeLeaving(m, x) PROVE Inv'
    BY <2>2, MergeLeavingKeeps
  <2>3. CASE SetTransferKeysToMember(m)
    BY <2>3, SetTransferKeysToMemberKeeps
  <2>4. CASE SetNewMemberHash(m)
    BY <2>4, SetNewMemberHashKeeps
  <2>5. QED
    BY <1>3, <2>1, <2>2, <2>3, <2>4 DEF Receive
<1>4. ASSUME NEW m \in Machine, Tick(m) PROVE Inv'
  <2>1. CASE GetCommandsForJoin(m)
    BY <2>1, GetCommandsForJoinKeeps
  <2>2. CASE SendToNewMember(m)
    BY <2>2, SendToNewMemberKeeps
  <2>3. CASE Route(m)
    BY <2>3, RouteKeeps
  <2>4. CASE Perform(m)
    BY <2>4, PerformKeeps
  <2>5. CASE ClearMessage(m)
    BY <2>5, ClearMessageKeeps
  <2>6. CASE GetCommandsForLeave(m)
    BY <2>6, GetCommandsForLeaveKeeps
  <2>7. CASE Exit(m)
    BY <2>7, ExitKeeps
  <2>8. QED
    BY <1>4, <2>1, <2>2, <2>3, <2>4, <2>5, <2>6, <2>7 DEF Tick
<1>5. CASE ClientCommand
  BY <1>5, ClientCommandKeeps
<1>6. CASE UNCHANGED vars
  <2>1. /\ keyHash' = keyHash /\ master' = master /\ up' = up /\ leaving' = leaving
        /\ dropped' = dropped /\ joins' = joins /\ leaves' = leaves /\ view' = view
        /\ merge' = merge /\ transfer' = transfer /\ newMember' = newMember
        /\ job' = job /\ store' = store /\ current' = current
        /\ raced' = raced /\ misread' = misread
    BY <1>6 DEF vars, fixed, membership, data, coordinator, history
  <2>2. \A x \in Machine : Pending(x)' = Pending(x) /\ Stale(x)' = Stale(x)
    BY <2>1, Zenon DEF Pending, Stale
  <2>3. Types'
    BY <2>1, Zenon DEF Inv, Types
  <2>4. LeavesAlone'
    BY <2>1, Zenon DEF Inv, LeavesAlone, Pending, Leaving, Busy, Is
  <2>5. \A m \in Machine : MachineInv(m)'
    BY <2>1, <2>2 DEF Inv, MachineInv, Leaving, Busy
  <2>6. \A m \in Machine : CoordinatorInv(m)'
    BY <2>1, <2>2 DEF Inv, CoordinatorInv, Serving, Busy
  <2>7. Misreading'
    BY <2>1 DEF Inv, Misreading
  <2>8. OnePlace'
    BY <2>1, Zenon DEF Inv, OnePlace, Holder, Carrier, Leaving, Busy, Is
  <2>9. HolderPlaced'
    BY <2>1, Zenon DEF Inv, HolderPlaced, MayBeStranded, Placed, ToBeServed, Pending, Owner,
                       Holder, Leaving, Busy
  <2>10. QED
    BY <2>3, <2>4, <2>5, <2>6, <2>7, <2>8, <2>9 DEF Inv
<1>7. QED
  BY <1>1, <1>2, <1>3, <1>4, <1>5, <1>6 DEF Next

LEMMA InvAlways == Spec => []Inv
BY InitInv, NextKeeps, PTL DEF Spec

\* Every machine is on its own ring with machines that run only; the member that is
\* noted in its Coordinator, once the flag and the hash are both set, is one of them; and
\* a command that carries the key goes to a machine that runs (getIPFromHash,
\* getIPofSuccessor), in a text that is read as the command it was written for.
THEOREM TypeCorrect == Spec => []TypeOK
<1>1. ASSUME Inv PROVE TypeOK
  <2>1. Types /\ OnePlace /\ \A m \in Machine : MachineInv(m)
    BY <1>1 DEF Inv
  <2>2. ASSUME NEW m \in up
        PROVE  /\ m \in view[m] /\ view[m] \subseteq up
               /\ Pending(m) \in (view[m] \ {m}) \cup {NoHash}
    <3>1. MachineInv(m) /\ m \in Machine
      BY <2>1 DEF Types
    <3>2. QED
      BY <2>1, <3>1, RingOf DEF MachineInv
  <2>3. ASSUME NEW m \in Machine, Busy(m)
        PROVE  m \in up /\ job[m].place \in up /\ (Carrier(m) => IsValid(Read[job[m].text]))
    <3>1. m \in up /\ job[m].place \in up
      BY <2>1, <2>3 DEF MachineInv, Busy
    <3>2. Carrier(m) => current \in Value /\ job[m].text = Written[<<"insert", current>>]
      BY <2>1 DEF OnePlace, Types
    <3>3. QED
      BY <3>1, <3>2, Moved
  <2>4. QED
    BY <2>1, <2>2, <2>3 DEF TypeOK, Types
<1>2. QED
  BY <1>1, InvAlways, PTL

\* getCommandsForJoin takes the key out of the store before it sends it, over and over
\* as rings change: it is with a machine that runs, or in a command which a machine
\* that runs will read as an insert of the key with its value, whatever symbols the
\* value has; unless a member that has left was looked up (getIPFromHash), and that
\* happens only after a member has left and a join has been missed.
THEOREM NeverLost == Spec => []KeyIsNeverLost
<1>1. ASSUME Inv PROVE KeyIsNeverLost
  <2>1. Types /\ Misreading /\ OnePlace /\ \A m \in Machine : MachineInv(m)
    BY <1>1 DEF Inv
  <2>2. ASSUME current # NoValue, ~misread
        PROVE  \E m \in up : \/ store[m] = current
                             \/ /\ Carrier(m)
                                /\ Read[job[m].text] = KeyValueStoreCommand(<<"insert">>, Key, current)
    <3>1. PICK m \in Machine : Holder(m) \/ Carrier(m)
      BY <2>1, <2>2 DEF OnePlace
    <3>2. m \in up
      BY <2>1, <3>1 DEF MachineInv, Holder, Carrier, Busy
    <3>3. CASE Holder(m)
      BY <2>1, <3>2, <3>3 DEF OnePlace
    <3>4. CASE Carrier(m)
      <4>1. current \in Value /\ job[m].text = Written[<<"insert", current>>]
        BY <2>1, <3>4 DEF OnePlace, Types
      <4>2. QED
        BY <3>2, <3>4, <4>1, Moved
    <3>5. QED
      BY <3>1, <3>3, <3>4
  <2>3. misread => raced /\ leaves > 0
    BY <2>1 DEF Misreading, Types
  <2>4. QED
    BY <2>2, <2>3 DEF KeyIsNeverLost
<1>2. QED
  BY <1>1, InvAlways, PTL

\* When every ring is the same and no Coordinator has a message the key is with one
\* machine only, and that is its owner: checkAndTransferKeys, which looks at the member
\* just before this one, and the condition of getCommandsForJoin, which looks at hashes,
\* agree with getIPToSendToFromKeyHash, but for a join that was missed, a torn one
\* included, or a key with the hash of a machine.
THEOREM EndsWithOwner == Spec => []OwnerHasTheKey
<1>1. Inv => OwnerHasTheKey
  BY SettledPlace DEF OwnerHasTheKey
<1>2. QED
  BY <1>1, InvAlways, PTL

================================================================================
