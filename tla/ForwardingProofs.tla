---------------------------- MODULE ForwardingProofs -----------------------------
(* Proofs about Forwarding: that a command is executed at most once, that clients *)
(* are told what the executing machine answered, that no request is ever sent     *)
(* back, and that texts arrive as they were sent, for any machines, rings,        *)
(* requests, texts and sizes of a buffer.                                        *)
EXTENDS Forwarding, OperatorProofs

USE ForwardingAssumption, KeyHashAssumption, MaxHashAssumption

--------------------------------------------------------------------------------
(* The ring                                                                     *)

\* No machine on a ring is nearer above a key than its owner.
LEMMA OwnerNotFarther ==
    ASSUME NEW ring \in SUBSET Hash, NEW k \in Hash, NEW x \in ring
    PROVE  Distance(OwnerHash(ring, k), k) <= Distance(x, k)
<1>1. \A h \in Hash : Distance(h, k) = Gap(k, h)
  BY DEF Distance, Gap, Hash
<1>2. OwnerHash(ring, k) \in ring
  BY OwnerOnRing
<1>3. Gap(k, OwnerHash(ring, k)) <= Gap(k, x)
  BY <1>2, OwnerIsNearest
<1>4. QED
  BY <1>1, <1>2, <1>3
--------------------------------------------------------------------------------
(* What clients mean                                                            *)

\* Every question but show is a command that is built.
LEMMA QuestionIsBuilt ==
    ASSUME NEW q \in Question, q.name # <<"show">>
    PROVE  /\ Built(Symbols \cup ToSet(q.key) \cup ToSet(q.value), TypedText(q),
                    q.level, q.name, q.key, q.value)
           /\ Plain(q.name) \notin NeedsValue => q.value = <<>>
           /\ Comma \notin ToSet(q.key) => \A i \in 1..Len(q.key) : q.key[i] # Comma
<1> DEFINE S == Symbols \cup ToSet(q.key) \cup ToSet(q.value)
<1>1. /\ q.level \in Levels /\ q.name \in Operations \cup ForceOperations
      /\ q.key \in Seq(ToSet(q.key)) /\ q.value \in Seq(ToSet(q.value))
      /\ Plain(q.name) \notin NeedsValue => q.value = <<>>
  BY QuestionAssumption DEF Levels
<1>2. ToSet(q.key) \subseteq S /\ ToSet(q.value) \subseteq S
  OBVIOUS
<1> HIDE DEF S
<1>3. q.key \in Seq(S) /\ q.value \in Seq(S)
  BY <1>1, <1>2, LargerSet
<1>4. TypedText(q) = q.level \o BuildCommand(q.name, q.key, q.value)
  BY Zenon DEF TypedText
<1>5. Comma \notin ToSet(q.key) => \A i \in 1..Len(q.key) : q.key[i] # Comma
  <2>1. \A i \in 1..Len(q.key) : q.key[i] \in ToSet(q.key)
    BY <1>1, ElementOfSeq
  <2>2. QED
    BY <2>1
<1>6. QED
  BY <1>1, <1>3, <1>4, <1>5, Zenon DEF Built, S

\* A server understands what the client means, and so do the replicas
\* (parseKeyValueStoreCmd, getForceCommand).
LEMMA Understood ==
    ASSUME NEW q \in Question, Comma \notin ToSet(q.key)
    PROVE  /\ CommandOf[q].name = q.name /\ CommandOf[q].key = q.key
           /\ CommandOf[q].value = q.value
           /\ ~Local(CommandOf[q]) =>
                 /\ Parse(ForceText[q]).name = <<"f">> \o q.name
                 /\ Parse(ForceText[q]).key = q.key /\ Parse(ForceText[q]).value = q.value
<1> DEFINE S == Symbols \cup ToSet(q.key) \cup ToSet(q.value)
<1>1. CommandOf[q] = Parse(TypedText(q)) /\ ForceText[q] = ForceCommand(TypedText(q))
  BY DEF CommandOf, ForceText
<1>2. CASE q.name = <<"show">>
  <2>1. TypedText(q) = <<"show">>
    BY <1>2 DEF TypedText
  <2>2. q.value = <<>> /\ q.key = <<>>
    <3>1. Plain(q.name) = "show"
      BY <1>2 DEF Plain
    <3>2. QED
      BY <1>2, <3>1, QuestionAssumption DEF NeedsValue
  <2>3. FirstOf(<<"show">>, "(") = 0
    <3>1. <<"show">> \in Seq({"show"}) /\ Len(<<"show">>) = 1 /\ <<"show">>[1] = "show"
      BY OneSymbol
    <3>2. PICK s : s = <<"show">>
      OBVIOUS
    <3>3. s \in Seq({"show"}) /\ \A j \in 1..Len(s) : s[j] # "("
      BY <3>1, <3>2
    <3>4. QED
      BY <3>2, <3>3, FirstOfIs
  <2>4. CommandOf[q] = Parsed(<<"show">>, <<>>, <<>>, "a")
    BY <1>1, <2>1, <2>3 DEF Parse
  <2>5. QED
    BY <1>2, <2>2, <2>4 DEF Parsed, Local
<1>3. CASE q.name # <<"show">>
  <2>1. /\ Built(S, TypedText(q), q.level, q.name, q.key, q.value)
        /\ Plain(q.name) \notin NeedsValue => q.value = <<>>
        /\ \A i \in 1..Len(q.key) : q.key[i] # Comma
        /\ Symbols \subseteq S
    BY <1>3, QuestionIsBuilt
  <2> HIDE DEF S
  <2>2. /\ Parse(TypedText(q)).name = q.name /\ Parse(TypedText(q)).key = q.key
        /\ Parse(TypedText(q)).value = q.value
    BY <2>1, ReadsWhatIsBuilt
  <2>3. ASSUME ~Local(CommandOf[q])
        PROVE  /\ Parse(ForceText[q]).name = <<"f">> \o q.name
               /\ Parse(ForceText[q]).key = q.key /\ Parse(ForceText[q]).value = q.value
    <3>1. q.name \in Operations
      BY <1>1, <2>1, <2>2, <2>3 DEF Local, IsForceOperation, Built
    <3>2. Built(S, ForceText[q], <<>>, <<"f">> \o q.name, q.key, q.value)
      BY <1>1, <2>1, <3>1, ForcedIsBuilt
    <3>3. Plain(<<"f">> \o q.name) \notin NeedsValue => q.value = <<>>
      BY <2>1, <3>1, ForcedName
    <3>4. PICK text, level, name : /\ text = ForceText[q] /\ level = <<>>
                                   /\ name = <<"f">> \o q.name
      OBVIOUS
    <3>5. /\ Built(S, text, level, name, q.key, q.value)
          /\ Plain(name) \notin NeedsValue => q.value = <<>>
      BY <3>2, <3>3, <3>4
    <3>6. /\ Parse(text).name = name /\ Parse(text).key = q.key
          /\ Parse(text).value = q.value
      BY <2>1, <3>5, ReadsWhatIsBuilt
    <3>7. QED
      BY <3>4, <3>6
  <2>4. QED
    BY <1>1, <2>2, <2>3
<1>4. QED
  BY <1>2, <1>3

\* An operation is no local command, whatever its key.
LEMMA OperationIsNotLocal ==
    ASSUME NEW q \in Question, q.name \in Operations
    PROVE  ~Local(CommandOf[q])
<1> DEFINE S    == Symbols \cup ToSet(q.key) \cup ToSet(q.value)
           text == TypedText(q)
<1>1. q.name # <<"show">> /\ q.name \notin ForceOperations
  BY ForcedName
<1>2. Built(S, text, q.level, q.name, q.key, q.value) /\ Symbols \subseteq S
  BY <1>1, QuestionIsBuilt
<1> HIDE DEF S, text
<1>3. /\ FirstOf(text, "(") = Bracket(q.level, q.name)
      /\ Substring(text, IF LevelGiven(text) THEN 3 ELSE 1, Bracket(q.level, q.name) - 1) = q.name
  BY <1>2, NameIsFound
<1>4. Bracket(q.level, q.name) # 0 /\ Plain(q.name) \in Name
  <2>1. q.level \in Levels /\ q.name \in Operations \cup ForceOperations
    BY <1>2 DEF Built
  <2>2. Len(q.name) \in 1..2 /\ Plain(q.name) \in Name
    BY <1>2, <2>1, Spelling
  <2>3. Len(q.level) \in {0, 2}
    BY <1>2, <2>1, LevelIs
  <2>4. \A l \in {0, 2}, n \in 1..2 : l + n + 1 # 0
    OBVIOUS
  <2>5. QED
    BY <2>2, <2>3, <2>4, Zenon DEF Bracket
<1>5. Parse(text).name \in {q.name, <<>>}
  BY <1>3, <1>4 DEF Parse, Parsed, IsValidOperation, Name
<1>6. <<>> \notin ForceOperations /\ <<>> # <<"show">>
  BY DEF ForceOperations
<1>7. CommandOf[q].name = Parse(text).name
  BY DEF CommandOf, text
<1>8. QED
  BY <1>1, <1>5, <1>6, <1>7 DEF Local, IsForceOperation

--------------------------------------------------------------------------------
(* The invariant                                                                *)

Heard(r, text) == \E j \in 1..Len(executed[r]) : executed[r][j].reply = text

\* A thread that is not dead is on a machine that runs; all threads but the last of
\* a request wait for the next one or have done so; a machine that is about to be
\* asked is not farther from the key; no answer is made up; and once the command has
\* been executed nobody is going to execute it again.
ThreadInv(r, i) ==
    /\ pc[r][i] # "dead" => chain[r][i] \in up
    /\ i < Len(chain[r]) => pc[r][i] \in {"wait", "reply", "done", "dead"}
    /\ pc[r][i] = "wait" => i < Len(chain[r])
    /\ pc[r][i] = "connect" =>
          Distance(to[r][i], KeyHash(r)) <= Distance(chain[r][i], KeyHash(r))
    /\ answer[r][i] \in Errors \/ Heard(r, answer[r][i])
    /\ executed[r] # <<>> /\ i = Len(chain[r]) => pc[r][i] \in {"reply", "done", "dead"}

SentOn(r, i) ==
    Distance(chain[r][i + 1], KeyHash(r)) <= Distance(chain[r][i], KeyHash(r))

RequestInv(r) ==
    /\ chain[r] # <<>> => Asked(r)
    /\ chain[r] = <<>> => executed[r] = <<>>
    /\ Len(executed[r]) <= 1
    /\ told[r] \in Errors \cup {NotYet} \/ Heard(r, told[r])
    /\ \A i \in 1..Len(chain[r]) : ThreadInv(r, i)
    /\ \A i \in 1..(Len(chain[r]) - 1) : SentOn(r, i)

IInv == TypeOK /\ \A r \in Request : RequestInv(r)

--------------------------------------------------------------------------------
(* Sequences of a request                                                       *)

\* g is f but for the value v of thread i of request r.
Sets(S, f, g, r, i, v) ==
    /\ g \in [Request -> Seq(S)]
    /\ \A s \in Request : Len(g[s]) = Len(f[s])
    /\ \A s \in Request : s # r => g[s] = f[s]
    /\ \A j \in 1..Len(f[r]) : g[r][j] = IF j = i THEN v ELSE f[r][j]

LEMMA Changed ==
    ASSUME NEW S, NEW f \in [Request -> Seq(S)], NEW r \in Request,
           NEW i \in 1..Len(f[r]), NEW v \in S, NEW g, g = [f EXCEPT ![r][i] = v]
    PROVE  Sets(S, f, g, r, i, v)
<1>1. f[r] \in Seq(S)
  OBVIOUS
<1>2. g = [f EXCEPT ![r] = [f[r] EXCEPT ![i] = v]]
  OBVIOUS
<1> DEFINE e == [f[r] EXCEPT ![i] = v]
<1>3. e \in Seq(S) /\ Len(e) = Len(f[r]) /\ \A j \in 1..Len(f[r]) : e[j] = IF j = i THEN v ELSE f[r][j]
  BY <1>1, ExceptSeq
<1> HIDE DEF e
<1>4. g[r] = e /\ \A s \in Request : s # r => g[s] = f[s]
  BY <1>2 DEF e
<1>5. g \in [Request -> Seq(S)]
  BY <1>2, <1>3 DEF e
<1>6. QED
  BY <1>3, <1>4, <1>5 DEF Sets

\* A value is appended.
LEMMA Extended ==
    ASSUME NEW S, NEW f \in [Request -> Seq(S)], NEW r \in Request, NEW v \in S,
           NEW g, g = [f EXCEPT ![r] = Append(f[r], v)]
    PROVE  /\ g \in [Request -> Seq(S)]
           /\ Len(g[r]) = Len(f[r]) + 1
           /\ \A s \in Request : s # r => g[s] = f[s]
           /\ \A j \in 1..Len(f[r]) : g[r][j] = f[r][j]
           /\ g[r][Len(f[r]) + 1] = v
<1>1. f[r] \in Seq(S)
  OBVIOUS
<1> DEFINE e == Append(f[r], v)
<1>2. /\ e \in Seq(S) /\ Len(e) = Len(f[r]) + 1
      /\ \A j \in 1..Len(f[r]) : e[j] = f[r][j]
      /\ e[Len(f[r]) + 1] = v
  BY <1>1, AppendProperties
<1> HIDE DEF e
<1>3. g[r] = e /\ \A s \in Request : s # r => g[s] = f[s]
  BY DEF e
<1>4. g \in [Request -> Seq(S)]
  BY <1>2 DEF e
<1>5. QED
  BY <1>2, <1>3, <1>4

\* The positions of the threads of a request.
LEMMA Positions ==
    ASSUME TypeOK, NEW r \in Request
    PROVE  /\ DOMAIN chain[r] = 1..Len(chain[r]) /\ Len(chain[r]) \in Nat
           /\ Len(pc[r]) = Len(chain[r]) /\ DOMAIN pc[r] = 1..Len(chain[r])
           /\ Len(to[r]) = Len(chain[r]) /\ Len(answer[r]) = Len(chain[r])
           /\ Len(executed[r]) \in Nat /\ DOMAIN executed[r] = 1..Len(executed[r])
<1>1. chain[r] \in Seq(Machine) /\ pc[r] \in Seq(Place)
  BY DEF TypeOK
<1> DEFINE E == [at : Machine, reply : Replies, command : {CommandOf[q] : q \in Question}]
<1>2. executed[r] \in Seq(E)
  BY DEF TypeOK
<1> HIDE DEF E
<1>3. QED
  BY <1>1, <1>2, LenProperties DEF TypeOK
--------------------------------------------------------------------------------
(* The steps                                                                    *)

\* A request none of whose threads does anything, while no machine goes down.
LEMMA Untouched ==
    ASSUME IInv, NEW s \in Request, up \subseteq up',
           chain'[s] = chain[s], pc'[s] = pc[s], to'[s] = to[s], answer'[s] = answer[s],
           told'[s] = told[s], executed'[s] = executed[s], question'[s] = question[s]
    PROVE  RequestInv(s)'
<1>1. KeyHash(s)' = KeyHash(s) /\ Asked(s)' = Asked(s)
  BY DEF KeyHash, Asked
<1>2. \A text : Heard(s, text)' = Heard(s, text)
  BY DEF Heard
<1>3. RequestInv(s)
  BY DEF IInv
<1>4. \A i \in 1..Len(chain[s]) : ThreadInv(s, i)'
  <2>1. ASSUME NEW i \in 1..Len(chain[s]) PROVE ThreadInv(s, i)'
    <3>1. ThreadInv(s, i)
      BY <1>3 DEF RequestInv
    <3>2. QED
      BY <3>1, <1>1, <1>2 DEF ThreadInv
  <2>2. QED
    BY <2>1
<1>5. \A i \in 1..(Len(chain[s]) - 1) : SentOn(s, i)'
  BY <1>1, <1>3 DEF RequestInv, SentOn
<1>6. QED
  BY <1>1, <1>2, <1>3, <1>4, <1>5 DEF RequestInv

\* The client of a request is told a text, if anything.
Tells(r) ==
    \/ told' = told
    \/ \E text \in Replies \cup Errors :
          /\ told' = [told EXCEPT ![r] = text]
          /\ text \in Errors \/ Heard(r, text)

\* Thread i of request r sets its place, the machine it asks and its answer.
Step(r, i, p, t, a) ==
    /\ p \in Place /\ t \in Machine \cup {NoHash} /\ a \in Replies \cup Errors
    /\ Sets(Place, pc, pc', r, i, p)
    /\ Sets(Machine \cup {NoHash}, to, to', r, i, t)
    /\ Sets(Replies \cup Errors, answer, answer', r, i, a)
    /\ UNCHANGED <<up, view, joins, crashes, calm, question, chain, executed>>
    /\ doomed' \subseteq up
    /\ Tells(r)

\* It may: see ThreadInv.
Allowed(r, i, p, t, a) ==
    /\ p # "dead" => pc[r][i] # "dead"
    /\ i < Len(chain[r]) => p \in {"wait", "reply", "done", "dead"}
    /\ p = "wait" => i < Len(chain[r])
    /\ p = "connect" => /\ t \in Machine
                        /\ Distance(t, KeyHash(r)) <= Distance(chain[r][i], KeyHash(r))
    /\ a \in Errors \/ Heard(r, a)
    /\ executed[r] # <<>> /\ i = Len(chain[r]) => p \in {"reply", "done", "dead"}

\* A thread takes a step that only concerns itself.
LEMMA OneThread ==
    ASSUME IInv, NEW r \in Request, NEW i \in 1..Len(chain[r]),
           NEW p, NEW t, NEW a, Step(r, i, p, t, a), Allowed(r, i, p, t, a)
    PROVE  IInv'
<1>1. TypeOK /\ \A s \in Request : RequestInv(s)
  BY DEF IInv
<1> USE DEF Step, Allowed
<1>2. \A s \in Request : /\ DOMAIN chain[s] = 1..Len(chain[s])
                         /\ Len(pc[s]) = Len(chain[s]) /\ Len(to[s]) = Len(chain[s])
                         /\ Len(answer[s]) = Len(chain[s])
  BY <1>1, Positions
<1>3. TypeOK'
  <2>1. /\ pc' \in [Request -> Seq(Place)]
        /\ to' \in [Request -> Seq(Machine \cup {NoHash})]
        /\ answer' \in [Request -> Seq(Replies \cup Errors)]
        /\ \A s \in Request : /\ Len(pc'[s]) = Len(chain[s]) /\ Len(to'[s]) = Len(chain[s])
                              /\ Len(answer'[s]) = Len(chain[s])
    BY <1>2 DEF Sets
  <2>2. ASSUME NEW s \in Request, NEW j \in DOMAIN chain[s], pc'[s][j] = "connect"
        PROVE  to'[s][j] \in Machine
    <3>1. CASE s = r /\ j = i
      BY <1>2, <2>2, <3>1 DEF Sets
    <3>2. CASE ~ (s = r /\ j = i)
      <4>1. pc'[s][j] = pc[s][j] /\ to'[s][j] = to[s][j]
        BY <1>2, <3>2 DEF Sets
      <4>2. QED
        BY <1>1, <2>2, <4>1 DEF TypeOK
    <3>3. QED
      BY <3>1, <3>2
  <2>3. told' \in [Request -> Replies \cup Errors \cup {NotYet}]
    BY <1>1 DEF TypeOK, Tells
  <2>4. QED
    BY <1>1, <2>1, <2>2, <2>3 DEF TypeOK
<1>4. ASSUME NEW s \in Request PROVE RequestInv(s)'
  <2>1. CASE s # r
    <3>1. told'[s] = told[s]
      BY <1>1, <2>1 DEF Tells, TypeOK
    <3>2. QED
      BY <2>1, <3>1, Untouched DEF Sets
  <2>2. CASE s = r
    <3>1. KeyHash(r)' = KeyHash(r) /\ Asked(r)' = Asked(r)
      BY DEF KeyHash, Asked
    <3>2. \A text : Heard(r, text)' = Heard(r, text)
      BY DEF Heard
    <3>3. ASSUME NEW j \in 1..Len(chain[r]) PROVE ThreadInv(r, j)'
      <4>1. ThreadInv(r, j) /\ ThreadInv(r, i)
        BY <1>1 DEF RequestInv
      <4>2. CASE j = i
        <5>1. pc'[r][j] = p /\ to'[r][j] = t /\ answer'[r][j] = a
          BY <1>2, <4>2 DEF Sets
        <5>2. QED
          BY <3>1, <3>2, <4>1, <4>2, <5>1 DEF ThreadInv
      <4>3. CASE j # i
        <5>1. pc'[r][j] = pc[r][j] /\ to'[r][j] = to[r][j] /\ answer'[r][j] = answer[r][j]
          BY <1>2, <4>3 DEF Sets
        <5>2. QED
          BY <3>1, <3>2, <4>1, <5>1 DEF ThreadInv
      <4>4. QED
        BY <4>2, <4>3
    <3>4. \A j \in 1..(Len(chain[r]) - 1) : SentOn(r, j)'
      BY <1>1, <3>1 DEF RequestInv, SentOn
    <3>5. told'[r] \in Errors \cup {NotYet} \/ Heard(r, told'[r])
      BY <1>1 DEF Tells, RequestInv, TypeOK
    <3>6. QED
      BY <1>1, <2>2, <3>1, <3>2, <3>3, <3>4, <3>5 DEF RequestInv
  <2>3. QED
    BY <2>1, <2>2
<1>5. QED
  BY <1>3, <1>4 DEF IInv

\* What a thread finds on the ring it sees: a machine, no farther from the key.
LEMMA OwnerSeenIsNearer ==
    ASSUME IInv, NEW r \in Request, NEW i \in 1..Len(chain[r]), pc[r][i] # "dead"
    PROVE  /\ OwnerSeen(chain[r][i], KeyHash(r)) \in Machine
           /\ Distance(OwnerSeen(chain[r][i], KeyHash(r)), KeyHash(r))
                 <= Distance(chain[r][i], KeyHash(r))
<1> DEFINE m == chain[r][i]
<1>1. TypeOK /\ RequestInv(r) /\ ThreadInv(r, i)
  BY DEF IInv, RequestInv
<1>2. m \in up
  BY <1>1 DEF ThreadInv
<1>3. m \in view[m] /\ view[m] \subseteq Machine
  BY <1>1, <1>2 DEF TypeOK
<1>4. KeyHash(r) \in Hash
  <2>1. Len(chain[r]) # 0
    BY <1>1, Positions
  <2>2. chain[r] # <<>>
    BY <2>1
  <2>3. question[r] \in Question
    BY <1>1, <2>2 DEF RequestInv, Asked, TypeOK
  <2>4. QED
    BY <2>3 DEF KeyHash
<1> HIDE DEF m
<1>5. QED
  BY <1>3, <1>4, OwnerOnRing, OwnerNotFarther DEF OwnerSeen, m

\* Nothing is set.
LEMMA Unchanged ==
    ASSUME NEW S, NEW f \in [Request -> Seq(S)], NEW r \in Request, NEW i \in 1..Len(f[r]),
           NEW g, g = f
    PROVE  Sets(S, f, g, r, i, f[r][i]) /\ f[r][i] \in S
<1>1. f[r] \in Seq(S)
  OBVIOUS
<1>2. f[r][i] \in S
  BY <1>1, ElementOfSeq
<1>3. QED
  BY <1>2 DEF Sets

\* What is there before a thread takes a step.
LEMMA Before ==
    ASSUME IInv, NEW r \in Request, NEW i \in 1..Len(chain[r])
    PROVE  /\ TypeOK /\ RequestInv(r) /\ ThreadInv(r, i)
           /\ i \in 1..Len(pc[r]) /\ i \in 1..Len(to[r]) /\ i \in 1..Len(answer[r])
           /\ to[r][i] \in Machine \cup {NoHash}
           /\ answer[r][i] \in Replies \cup Errors
           /\ Sets(Place, pc, pc, r, i, pc[r][i])
           /\ Sets(Machine \cup {NoHash}, to, to, r, i, to[r][i])
           /\ Sets(Replies \cup Errors, answer, answer, r, i, answer[r][i])
           /\ doomed \subseteq up
<1>1. TypeOK /\ RequestInv(r) /\ ThreadInv(r, i)
  BY DEF IInv, RequestInv
<1>2. i \in 1..Len(pc[r]) /\ i \in 1..Len(to[r]) /\ i \in 1..Len(answer[r])
  BY <1>1, Positions
<1>3. QED
  BY <1>1, <1>2, Unchanged DEF TypeOK

LEMMA RouteStep ==
    ASSUME IInv, NEW r \in Request, NEW i \in 1..Len(chain[r]), Route(r, i)
    PROVE  IInv'
<1> DEFINE owner == OwnerSeen(chain[r][i], KeyHash(r))
<1>1. pc[r][i] = "route"
  BY DEF Route, At
<1>2. owner \in Machine /\ Distance(owner, KeyHash(r)) <= Distance(chain[r][i], KeyHash(r))
  BY <1>1, OwnerSeenIsNearer
<1>3. i = Len(chain[r]) /\ executed[r] = <<>>
  BY <1>1, Before, Positions DEF ThreadInv
<1>4. answer' = answer /\ doomed' = doomed
      /\ UNCHANGED <<up, view, joins, crashes, calm, question, chain, told, executed>>
  BY DEF Route, members
<1>5. ASSUME NEW p \in {"perform", "replicate"}, pc' = [pc EXCEPT ![r][i] = p], to' = to
      PROVE  IInv'
  <2>1. p \in Place
    BY DEF Place
  <2>2. Sets(Place, pc, pc', r, i, p)
    BY <1>5, <2>1, Before, Changed DEF TypeOK
  <2>3. Step(r, i, p, to[r][i], answer[r][i])
    BY <1>4, <1>5, <2>1, <2>2, Before DEF Step, Tells
  <2>4. Allowed(r, i, p, to[r][i], answer[r][i])
    BY <1>1, <1>3, Before DEF Allowed, ThreadInv
  <2>5. QED
    BY <2>3, <2>4, OneThread
<1>6. ASSUME pc' = [pc EXCEPT ![r][i] = "connect"], to' = [to EXCEPT ![r][i] = owner]
      PROVE  IInv'
  <2> HIDE DEF owner
  <2>1. "connect" \in Place
    BY DEF Place
  <2>2. /\ Sets(Place, pc, pc', r, i, "connect")
        /\ Sets(Machine \cup {NoHash}, to, to', r, i, owner)
    BY <1>2, <1>6, <2>1, Before, Changed DEF TypeOK
  <2>3. Step(r, i, "connect", owner, answer[r][i])
    BY <1>2, <1>4, <2>1, <2>2, Before DEF Step, Tells
  <2>4. Allowed(r, i, "connect", owner, answer[r][i])
    BY <1>1, <1>2, <1>3, Before DEF Allowed, ThreadInv
  <2>5. QED
    BY <2>3, <2>4, OneThread
<1>7. QED
  BY <1>5, <1>6 DEF Route

LEMMA RetryStep ==
    ASSUME IInv, NEW r \in Request, NEW i \in 1..Len(chain[r]), Retry(r, i)
    PROVE  IInv'
<1> DEFINE owner == OwnerSeen(chain[r][i], KeyHash(r))
<1>1. pc[r][i] = "connect"
  BY DEF Retry, At
<1>2. owner \in Machine /\ Distance(owner, KeyHash(r)) <= Distance(chain[r][i], KeyHash(r))
  BY <1>1, OwnerSeenIsNearer
<1>3. /\ pc' = pc /\ answer' = answer /\ doomed' = doomed
      /\ to' = [to EXCEPT ![r][i] = owner]
      /\ UNCHANGED <<up, view, joins, crashes, calm, question, chain, told, executed>>
  BY DEF Retry, members
<1> HIDE DEF owner
<1>4. "connect" \in Place
  BY DEF Place
<1>5. Sets(Machine \cup {NoHash}, to, to', r, i, owner)
  BY <1>2, <1>3, Before, Changed DEF TypeOK
<1>6. Step(r, i, "connect", owner, answer[r][i])
  BY <1>1, <1>2, <1>3, <1>4, <1>5, Before DEF Step, Tells
<1>7. Allowed(r, i, "connect", owner, answer[r][i])
  BY <1>1, <1>2, Before DEF Allowed, ThreadInv
<1>8. QED
  BY <1>6, <1>7, OneThread

LEMMA LoseReplyStep ==
    ASSUME IInv, NEW r \in Request, NEW i \in 1..Len(chain[r]), LoseReply(r, i)
    PROVE  IInv'
<1>1. pc[r][i] = "wait"
  BY DEF LoseReply, At
<1>2. PICK error \in Errors : answer' = [answer EXCEPT ![r][i] = error]
  BY DEF LoseReply
<1>3. /\ pc' = [pc EXCEPT ![r][i] = "reply"] /\ to' = to /\ doomed' = doomed
      /\ UNCHANGED <<up, view, joins, crashes, calm, question, chain, told, executed>>
  BY DEF LoseReply, members
<1>4. "reply" \in Place
  BY DEF Place
<1>5. /\ Sets(Place, pc, pc', r, i, "reply")
      /\ Sets(Replies \cup Errors, answer, answer', r, i, error)
  BY <1>2, <1>3, <1>4, Before, Changed DEF TypeOK
<1>6. Step(r, i, "reply", to[r][i], error)
  BY <1>2, <1>3, <1>4, <1>5, Before DEF Step, Tells
<1>7. Allowed(r, i, "reply", to[r][i], error)
  BY <1>1, <1>2 DEF Allowed
<1>8. QED
  BY <1>6, <1>7, OneThread

LEMMA ReplicateStep ==
    ASSUME IInv, NEW r \in Request, NEW i \in 1..Len(chain[r]), Replicate(r, i)
    PROVE  IInv'
<1>1. pc[r][i] = "replicate"
  BY DEF Replicate, At
<1>2. PICK p \in {"perform", "join"} : pc' = [pc EXCEPT ![r][i] = p]
  BY DEF Replicate
<1>3. i = Len(chain[r]) /\ executed[r] = <<>> /\ chain[r][i] \in up
  BY <1>1, Before, Positions DEF ThreadInv
<1>4. /\ to' = to /\ answer' = answer /\ doomed' \subseteq doomed \cup {chain[r][i]}
      /\ UNCHANGED <<up, view, joins, crashes, calm, question, chain, told, executed>>
  BY DEF Replicate
<1>5. p \in Place
  BY DEF Place
<1>6. Sets(Place, pc, pc', r, i, p)
  BY <1>2, <1>5, Before, Changed DEF TypeOK
<1>7. Step(r, i, p, to[r][i], answer[r][i])
  BY <1>3, <1>4, <1>5, <1>6, Before DEF Step, Tells
<1>8. Allowed(r, i, p, to[r][i], answer[r][i])
  BY <1>1, <1>3, Before DEF Allowed, ThreadInv
<1>9. QED
  BY <1>7, <1>8, OneThread

\* Machine m goes down: its threads are dead, and nothing else changes.
LEMMA DownStep ==
    ASSUME IInv, NEW m \in Machine, Down(m), crashes' \in 0..MaxCrashes, executed' = executed
    PROVE  IInv'
<1>1. TypeOK /\ \A s \in Request : RequestInv(s)
  BY DEF IInv
<1>2. \A s \in Request :
          /\ DOMAIN pc[s] = 1..Len(chain[s]) /\ DOMAIN chain[s] = 1..Len(chain[s])
          /\ Len(pc[s]) = Len(chain[s]) /\ Len(chain[s]) \in Nat
  BY <1>1, Positions
<1>3. /\ up' = up \ {m} /\ doomed' = doomed \ {m}
      /\ calm' = [r \in Request |-> FALSE]
      /\ UNCHANGED <<view, joins, question, chain, to, answer, told>>
  BY DEF Down
<1>4. pc' = [s \in Request |-> [i \in 1..Len(chain[s]) |->
                 IF chain[s][i] = m THEN "dead" ELSE pc[s][i]]]
  BY <1>2 DEF Down
<1>5. ASSUME NEW s \in Request
      PROVE  pc'[s] \in Seq(Place) /\ Len(pc'[s]) = Len(chain[s])
  <2>1. \A i \in 1..Len(chain[s]) : pc[s][i] \in Place
    BY <1>1, <1>2, ElementOfSeq DEF TypeOK
  <2>2. pc'[s] \in [1..Len(chain[s]) -> Place]
    BY <1>4, <2>1 DEF Place
  <2>3. QED
    BY <1>2, <2>2
<1>6. \A s \in Request : \A i \in 1..Len(chain[s]) :
          pc'[s][i] = IF chain[s][i] = m THEN "dead" ELSE pc[s][i]
  BY <1>4
<1>7. TypeOK'
  <2>1. pc' \in [Request -> Seq(Place)]
    BY <1>4, <1>5
  <2>2. \A s \in Request : \A i \in DOMAIN chain[s] : pc'[s][i] = "connect" => to[s][i] \in Machine
    BY <1>1, <1>2, <1>6 DEF TypeOK
  <2>3. QED
    BY <1>1, <1>3, <1>5, <2>1, <2>2 DEF TypeOK
<1>8. ASSUME NEW s \in Request PROVE RequestInv(s)'
  <2>1. KeyHash(s)' = KeyHash(s) /\ Asked(s)' = Asked(s) /\ \A text : Heard(s, text)' = Heard(s, text)
    BY <1>3 DEF KeyHash, Asked, Heard
  <2>2. ASSUME NEW i \in 1..Len(chain[s]) PROVE ThreadInv(s, i)'
    <3>1. ThreadInv(s, i)
      BY <1>1 DEF RequestInv
    <3>2. QED
      BY <1>3, <1>6, <2>1, <3>1 DEF ThreadInv
  <2>3. \A i \in 1..(Len(chain[s]) - 1) : SentOn(s, i)'
    BY <1>1, <1>3, <2>1 DEF RequestInv, SentOn
  <2>4. QED
    BY <1>1, <1>3, <2>1, <2>2, <2>3 DEF RequestInv
<1>9. QED
  BY <1>7, <1>8 DEF IInv

LEMMA PerformStep ==
    ASSUME IInv, NEW r \in Request, NEW i \in 1..Len(chain[r]), Perform(r, i)
    PROVE  IInv'
<1> DEFINE E == [at : Machine, reply : Replies, command : {CommandOf[q] : q \in Question}]
<1>1. TypeOK /\ \A s \in Request : RequestInv(s)
  BY DEF IInv
<1>2. pc[r][i] = "perform" /\ pc' = [pc EXCEPT ![r][i] = "reply"]
  BY DEF Perform, At
<1>3. PICK reply \in Replies :
          /\ answer' = [answer EXCEPT ![r][i] = reply]
          /\ executed' = [executed EXCEPT ![r] =
                Append(executed[r], [at |-> chain[r][i], command |-> Given(r), reply |-> reply])]
  BY DEF Perform
<1>4. UNCHANGED <<members, question, chain, to, told>>
  BY DEF Perform
<1>5. i = Len(chain[r]) /\ executed[r] = <<>>
  BY <1>2, Before, Positions DEF ThreadInv
<1>6. "reply" \in Place
  BY DEF Place
<1>7. /\ Sets(Place, pc, pc', r, i, "reply")
      /\ Sets(Replies \cup Errors, answer, answer', r, i, reply)
  BY <1>1, <1>2, <1>3, <1>6, Before, Changed DEF TypeOK
<1> DEFINE e == [at |-> chain[r][i], command |-> Given(r), reply |-> reply]
<1>8. e \in E
  <2>1. chain[r][i] \in Machine
    BY <1>1, ElementOfSeq DEF TypeOK
  <2>2. question[r] \in Question
    <3>1. chain[r] # <<>>
      BY <1>1, Positions
    <3>2. QED
      BY <1>1, <3>1 DEF RequestInv, Asked, TypeOK
  <2>3. QED
    BY <2>1, <2>2 DEF Given
<1>9. executed \in [Request -> Seq(E)]
  BY <1>1 DEF TypeOK
<1> HIDE DEF E
<1>10. /\ executed' \in [Request -> Seq(E)]
       /\ Len(executed'[r]) = 1 /\ executed'[r][1] = e
       /\ \A s \in Request : s # r => executed'[s] = executed[s]
  <2> HIDE DEF e
  <2>1. executed' = [executed EXCEPT ![r] = Append(executed[r], e)]
    BY <1>3 DEF e
  <2>2. Len(executed[r]) = 0
    BY <1>5
  <2>3. QED
    BY <1>8, <1>9, <2>1, <2>2, Extended
<1>11. Heard(r, reply)' /\ \A text : ~ Heard(r, text)
  BY <1>5, <1>10 DEF Heard
<1>12. TypeOK'
  <2>1. executed' \in [Request -> Seq([at : Machine, reply : Replies,
                                       command : {CommandOf[q] : q \in Question}])]
    BY <1>10 DEF E
  <2>2. \A s \in Request : /\ DOMAIN chain[s] = 1..Len(chain[s])
                           /\ Len(pc[s]) = Len(chain[s]) /\ Len(answer[s]) = Len(chain[s])
    BY <1>1, Positions
  <2>3. \A s \in Request : \A j \in DOMAIN chain[s] :
            pc'[s][j] = "connect" => to[s][j] \in Machine
    <3>1. ASSUME NEW s \in Request, NEW j \in DOMAIN chain[s], pc'[s][j] = "connect"
          PROVE  to[s][j] \in Machine
      <4>1. ~ (s = r /\ j = i)
        BY <1>7, <2>2, <3>1 DEF Sets
      <4>2. pc'[s][j] = pc[s][j]
        BY <1>7, <2>2, <4>1 DEF Sets
      <4>3. QED
        BY <1>1, <3>1, <4>2 DEF TypeOK
    <3>2. QED
      BY <3>1
  <2>4. /\ pc' \in [Request -> Seq(Place)] /\ answer' \in [Request -> Seq(Replies \cup Errors)]
        /\ \A s \in Request : Len(pc'[s]) = Len(chain[s]) /\ Len(answer'[s]) = Len(chain[s])
    BY <1>7, <2>2 DEF Sets
  <2> HIDE DEF E, e
  <2>5. QED
    BY <1>1, <1>4, <2>1, <2>3, <2>4 DEF TypeOK, members
<1>13. ASSUME NEW s \in Request PROVE RequestInv(s)'
  <2>1. CASE s # r
    BY <1>4, <1>7, <1>10, <2>1, Untouched DEF Sets, members
  <2>2. CASE s = r
    <3>1. KeyHash(r)' = KeyHash(r) /\ Asked(r)' = Asked(r)
      BY <1>4 DEF KeyHash, Asked
    <3>2. Len(pc[r]) = Len(chain[r]) /\ Len(answer[r]) = Len(chain[r]) /\ Len(chain[r]) \in Nat
      BY <1>1, Positions
    <3>3. ASSUME NEW j \in 1..Len(chain[r]) PROVE ThreadInv(r, j)'
      <4>1. ThreadInv(r, j) /\ ThreadInv(r, i)
        BY <1>1 DEF RequestInv
      <4>2. /\ pc'[r][j] = IF j = i THEN "reply" ELSE pc[r][j]
            /\ answer'[r][j] = IF j = i THEN reply ELSE answer[r][j]
        BY <1>7, <3>2 DEF Sets
      <4>3. QED
        BY <1>2, <1>4, <1>5, <1>11, <3>1, <4>1, <4>2 DEF ThreadInv, members
    <3>4. \A j \in 1..(Len(chain[r]) - 1) : SentOn(r, j)'
      BY <1>1, <1>4, <3>1 DEF RequestInv, SentOn
    <3>5. told'[r] \in Errors \cup {NotYet}
      BY <1>1, <1>4, <1>11 DEF RequestInv
    <3>6. chain'[r] # <<>> /\ Asked(r)'
      BY <1>1, <1>4, <3>1, <3>2 DEF RequestInv
    <3>7. chain'[r] = chain[r] /\ Len(executed'[r]) <= 1
      BY <1>4, <1>10
    <3>8. \A j \in 1..Len(chain'[r]) : ThreadInv(r, j)'
      BY <3>3, <3>7
    <3>9. \A j \in 1..(Len(chain'[r]) - 1) : SentOn(r, j)'
      BY <3>4, <3>7
    <3>10. RequestInv(r)'
      BY <3>5, <3>6, <3>7, <3>8, <3>9 DEF RequestInv
    <3>11. QED
      BY <2>2, <3>10
  <2>3. QED
    BY <2>1, <2>2
<1>14. QED
  BY <1>12, <1>13 DEF IInv

LEMMA ConnectStep ==
    ASSUME IInv, NEW r \in Request, NEW i \in 1..Len(chain[r]), Connect(r, i)
    PROVE  IInv'
<1> DEFINE n == to[r][i]
           pcW == [pc EXCEPT ![r][i] = "wait"]
<1>1. TypeOK /\ (\A s \in Request : RequestInv(s)) /\ ThreadInv(r, i)
  BY Before DEF IInv
<1>2. pc[r][i] = "connect" /\ n \in up /\ n \in Machine
  BY <1>1 DEF Connect, At, TypeOK
<1>3. UNCHANGED <<members, question, told, executed>>
  BY DEF Connect
<1>4. i = Len(chain[r]) /\ executed[r] = <<>> /\ chain[r][i] \in up
  BY <1>1, <1>2, Positions DEF ThreadInv
<1>5. \A s \in Request : /\ DOMAIN chain[s] = 1..Len(chain[s]) /\ Len(chain[s]) \in Nat
                         /\ Len(pc[s]) = Len(chain[s]) /\ Len(to[s]) = Len(chain[s])
                         /\ Len(answer[s]) = Len(chain[s])
  BY <1>1, Positions
<1>6. "wait" \in Place /\ "route" \in Place
  BY DEF Place
<1>7. Sets(Place, pc, pcW, r, i, "wait")
  BY <1>1, <1>5, <1>6, Changed DEF TypeOK
<1> HIDE DEF n
<1>8. pc' = [pcW EXCEPT ![r] = Append(pcW[r], "route")]
  BY <1>1 DEF Connect, TypeOK
<1> HIDE DEF pcW
<1>9. /\ pc' \in [Request -> Seq(Place)]
      /\ Len(pc'[r]) = Len(chain[r]) + 1
      /\ \A s \in Request : s # r => pc'[s] = pc[s]
      /\ \A j \in 1..Len(chain[r]) : pc'[r][j] = IF j = i THEN "wait" ELSE pc[r][j]
      /\ pc'[r][Len(chain[r]) + 1] = "route"
  <2>1. pcW \in [Request -> Seq(Place)] /\ Len(pcW[r]) = Len(chain[r])
    BY <1>5, <1>7 DEF Sets
  <2> HIDE DEF Place
  <2>2. /\ pc' \in [Request -> Seq(Place)]
        /\ Len(pc'[r]) = Len(pcW[r]) + 1
        /\ \A s \in Request : s # r => pc'[s] = pcW[s]
        /\ \A j \in 1..Len(pcW[r]) : pc'[r][j] = pcW[r][j]
        /\ pc'[r][Len(pcW[r]) + 1] = "route"
    <3>1. pcW \in [Request -> Seq(Place)] /\ "route" \in Place
      BY <1>6, <2>1
    <3>2. QED
      BY <1>8, <3>1, Extended
  <2>3. QED
    BY <1>5, <1>7, <2>1, <2>2 DEF Sets
<1>10. /\ chain' \in [Request -> Seq(Machine)]
       /\ Len(chain'[r]) = Len(chain[r]) + 1
       /\ \A s \in Request : s # r => chain'[s] = chain[s]
       /\ \A j \in 1..Len(chain[r]) : chain'[r][j] = chain[r][j]
       /\ chain'[r][Len(chain[r]) + 1] = n
  <2>1. chain' = [chain EXCEPT ![r] = Append(chain[r], n)] /\ chain \in [Request -> Seq(Machine)]
    BY <1>1 DEF Connect, TypeOK, n
  <2>2. QED
    BY <1>2, <2>1, Extended
<1>11. /\ to' \in [Request -> Seq(Machine \cup {NoHash})]
       /\ Len(to'[r]) = Len(chain[r]) + 1
       /\ \A s \in Request : s # r => to'[s] = to[s]
       /\ \A j \in 1..Len(chain[r]) : to'[r][j] = to[r][j]
  <2> DEFINE S == Machine \cup {NoHash}
  <2>1. NoHash \in S /\ to \in [Request -> Seq(S)] /\ to' = [to EXCEPT ![r] = Append(to[r], NoHash)]
    BY <1>1 DEF Connect, TypeOK
  <2> HIDE DEF S
  <2>2. /\ to' \in [Request -> Seq(S)]
        /\ Len(to'[r]) = Len(to[r]) + 1
        /\ \A s \in Request : s # r => to'[s] = to[s]
        /\ \A j \in 1..Len(to[r]) : to'[r][j] = to[r][j]
    BY <2>1, Extended
  <2>3. QED
    BY <1>5, <2>2 DEF S
<1>12. /\ answer' \in [Request -> Seq(Replies \cup Errors)]
       /\ Len(answer'[r]) = Len(chain[r]) + 1
       /\ \A s \in Request : s # r => answer'[s] = answer[s]
       /\ \A j \in 1..Len(chain[r]) : answer'[r][j] = answer[r][j]
       /\ answer'[r][Len(chain[r]) + 1] = NoText
  <2>1. /\ answer' = [answer EXCEPT ![r] = Append(answer[r], NoText)]
        /\ answer \in [Request -> Seq(Replies \cup Errors)] /\ Len(answer[r]) = Len(chain[r])
        /\ NoText \in Replies \cup Errors
    BY <1>1, <1>5 DEF Connect, TypeOK, Errors
  <2>2. QED
    BY <2>1, Extended
<1>13. TypeOK'
  <2>1. \A s \in Request : /\ Len(pc'[s]) = Len(chain'[s]) /\ Len(to'[s]) = Len(chain'[s])
                           /\ Len(answer'[s]) = Len(chain'[s])
    BY <1>5, <1>9, <1>10, <1>11, <1>12
  <2>2. ASSUME NEW s \in Request, NEW j \in DOMAIN chain'[s], pc'[s][j] = "connect"
        PROVE  to'[s][j] \in Machine
    <3>1. CASE s # r
      BY <1>1, <1>9, <1>10, <1>11, <2>2, <3>1 DEF TypeOK
    <3>2. CASE s = r
      <4>1. j \in 1..(Len(chain[r]) + 1)
        <5>1. chain'[r] \in Seq(Machine)
          BY <1>10
        <5>2. DOMAIN chain'[r] = 1..Len(chain'[r])
          BY <5>1, LenProperties
        <5>3. QED
          BY <1>10, <2>2, <3>2, <5>2
      <4>2. j # i /\ j # Len(chain[r]) + 1
        BY <1>9, <1>4, <1>5, <2>2, <3>2
      <4>3. j \in 1..Len(chain[r])
        BY <1>5, <4>1, <4>2
      <4>4. pc'[r][j] = pc[r][j] /\ to'[r][j] = to[r][j]
        BY <1>9, <1>11, <4>2, <4>3
      <4>5. QED
        BY <1>1, <1>5, <2>2, <3>2, <4>3, <4>4 DEF TypeOK
    <3>3. QED
      BY <3>1, <3>2
  <2>3. QED
    BY <1>1, <1>3, <1>9, <1>10, <1>11, <1>12, <2>1, <2>2 DEF TypeOK, members
<1>14. KeyHash(r)' = KeyHash(r) /\ Asked(r)' = Asked(r)
       /\ \A text : Heard(r, text)' = Heard(r, text)
  BY <1>3 DEF KeyHash, Asked, Heard
<1>15. ASSUME NEW j \in 1..(Len(chain[r]) + 1) PROVE ThreadInv(r, j)'
  <2>1. CASE j = Len(chain[r]) + 1
    BY <1>2, <1>3, <1>4, <1>5, <1>9, <1>10, <1>12, <1>14, <2>1 DEF ThreadInv, members, Errors
  <2>2. CASE j \in 1..Len(chain[r])
    <3>1. ThreadInv(r, j)
      BY <1>1, <2>2 DEF RequestInv
    <3>2. /\ chain'[r][j] = chain[r][j] /\ to'[r][j] = to[r][j] /\ answer'[r][j] = answer[r][j]
          /\ pc'[r][j] = IF j = i THEN "wait" ELSE pc[r][j]
      BY <1>9, <1>10, <1>11, <1>12, <2>2
    <3>3. QED
      BY <1>3, <1>4, <1>5, <1>10, <1>14, <2>2, <3>1, <3>2 DEF ThreadInv, members
  <2>3. QED
    BY <1>5, <2>1, <2>2
<1>16. ASSUME NEW j \in 1..Len(chain[r]) PROVE SentOn(r, j)'
  <2>1. CASE j = i
    <3>1. Distance(n, KeyHash(r)) <= Distance(chain[r][i], KeyHash(r))
      BY <1>1, <1>2 DEF ThreadInv, n
    <3>2. QED
      BY <1>4, <1>5, <1>10, <1>14, <2>1, <3>1 DEF SentOn
  <2>2. CASE j # i
    <3>1. j \in 1..(Len(chain[r]) - 1) /\ j + 1 \in 1..Len(chain[r])
      BY <1>4, <1>5, <2>2
    <3>2. SentOn(r, j)
      BY <1>1, <3>1 DEF RequestInv
    <3>3. QED
      BY <1>10, <1>14, <3>1, <3>2 DEF SentOn
  <2>3. QED
    BY <2>1, <2>2
<1>17. ASSUME NEW s \in Request PROVE RequestInv(s)'
  <2>1. CASE s # r
    BY <1>3, <1>9, <1>10, <1>11, <1>12, <2>1, Untouched DEF members
  <2>2. CASE s = r
    <3>1. chain'[r] # <<>> /\ Asked(r)'
      <4>1. Len(chain[r]) # 0 /\ Len(chain'[r]) # 0
        BY <1>5, <1>10
      <4>2. chain[r] # <<>> /\ chain'[r] # <<>>
        BY <4>1
      <4>3. QED
        BY <1>1, <1>14, <4>2 DEF RequestInv
    <3>2. Len(executed'[r]) <= 1 /\ (told[r] \in Errors \cup {NotYet} \/ Heard(r, told[r]))'
      BY <1>1, <1>3, <1>14 DEF RequestInv
    <3>3. \A j \in 1..Len(chain'[r]) : ThreadInv(r, j)'
      BY <1>10, <1>15
    <3>4. \A j \in 1..(Len(chain'[r]) - 1) : SentOn(r, j)'
      BY <1>5, <1>10, <1>16
    <3>5. RequestInv(r)'
      BY <3>1, <3>2, <3>3, <3>4 DEF RequestInv
    <3>6. QED
      BY <2>2, <3>5
  <2>3. QED
    BY <2>1, <2>2
<1>18. QED
  BY <1>13, <1>17 DEF IInv

\* The last text of a chain goes to the client.
LEMMA TellStep ==
    ASSUME IInv, NEW r \in Request, NEW i \in 1..Len(chain[r]), Reply(r, i), i = 1
    PROVE  IInv'
<1>1. pc[r][i] = "reply"
  BY DEF Reply, At
<1>2. /\ told' = [told EXCEPT ![r] = answer[r][i]] /\ pc' = [pc EXCEPT ![r][i] = "done"]
      /\ answer' = answer /\ to' = to /\ doomed' = doomed
      /\ UNCHANGED <<up, view, joins, crashes, calm, question, chain, executed>>
  BY DEF Reply, members
<1>3. Tells(r)
  BY <1>2, Before DEF Tells, ThreadInv
<1>4. "done" \in Place
  BY DEF Place
<1>5. Sets(Place, pc, pc', r, i, "done")
  BY <1>2, <1>4, Before, Changed DEF TypeOK
<1>6. Step(r, i, "done", to[r][i], answer[r][i])
  BY <1>2, <1>3, <1>4, <1>5, Before DEF Step
<1>7. Allowed(r, i, "done", to[r][i], answer[r][i])
  BY <1>1, Before DEF Allowed, ThreadInv
<1>8. QED
  BY <1>6, <1>7, OneThread

\* A text goes from one thread of the chain to the one before it, which takes it for
\* its own answer: it never is the text the loop looks for.
LEMMA PassOnStep ==
    ASSUME IInv, NEW r \in Request, NEW i \in 1..Len(chain[r]), Reply(r, i), i # 1
    PROVE  IInv'
<1> DEFINE h  == i - 1
           a  == answer[r][i]
           pcD == [pc EXCEPT ![r][i] = "done"]
<1>1. TypeOK /\ (\A s \in Request : RequestInv(s)) /\ ThreadInv(r, i)
  BY Before DEF IInv
<1>2. \A s \in Request : /\ DOMAIN chain[s] = 1..Len(chain[s]) /\ Len(chain[s]) \in Nat
                         /\ Len(pc[s]) = Len(chain[s]) /\ Len(answer[s]) = Len(chain[s])
  BY <1>1, Positions
<1>3. h \in 1..Len(chain[r]) /\ h < i /\ h < Len(chain[r])
  BY <1>2
<1>4. a \in Replies \cup Errors /\ a # NoConnect
  <2>1. a \in Replies \cup Errors
    BY Before
  <2>2. NoConnect \notin Errors
    BY DEF NoConnect, Errors, NoReceive, NoSend, NoText
  <2>3. QED
    BY <2>1, <2>2
<1>5. /\ pc[r][i] = "reply" /\ pc[r][h] = "wait"
      /\ UNCHANGED <<members, question, chain, to, executed, told>>
  BY DEF Reply, At
<1>6. /\ pc' = [pcD EXCEPT ![r][h] = "reply"]
      /\ answer' = [answer EXCEPT ![r][h] = a]
  BY <1>4 DEF Reply
<1>7. "done" \in Place /\ "reply" \in Place
  BY DEF Place
<1>8. Sets(Place, pc, pcD, r, i, "done")
  BY <1>1, <1>2, <1>7, Changed DEF TypeOK
<1> HIDE DEF pcD
<1>9. Sets(Place, pcD, pc', r, h, "reply")
  <2> HIDE DEF Place, h
  <2>1. pcD \in [Request -> Seq(Place)] /\ h \in 1..Len(pcD[r]) /\ "reply" \in Place
    BY <1>2, <1>3, <1>7, <1>8 DEF Sets
  <2>2. QED
    BY <1>6, <2>1, Changed
<1>10. Sets(Replies \cup Errors, answer, answer', r, h, a)
  <2> HIDE DEF a, h
  <2>1. QED
    BY <1>1, <1>2, <1>3, <1>4, <1>6, Changed DEF TypeOK
<1>11. \A j \in 1..Len(chain[r]) :
          /\ pc'[r][j] = IF j = i THEN "done" ELSE IF j = h THEN "reply" ELSE pc[r][j]
          /\ answer'[r][j] = IF j = h THEN a ELSE answer[r][j]
  <2> HIDE DEF Place, h, a
  <2>1. Len(pcD[r]) = Len(chain[r]) /\ Len(pc[r]) = Len(chain[r]) /\ Len(answer[r]) = Len(chain[r])
    BY <1>2, <1>8 DEF Sets
  <2>2. /\ \A j \in 1..Len(chain[r]) : pcD[r][j] = IF j = i THEN "done" ELSE pc[r][j]
        /\ \A j \in 1..Len(chain[r]) : pc'[r][j] = IF j = h THEN "reply" ELSE pcD[r][j]
        /\ \A j \in 1..Len(chain[r]) : answer'[r][j] = IF j = h THEN a ELSE answer[r][j]
    BY <2>1, <1>8, <1>9, <1>10 DEF Sets
  <2>3. h # i
    BY <1>2, <1>3
  <2>4. QED
    BY <2>2, <2>3
<1>12. \A s \in Request : s # r => pc'[s] = pc[s] /\ answer'[s] = answer[s]
  BY <1>8, <1>9, <1>10 DEF Sets
<1> HIDE DEF h, a
<1>13. TypeOK'
  <2>1. /\ pc' \in [Request -> Seq(Place)] /\ answer' \in [Request -> Seq(Replies \cup Errors)]
        /\ \A s \in Request : Len(pc'[s]) = Len(chain[s]) /\ Len(answer'[s]) = Len(chain[s])
    BY <1>2, <1>8, <1>9, <1>10 DEF Sets
  <2>2. ASSUME NEW s \in Request, NEW j \in DOMAIN chain[s], pc'[s][j] = "connect"
        PROVE  to[s][j] \in Machine
    <3>1. pc'[s][j] = pc[s][j]
      BY <1>2, <1>11, <1>12, <2>2
    <3>2. QED
      BY <1>1, <2>2, <3>1 DEF TypeOK
  <2>3. QED
    BY <1>1, <1>5, <2>1, <2>2 DEF TypeOK, members
<1>14. ASSUME NEW s \in Request PROVE RequestInv(s)'
  <2>1. CASE s # r
    BY <1>5, <1>12, <2>1, Untouched DEF members
  <2>2. CASE s = r
    <3>1. /\ KeyHash(r)' = KeyHash(r) /\ Asked(r)' = Asked(r)
          /\ \A text : Heard(r, text)' = Heard(r, text)
      BY <1>5 DEF KeyHash, Asked, Heard
    <3>2. ASSUME NEW j \in 1..Len(chain[r]) PROVE ThreadInv(r, j)'
      <4>1. ThreadInv(r, j) /\ ThreadInv(r, h)
        BY <1>1, <1>3 DEF RequestInv
      <4>2. a \in Errors \/ Heard(r, a)
        BY <1>1 DEF ThreadInv, a
      <4>3. /\ pc'[r][j] = IF j = i THEN "done" ELSE IF j = h THEN "reply" ELSE pc[r][j]
            /\ answer'[r][j] = IF j = h THEN a ELSE answer[r][j]
        BY <1>11
      <4>4. QED
        BY <1>1, <1>3, <1>5, <3>1, <4>1, <4>2, <4>3 DEF ThreadInv, members
    <3>3. QED
      BY <1>1, <1>5, <2>2, <3>1, <3>2 DEF RequestInv, SentOn
  <2>3. QED
    BY <2>1, <2>2
<1>15. QED
  BY <1>13, <1>14 DEF IInv

LEMMA ReplyToNobodyStep ==
    ASSUME IInv, NEW r \in Request, NEW i \in 1..Len(chain[r]), ReplyToNobody(r, i)
    PROVE  IInv'
<1>1. pc[r][i] = "reply" /\ chain[r][i] \in Machine /\ crashes \in 0..MaxCrashes
  <2>1. TypeOK /\ chain[r] \in Seq(Machine)
    BY Before DEF TypeOK
  <2>2. QED
    BY <2>1, ElementOfSeq DEF ReplyToNobody, At, TypeOK
<1>2. CASE Down(chain[r][i]) /\ UNCHANGED <<crashes, executed>>
  BY <1>1, <1>2, DownStep
<1>3. CASE /\ pc' = [pc EXCEPT ![r][i] = "done"]
           /\ UNCHANGED <<members, question, chain, to, answer, told, executed>>
  <2>1. "done" \in Place
    BY DEF Place
  <2>2. Sets(Place, pc, pc', r, i, "done")
    BY <1>3, <2>1, Before, Changed DEF TypeOK
  <2>3. Step(r, i, "done", to[r][i], answer[r][i])
    BY <1>3, <2>1, <2>2, Before DEF Step, Tells, members
  <2>4. Allowed(r, i, "done", to[r][i], answer[r][i])
    BY <1>1, Before DEF Allowed, ThreadInv
  <2>5. QED
    BY <2>3, <2>4, OneThread
<1>4. QED
  BY <1>2, <1>3 DEF ReplyToNobody

LEMMA ClientLosesStep ==
    ASSUME IInv, NEW r \in Request, ClientLoses(r)
    PROVE  IInv'
<1>1. Asked(r) /\ pc[r][1] = "dead"
  BY DEF ClientLoses
<1>2. PICK error \in Errors : told' = [told EXCEPT ![r] = error]
  BY DEF ClientLoses
<1>3. UNCHANGED <<members, question, threads, executed>>
  BY DEF ClientLoses
<1>4. TypeOK'
  BY <1>2, <1>3 DEF IInv, TypeOK, members, threads
<1>5. ASSUME NEW s \in Request PROVE RequestInv(s)'
  <2>1. CASE s # r
    <3>1. told'[s] = told[s]
      BY <1>2, <2>1 DEF IInv, TypeOK
    <3>2. QED
      BY <1>3, <3>1, Untouched DEF members, threads
  <2>2. CASE s = r
    <3>1. RequestInv(r)
      BY DEF IInv
    <3>2. /\ KeyHash(r)' = KeyHash(r) /\ Asked(r)' = Asked(r)
          /\ \A text : Heard(r, text)' = Heard(r, text)
      BY <1>3 DEF KeyHash, Asked, Heard
    <3>3. \A j \in 1..Len(chain[r]) : ThreadInv(r, j)'
      BY <1>3, <3>1, <3>2 DEF RequestInv, ThreadInv, members, threads
    <3>4. told'[r] \in Errors
      BY <1>2 DEF IInv, TypeOK
    <3>5. QED
      BY <1>3, <2>2, <3>1, <3>2, <3>3, <3>4 DEF RequestInv, SentOn, threads
  <2>3. QED
    BY <2>1, <2>2
<1>6. QED
  BY <1>4, <1>5 DEF IInv

\* A client connects: a chain of one.
LEMMA AskStep ==
    ASSUME IInv, NEW r \in Request, NEW m \in Machine, Ask(r, m)
    PROVE  IInv'
<1>1. TypeOK /\ \A s \in Request : RequestInv(s)
  BY DEF IInv
<1>2. PICK q \in Question : question' = [question EXCEPT ![r] = q]
  BY DEF Ask
<1>3. /\ m \in up /\ chain[r] = <<>>
      /\ chain' = [chain EXCEPT ![r] = <<m>>] /\ pc' = [pc EXCEPT ![r] = <<"route">>]
      /\ to' = [to EXCEPT ![r] = <<NoHash>>] /\ answer' = [answer EXCEPT ![r] = <<NoText>>]
      /\ calm' = [calm EXCEPT ![r] = Agreed]
      /\ UNCHANGED <<up, view, joins, crashes, doomed, told, executed>>
  BY <1>1 DEF Ask, RequestInv
<1>4. Agreed \in BOOLEAN
  BY DEF Agreed
<1>5. /\ chain'[r] = <<m>> /\ pc'[r] = <<"route">> /\ to'[r] = <<NoHash>>
      /\ answer'[r] = <<NoText>> /\ question'[r] = q /\ executed'[r] = <<>>
  BY <1>1, <1>2, <1>3 DEF TypeOK, RequestInv
<1>6. \A s \in Request : s # r =>
          /\ chain'[s] = chain[s] /\ pc'[s] = pc[s] /\ to'[s] = to[s]
          /\ answer'[s] = answer[s] /\ question'[s] = question[s]
  BY <1>1, <1>2, <1>3 DEF TypeOK
<1>7. TypeOK'
  <2>1. /\ <<"route">> \in Seq(Place) /\ <<m>> \in Seq(Machine)
        /\ <<NoHash>> \in Seq(Machine \cup {NoHash}) /\ <<NoText>> \in Seq(Replies \cup Errors)
    BY DEF Place, Errors
  <2>2. /\ chain' \in [Request -> Seq(Machine)] /\ pc' \in [Request -> Seq(Place)]
        /\ to' \in [Request -> Seq(Machine \cup {NoHash})]
        /\ answer' \in [Request -> Seq(Replies \cup Errors)]
        /\ calm' \in [Request -> BOOLEAN]
        /\ question' \in [Request -> Question \cup {NoQuestion}]
    BY <1>1, <1>2, <1>3, <1>4, <2>1 DEF TypeOK
  <2>3. ASSUME NEW s \in Request
        PROVE  /\ Len(pc'[s]) = Len(chain'[s]) /\ Len(to'[s]) = Len(chain'[s])
               /\ Len(answer'[s]) = Len(chain'[s])
               /\ \A i \in DOMAIN chain'[s] : pc'[s][i] = "connect" => to'[s][i] \in Machine
    <3>1. CASE s = r
      BY <1>5, <3>1
    <3>2. CASE s # r
      BY <1>1, <1>6, <3>2 DEF TypeOK
    <3>3. QED
      BY <3>1, <3>2
  <2>4. QED
    BY <1>1, <1>3, <2>2, <2>3 DEF TypeOK
<1>8. ASSUME NEW s \in Request PROVE RequestInv(s)'
  <2>1. CASE s # r
    BY <1>3, <1>6, <2>1, Untouched
  <2>2. CASE s = r
    <3>1. Asked(r)'
      BY <1>5 DEF Asked
    <3>2. told[r] \in Errors \cup {NotYet}
      BY <1>1, <1>3 DEF RequestInv, Heard
    <3>3. \A j \in 1..Len(chain'[r]) : ThreadInv(r, j)'
      BY <1>3, <1>5 DEF ThreadInv, Errors
    <3>4. Len(executed'[r]) <= 1 /\ 1..(Len(chain'[r]) - 1) = {} /\ chain'[r] # <<>>
      BY <1>5
    <3>5. told'[r] \in Errors \cup {NotYet}
      BY <1>3, <3>2
    <3>6. RequestInv(r)'
      BY <3>1, <3>3, <3>4, <3>5 DEF RequestInv
    <3>7. QED
      BY <2>2, <3>6
  <2>3. QED
    BY <2>1, <2>2
<1>9. QED
  BY <1>7, <1>8 DEF IInv

\* A machine that starts, or hears of another one.
LEMMA MembersStep ==
    ASSUME IInv, NEW m \in Machine, NEW x \in Machine,
           Join(m) \/ AddToList(m, x) \/ RemoveFromList(m, x)
    PROVE  IInv'
<1>1. /\ up \subseteq up'
      /\ UNCHANGED <<question, chain, pc, to, answer, told, executed>>
  BY DEF Join, AddToList, RemoveFromList, threads
<1>2. \A s \in Request : RequestInv(s)'
  BY <1>1, Untouched
<1>3. /\ up' \subseteq Machine /\ doomed' \subseteq up'
      /\ view' \in [Machine -> SUBSET Machine]
      /\ joins' \in 0..MaxJoins /\ crashes' \in 0..MaxCrashes
      /\ calm' \in [Request -> BOOLEAN]
  <2>1. CASE Join(m)
    <3>1. up' \subseteq Machine /\ doomed' \subseteq up' /\ calm' \in [Request -> BOOLEAN]
      BY <2>1 DEF Join, IInv, TypeOK
    <3>2. view' \in [Machine -> SUBSET Machine] /\ crashes' \in 0..MaxCrashes
      BY <2>1 DEF Join, IInv, TypeOK
    <3>3. joins' \in 0..MaxJoins
      BY <2>1 DEF Join, IInv, TypeOK
    <3>4. QED
      BY <3>1, <3>2, <3>3
  <2>2. CASE AddToList(m, x)
    BY <2>2 DEF AddToList, IInv, TypeOK
  <2>3. CASE RemoveFromList(m, x)
    BY <2>3 DEF RemoveFromList, IInv, TypeOK
  <2>4. QED
    BY <2>1, <2>2, <2>3
<1>4. ASSUME NEW n \in up' PROVE n \in view'[n]
  <2>1. /\ n \in Machine /\ view \in [Machine -> SUBSET Machine]
        /\ n \in up => n \in view[n]
    BY <1>3 DEF IInv, TypeOK
  <2>2. CASE Join(m)
    BY <2>1, <2>2 DEF Join
  <2>3. CASE AddToList(m, x)
    BY <2>1, <2>3 DEF AddToList
  <2>4. CASE RemoveFromList(m, x)
    BY <2>1, <2>4 DEF RemoveFromList
  <2>5. QED
    BY <2>2, <2>3, <2>4
<1>5. TypeOK'
  BY <1>1, <1>3, <1>4 DEF IInv, TypeOK
<1>6. QED
  BY <1>2, <1>5 DEF IInv

LEMMA InitStep == Init => IInv
<1> SUFFICES ASSUME Init PROVE IInv
  OBVIOUS
<1>1. TypeOK
  BY DEF Init, TypeOK, Place, Errors
<1>2. \A s \in Request : RequestInv(s)
  BY DEF Init, RequestInv
<1>3. QED
  BY <1>1, <1>2 DEF IInv

LEMMA Inductive == IInv /\ [Next]_vars => IInv'
<1> SUFFICES ASSUME IInv, [Next]_vars PROVE IInv'
  OBVIOUS
<1>1. CASE UNCHANGED vars
  <2>1. /\ up \subseteq up' /\ doomed' = doomed
        /\ UNCHANGED <<question, chain, pc, to, answer, told, executed>>
        /\ UNCHANGED <<up, view, joins, crashes, calm>>
    BY <1>1 DEF vars, members, threads
  <2>2. \A s \in Request : RequestInv(s)'
    BY <2>1, Untouched
  <2>3. QED
    BY <2>1, <2>2 DEF IInv, TypeOK
<1>2. ASSUME NEW m \in Machine, Join(m) PROVE IInv'
  BY <1>2, MembersStep
<1>3. ASSUME NEW m \in Machine, Crash(m) \/ Terminate(m) PROVE IInv'
  <2>1. Down(m) /\ crashes' \in 0..MaxCrashes /\ executed' = executed
    BY <1>3 DEF Crash, Terminate, IInv, TypeOK
  <2>2. QED
    BY <2>1, DownStep
<1>4. ASSUME NEW m \in Machine, NEW x \in Machine, AddToList(m, x) \/ RemoveFromList(m, x)
      PROVE  IInv'
  BY <1>4, MembersStep
<1>5. ASSUME NEW r \in Request, NEW m \in Machine, Ask(r, m) PROVE IInv'
  BY <1>5, AskStep
<1>6. ASSUME NEW r \in Request, ClientLoses(r) PROVE IInv'
  BY <1>6, ClientLosesStep
<1>7. ASSUME NEW r \in Request, NEW i \in DOMAIN chain[r], Thread(r, i) PROVE IInv'
  <2>1. i \in 1..Len(chain[r])
    BY Positions DEF IInv
  <2>2. CASE Route(r, i)
    BY <2>1, <2>2, RouteStep
  <2>3. CASE Connect(r, i)
    BY <2>1, <2>3, ConnectStep
  <2>4. CASE Retry(r, i)
    BY <2>1, <2>4, RetryStep
  <2>5. CASE LoseReply(r, i)
    BY <2>1, <2>5, LoseReplyStep
  <2>6. CASE Replicate(r, i)
    BY <2>1, <2>6, ReplicateStep
  <2>7. CASE Perform(r, i)
    BY <2>1, <2>7, PerformStep
  <2>8. CASE Reply(r, i)
    BY <2>1, <2>8, TellStep, PassOnStep
  <2>9. CASE ReplyThrows(r, i)
    <3>1. chain[r][i] \in Machine /\ crashes \in 0..MaxCrashes
      BY <2>1, ElementOfSeq DEF IInv, TypeOK
    <3>2. QED
      BY <2>9, <3>1, DownStep DEF ReplyThrows
  <2>10. CASE ReplyToNobody(r, i)
    BY <2>1, <2>10, ReplyToNobodyStep
  <2>11. QED
    BY <1>7, <2>2, <2>3, <2>4, <2>5, <2>6, <2>7, <2>8, <2>9, <2>10 DEF Thread
<1>8. QED
  BY <1>1, <1>2, <1>3, <1>4, <1>5, <1>6, <1>7 DEF Next

THEOREM Invariant == Spec => []IInv
<1>1. Init => IInv
  BY InitStep
<1>2. IInv /\ [Next]_vars => IInv'
  BY Inductive
<1>3. QED
  BY <1>1, <1>2, PTL DEF Spec
--------------------------------------------------------------------------------
(* What is executed, and where as long as all machines see the same ring         *)

OwnerNow(r) == OwnerHash(up, KeyHash(r))

\* A thread in place p, which asks machine t, when all machines have seen one ring:
\* it is about to ask the owner, and is the first; or it is on the owner.
CalmPlace(r, i, p, t) ==
    /\ p = "connect" => ~Local(Given(r)) /\ Len(chain[r]) = 1 /\ t = OwnerNow(r)
    /\ p \in {"replicate", "join", "perform"} /\ ~Local(Given(r)) => chain[r][i] = OwnerNow(r)

CalmRest(r) ==
    /\ Agreed
    /\ Len(chain[r]) <= 2
    /\ Len(chain[r]) = 2 => ~Local(Given(r)) /\ chain[r][2] = OwnerNow(r)
    /\ ~Local(Given(r)) => \A j \in 1..Len(executed[r]) : executed[r][j].at = OwnerNow(r)

Calm(r) == CalmRest(r) /\ \A i \in 1..Len(chain[r]) : CalmPlace(r, i, pc[r][i], to[r][i])

\* What is executed is what the first server has read.
Faithful(r) == \A j \in 1..Len(executed[r]) : executed[r][j].command = Given(r)

CalmInv == \A r \in Request : Faithful(r) /\ (Asked(r) /\ calm[r] => Calm(r))

\* A request to which nothing happens, unless it is no longer calm.
LEMMA StaysCalm ==
    ASSUME CalmInv, NEW s \in Request,
           chain'[s] = chain[s], pc'[s] = pc[s], to'[s] = to[s],
           executed'[s] = executed[s], question'[s] = question[s],
           Asked(s) /\ calm'[s] => calm[s] /\ up' = up /\ view' = view
    PROVE  (Faithful(s) /\ (Asked(s) /\ calm[s] => Calm(s)))'
<1>1. Given(s)' = Given(s) /\ KeyHash(s)' = KeyHash(s) /\ Asked(s)' = Asked(s)
  BY DEF Given, KeyHash, Asked
<1>2. Faithful(s) /\ (Asked(s) /\ calm[s] => Calm(s))
  BY DEF CalmInv
<1>3. Faithful(s)'
  BY <1>1, <1>2 DEF Faithful
<1>4. ASSUME Asked(s)', calm'[s] PROVE Calm(s)'
  <2>1. up' = up /\ view' = view /\ Calm(s)
    BY <1>1, <1>2, <1>4
  <2>2. Agreed' = Agreed /\ OwnerNow(s)' = OwnerNow(s)
    BY <1>1, <2>1 DEF Agreed, OwnerNow
  <2>3. CalmRest(s)'
    BY <1>1, <2>1, <2>2 DEF Calm, CalmRest
  <2>4. ASSUME NEW i \in 1..Len(chain[s]) PROVE CalmPlace(s, i, pc[s][i], to[s][i])'
    BY <1>1, <2>1, <2>2 DEF Calm, CalmPlace
  <2>5. QED
    BY <2>3, <2>4 DEF Calm
<1>5. QED
  BY <1>3, <1>4

\* The threads of request r go to other places, or ask other machines.
LEMMA ThreadsMove ==
    ASSUME CalmInv, NEW r \in Request,
           UNCHANGED <<up, view, calm, question, chain, executed>>,
           \A s \in Request : s # r => pc'[s] = pc[s] /\ to'[s] = to[s],
           Asked(r) /\ calm[r] =>
               \A j \in 1..Len(chain[r]) : CalmPlace(r, j, pc'[r][j], to'[r][j])
    PROVE  CalmInv'
<1>1. ASSUME NEW s \in Request, s # r
      PROVE  (Faithful(s) /\ (Asked(s) /\ calm[s] => Calm(s)))'
  BY <1>1, StaysCalm
<1>2. Given(r)' = Given(r) /\ KeyHash(r)' = KeyHash(r) /\ Asked(r)' = Asked(r)
  BY DEF Given, KeyHash, Asked
<1>3. Faithful(r)'
  BY <1>2 DEF CalmInv, Faithful
<1>4. ASSUME Asked(r)', calm'[r] PROVE Calm(r)'
  <2>1. Calm(r) /\ \A j \in 1..Len(chain[r]) : CalmPlace(r, j, pc'[r][j], to'[r][j])
    BY <1>2, <1>4 DEF CalmInv
  <2>2. Agreed' = Agreed /\ OwnerNow(r)' = OwnerNow(r)
    BY <1>2 DEF Agreed, OwnerNow
  <2>3. CalmRest(r)'
    BY <1>2, <2>1, <2>2 DEF Calm, CalmRest
  <2>4. ASSUME NEW j \in 1..Len(chain[r]) PROVE CalmPlace(r, j, pc[r][j], to[r][j])'
    BY <1>2, <2>1, <2>2 DEF CalmPlace
  <2>5. QED
    BY <2>3, <2>4 DEF Calm
<1>5. QED
  BY <1>1, <1>3, <1>4 DEF CalmInv

\* One thread goes to another place.
LEMMA PlaceSet ==
    ASSUME IInv, NEW r \in Request, NEW i \in 1..Len(chain[r]), NEW p \in Place,
           pc' = [pc EXCEPT ![r][i] = p]
    PROVE  /\ \A s \in Request : s # r => pc'[s] = pc[s]
           /\ \A j \in 1..Len(chain[r]) : pc'[r][j] = IF j = i THEN p ELSE pc[r][j]
<1>1. TypeOK /\ i \in 1..Len(pc[r]) /\ Len(pc[r]) = Len(chain[r])
  BY Before, Positions
<1>2. Sets(Place, pc, pc', r, i, p)
  BY <1>1, Changed DEF TypeOK
<1>3. QED
  BY <1>1, <1>2 DEF Sets

\* One thread asks another machine.
LEMMA AskedSet ==
    ASSUME IInv, NEW r \in Request, NEW i \in 1..Len(chain[r]), NEW t \in Machine,
           to' = [to EXCEPT ![r][i] = t]
    PROVE  /\ \A s \in Request : s # r => to'[s] = to[s]
           /\ \A j \in 1..Len(chain[r]) : to'[r][j] = IF j = i THEN t ELSE to[r][j]
<1>1. TypeOK /\ i \in 1..Len(to[r]) /\ Len(to[r]) = Len(chain[r])
  BY Before, Positions
<1>2. Sets(Machine \cup {NoHash}, to, to', r, i, t)
  BY <1>1, Changed DEF TypeOK
<1>3. QED
  BY <1>1, <1>2 DEF Sets

\* In calm a thread finds the owner, a machine that runs.
LEMMA SeesTheOwner ==
    ASSUME IInv, CalmInv, NEW r \in Request, NEW i \in 1..Len(chain[r]), pc[r][i] # "dead",
           Asked(r), calm[r]
    PROVE  OwnerSeen(chain[r][i], KeyHash(r)) = OwnerNow(r) /\ OwnerNow(r) \in up
<1>1. chain[r][i] \in up /\ up \subseteq Hash
  BY Before DEF ThreadInv, TypeOK
<1>2. Agreed
  BY DEF CalmInv, Calm, CalmRest
<1>3. KeyHash(r) \in Hash
  BY DEF KeyHash, Asked, IInv, TypeOK
<1>4. OwnerNow(r) \in up
  BY <1>1, <1>3, OwnerOnRing DEF OwnerNow
<1>5. QED
  BY <1>1, <1>2, <1>4 DEF Agreed, OwnerSeen, OwnerNow

\* A thread goes to a place where nothing is asked or executed.
LEMMA HarmlessMove ==
    ASSUME IInv, CalmInv, NEW r \in Request, NEW i \in 1..Len(chain[r]),
           NEW p \in {"wait", "reply", "done"}, pc' = [pc EXCEPT ![r][i] = p],
           UNCHANGED <<up, view, calm, question, chain, executed, to>>
    PROVE  CalmInv'
<1>1. p \in Place
  BY DEF Place
<1>2. /\ \A s \in Request : s # r => pc'[s] = pc[s]
      /\ \A j \in 1..Len(chain[r]) : pc'[r][j] = IF j = i THEN p ELSE pc[r][j]
  BY <1>1, PlaceSet
<1>3. ASSUME Asked(r), calm[r], NEW j \in 1..Len(chain[r])
      PROVE  CalmPlace(r, j, pc'[r][j], to'[r][j])
  <2>1. CalmPlace(r, j, pc[r][j], to[r][j])
    BY <1>3 DEF CalmInv, Calm
  <2>2. QED
    BY <1>2, <2>1 DEF CalmPlace
<1>4. QED
  BY <1>2, <1>3, ThreadsMove

LEMMA RouteCalm ==
    ASSUME IInv, CalmInv, NEW r \in Request, NEW i \in 1..Len(chain[r]), Route(r, i)
    PROVE  CalmInv'
<1> DEFINE owner == OwnerSeen(chain[r][i], KeyHash(r))
<1>1. pc[r][i] = "route" /\ UNCHANGED <<up, view, calm, question, chain, executed>>
  BY DEF Route, At, members
<1>2. i = Len(chain[r]) /\ Len(chain[r]) \in Nat
  BY <1>1, Before, Positions DEF ThreadInv
<1>3. owner \in Machine
  BY <1>1, OwnerSeenIsNearer
<1>4. ASSUME Asked(r), calm[r]
      PROVE  owner = OwnerNow(r) /\ CalmRest(r)
             /\ \A j \in 1..Len(chain[r]) : CalmPlace(r, j, pc[r][j], to[r][j])
  BY <1>1, <1>4, SeesTheOwner DEF CalmInv, Calm
<1> HIDE DEF owner
<1>5. ASSUME Local(Given(r)), pc' = [pc EXCEPT ![r][i] = "perform"], to' = to PROVE CalmInv'
  <2>1. "perform" \in Place
    BY DEF Place
  <2>2. /\ \A s \in Request : s # r => pc'[s] = pc[s]
        /\ \A j \in 1..Len(chain[r]) : pc'[r][j] = IF j = i THEN "perform" ELSE pc[r][j]
    BY <1>5, <2>1, PlaceSet
  <2>3. Asked(r) /\ calm[r] => \A j \in 1..Len(chain[r]) : CalmPlace(r, j, pc'[r][j], to'[r][j])
    BY <1>4, <1>5, <2>2 DEF CalmPlace
  <2>4. QED
    BY <1>1, <1>5, <2>2, <2>3, ThreadsMove
<1>6. ASSUME owner = chain[r][i], pc' = [pc EXCEPT ![r][i] = "replicate"], to' = to PROVE CalmInv'
  <2>1. "replicate" \in Place
    BY DEF Place
  <2>2. /\ \A s \in Request : s # r => pc'[s] = pc[s]
        /\ \A j \in 1..Len(chain[r]) : pc'[r][j] = IF j = i THEN "replicate" ELSE pc[r][j]
    BY <1>6, <2>1, PlaceSet
  <2>3. Asked(r) /\ calm[r] => \A j \in 1..Len(chain[r]) : CalmPlace(r, j, pc'[r][j], to'[r][j])
    BY <1>4, <1>6, <2>2 DEF CalmPlace
  <2>4. QED
    BY <1>1, <1>6, <2>2, <2>3, ThreadsMove
<1>7. ASSUME ~Local(Given(r)), owner # chain[r][i], pc' = [pc EXCEPT ![r][i] = "connect"],
             to' = [to EXCEPT ![r][i] = owner]
      PROVE  CalmInv'
  <2>1. "connect" \in Place
    BY DEF Place
  <2>2. /\ \A s \in Request : s # r => pc'[s] = pc[s]
        /\ \A j \in 1..Len(chain[r]) : pc'[r][j] = IF j = i THEN "connect" ELSE pc[r][j]
    BY <1>7, <2>1, PlaceSet
  <2>3. /\ \A s \in Request : s # r => to'[s] = to[s]
        /\ \A j \in 1..Len(chain[r]) : to'[r][j] = IF j = i THEN owner ELSE to[r][j]
    BY <1>3, <1>7, AskedSet
  <2>4. ASSUME Asked(r), calm[r], NEW j \in 1..Len(chain[r])
        PROVE  CalmPlace(r, j, pc'[r][j], to'[r][j])
    <3>1. Len(chain[r]) # 2
      BY <1>2, <1>4, <1>7, <2>4 DEF CalmRest
    <3>2. Len(chain[r]) = 1
      <4>1. Len(chain[r]) <= 2
        BY <1>4, <2>4 DEF CalmRest
      <4>2. PICK n : n = Len(chain[r])
        OBVIOUS
      <4>3. n \in Nat /\ n <= 2 /\ n # 2 /\ j \in 1..n
        BY <1>2, <2>4, <3>1, <4>1, <4>2
      <4>4. n = 1
        BY <4>3
      <4>5. QED
        BY <4>2, <4>4
    <3>3. QED
      BY <1>4, <1>7, <2>2, <2>3, <2>4, <3>2 DEF CalmPlace
  <2>5. QED
    BY <1>1, <2>2, <2>3, <2>4, ThreadsMove
<1>8. QED
  BY <1>5, <1>6, <1>7 DEF Route, owner

\* In calm nobody fails to connect.
LEMMA RetryCalm ==
    ASSUME IInv, CalmInv, NEW r \in Request, NEW i \in 1..Len(chain[r]), Retry(r, i)
    PROVE  CalmInv'
<1> DEFINE owner == OwnerSeen(chain[r][i], KeyHash(r))
<1>1. /\ pc[r][i] = "connect" /\ to[r][i] \notin up /\ pc' = pc
      /\ to' = [to EXCEPT ![r][i] = owner]
      /\ UNCHANGED <<up, view, calm, question, chain, executed>>
  BY DEF Retry, At, members
<1>2. owner \in Machine
  BY <1>1, OwnerSeenIsNearer
<1>3. ~(Asked(r) /\ calm[r])
  <2>1. Asked(r) /\ calm[r] => to[r][i] = OwnerNow(r) /\ OwnerNow(r) \in up
    BY <1>1, SeesTheOwner DEF CalmInv, Calm, CalmPlace
  <2>2. QED
    BY <1>1, <2>1
<1> HIDE DEF owner
<1>4. \A s \in Request : s # r => to'[s] = to[s]
  BY <1>1, <1>2, AskedSet
<1>5. QED
  BY <1>1, <1>3, <1>4, ThreadsMove

LEMMA ReplicateCalm ==
    ASSUME IInv, CalmInv, NEW r \in Request, NEW i \in 1..Len(chain[r]), Replicate(r, i)
    PROVE  CalmInv'
<1>1. /\ pc[r][i] = "replicate"
      /\ UNCHANGED <<up, view, calm, question, chain, executed, to>>
  BY DEF Replicate, At
<1>2. PICK p \in {"perform", "join"} : pc' = [pc EXCEPT ![r][i] = p]
  BY DEF Replicate
<1>3. p \in Place
  BY DEF Place
<1>4. /\ \A s \in Request : s # r => pc'[s] = pc[s]
      /\ \A j \in 1..Len(chain[r]) : pc'[r][j] = IF j = i THEN p ELSE pc[r][j]
  BY <1>2, <1>3, PlaceSet
<1>5. ASSUME Asked(r), calm[r], NEW j \in 1..Len(chain[r])
      PROVE  CalmPlace(r, j, pc'[r][j], to'[r][j])
  <2>1. CalmPlace(r, j, pc[r][j], to[r][j])
    BY <1>5 DEF CalmInv, Calm
  <2>2. QED
    BY <1>1, <1>4, <2>1 DEF CalmPlace
<1>6. QED
  BY <1>1, <1>4, <1>5, ThreadsMove

LEMMA ReplyCalm ==
    ASSUME IInv, CalmInv, NEW r \in Request, NEW i \in 1..Len(chain[r]), Reply(r, i)
    PROVE  CalmInv'
<1>1. UNCHANGED <<up, view, calm, question, chain, executed, to>>
  BY DEF Reply, members
<1>2. CASE i = 1
  <2>1. pc' = [pc EXCEPT ![r][i] = "done"]
    BY <1>2 DEF Reply
  <2>2. QED
    BY <1>1, <2>1, HarmlessMove
<1>3. CASE i # 1
  <2> DEFINE h   == i - 1
             pcD == [pc EXCEPT ![r][i] = "done"]
  <2>1. TypeOK /\ Len(pc[r]) = Len(chain[r]) /\ Len(chain[r]) \in Nat
    BY Positions DEF IInv
  <2>2. h \in 1..Len(pc[r]) /\ i \in 1..Len(pc[r])
    BY <1>3, <2>1
  <2>3. answer[r][i] # NoConnect
    <3>1. answer[r][i] \in Replies \cup Errors
      BY Before
    <3>2. NoConnect \notin Errors
      BY DEF NoConnect, Errors, NoReceive, NoSend, NoText
    <3>3. QED
      BY <3>1, <3>2
  <2>4. pc' = [pcD EXCEPT ![r][h] = "reply"]
    BY <1>3, <2>3 DEF Reply
  <2>5. "done" \in Place /\ "reply" \in Place
    BY DEF Place
  <2>6. Sets(Place, pc, pcD, r, i, "done")
    BY <2>1, <2>2, <2>5, Changed DEF TypeOK
  <2> HIDE DEF pcD, h, Place
  <2>7. Sets(Place, pcD, pc', r, h, "reply")
    <3>1. pcD \in [Request -> Seq(Place)] /\ h \in 1..Len(pcD[r])
      BY <2>2, <2>6 DEF Sets
    <3>2. QED
      BY <2>4, <2>5, <3>1, Changed
  <2>8. \A j \in 1..Len(chain[r]) : pc'[r][j] \in {"done", "reply"} \/ pc'[r][j] = pc[r][j]
    <3>1. Len(pcD[r]) = Len(chain[r])
      BY <2>1, <2>6 DEF Sets
    <3>2. QED
      BY <2>1, <2>6, <2>7, <3>1 DEF Sets
  <2>9. \A s \in Request : s # r => pc'[s] = pc[s]
    BY <2>6, <2>7 DEF Sets
  <2>10. ASSUME Asked(r), calm[r], NEW j \in 1..Len(chain[r])
         PROVE  CalmPlace(r, j, pc'[r][j], to'[r][j])
    <3>1. CalmPlace(r, j, pc[r][j], to[r][j])
      BY <2>10 DEF CalmInv, Calm
    <3>2. QED
      BY <1>1, <2>8, <3>1 DEF CalmPlace
  <2>11. QED
    BY <1>1, <2>9, <2>10, ThreadsMove
<1>4. QED
  BY <1>2, <1>3

\* With every machine that goes down it is no longer calm.
LEMMA DownCalm ==
    ASSUME CalmInv, NEW m, Down(m), executed' = executed
    PROVE  CalmInv'
<1>1. \A s \in Request : Given(s)' = Given(s) /\ calm'[s] = FALSE
  BY DEF Down, Given
<1>2. QED
  BY <1>1 DEF CalmInv, Faithful

LEMMA MembersCalm ==
    ASSUME IInv, CalmInv, NEW m \in Machine, NEW x \in Machine,
           Join(m) \/ AddToList(m, x) \/ RemoveFromList(m, x)
    PROVE  CalmInv'
<1>1. UNCHANGED <<question, chain, pc, to, executed>>
  BY DEF Join, AddToList, RemoveFromList, threads
<1>2. ASSUME NEW s \in Request, Asked(s), calm'[s] PROVE FALSE
  <2>1. CASE Join(m)
    BY <1>2, <2>1 DEF Join
  <2>2. CASE AddToList(m, x) \/ RemoveFromList(m, x)
    <3>1. calm' = calm /\ m \in up /\ (x \in up \ view[m] \/ x \in view[m] \ up)
      BY <2>2 DEF AddToList, RemoveFromList
    <3>2. Agreed
      BY <1>2, <3>1 DEF CalmInv, Calm, CalmRest
    <3>3. QED
      BY <3>1, <3>2 DEF Agreed
  <2>3. QED
    BY <2>1, <2>2
<1>3. QED
  BY <1>1, <1>2, StaysCalm DEF CalmInv

\* The client connects: nothing has been executed.
LEMMA AskCalm ==
    ASSUME IInv, CalmInv, NEW r \in Request, NEW m \in Machine, Ask(r, m)
    PROVE  CalmInv'
<1>1. TypeOK /\ RequestInv(r)
  BY DEF IInv
<1>2. /\ chain[r] = <<>> /\ executed[r] = <<>>
      /\ chain'[r] = <<m>> /\ pc'[r] = <<"route">> /\ calm'[r] = Agreed
      /\ UNCHANGED <<up, view, executed>>
  BY <1>1 DEF Ask, RequestInv, TypeOK
<1>3. ASSUME NEW s \in Request, s # r
      PROVE  (Faithful(s) /\ (Asked(s) /\ calm[s] => Calm(s)))'
  <2>1. /\ chain'[s] = chain[s] /\ pc'[s] = pc[s] /\ to'[s] = to[s]
        /\ executed'[s] = executed[s] /\ question'[s] = question[s] /\ calm'[s] = calm[s]
    BY <1>1, <1>3 DEF Ask, TypeOK
  <2>2. QED
    BY <1>2, <2>1, StaysCalm
<1>4. executed'[r] = <<>>
  BY <1>2
<1>5. Faithful(r)'
  BY <1>4 DEF Faithful
<1>6. ASSUME calm'[r] PROVE Calm(r)'
  <2>1. Agreed'
    BY <1>2, <1>6 DEF Agreed
  <2>2. Len(chain'[r]) = 1 /\ Len(executed'[r]) = 0
    BY <1>2, <1>4
  <2>3. CalmRest(r)'
    BY <2>1, <2>2 DEF CalmRest
  <2>4. ASSUME NEW j \in 1..Len(chain'[r]) PROVE CalmPlace(r, j, pc[r][j], to[r][j])'
    <3>1. pc'[r][j] = "route"
      BY <1>2, <2>2
    <3>2. QED
      BY <3>1 DEF CalmPlace
  <2>5. QED
    BY <2>3, <2>4 DEF Calm
<1>7. QED
  BY <1>3, <1>5, <1>6 DEF CalmInv

\* The owner is reached, and is the second machine.
LEMMA ConnectCalm ==
    ASSUME IInv, CalmInv, NEW r \in Request, NEW i \in 1..Len(chain[r]), Connect(r, i)
    PROVE  CalmInv'
<1> DEFINE n == to[r][i]
           pcW == [pc EXCEPT ![r][i] = "wait"]
<1>1. TypeOK /\ Len(pc[r]) = Len(chain[r]) /\ Len(chain[r]) \in Nat
  BY Positions DEF IInv
<1>2. pc[r][i] = "connect" /\ n \in Machine
  BY <1>1 DEF Connect, At, TypeOK
<1>3. UNCHANGED <<up, view, calm, question, executed>>
  BY DEF Connect, members
<1>4. "wait" \in Place /\ "route" \in Place
  BY DEF Place
<1>5. Sets(Place, pc, pcW, r, i, "wait")
  BY <1>1, <1>4, Changed DEF TypeOK
<1> HIDE DEF n
<1>6. pc' = [pcW EXCEPT ![r] = Append(pcW[r], "route")]
  BY <1>1 DEF Connect, TypeOK
<1> HIDE DEF pcW, Place
<1>7. /\ \A s \in Request : s # r => pc'[s] = pc[s]
      /\ \A j \in 1..Len(chain[r]) : pc'[r][j] \in {"wait", pc[r][j]}
      /\ pc'[r][Len(chain[r]) + 1] = "route"
      /\ pc'[r][i] = "wait"
  <2>1. pcW \in [Request -> Seq(Place)] /\ Len(pcW[r]) = Len(chain[r])
    BY <1>1, <1>5 DEF Sets
  <2>2. /\ \A s \in Request : s # r => pc'[s] = pcW[s]
        /\ \A j \in 1..Len(pcW[r]) : pc'[r][j] = pcW[r][j]
        /\ pc'[r][Len(pcW[r]) + 1] = "route"
    <3>1. pcW \in [Request -> Seq(Place)] /\ "route" \in Place
      BY <1>4, <2>1
    <3>2. /\ pc' \in [Request -> Seq(Place)]
          /\ Len(pc'[r]) = Len(pcW[r]) + 1
          /\ \A s \in Request : s # r => pc'[s] = pcW[s]
          /\ \A j \in 1..Len(pcW[r]) : pc'[r][j] = pcW[r][j]
          /\ pc'[r][Len(pcW[r]) + 1] = "route"
      BY <1>6, <3>1, Extended
    <3>3. QED
      BY <3>2
  <2>3. QED
    BY <1>1, <1>5, <2>1, <2>2 DEF Sets
<1>8. /\ Len(chain'[r]) = Len(chain[r]) + 1
      /\ \A s \in Request : s # r => chain'[s] = chain[s]
      /\ \A j \in 1..Len(chain[r]) : chain'[r][j] = chain[r][j]
      /\ chain'[r][Len(chain[r]) + 1] = n
  <2>1. chain' = [chain EXCEPT ![r] = Append(chain[r], n)] /\ chain \in [Request -> Seq(Machine)]
    BY <1>1 DEF Connect, TypeOK, n
  <2>2. QED
    BY <1>2, <2>1, Extended
<1>9. \A s \in Request : s # r => to'[s] = to[s]
  BY <1>1 DEF Connect, TypeOK
<1>10. ASSUME NEW s \in Request, s # r
       PROVE  (Faithful(s) /\ (Asked(s) /\ calm[s] => Calm(s)))'
  BY <1>3, <1>7, <1>8, <1>9, <1>10, StaysCalm
<1>11. Given(r)' = Given(r) /\ KeyHash(r)' = KeyHash(r) /\ Asked(r)' = Asked(r)
  BY <1>3 DEF Given, KeyHash, Asked
<1>12. Faithful(r)'
  BY <1>3, <1>11 DEF CalmInv, Faithful
<1>13. ASSUME Asked(r)', calm'[r] PROVE Calm(r)'
  <2>1. CalmRest(r) /\ \A j \in 1..Len(chain[r]) : CalmPlace(r, j, pc[r][j], to[r][j])
    BY <1>3, <1>11, <1>13 DEF CalmInv, Calm
  <2>2. ~Local(Given(r)) /\ Len(chain[r]) = 1 /\ n = OwnerNow(r)
    BY <1>2, <2>1 DEF CalmPlace, n
  <2>3. Agreed' = Agreed /\ OwnerNow(r)' = OwnerNow(r)
    BY <1>3, <1>11 DEF Agreed, OwnerNow
  <2>4. Len(chain'[r]) = 2 /\ chain'[r][2] = OwnerNow(r) /\ i = 1
    BY <1>8, <2>2
  <2>5. CalmRest(r)'
    BY <1>3, <1>11, <2>1, <2>2, <2>3, <2>4 DEF CalmRest
  <2>6. ASSUME NEW j \in 1..Len(chain'[r]) PROVE CalmPlace(r, j, pc[r][j], to[r][j])'
    <3>1. pc'[r][j] \in {"wait", "route"}
      BY <1>7, <2>2, <2>4
    <3>2. QED
      BY <3>1 DEF CalmPlace
  <2>7. QED
    BY <2>5, <2>6 DEF Calm
<1>14. QED
  BY <1>10, <1>12, <1>13 DEF CalmInv

\* What is executed is what was read, and in calm on the owner.
LEMMA PerformCalm ==
    ASSUME IInv, CalmInv, NEW r \in Request, NEW i \in 1..Len(chain[r]), Perform(r, i)
    PROVE  CalmInv'
<1> DEFINE E == [at : Machine, reply : Replies, command : {CommandOf[q] : q \in Question}]
<1>1. TypeOK
  BY DEF IInv
<1>2. pc[r][i] = "perform" /\ pc' = [pc EXCEPT ![r][i] = "reply"]
  BY DEF Perform, At
<1>3. PICK reply \in Replies :
          executed' = [executed EXCEPT ![r] =
                Append(executed[r], [at |-> chain[r][i], command |-> Given(r), reply |-> reply])]
  BY DEF Perform
<1>4. UNCHANGED <<up, view, calm, question, chain, to>>
  BY DEF Perform, members
<1>5. i = Len(chain[r]) /\ executed[r] = <<>>
  BY <1>2, Before, Positions DEF ThreadInv
<1> DEFINE e == [at |-> chain[r][i], command |-> Given(r), reply |-> reply]
<1>6. e.at = chain[r][i] /\ e.command = Given(r)
  OBVIOUS
<1>7. Len(executed'[r]) = 1 /\ executed'[r][1] = e /\ \A s \in Request : s # r => executed'[s] = executed[s]
  <2>1. executed \in [Request -> Seq(E)]
    BY <1>1 DEF TypeOK
  <2> HIDE DEF E, e
  <2>2. executed'[r] = Append(<<>>, e) /\ \A s \in Request : s # r => executed'[s] = executed[s]
    BY <1>3, <1>5, <2>1 DEF e
  <2>3. QED
    BY <2>2
<1> HIDE DEF E, e
<1>8. "reply" \in Place
  BY DEF Place
<1>9. /\ \A s \in Request : s # r => pc'[s] = pc[s]
      /\ \A j \in 1..Len(chain[r]) : pc'[r][j] = IF j = i THEN "reply" ELSE pc[r][j]
  BY <1>2, <1>8, PlaceSet
<1>10. ASSUME NEW s \in Request, s # r
       PROVE  (Faithful(s) /\ (Asked(s) /\ calm[s] => Calm(s)))'
  BY <1>4, <1>7, <1>9, <1>10, StaysCalm
<1>11. Given(r)' = Given(r) /\ KeyHash(r)' = KeyHash(r) /\ Asked(r)' = Asked(r)
  BY <1>4 DEF Given, KeyHash, Asked
<1>12. Faithful(r)'
  BY <1>6, <1>7, <1>11 DEF Faithful
<1>13. ASSUME Asked(r)', calm'[r] PROVE Calm(r)'
  <2>1. CalmRest(r) /\ \A j \in 1..Len(chain[r]) : CalmPlace(r, j, pc[r][j], to[r][j])
    BY <1>4, <1>11, <1>13 DEF CalmInv, Calm
  <2>2. ~Local(Given(r)) => chain[r][i] = OwnerNow(r)
    BY <1>2, <2>1 DEF CalmPlace
  <2>3. Agreed' = Agreed /\ OwnerNow(r)' = OwnerNow(r)
    BY <1>4, <1>11 DEF Agreed, OwnerNow
  <2>4. ~Local(Given(r)) => \A j \in 1..Len(executed'[r]) : executed'[r][j].at = OwnerNow(r)
    BY <1>6, <1>7, <2>2
  <2>5. CalmRest(r)'
    BY <1>4, <1>11, <2>1, <2>3, <2>4 DEF CalmRest
  <2>6. ASSUME NEW j \in 1..Len(chain[r]) PROVE CalmPlace(r, j, pc[r][j], to[r][j])'
    <3>1. CalmPlace(r, j, pc[r][j], to[r][j])
      BY <2>1
    <3>2. pc'[r][j] = "reply" \/ pc'[r][j] = pc[r][j]
      BY <1>9
    <3>3. QED
      BY <1>4, <1>11, <2>3, <3>1, <3>2 DEF CalmPlace
  <2>7. QED
    BY <1>4, <2>5, <2>6 DEF Calm
<1>14. QED
  BY <1>10, <1>12, <1>13 DEF CalmInv

LEMMA StillCalm == IInv /\ CalmInv /\ [Next]_vars => CalmInv'
<1> SUFFICES ASSUME IInv, CalmInv, [Next]_vars PROVE CalmInv'
  OBVIOUS
<1>1. CASE UNCHANGED vars
  <2>1. UNCHANGED <<up, view, calm, question, chain, pc, to, executed>>
    BY <1>1 DEF vars, members, threads
  <2>2. QED
    BY <2>1, StaysCalm DEF CalmInv
<1>2. ASSUME NEW m \in Machine, Join(m) PROVE CalmInv'
  BY <1>2, MembersCalm
<1>3. ASSUME NEW m \in Machine, Crash(m) \/ Terminate(m) PROVE CalmInv'
  BY <1>3, DownCalm DEF Crash, Terminate
<1>4. ASSUME NEW m \in Machine, NEW x \in Machine, AddToList(m, x) \/ RemoveFromList(m, x)
      PROVE  CalmInv'
  BY <1>4, MembersCalm
<1>5. ASSUME NEW r \in Request, NEW m \in Machine, Ask(r, m) PROVE CalmInv'
  BY <1>5, AskCalm
<1>6. ASSUME NEW r \in Request, ClientLoses(r) PROVE CalmInv'
  <2>1. UNCHANGED <<up, view, calm, question, chain, pc, to, executed>>
    BY <1>6 DEF ClientLoses, members, threads
  <2>2. QED
    BY <2>1, StaysCalm DEF CalmInv
<1>7. ASSUME NEW r \in Request, NEW i \in DOMAIN chain[r], Thread(r, i) PROVE CalmInv'
  <2>1. i \in 1..Len(chain[r])
    BY Positions DEF IInv
  <2>2. CASE Route(r, i)
    BY <2>1, <2>2, RouteCalm
  <2>3. CASE Connect(r, i)
    BY <2>1, <2>3, ConnectCalm
  <2>4. CASE Retry(r, i)
    BY <2>1, <2>4, RetryCalm
  <2>5. CASE LoseReply(r, i)
    <3>1. /\ pc' = [pc EXCEPT ![r][i] = "reply"]
          /\ UNCHANGED <<up, view, calm, question, chain, executed, to>>
      BY <2>5 DEF LoseReply, members
    <3>2. QED
      BY <2>1, <3>1, HarmlessMove
  <2>6. CASE Replicate(r, i)
    BY <2>1, <2>6, ReplicateCalm
  <2>7. CASE Perform(r, i)
    BY <2>1, <2>7, PerformCalm
  <2>8. CASE Reply(r, i)
    BY <2>1, <2>8, ReplyCalm
  <2>9. CASE ReplyThrows(r, i)
    BY <2>9, DownCalm DEF ReplyThrows
  <2>10. CASE ReplyToNobody(r, i)
    <3>1. CASE Down(chain[r][i]) /\ UNCHANGED <<crashes, executed>>
      BY <3>1, DownCalm
    <3>2. CASE /\ pc' = [pc EXCEPT ![r][i] = "done"]
               /\ UNCHANGED <<members, question, chain, to, answer, told, executed>>
      <4>1. UNCHANGED <<up, view, calm, question, chain, executed, to>>
        BY <3>2 DEF members
      <4>2. QED
        BY <2>1, <3>2, <4>1, HarmlessMove
    <3>3. QED
      BY <2>10, <3>1, <3>2 DEF ReplyToNobody
  <2>11. QED
    BY <1>7, <2>2, <2>3, <2>4, <2>5, <2>6, <2>7, <2>8, <2>9, <2>10 DEF Thread
<1>8. QED
  BY <1>1, <1>2, <1>3, <1>4, <1>5, <1>6, <1>7 DEF Next

THEOREM CalmInvariant == Spec => [](IInv /\ CalmInv)
<1>1. Init => IInv /\ CalmInv
  <2>1. Init => CalmInv
    BY DEF Init, CalmInv, Faithful, Asked
  <2>2. QED
    BY <2>1, InitStep
<1>2. (IInv /\ CalmInv) /\ [Next]_vars => (IInv /\ CalmInv)'
  BY Inductive, StillCalm
<1>3. QED
  BY <1>1, <1>2, PTL DEF Spec

--------------------------------------------------------------------------------
(* Texts on a connection                                                        *)

\* sendData counts its blocks without a gap, and leaves no more than a block.
LEMMA BlocksSent ==
    ASSUME NEW size \in Nat
    PROVE  /\ Cardinality(Sent(size)) \in Nat
           /\ size <= Cardinality(Sent(size)) * Block + Block
<1> DEFINE Unsent == {b \in Nat \ {0} : b \notin Sent(size)}
           m      == Min(Unsent)
<1>1. m \in Unsent /\ \A b \in Unsent : m <= b
  <2>1. Unsent \in SUBSET Nat /\ size + 1 \in Unsent
    BY DEF Sent
  <2> HIDE DEF Unsent
  <2> QED BY <2>1, MinIsLeast
<1> HIDE DEF m
<1>2. m \in Nat \ {0} /\ m \notin Sent(size) /\ \A b \in 1..(m - 1) : b \in Sent(size)
  BY <1>1
<1> HIDE DEF Unsent
<1>3. \A k, b \in Nat : k * b \in Nat
  OBVIOUS
<1>4. \A b \in Nat : Block * b - b = (Block - 1) * b /\ (Block - 1) * b \in Nat
  <2>1. Block - 1 \in Nat
    BY StreamAssumption
  <2>2. ASSUME NEW b \in Nat PROVE Block * b - b = (Block - 1) * b
    BY StreamAssumption
  <2> QED BY <1>3, <2>1, <2>2
<1>5. ASSUME NEW b \in Sent(size) PROVE b < m
  <2>1. b \in 1..size /\ size >= Block * b - b + 2
    BY DEF Sent
  <2>2. SUFFICES ASSUME m <= b PROVE m \in Sent(size)
    BY <1>2, <2>1
  <2>3. (Block - 1) * m <= (Block - 1) * b
    <3>1. Block - 1 \in Nat /\ m \in Nat /\ b \in Nat /\ b - m \in Nat
      BY <1>2, <2>1, <2>2, StreamAssumption
    <3>2. \A k \in Nat : k * b = k * m + k * (b - m)
      BY <3>1
    <3> QED BY <1>3, <3>1, <3>2
  <2>4. Block * m - m <= Block * b - b
    BY <1>2, <1>4, <2>1, <2>3
  <2> QED BY <1>2, <1>3, <1>4, <2>1, <2>2, <2>4, StreamAssumption DEF Sent
<1>6. Sent(size) = 1..(m - 1)
  <2>1. ASSUME NEW b \in Sent(size) PROVE b \in 1..(m - 1)
    <3>1. b \in Nat /\ 1 <= b
      BY DEF Sent
    <3> QED BY <1>2, <1>5, <3>1
  <2> QED BY <1>2, <2>1
<1>7. Cardinality(Sent(size)) = m - 1
  BY <1>2, <1>6, FS_Interval
<1>8. size <= (m - 1) * Block + Block
  <2>1. (m - 1) * Block + Block = Block * m /\ Block * m \in Nat
    BY <1>2, <1>3, StreamAssumption
  <2>2. CASE m <= size
    BY <1>2, <2>1, <2>2, StreamAssumption DEF Sent
  <2>3. CASE m > size
    <3>1. Block * m = (Block - 1) * m + m /\ (Block - 1) * m \in Nat
      BY <1>2, <1>4, <2>1, StreamAssumption
    <3> QED BY <1>2, <2>1, <2>3, <3>1
  <2> QED BY <1>2, <2>2, <2>3
<1> QED BY <1>2, <1>7, <1>8

\* A text on the wire: in whole blocks, from its beginning, and closed if there is room.
Carries(S, wire, blocks, text) ==
    /\ wire \in Seq(S)
    /\ blocks \in Nat \ {0} /\ Len(wire) = blocks * Block
    /\ Len(text) <= Len(wire)
    /\ \A j \in 1..Len(text) : wire[j] = text[j]
    /\ Len(text) < Len(wire) => wire[Len(text) + 1] = NUL

\* What of a text and its closing NUL follows the first `whole` characters, as far as
\* it fits into a block.
LEMMA TailIs ==
    ASSUME NEW S, NUL \in S, NEW text \in Seq(S), NEW whole \in Nat, whole <= Len(text),
           Len(text) <= whole + Block
    PROVE  LET tail == SubSeq(text \o <<NUL>>, whole + 1, Min({whole + Block, Len(text) + 1}))
           IN  /\ tail \in Seq(S)
               /\ Len(tail) \in 1..Block
               /\ Len(text) <= whole + Len(tail)
               /\ \A j \in 1..Len(tail) : whole + j <= Len(text) => tail[j] = text[whole + j]
               /\ Len(text) < whole + Block => /\ Len(text) < whole + Len(tail)
                                               /\ tail[Len(text) + 1 - whole] = NUL
<1> DEFINE size == Len(text)
           top  == Min({whole + Block, size + 1})
<1>1. size \in Nat /\ Block \in Nat \ {0}
  BY LenProperties, StreamAssumption
<1>2. PICK closed : closed = text \o <<NUL>>
  OBVIOUS
<1>3. /\ closed \in Seq(S) /\ Len(closed) = size + 1
      /\ \A j \in 1..size : closed[j] = text[j]
      /\ closed[size + 1] = NUL
  <2>1. PICK nul : nul = <<NUL>> /\ nul \in Seq(S) /\ Len(nul) = 1 /\ nul[1] = NUL
    BY OneSymbol
  <2>2. Joins(S, text, nul, closed)
    BY <1>2, <2>1, PartsJoined
  <2> QED BY <1>1, <2>1, <2>2 DEF Joins
<1>4. top \in {whole + Block, size + 1} /\ top <= whole + Block /\ top <= size + 1
  <2>1. {whole + Block, size + 1} \in SUBSET Nat
    BY <1>1
  <2> QED BY <2>1, MinIsLeast
<1> HIDE DEF size, top
<1> DEFINE tail == SubSeq(closed, whole + 1, top)
<1>5. /\ tail \in Seq(S)
      /\ Len(tail) = top - whole
      /\ \A j \in 1..(top - whole) : tail[j] = closed[whole + j]
  <2>1. whole + 1 <= top /\ top \in Int /\ whole + 1 \in Int /\ top <= Len(closed)
    BY <1>1, <1>3, <1>4 DEF size
  <2>2. \A i \in (whole + 1)..top : closed[i] \in S
    BY <1>3, <2>1, ElementOfSeq
  <2>3. /\ tail \in Seq(S)
        /\ Len(tail) = IF whole + 1 <= top THEN top - (whole + 1) + 1 ELSE 0
        /\ \A i \in 1..(top - (whole + 1) + 1) : tail[i] = closed[whole + 1 + i - 1]
    BY <2>1, <2>2, SubSeqProperties
  <2> HIDE DEF tail
  <2>4. \A i \in 1..(top - whole) : whole + 1 + i - 1 = whole + i
    BY <2>1
  <2> QED BY <2>1, <2>3, <2>4
<1> HIDE DEF tail
<1>6. tail = SubSeq(text \o <<NUL>>, whole + 1, Min({whole + Block, Len(text) + 1}))
  BY <1>2 DEF tail, top, size
<1>7. /\ Len(tail) \in 1..Block
      /\ size <= whole + Len(tail)
      /\ size < whole + Block => size < whole + Len(tail)
  BY <1>1, <1>4, <1>5 DEF size
<1>8. ASSUME NEW j \in 1..Len(tail), whole + j <= size PROVE tail[j] = text[whole + j]
  BY <1>1, <1>3, <1>5, <1>8
<1>9. size < whole + Block => tail[size + 1 - whole] = NUL
  <2> SUFFICES ASSUME size < whole + Block PROVE tail[size + 1 - whole] = NUL
    OBVIOUS
  <2>1. size + 1 - whole \in 1..(top - whole) /\ whole + (size + 1 - whole) = size + 1
    BY <1>1, <1>4 DEF size
  <2> QED BY <1>3, <1>5, <2>1
<1> QED BY <1>5, <1>6, <1>7, <1>8, <1>9 DEF size

\* What sendData puts on the wire for a text on which it does not throw.
LEMMA WireCarries ==
    ASSUME NEW S, NUL \in S, NEW text \in Seq(S), ~Throws(Len(text))
    PROVE  Carries(S, Wire(text), Cardinality(Sent(Len(text))) + 1, text)
<1> DEFINE size  == Len(text)
           sent  == Cardinality(Sent(size))
           whole == sent * Block
           head  == SubSeq(text, 1, whole)
           tail  == SubSeq(text \o <<NUL>>, whole + 1, Min({whole + Block, size + 1}))
           rest  == Block - Len(tail)
           Old(j) == IF whole = 0 THEN NUL ELSE text[whole - Block + Len(tail) + j]
           stale == [j \in 1..rest |-> Old(j)]
<1>1. /\ size \in Nat /\ Block \in Nat \ {0} /\ sent \in Nat /\ whole \in Nat
      /\ whole <= size /\ size <= whole + Block
  <2>1. size \in Nat /\ Block \in Nat \ {0}
    BY LenProperties, StreamAssumption
  <2>2. sent \in Nat /\ size <= whole + Block
    BY <2>1, BlocksSent
  <2>3. whole \in Nat
    BY <2>1, <2>2
  <2> QED BY <2>1, <2>2, <2>3 DEF Throws
<1>2. whole # 0 => whole >= Block
  <2>1. whole # 0 => sent # 0
    BY <1>1
  <2>2. sent # 0 => (sent - 1) * Block \in Nat /\ whole = (sent - 1) * Block + Block
    BY <1>1
  <2> QED BY <1>1, <2>1, <2>2
<1>3. Wire(text) = head \o tail \o stale
  BY DEF Wire
<1> HIDE DEF whole, sent
<1>4. /\ tail \in Seq(S) /\ Len(tail) \in 1..Block
      /\ size <= whole + Len(tail)
      /\ \A j \in 1..Len(tail) : whole + j <= size => tail[j] = text[whole + j]
      /\ size < whole + Block => size < whole + Len(tail) /\ tail[size + 1 - whole] = NUL
  <2>1. whole \in Nat /\ whole <= Len(text) /\ Len(text) <= whole + Block
    BY <1>1
  <2> QED BY <2>1, TailIs, Zenon
<1>5. head \in Seq(S) /\ Len(head) = whole /\ \A j \in 1..whole : head[j] = text[j]
  <2>1. \A i \in 1..whole : text[i] \in S
    BY <1>1, ElementOfSeq
  <2>2. /\ head \in Seq(S)
        /\ Len(head) = IF 1 <= whole THEN whole - 1 + 1 ELSE 0
        /\ \A i \in 1..(whole - 1 + 1) : head[i] = text[1 + i - 1]
    BY <1>1, <2>1, SubSeqProperties
  <2> HIDE DEF head
  <2> QED BY <1>1, <2>2
<1> HIDE DEF head, tail, size
<1>6. stale \in Seq(S) /\ Len(stale) = rest /\ rest \in Nat
  <2>1. rest \in Nat
    BY <1>1, <1>4
  <2>2. ASSUME NEW j \in 1..rest PROVE Old(j) \in S
    <3>1. CASE whole = 0
      BY <3>1
    <3>2. CASE whole # 0
      <4>1. whole - Block + Len(tail) + j \in 1..Len(text)
        BY <1>1, <1>2, <1>4, <3>2 DEF size
      <4> QED BY <3>2, <4>1, ElementOfSeq
    <3> QED BY <3>1, <3>2
  <2> HIDE DEF Old, rest
  <2>3. stale \in Seq(S)
    BY <2>1, <2>2, IsASeq
  <2> QED BY <2>1, <2>3
<1> HIDE DEF stale
<1>7. PICK most : most = head \o tail
  OBVIOUS
<1>8. Joins(S, head, tail, most)
  BY <1>4, <1>5, <1>7, PartsJoined
<1>9. Joins(S, most, stale, Wire(text))
  <2>1. most \in Seq(S)
    BY <1>8, Zenon DEF Joins
  <2>2. Wire(text) = most \o stale
    BY <1>3, <1>7
  <2> QED BY <1>6, <2>1, <2>2, PartsJoined
<1>10. PICK wire : wire = Wire(text)
  OBVIOUS
<1>11. /\ most \in Seq(S) /\ Len(most) = whole + Len(tail)
       /\ wire \in Seq(S) /\ Len(wire) = whole + Block
       /\ \A j \in 1..whole : wire[j] = head[j]
       /\ \A j \in 1..Len(tail) : wire[whole + j] = tail[j]
  <2>1. /\ most \in Seq(S) /\ Len(most) = whole + Len(tail)
        /\ wire \in Seq(S) /\ Len(wire) = Len(most) + rest
    BY <1>5, <1>6, <1>8, <1>9, <1>10 DEF Joins
  <2>2. \A j \in 1..whole : j \in 1..Len(most) /\ wire[j] = head[j]
    BY <1>1, <1>4, <1>5, <1>8, <1>9, <1>10, <2>1 DEF Joins
  <2>3. \A j \in 1..Len(tail) : wire[whole + j] = tail[j]
    <3>1. \A j \in 1..Len(tail) : whole + j \in 1..Len(most)
      BY <1>1, <1>4, <2>1
    <3> QED BY <1>5, <1>8, <1>9, <1>10, <3>1 DEF Joins
  <2> QED BY <1>1, <1>4, <2>1, <2>2, <2>3
<1>12. sent + 1 \in Nat \ {0} /\ whole + Block = (sent + 1) * Block
  BY <1>1 DEF whole
<1>13. ASSUME NEW j \in 1..size PROVE wire[j] = text[j]
  <2>1. CASE j <= whole
    BY <1>1, <1>5, <1>11, <2>1
  <2>2. CASE j > whole
    <3>1. j - whole \in 1..Len(tail) /\ whole + (j - whole) = j
      BY <1>1, <1>4, <2>2
    <3> QED BY <1>4, <1>11, <3>1
  <2> QED BY <1>1, <2>1, <2>2
<1>14. size < whole + Block => wire[size + 1] = NUL
  <2> SUFFICES ASSUME size < whole + Block PROVE wire[size + 1] = NUL
    OBVIOUS
  <2>1. size + 1 - whole \in 1..Len(tail) /\ whole + (size + 1 - whole) = size + 1
    BY <1>1, <1>4
  <2> QED BY <1>4, <1>11, <2>1
<1> QED BY <1>1, <1>10, <1>11, <1>12, <1>13, <1>14 DEF Carries, size, sent

\* No character of a text reads as the NUL that closes it.
NulFree(text) == \A j \in 1..Len(text) : text[j] # NUL

\* A piece reads as the part of the text it carries.
LEMMA PieceIs ==
    ASSUME NEW S, NEW text \in Seq(S), NulFree(text),
           NEW wire, NEW blocks, Carries(S, wire, blocks, text),
           NEW from \in Nat, from < Len(text), NEW upto \in Nat, from < upto, upto <= Len(wire)
    PROVE  Piece(wire, from + 1, upto)
              = SubSeq(text, from + 1, IF upto <= Len(text) THEN upto ELSE Len(text))
<1> DEFINE size == Len(text)
           last == IF upto <= size THEN upto ELSE size
           I    == {i \in (from + 1)..upto : wire[i] = NUL}
           end  == IF I # {} THEN Min(I) ELSE 0
<1>1. size \in Nat /\ Len(wire) \in Nat
  BY LenProperties DEF Carries
<1>2. Piece(wire, from + 1, upto) = SubSeq(wire, from + 1, IF end = 0 THEN upto ELSE end - 1)
  BY DEF Piece, SelectInSubSeq
<1>3. \A i \in 1..size : wire[i] = text[i] /\ wire[i] # NUL
  BY DEF Carries, NulFree
<1>4. (IF end = 0 THEN upto ELSE end - 1) = last
  <2>1. CASE upto <= size
    <3>1. I = {}
      BY <1>1, <1>3, <2>1
    <3> QED BY <2>1, <3>1
  <2>2. CASE upto > size
    <3>1. size + 1 \in I
      BY <1>1, <2>2 DEF Carries
    <3>2. \A i \in I : size + 1 <= i
      BY <1>1, <1>3
    <3>3. I \in SUBSET Nat
      OBVIOUS
    <3> HIDE DEF I
    <3>4. Min(I) \in I /\ Min(I) <= size + 1
      BY <3>1, <3>3, MinIsLeast
    <3>5. Min(I) = size + 1
      <4>1. size + 1 <= Min(I) /\ Min(I) \in Nat
        BY <3>2, <3>3, <3>4
      <4> QED BY <1>1, <3>4, <4>1
    <3>6. end = size + 1 /\ end # 0
      BY <1>1, <3>1, <3>5
    <3> HIDE DEF end
    <3> QED BY <1>1, <2>2, <3>6
  <2> QED BY <1>1, <2>1, <2>2
<1> HIDE DEF end
<1>5. from + 1 \in Int /\ last \in Nat /\ last <= size /\ from + 1 <= last
  BY <1>1
<1> HIDE DEF last, size
<1>6. \A i \in (from + 1)..last : wire[i] = text[i] /\ wire[i] \in S /\ text[i] \in S
  <2>1. \A i \in (from + 1)..last : i \in 1..Len(text)
    BY <1>1, <1>5 DEF size
  <2> QED BY <1>3, <2>1, ElementOfSeq DEF size
<1> DEFINE s == SubSeq(wire, from + 1, last)
           t == SubSeq(text, from + 1, last)
<1>7. s = t
  <2>1. /\ s \in Seq(S) /\ Len(s) = last - (from + 1) + 1
        /\ \A i \in 1..(last - (from + 1) + 1) : s[i] = wire[from + 1 + i - 1]
    BY <1>5, <1>6, SubSeqProperties
  <2>2. /\ t \in Seq(S) /\ Len(t) = last - (from + 1) + 1
        /\ \A i \in 1..(last - (from + 1) + 1) : t[i] = text[from + 1 + i - 1]
    BY <1>5, <1>6, SubSeqProperties
  <2> HIDE DEF s, t
  <2>3. \A i \in 1..(last - (from + 1) + 1) : from + 1 + i - 1 \in (from + 1)..last
    BY <1>5
  <2>4. \A i \in 1..Len(t) : s[i] = t[i]
    BY <1>6, <2>1, <2>2, <2>3
  <2> QED BY <2>1, <2>2, <2>4, SameElements
<1> QED BY <1>2, <1>4, <1>7 DEF last, size

\* Two parts of a text in a row are a part of it.
LEMMA PartsInARow ==
    ASSUME NEW S, NEW text \in Seq(S), NEW from \in Nat, NEW mid \in Nat,
           from < mid, mid <= Len(text)
    PROVE  SubSeq(text, from + 1, mid) \o SubSeq(text, mid + 1, Len(text))
              = SubSeq(text, from + 1, Len(text))
<1> DEFINE size == Len(text)
           s == SubSeq(text, from + 1, mid)
           t == SubSeq(text, mid + 1, size)
           u == SubSeq(text, from + 1, size)
<1>1. size \in Nat /\ mid <= size
  BY LenProperties
<1>2. ASSUME NEW a \in Nat, NEW b \in Nat, a <= b, b <= size
      PROVE  /\ SubSeq(text, a + 1, b) \in Seq(S)
             /\ Len(SubSeq(text, a + 1, b)) = b - a
             /\ \A i \in 1..(b - a) : SubSeq(text, a + 1, b)[i] = text[a + i]
  <2>1. \A i \in (a + 1)..b : text[i] \in S
    BY <1>1, <1>2, ElementOfSeq
  <2> DEFINE p == SubSeq(text, a + 1, b)
  <2>2. /\ p \in Seq(S) /\ Len(p) = IF a + 1 <= b THEN b - (a + 1) + 1 ELSE 0
        /\ \A i \in 1..(b - (a + 1) + 1) : p[i] = text[a + 1 + i - 1]
    BY <2>1, SubSeqProperties
  <2> HIDE DEF p
  <2>3. \A i \in 1..(b - a) : a + 1 + i - 1 = a + i
    BY <1>2
  <2>4. /\ p \in Seq(S) /\ Len(p) = b - a /\ \A i \in 1..(b - a) : p[i] = text[a + i]
    BY <1>2, <2>2, <2>3
  <2> QED BY <2>4 DEF p
<1>3. /\ s \in Seq(S) /\ Len(s) = mid - from /\ \A i \in 1..(mid - from) : s[i] = text[from + i]
      /\ t \in Seq(S) /\ Len(t) = size - mid /\ \A i \in 1..(size - mid) : t[i] = text[mid + i]
      /\ u \in Seq(S) /\ Len(u) = size - from /\ \A i \in 1..(size - from) : u[i] = text[from + i]
  BY <1>1, <1>2
<1> HIDE DEF s, t, u, size
<1>4. PICK st : st = s \o t
  OBVIOUS
<1>5. Joins(S, s, t, st)
  BY <1>3, <1>4, PartsJoined
<1>6. ASSUME NEW i \in 1..Len(u) PROVE st[i] = u[i]
  <2>1. CASE i <= mid - from
    BY <1>1, <1>3, <1>5, <2>1 DEF Joins
  <2>2. CASE i > mid - from
    <3> DEFINE k == i - (mid - from)
    <3>1. k \in 1..Len(t) /\ Len(s) + k = i /\ mid + k = from + i /\ k \in 1..(size - mid)
      BY <1>1, <1>3, <2>2
    <3> HIDE DEF k
    <3>2. st[Len(s) + k] = t[k]
      BY <1>5, <3>1 DEF Joins
    <3>3. t[k] = text[mid + k]
      BY <1>3, <3>1
    <3> QED BY <1>3, <3>1, <3>2, <3>3
  <2> QED BY <1>1, <1>3, <2>1, <2>2
<1>7. st \in Seq(S) /\ Len(st) = Len(u)
  BY <1>1, <1>3, <1>5 DEF Joins, size
<1> QED BY <1>3, <1>4, <1>6, <1>7, SameElements DEF s, t, u, size

\* Where the piece ends that begins behind `from`, and what is read from there on.
EndOf(cuts, from) == Min({c \in cuts : c > from})

Reads(wire, size, cuts, f) ==
    f = [from \in 0..Len(wire) |->
            IF from >= size THEN <<>>
            ELSE Piece(wire, from + 1, EndOf(cuts, from)) \o f[EndOf(cuts, from)]]

\* Whatever the pieces, they make up the text: what rcvData returns is determined by
\* where it has got to, and from anywhere in the text that is the rest of the text.
LEMMA ReceivedIs ==
    ASSUME NEW S, NEW text \in Seq(S), NulFree(text),
           NEW wire, NEW blocks, Carries(S, wire, blocks, text),
           NEW cuts \in SUBSET (1..Len(wire)), Len(wire) \in cuts
    PROVE  Received(wire, Len(text), cuts) = text
<1> DEFINE size == Len(text)
           n    == Len(wire)
           g    == [from \in 0..n |-> SubSeq(text, from + 1, size)]
           f    == CHOOSE h : Reads(wire, size, cuts, h)
<1>1. /\ size \in Nat /\ n \in Nat /\ size <= n
      /\ cuts \in SUBSET (1..n) /\ n \in cuts
  BY LenProperties DEF Carries
<1> HIDE DEF size, n, f
<1>2. ASSUME NEW from \in 0..n, from < size
      PROVE  /\ EndOf(cuts, from) \in 0..n /\ from < EndOf(cuts, from)
             /\ Piece(wire, from + 1, EndOf(cuts, from)) \o g[EndOf(cuts, from)] = g[from]
  <2> DEFINE E  == {c \in cuts : c > from}
             upto == EndOf(cuts, from)
  <2>1. from \in Nat /\ E \in SUBSET Nat /\ n \in E
    <3>1. from \in Nat /\ n > from
      BY <1>1, <1>2
    <3>2. \A c \in cuts : c \in Nat
      BY <1>1
    <3> QED BY <1>1, <3>1, <3>2
  <2>2. upto \in E
    <3> HIDE DEF E
    <3>1. Min(E) \in E
      BY <2>1, MinIsLeast
    <3> QED BY <3>1 DEF EndOf, E
  <2> HIDE DEF upto
  <2>3. upto \in Nat /\ upto \in 0..n /\ from < upto /\ upto <= n
    <3>1. upto \in 1..n /\ upto > from
      BY <1>1, <2>2
    <3> QED BY <1>1, <2>1, <3>1
  <2>4. Piece(wire, from + 1, upto) = SubSeq(text, from + 1, IF upto <= size THEN upto ELSE size)
    BY <1>2, <2>1, <2>3, PieceIs DEF size, n
  <2>5. g[upto] = SubSeq(text, upto + 1, size) /\ g[from] = SubSeq(text, from + 1, size)
    BY <2>3
  <2> HIDE DEF g
  <2>6. CASE upto <= size
    <3>1. SubSeq(text, from + 1, upto) \o SubSeq(text, upto + 1, size)
             = SubSeq(text, from + 1, size)
      BY <2>1, <2>3, <2>6, PartsInARow DEF size
    <3> QED BY <2>3, <2>4, <2>5, <2>6, <3>1 DEF upto
  <2>7. CASE upto > size
    <3>1. SubSeq(text, upto + 1, size) = <<>>
      BY <1>1, <2>3, <2>7, SubSeqEmpty
    <3>2. Piece(wire, from + 1, upto) = SubSeq(text, from + 1, size)
      BY <1>1, <2>3, <2>4, <2>7
    <3>3. \A i \in (from + 1)..size : text[i] \in S
      BY <1>1, <2>1, ElementOfSeq DEF size
    <3>4. SubSeq(text, from + 1, size) \in Seq(S)
      BY <1>1, <2>1, <3>3, SubSeqProperties
    <3>5. Piece(wire, from + 1, upto) \o g[upto] = g[from]
      BY <2>5, <3>1, <3>2, <3>4, ConcatEmptySeq
    <3> QED BY <2>3, <3>5 DEF upto
  <2>8. upto <= size \/ upto > size
    BY <1>1, <2>3
  <2> QED BY <2>6, <2>7, <2>8
<1>3. \A from \in 0..n : from >= size => g[from] = <<>>
  BY <1>1, SubSeqEmpty
<1>4. Reads(wire, size, cuts, g)
  <2> DEFINE Onward(from) == IF from >= size THEN <<>>
                             ELSE Piece(wire, from + 1, EndOf(cuts, from)) \o g[EndOf(cuts, from)]
  <2>1. ASSUME NEW from \in 0..n PROVE g[from] = Onward(from)
    <3>1. CASE from >= size
      BY <1>3, <3>1
    <3>2. CASE from < size
      <4>1. ~(from >= size)
        BY <1>1, <3>2
      <4> QED BY <1>2, <3>2, <4>1
    <3>3. from >= size \/ from < size
      BY <1>1
    <3> QED BY <3>1, <3>2, <3>3
  <2>2. \A from \in 0..n : SubSeq(text, from + 1, size) = Onward(from)
    BY <2>1
  <2>3. g = [from \in 0..n |-> Onward(from)]
    <3> HIDE DEF Onward
    <3> QED BY <2>2
  <2> QED BY <2>3, Zenon DEF Reads, n
<1> HIDE DEF g
<1>5. Reads(wire, size, cuts, f)
  BY <1>4, Zenon DEF f
<1>6. ASSUME NEW from \in 0..n
      PROVE  f[from] = IF from >= size THEN <<>>
                       ELSE Piece(wire, from + 1, EndOf(cuts, from)) \o f[EndOf(cuts, from)]
  BY <1>5 DEF Reads, n
<1>7. \A from \in 0..n : f[from] = g[from]
  <2> DEFINE Wrong == {from \in 0..n : f[from] # g[from]}
             Left  == {n - from : from \in Wrong}
  <2> SUFFICES ASSUME Wrong # {} PROVE FALSE
    OBVIOUS
  <2>1. Left \in SUBSET Nat /\ Left # {}
    BY <1>1
  <2>2. Min(Left) \in Left /\ \A x \in Left : Min(Left) <= x
    <3> HIDE DEF Left
    <3> QED BY <2>1, MinIsLeast
  <2>3. PICK from \in Wrong : n - from = Min(Left)
    BY <2>2
  <2>4. \A x \in Wrong : n - from <= n - x
    BY <2>2, <2>3
  <2>5. from \in 0..n /\ f[from] # g[from]
    BY <2>3
  <2>6. CASE from >= size
    BY <1>3, <1>6, <2>5, <2>6
  <2>7. CASE from < size
    <3>1. EndOf(cuts, from) \in 0..n /\ from < EndOf(cuts, from)
      BY <1>2, <2>5, <2>7
    <3>2. f[EndOf(cuts, from)] = g[EndOf(cuts, from)]
      BY <1>1, <2>4, <2>5, <3>1
    <3>3. f[from] = Piece(wire, from + 1, EndOf(cuts, from)) \o f[EndOf(cuts, from)]
      <4>1. ~(from >= size)
        BY <1>1, <2>5, <2>7
      <4> QED BY <1>6, <2>5, <4>1
    <3>4. f[from] = g[from]
      BY <1>2, <2>5, <2>7, <3>2, <3>3
    <3> QED BY <2>5, <3>4
  <2> QED BY <1>1, <2>5, <2>6, <2>7
<1>8. Received(wire, size, cuts) = f[0]
  BY DEF Received, Reads, EndOf, f
<1>9. g[0] = text
  <2>1. g[0] = SubSeq(text, 1, size)
    BY <1>1 DEF g
  <2>2. \A i \in 1..size : text[i] \in S
    BY ElementOfSeq DEF size
  <2>3. /\ SubSeq(text, 1, size) \in Seq(S)
        /\ Len(SubSeq(text, 1, size)) = IF 1 <= size THEN size - 1 + 1 ELSE 0
        /\ \A i \in 1..(size - 1 + 1) : SubSeq(text, 1, size)[i] = text[1 + i - 1]
    BY <1>1, <2>2, SubSeqProperties
  <2>4. Len(SubSeq(text, 1, size)) = size /\ \A i \in 1..size : SubSeq(text, 1, size)[i] = text[i]
    BY <1>1, <2>3
  <2>5. SubSeq(text, 1, size) = text
    BY <2>3, <2>4, SameElements DEF size
  <2> QED BY <2>1, <2>5
<1> QED BY <1>1, <1>7, <1>8, <1>9 DEF size

\* A piece may end anywhere, and the last one ends where the wire does.
LEMMA CutsEndTheWire ==
    ASSUME NEW blocks \in Nat \ {0}, NEW cuts \in Cuts(blocks * Block)
    PROVE  cuts \in SUBSET (1..(blocks * Block)) /\ blocks * Block \in cuts
<1> DEFINE n     == blocks * Block
           whole == {Block * b : b \in 1..(n \div Block)}
<1>1. n \in Nat /\ n \div Block = blocks /\ n = Block * blocks
  BY StreamAssumption
<1>2. whole \subseteq 1..n
  <2> SUFFICES ASSUME NEW b \in 1..blocks PROVE Block * b \in 1..n
    BY <1>1
  <2>1. Block * (blocks - b) \in Nat /\ n = Block * b + Block * (blocks - b)
    BY <1>1, StreamAssumption
  <2>2. Block * (b - 1) \in Nat /\ Block * b = Block * (b - 1) + Block
    BY StreamAssumption
  <2> QED BY <1>1, <2>1, <2>2, StreamAssumption
<1>3. n \in whole
  BY <1>1
<1> HIDE DEF n, whole
<1>4. PICK extra \in UNION {kSubset(i, 1..n \ whole) : i \in 0..MaxCuts} : cuts = whole \cup extra
  BY DEF Cuts, n, whole
<1>5. extra \subseteq 1..n
  BY <1>4 DEF kSubset
<1> QED BY <1>2, <1>3, <1>4, <1>5 DEF n

\* A text that does not throw and holds no NUL arrives as it was sent.
LEMMA ArrivesIntact ==
    ASSUME NEW S, NUL \in S, NEW text \in Seq(S), NulFree(text), ~Throws(Len(text)),
           NEW cuts \in Cuts(Len(Wire(text)))
    PROVE  Received(Wire(text), Len(text), cuts) = text
<1> DEFINE blocks == Cardinality(Sent(Len(text))) + 1
<1>1. Carries(S, Wire(text), blocks, text)
  BY WireCarries
<1> HIDE DEF blocks
<1>2. blocks \in Nat \ {0} /\ Len(Wire(text)) = blocks * Block
  BY <1>1 DEF Carries
<1>3. cuts \in SUBSET (1..Len(Wire(text))) /\ Len(Wire(text)) \in cuts
  BY <1>2, CutsEndTheWire
<1>4. PICK wire : wire = Wire(text)
  OBVIOUS
<1>5. Received(wire, Len(text), cuts) = text
  BY <1>1, <1>3, <1>4, ReceivedIs
<1> QED BY <1>4, <1>5

--------------------------------------------------------------------------------
(* The texts of the machines                                                    *)

\* A text without a NUL
Written(text) == \E S : NUL \notin S /\ text \in Seq(S)

LEMMA WrittenArrives ==
    ASSUME NEW text, Written(text), MaySend(text), NEW cuts \in Cuts(Len(Wire(text)))
    PROVE  Received(Wire(text), Len(text), cuts) = text
<1>1. PICK S : NUL \notin S /\ text \in Seq(S)
  BY DEF Written
<1> DEFINE T == S \cup {NUL}
<1>2. NUL \in T /\ S \subseteq T
  OBVIOUS
<1> HIDE DEF T
<1>3. text \in Seq(T)
  BY <1>1, <1>2, LargerSet
<1>4. NulFree(text)
  <2>1. \A j \in 1..Len(text) : text[j] \in S
    BY <1>1, ElementOfSeq
  <2> QED BY <1>1, <2>1 DEF NulFree
<1> QED BY <1>2, <1>3, <1>4, ArrivesIntact DEF MaySend

\* What clients mean is written, and so is what the replicas are sent for it.
LEMMA QuestionIsWritten ==
    ASSUME NEW q \in Question
    PROVE  Written(TypedText(q)) /\ Written(ForceText[q])
<1> DEFINE S == Symbols \cup ToSet(q.key) \cup ToSet(q.value) \cup {"show"}
<1>1. NUL \notin S /\ "f" \in S
  <2>1. NUL \notin ToSet(q.key) \cup ToSet(q.value)
    BY TextAssumption
  <2>2. NUL \notin Symbols /\ "f" \in Symbols
    BY DEF NUL, Symbols, Comma, Name, NeedsValue, NeedsKey
  <2> QED BY <2>1, <2>2 DEF NUL
<1>2. PICK text : text = TypedText(q)
  OBVIOUS
<1>3. text \in Seq(S)
  <2>1. CASE q.name = <<"show">>
    <3>1. text = <<"show">>
      BY <1>2, <2>1 DEF TypedText
    <3> QED BY <3>1, OneSymbol
  <2>2. CASE q.name # <<"show">>
    <3> DEFINE T == Symbols \cup ToSet(q.key) \cup ToSet(q.value)
    <3>1. /\ Built(T, text, q.level, q.name, q.key, q.value)
          /\ Symbols \subseteq T /\ T \subseteq S
      BY <1>2, <2>2, QuestionIsBuilt
    <3> HIDE DEF T, S
    <3>2. text \in Seq(T)
      BY <3>1, Layout DEF LaidOut
    <3> QED BY <3>1, <3>2, LargerSet
  <2> QED BY <2>1, <2>2
<1> HIDE DEF S
<1>4. ForceText[q] \in Seq(S)
  <2> DEFINE rest == IF LevelGiven(text) THEN SubSeq(text, 3, Len(text)) ELSE text
  <2>1. ForceText[q] = <<"f">> \o rest
    BY <1>2 DEF ForceText, ForceCommand
  <2>2. SubSeq(text, 3, Len(text)) \in Seq(S)
    <3>1. Len(text) \in Nat /\ \A i \in 3..Len(text) : text[i] \in S
      BY <1>3, LenProperties, ElementOfSeq
    <3> QED BY <3>1, SubSeqProperties
  <2>3. rest \in Seq(S)
    BY <1>3, <2>2
  <2> HIDE DEF rest
  <2>4. <<"f">> \in Seq(S)
    BY <1>1, OneSymbol
  <2> QED BY <2>1, <2>3, <2>4, ConcatProperties
<1> QED BY <1>1, <1>2, <1>3, <1>4 DEF Written

LEMMA AnswerIsWritten ==
    ASSUME NEW text \in Replies \cup Errors
    PROVE  Written(text)
<1>1. CASE text \in Replies
  BY <1>1, TextAssumption DEF Written
<1>2. CASE text \in Errors
  <2> DEFINE S == {"Failed to receive reply", "Failed to send"}
  <2>1. NUL \notin S
    BY DEF NUL
  <2>2. text = <<>> \/ \E x \in S : text = <<x>>
    BY <1>2 DEF Errors, NoReceive, NoSend, NoText
  <2> HIDE DEF S
  <2>3. text \in Seq(S)
    <3>1. CASE text = <<>>
      BY <3>1
    <3>2. ASSUME NEW x \in S, text = <<x>> PROVE text \in Seq(S)
      BY <3>2, OneSymbol
    <3> QED BY <2>2, <3>1, <3>2
  <2> QED BY <2>1, <2>3 DEF Written
<1> QED BY <1>1, <1>2

\* Whatever a thread is about to send is written.
LEMMA OutgoingIsWritten ==
    ASSUME IInv, NEW r \in Request, NEW i \in DOMAIN chain[r]
    PROVE  Written(Outgoing(r, i))
<1>1. i \in 1..Len(chain[r]) /\ Len(chain[r]) \in Nat /\ Len(answer[r]) = Len(chain[r])
  BY Positions DEF IInv
<1>2. question[r] \in Question
  <2>1. chain[r] # <<>>
    BY <1>1
  <2> QED BY <2>1 DEF IInv, RequestInv, Asked, TypeOK
<1>3. answer[r][i] \in Replies \cup Errors
  <2>1. answer[r] \in Seq(Replies \cup Errors)
    BY DEF IInv, TypeOK
  <2> QED BY <1>1, <2>1, ElementOfSeq
<1> QED BY <1>2, <1>3, QuestionIsWritten, AnswerIsWritten DEF Outgoing

--------------------------------------------------------------------------------
(* Theorems                                                                     *)

\* The variables keep their types, and every thread that waits to connect has the
\* name of a machine (ConnectionHandler::updateKeyValue).
THEOREM TypeCorrect == Spec => []TypeOK
<1>1. IInv => TypeOK
  BY DEF IInv
<1>2. QED
  BY <1>1, Invariant, PTL

\* However often connections fail and the owner is looked up again, a command is
\* executed at most once and by one machine (the loop of updateKeyValue).
THEOREM AtMostOnce == Spec => []ExecutedAtMostOnce
<1>1. IInv => ExecutedAtMostOnce
  BY DEF IInv, RequestInv, ExecutedAtMostOnce
<1>2. QED
  BY <1>1, Invariant, PTL

\* A client that is told no error is told what the machine that executed its command
\* has answered, however long the chain (updateKeyValue, tcpConnectSocket).
THEOREM AlwaysTheOwnersAnswer == Spec => []AnswerIsTheOwners
<1>1. IInv => AnswerIsTheOwners
  <2> SUFFICES ASSUME IInv, NEW r \in Request, told[r] \notin Errors \cup {NotYet}
               PROVE  \E j \in DOMAIN executed[r] : executed[r][j].reply = told[r]
    BY DEF AnswerIsTheOwners
  <2>1. Heard(r, told[r])
    BY DEF IInv, RequestInv
  <2>2. DOMAIN executed[r] = 1..Len(executed[r])
    BY Positions DEF IInv
  <2>3. QED
    BY <2>1, <2>2 DEF Heard
<1>2. QED
  BY <1>1, Invariant, PTL

\* A request comes nearer to its key or stays where it is, whatever rings the machines
\* see: no two machines send it to and fro (getIPToSendToFromKeyHash).
THEOREM AlwaysNearer == Spec => []NeverSentBack
<1>1. IInv => NeverSentBack
  BY DEF IInv, RequestInv, SentOn, NeverSentBack
<1>2. QED
  BY <1>1, Invariant, PTL

\* What is executed is what the client meant, whatever keys and values look like, and
\* the replicas are sent the same (parseKeyValueStoreCmd, getForceCommand).  A key
\* with a comma is read as the part before it.
THEOREM AlwaysAsMeant == Spec => []ExecutedAsMeant
<1>1. IInv /\ CalmInv => ExecutedAsMeant
  <2> SUFFICES ASSUME IInv, CalmInv, NEW r \in Request, NEW j \in DOMAIN executed[r],
                      Comma \notin ToSet(question[r].key)
               PROVE  LET q      == question[r]
                          did    == executed[r][j].command
                          forced == Parse(ForceText[q])
                      IN  /\ did.name = q.name /\ did.key = q.key /\ did.value = q.value
                          /\ ~Local(did) =>
                                /\ forced.name = <<"f">> \o q.name
                                /\ forced.key = q.key /\ forced.value = q.value
    BY DEF ExecutedAsMeant
  <2>1. j \in 1..Len(executed[r])
    BY Positions DEF IInv
  <2>2. executed[r][j].command = CommandOf[question[r]]
    BY <2>1 DEF CalmInv, Faithful, Given
  <2>3. question[r] \in Question
    <3>1. executed[r] # <<>>
      BY <2>1
    <3>2. QED
      BY <3>1 DEF IInv, RequestInv, Asked, TypeOK
  <2>4. QED
    BY <2>2, <2>3, Understood
<1>2. QED
  BY <1>1, CalmInvariant, PTL

\* While all machines see one ring a request is passed on once at most, and only the
\* owner of its key executes it (updateKeyValue, getIPToSendToFromKeyHash).
THEOREM AlwaysOneForward == Spec => []OneForwardWhenAgreed
<1>1. IInv /\ CalmInv => OneForwardWhenAgreed
  <2> SUFFICES ASSUME IInv, CalmInv, NEW r \in Request, Asked(r), calm[r]
               PROVE  /\ Len(chain[r]) <= 2
                      /\ question[r].name \in Operations =>
                            \A j \in DOMAIN executed[r] :
                                executed[r][j].at = OwnerHash(up, KeyHash(r))
    BY DEF OneForwardWhenAgreed
  <2>1. CalmRest(r)
    BY DEF CalmInv, Calm
  <2>2. question[r] \in Question
    BY DEF IInv, Asked, TypeOK
  <2>3. question[r].name \in Operations => ~Local(Given(r))
    BY <2>2, OperationIsNotLocal DEF Given
  <2>4. DOMAIN executed[r] = 1..Len(executed[r])
    BY Positions DEF IInv
  <2>5. QED
    BY <2>1, <2>3, <2>4 DEF CalmRest, OwnerNow
<1>2. QED
  BY <1>1, CalmInvariant, PTL

\* Whatever TCP makes of them, and whatever the size of the buffers, the texts of
\* machines and clients are received as they were sent, as long as sendData does not
\* throw: that it sends each block too early by as many characters as blocks have gone
\* before loses none of them (sendData, rcvData).
THEOREM AlwaysIntact == Spec => []TextsArriveIntact
<1>1. IInv => TextsArriveIntact
  <2> SUFFICES ASSUME IInv, NEW r \in Request, NEW i \in DOMAIN chain[r],
                      MaySend(Outgoing(r, i)),
                      NEW cuts \in Cuts(Len(Wire(Outgoing(r, i))))
               PROVE  Received(Wire(Outgoing(r, i)), Len(Outgoing(r, i)), cuts) = Outgoing(r, i)
    BY DEF TextsArriveIntact
  <2>1. Written(Outgoing(r, i))
    BY OutgoingIsWritten
  <2> QED BY <2>1, WrittenArrives
<1> QED BY <1>1, Invariant, PTL
================================================================================
