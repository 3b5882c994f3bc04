------------------------------- MODULE Forwarding --------------------------------
(* A client may ask any machine.  The thread which serves it there               *)
(* (ConnectionHandler::updateKeyValue) finds the owner of the key on the ring its *)
(* machine sees at that moment, asks the owner over TCP in its turn, waits and    *)
(* passes the answer on.  The owner may see another ring and do the same, so that *)
(* a request is a chain of threads on different machines, while members join,     *)
(* fail and are noticed late.                                                    *)
(*                                                                               *)
(* What the owner does with the replicas is in Requests.tla.  Texts arrive as     *)
(* they were sent, which TextsArriveIntact checks for what Stream.tla says of     *)
(* sendData and rcvData.                                                         *)
EXTENDS Ring, Command, Stream

CONSTANTS Request,        \* requests, each made at most once
          Machine,        \* the hashes of all machines there may be
          Start,          \* those of the machines the system starts with
          Question,       \* what clients may mean, see TypedText
          Replies,        \* the texts a local operation may answer with
          HashOf(_),      \* Hash::calculateKeyHash
          MaxJoins,       \* bound on the machines that join
          MaxCrashes      \* bound on the crashes nobody's request has caused

\* A network error as a text, and the only one updateKeyValue looks for.  A value
\* that reads like it is outside the model.
NoConnect == <<"Failed to Connect">>
NoReceive == <<"Failed to receive reply">>
NoSend    == <<"Failed to send">>
NoText    == <<>>
NotYet    == <<"not yet">>

Errors == {NoReceive, NoSend, NoText}

NoQuestion == [name |-> <<>>]

ASSUME ForwardingAssumption ==
    /\ Machine \subseteq Hash /\ Start \subseteq Machine /\ Start # {}
    /\ NoConnect \notin Replies /\ NotYet \notin Replies
    /\ NoQuestion \notin Question
    /\ MaxJoins \in Nat /\ MaxCrashes \in Nat

VARIABLES up,             \* the machines that run
          view,           \* the ring each of them sees
          joins, crashes, \* how many have joined, and crashed
          doomed,         \* machines with a thread that is about to throw
          question,       \* what the client of a request means
          chain,          \* the machines whose threads serve it, in the order asked
          pc,             \* where each of these threads is
          to,             \* the machine it asks
          answer,         \* and the text it is going to send back
          told,           \* what the client is told
          executed,       \* what has been executed for a request, and where
          calm            \* has everybody seen the same ring since it was made?

members == <<up, view, joins, crashes, doomed, calm>>
threads == <<chain, pc, to, answer>>
vars    == <<members, question, threads, told, executed>>

Asked(r) == question[r] # NoQuestion

--------------------------------------------------------------------------------
(* Texts                                                                        *)

\* What a user types, or applicationClient makes of a word.
TypedText(q) ==
    IF q.name = <<"show">> THEN q.name ELSE q.level \o BuildCommand(q.name, q.key, q.value)

\* A level, if any, an operation, a key and, if it needs one, a value.
ASSUME QuestionAssumption ==
    \A q \in Question :
        /\ q.level \in {<<>>, <<"a", "-">>, <<"o", "-">>, <<"q", "-">>}
        /\ q.name \in Operations \cup ForceOperations \cup {<<"show">>}
        /\ q.key \in Seq(ToSet(q.key)) /\ q.value \in Seq(ToSet(q.value))
        /\ Plain(q.name) \notin NeedsValue => q.value = <<>>
        /\ q.name = <<"show">> => q.level = <<>> /\ q.key = <<>>

\* Nobody types a NUL, and the machines put none into their answers.
ASSUME TextAssumption ==
    /\ \A q \in Question : NUL \notin ToSet(q.key) \cup ToSet(q.value)
    /\ \A reply \in Replies : reply \in Seq(ToSet(reply)) /\ NUL \notin ToSet(reply)

\* client.cpp sends what is valid, applicationClient any lookup.  A text on which
\* sendData throws takes the client down and nobody else.
Sendable(q) ==
    /\ \/ IsValidCommand(Parse(TypedText(q)))
       \/ q.name = <<"lookup">> /\ q.level = <<>>
    /\ ~Throws(Len(TypedText(q)))

\* What the servers make of each text, which is the same for all of them.
CommandOf == [q \in Question |-> Parse(TypedText(q))]
ForceText == [q \in Question |-> ForceCommand(TypedText(q))]
HashFor   == [q \in Question |-> HashOf(Parse(TypedText(q)).key)]

ASSUME KeyHashAssumption == HashFor \in [Question -> Hash]

Given(r)   == CommandOf[question[r]]
KeyHash(r) == HashFor[question[r]]

\* What may become of a sendData.
MaySend(text) == ~Throws(Len(text))
MayDie(text)  == Throws(Len(text)) \/ Overruns(Len(text))

--------------------------------------------------------------------------------
(* Members come and go                                                          *)

Init ==
    /\ up = Start
    /\ view = [m \in Machine |-> IF m \in Start THEN Start ELSE {}]
    /\ joins = 0 /\ crashes = 0
    /\ doomed = {}
    /\ question = [r \in Request |-> NoQuestion]
    /\ chain = [r \in Request |-> <<>>]
    /\ pc = [r \in Request |-> <<>>]
    /\ to = [r \in Request |-> <<>>]
    /\ answer = [r \in Request |-> <<>>]
    /\ told = [r \in Request |-> NotYet]
    /\ executed = [r \in Request |-> <<>>]
    /\ calm = [r \in Request |-> TRUE]

Agreed == \A m \in up : view[m] = up

\* Mutant: a new member is not on its own ring.
JoinUnseen(m) ==
    /\ joins < MaxJoins
    /\ m \in Machine \ up
    /\ view[m] = {}
    /\ up' = up \cup {m}
    /\ joins' = joins + 1
    /\ calm' = [r \in Request |-> FALSE]
    /\ UNCHANGED <<view, crashes, doomed, question, threads, told, executed>>

\* A machine starts, and sees itself.
Join(m) ==
    /\ joins < MaxJoins
    /\ m \in Machine \ up
    /\ view[m] = {}
    /\ up' = up \cup {m}
    /\ view' = [view EXCEPT ![m] = {m}]
    /\ joins' = joins + 1
    /\ calm' = [r \in Request |-> FALSE]
    /\ UNCHANGED <<crashes, doomed, question, threads, told, executed>>

\* Machine m is gone, with all its threads.
Down(m) ==
    /\ up' = up \ {m}
    /\ doomed' = doomed \ {m}
    /\ calm' = [r \in Request |-> FALSE]
    /\ pc' = [r \in Request |-> [i \in DOMAIN pc[r] |->
                 IF chain[r][i] = m THEN "dead" ELSE pc[r][i]]]
    /\ UNCHANGED <<view, joins, question, chain, to, answer, told>>

Crash(m) ==
    /\ m \in up
    /\ crashes < MaxCrashes
    /\ crashes' = crashes + 1
    /\ Down(m)
    /\ UNCHANGED executed

\* A thread that sends to a replica throws.
Terminate(m) ==
    /\ m \in doomed
    /\ Down(m)
    /\ UNCHANGED <<crashes, executed>>

\* addToList, removeFromList (RingView.tla, Gossip.tla)
AddToList(m, new) ==
    /\ m \in up
    /\ new \in up \ view[m]
    /\ view' = [view EXCEPT ![m] = @ \cup {new}]
    /\ UNCHANGED <<up, joins, crashes, doomed, calm, question, threads, told, executed>>

RemoveFromList(m, lost) ==
    /\ m \in up
    /\ lost \in view[m] \ up
    /\ view' = [view EXCEPT ![m] = @ \ {lost}]
    /\ UNCHANGED <<up, joins, crashes, doomed, calm, question, threads, told, executed>>
--------------------------------------------------------------------------------
(* The threads which serve a request                                            *)

\* Thread i of request r runs, and is where it can take this step.
At(r, i, place) ==
    /\ i \in DOMAIN chain[r]
    /\ pc[r][i] = place

\* Mutant: a lookup is answered by the machine that is asked.
LocalReads(command) ==
    IsForceOperation(command) \/ command.name \in {<<"show">>, <<"lookup">>}

\* What any machine executes itself
Local(command) == IsForceOperation(command) \/ command.name = <<"show">>

\* Mutant: a key belongs to the machine below it.
OwnerSeenBelow(m, hash) == Predecessor(view[m], hash)

\* getIPToSendToFromKeyHash
OwnerSeen(m, hash) == OwnerHash(view[m], hash)

\* A client connects to any machine; TCPSocketHandler starts a thread for it.
Ask(r, m) ==
    /\ ~Asked(r)
    /\ m \in up
    /\ \E q \in Question : Sendable(q) /\ question' = [question EXCEPT ![r] = q]
    /\ chain' = [chain EXCEPT ![r] = <<m>>]
    /\ pc' = [pc EXCEPT ![r] = <<"route">>]
    /\ to' = [to EXCEPT ![r] = <<NoHash>>]
    /\ answer' = [answer EXCEPT ![r] = <<NoText>>]
    /\ calm' = [calm EXCEPT ![r] = Agreed]
    /\ UNCHANGED <<up, view, joins, crashes, doomed, told, executed>>

\* The command is read.  The owner of its key goes on to the replicas, any machine
\* with a local command to its store, and another machine to the owner.
Route(r, i) ==
    /\ At(r, i, "route")
    /\ LET local == Local(Given(r))
           owner == OwnerSeen(chain[r][i], KeyHash(r))
       IN  \/ /\ local
              /\ pc' = [pc EXCEPT ![r][i] = "perform"]
              /\ UNCHANGED to
           \/ /\ ~local /\ owner = chain[r][i]
              /\ pc' = [pc EXCEPT ![r][i] = "replicate"]
              /\ UNCHANGED to
           \/ /\ ~local /\ owner # chain[r][i]
              /\ pc' = [pc EXCEPT ![r][i] = "connect"]
              /\ to' = [to EXCEPT ![r][i] = owner]
    /\ UNCHANGED <<members, question, chain, answer, told, executed>>

\* tcpConnectSocket up to sendData: the machine runs, and starts a thread.
Connect(r, i) ==
    /\ At(r, i, "connect")
    /\ to[r][i] \in up
    /\ chain' = [chain EXCEPT ![r] = Append(@, to[r][i])]
    /\ pc' = [pc EXCEPT ![r] = Append([@ EXCEPT ![i] = "wait"], "route")]
    /\ to' = [to EXCEPT ![r] = Append(@, NoHash)]
    /\ answer' = [answer EXCEPT ![r] = Append(@, NoText)]
    /\ UNCHANGED <<members, question, told, executed>>

\* Mutant: it insists on the machine it has found first.
RetrySame(r, i) ==
    /\ At(r, i, "connect")
    /\ to[r][i] \notin up
    /\ UNCHANGED vars

\* "Failed to Connect": the owner is looked up again, before the sleep.  It may be
\* the machine itself by now, which then connects to itself.
Retry(r, i) ==
    /\ At(r, i, "connect")
    /\ to[r][i] \notin up
    /\ to' = [to EXCEPT ![r][i] = OwnerSeen(chain[r][i], KeyHash(r))]
    /\ UNCHANGED <<members, question, chain, pc, answer, told, executed>>

\* Mutant: any failure is a reason to ask again.
LoseReplyAskAgain(r, i) ==
    /\ At(r, i, "wait")
    /\ pc[r][i + 1] = "dead"
    /\ pc' = [pc EXCEPT ![r][i] = "connect"]
    /\ UNCHANGED <<members, question, chain, to, answer, told, executed>>

\* Mutant: an answer that does not come is taken for success.
LoseReplySilently(r, i) ==
    /\ At(r, i, "wait")
    /\ pc[r][i + 1] = "dead"
    /\ pc' = [pc EXCEPT ![r][i] = "reply"]
    /\ \E reply \in Replies : answer' = [answer EXCEPT ![r][i] = reply]
    /\ UNCHANGED <<members, question, chain, to, told, executed>>

\* The machine asked is gone: sendData or rcvData say so, or rcvData reads nothing
\* into the length and returns an empty text.
LoseReply(r, i) ==
    /\ At(r, i, "wait")
    /\ pc[r][i + 1] = "dead"
    /\ pc' = [pc EXCEPT ![r][i] = "reply"]
    /\ \E error \in Errors : answer' = [answer EXCEPT ![r][i] = error]
    /\ UNCHANGED <<members, question, chain, to, told, executed>>

\* sendForceOperations, of which only this matters here: the forced text may be of
\* a length on which sendData throws.  At level ALL the thread waits for that.
Replicate(r, i) ==
    /\ At(r, i, "replicate")
    /\ LET m      == chain[r][i]
           forced == ForceText[question[r]]
           alone  == view[m] = {m}
       IN  \/ /\ alone \/ MaySend(forced)
              /\ pc' = [pc EXCEPT ![r][i] = "perform"]
              /\ UNCHANGED doomed
           \/ /\ ~alone /\ MayDie(forced)
              /\ pc' = [pc EXCEPT ![r][i] =
                          IF Given(r).level = "a" THEN "join" ELSE "perform"]
              /\ doomed' = doomed \cup {m}
    /\ UNCHANGED <<up, view, joins, crashes, calm, question, chain, to, answer, told, executed>>

\* performOperationLocally
Perform(r, i) ==
    /\ At(r, i, "perform")
    /\ \E reply \in Replies :
          /\ answer' = [answer EXCEPT ![r][i] = reply]
          /\ executed' = [executed EXCEPT ![r] =
                Append(@, [at |-> chain[r][i], command |-> Given(r), reply |-> reply])]
    /\ pc' = [pc EXCEPT ![r][i] = "reply"]
    /\ UNCHANGED <<members, question, chain, to, told>>

\* sendData to the client or to the thread that has asked.  That one's loop ends
\* unless the text it gets is "Failed to Connect".
Reply(r, i) ==
    /\ At(r, i, "reply")
    /\ MaySend(answer[r][i])
    /\ IF i = 1
       THEN /\ told' = [told EXCEPT ![r] = answer[r][i]]
            /\ pc' = [pc EXCEPT ![r][i] = "done"]
            /\ UNCHANGED answer
       ELSE /\ pc[r][i - 1] = "wait"
            /\ pc' = [pc EXCEPT ![r][i] = "done",
                                ![r][i - 1] = IF answer[r][i] = NoConnect THEN "connect" ELSE "reply"]
            /\ answer' = [answer EXCEPT ![r][i - 1] = answer[r][i]]
            /\ UNCHANGED told
    /\ UNCHANGED <<members, question, chain, to, executed>>

\* A text on which sendData throws takes the machine down with all its requests.
ReplyThrows(r, i) ==
    /\ At(r, i, "reply")
    /\ MayDie(answer[r][i])
    /\ Down(chain[r][i])
    /\ UNCHANGED <<crashes, executed>>

\* Nobody is there to take the answer.  The second send on such a connection
\* raises SIGPIPE, unless it is fast enough.
ReplyToNobody(r, i) ==
    /\ At(r, i, "reply")
    /\ i > 1 /\ pc[r][i - 1] = "dead"
    /\ \/ Down(chain[r][i]) /\ UNCHANGED <<crashes, executed>>
       \/ /\ pc' = [pc EXCEPT ![r][i] = "done"]
          /\ UNCHANGED <<members, question, chain, to, answer, told, executed>>

\* The client's own tcpConnectSocket ends when the machine it has asked is gone.
ClientLoses(r) ==
    /\ Asked(r) /\ told[r] = NotYet
    /\ pc[r][1] = "dead"
    /\ \E error \in Errors : told' = [told EXCEPT ![r] = error]
    /\ UNCHANGED <<members, question, threads, executed>>

Thread(r, i) ==
    \/ Route(r, i) \/ Connect(r, i) \/ Retry(r, i) \/ LoseReply(r, i)
    \/ Replicate(r, i) \/ Perform(r, i)
    \/ Reply(r, i) \/ ReplyThrows(r, i) \/ ReplyToNobody(r, i)

Next ==
    \/ \E m \in Machine : Join(m) \/ Crash(m) \/ Terminate(m)
    \/ \E m, x \in Machine : AddToList(m, x) \/ RemoveFromList(m, x)
    \/ \E r \in Request, m \in Machine : Ask(r, m)
    \/ \E r \in Request : ClientLoses(r) \/ \E i \in DOMAIN chain[r] : Thread(r, i)

Spec == Init /\ [][Next]_vars

\* Threads run, those which will throw do, and machines that are gone are noticed
\* (Gossip.tla).  Nothing makes a machine hear of a new one in time.
SomeoneThrows  == \E m \in Machine : Terminate(m)
SomeoneNotices == \E m, x \in Machine : RemoveFromList(m, x)

Fairness ==
    /\ \A r \in Request :
          /\ WF_vars(ClientLoses(r))
          /\ WF_vars(\E i \in DOMAIN chain[r] : Thread(r, i))
    /\ WF_vars(SomeoneThrows) /\ WF_vars(SomeoneNotices)

FairSpec == Spec /\ Fairness

--------------------------------------------------------------------------------
(* Properties                                                                   *)

Place == {"route", "connect", "wait", "replicate", "join", "perform", "reply",
          "done", "dead"}

\* The types of the variables, for threads of one request that have the same
\* positions everywhere, machines that see themselves and no machine that waits
\* for a machine it cannot name.
TypeOK ==
    /\ up \subseteq Machine /\ doomed \subseteq up
    /\ view \in [Machine -> SUBSET Machine]
    /\ \A m \in up : m \in view[m]
    /\ joins \in 0..MaxJoins /\ crashes \in 0..MaxCrashes
    /\ question \in [Request -> Question \cup {NoQuestion}]
    /\ calm \in [Request -> BOOLEAN]
    /\ told \in [Request -> Replies \cup Errors \cup {NotYet}]
    /\ chain \in [Request -> Seq(Machine)]
    /\ pc \in [Request -> Seq(Place)]
    /\ to \in [Request -> Seq(Machine \cup {NoHash})]
    /\ answer \in [Request -> Seq(Replies \cup Errors)]
    /\ executed \in [Request -> Seq([at : Machine, reply : Replies,
                                     command : {CommandOf[q] : q \in Question}])]
    /\ \A r \in Request :
          /\ Len(pc[r]) = Len(chain[r])
          /\ Len(to[r]) = Len(chain[r])
          /\ Len(answer[r]) = Len(chain[r])
          /\ \A i \in DOMAIN chain[r] : pc[r][i] = "connect" => to[r][i] \in Machine

\* A command is executed at most once, by one machine, whatever connections fail,
\* machines crash and owners are looked up again: the loop of updateKeyValue only
\* goes on while nobody has been reached.
ExecutedAtMostOnce == \A r \in Request : Len(executed[r]) <= 1

\* A client that is told anything but an error has had its command executed, and is
\* told what that machine answered, however many machines have passed it on.
AnswerIsTheOwners ==
    \A r \in Request :
        told[r] \notin Errors \cup {NotYet} =>
            \E j \in DOMAIN executed[r] : executed[r][j].reply = told[r]

\* What is executed is what the client meant, with brackets and dashes in keys and
\* values too, and the forced text the owner's replicas get means the same
\* (parseKeyValueStoreCmd, getForceCommand).  A key with a comma ends there.
ExecutedAsMeant ==
    \A r \in Request : \A j \in DOMAIN executed[r] :
        LET q      == question[r]
            did    == executed[r][j].command
            forced == Parse(ForceText[q])
        IN  Comma \notin ToSet(q.key) =>
                /\ did.name = q.name /\ did.key = q.key /\ did.value = q.value
                /\ ~Local(did) =>
                      /\ forced.name = <<"f">> \o q.name
                      /\ forced.key = q.key /\ forced.value = q.value

\* How far above the hash k a machine sits on the ring.
Distance(h, k) == IF h > k THEN h - k ELSE h + MaxHash + 1 - k

\* A request comes nearer to its key with every machine it is passed to, or stays
\* with a machine that has found itself the owner in the end: it is never sent back,
\* however much the rings of the machines differ.
NeverSentBack ==
    \A r \in Request : \A i \in 1..(Len(chain[r]) - 1) :
        Distance(chain[r][i + 1], KeyHash(r)) <= Distance(chain[r][i], KeyHash(r))

\* As long as all machines see the same ring, the owner executes the command, and
\* the request has been passed on once at most.
OneForwardWhenAgreed ==
    \A r \in Request :
        Asked(r) /\ calm[r] =>
            /\ Len(chain[r]) <= 2
            /\ question[r].name \in Operations =>
                  \A j \in DOMAIN executed[r] : executed[r][j].at = OwnerHash(up, KeyHash(r))

\* What thread i of request r is about to send
Outgoing(r, i) ==
    CASE pc[r][i] = "connect"   -> TypedText(question[r])
      [] pc[r][i] = "replicate" -> ForceText[question[r]]
      [] OTHER                  -> answer[r][i]

\* What machines send to each other and to clients arrives as it was sent, into
\* whatever pieces TCP cuts it (sendData, rcvData): commands, forced commands and
\* answers.
TextsArriveIntact ==
    \A r \in Request : \A i \in DOMAIN chain[r] :
        LET text == Outgoing(r, i)
            wire == Wire(text)
        IN  pc[r][i] \in {"connect", "replicate", "reply"} /\ MaySend(text) =>
                \A cuts \in Cuts(Len(wire)) : Received(wire, Len(text), cuts) = text

\* Every request is answered, or fails for a client to see, also when machines crash
\* while it is passed on or when the owner is gone for the moment.
EveryRequestAnswered == \A r \in Request : Asked(r) ~> told[r] # NotYet
================================================================================
