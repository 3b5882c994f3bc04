------------------------------- MODULE EarlyStore -------------------------------
(* The third build stage (MP3): a key-value store without replicas.  A key is kept *)
(* by one machine, which hands it over when another one joins before it on the    *)
(* ring, and to its successor when it leaves.  A join is noted by the thread that *)
(* merges a gossip message, in the one place the Coordinator has: first a flag,   *)
(* then the hash of the new member.  The timer thread reads both without a lock   *)
(* and moves the key.  Every machine routes a command on the ring it sees.        *)
(*                                                                               *)
(* The stores hold one key, as in Rebalance.tla.  Nobody fails: what a failed     *)
(* machine held is gone, by design.  The ring of a machine is the set of hashes   *)
(* in its keyToIPMap; MP3 finds owners and successors as Ring.tla does.           *)
EXTENDS Ring, EarlyCommand

CONSTANTS Machine,        \* the hashes of all machines there may be
          Starts,         \* sets of machines the system may start with
          Key,            \* the key, a number
          Value,          \* texts
          NoValue,
          MaxJoins,       \* bound on the machines that join
          MaxLeaves       \* bound on the machines that leave

ASSUME EarlyStoreAssumption ==
    /\ Machine \subseteq Hash /\ Starts \subseteq SUBSET Machine
    /\ Key \in Nat \ {0}
    /\ <<>> \notin Value /\ NoValue \notin Value
    /\ \A value \in Value : value \in Seq(ToSet(value))
    /\ MaxJoins \in Nat /\ MaxLeaves \in Nat

\* atoi reads what intToString writes, in digits.
ASSUME KeyAssumption ==
    IntToString[Key] \in Seq(ToSet(Digit)) /\ Atoi(IntToString[Key]) = Key

VARIABLES keyHash,        \* Hash::calculateKeyHash of the key, fixed
          master,         \* the machine at MASTER_IP, which does not leave; fixed
          up,             \* the machines that run
          leaving,        \* those of them that got SIGTERM
          view,           \* the ring each machine sees
          dropped,        \* the members it has dropped from it
          merge,          \* what the thread that holds mutexsum has still to note
          transfer,       \* Coordinator: transferKeysToMember
          newMember,      \* Coordinator: newMemberHash, once the reason is JOIN
          job,            \* what its timer thread is doing
          store,          \* the value it has for the key, if any
          current,        \* what clients have stored last, if anything
          raced,          \* has a join been missed, see Unnoticed, Stale and Outdated
          misread,        \* has a timer thread looked up a member that is not there
          joins, leaves   \* how many have joined, and begun to leave

membership  == <<up, leaving, dropped, joins, leaves>>
coordinator == <<transfer, newMember>>
data        == <<store, current>>
history     == <<raced, misread>>
fixed       == <<keyHash, master>>
vars        == <<fixed, membership, view, merge, coordinator, job, data, history>>

\* The texts that are written, and what they are read as: tables, to be computed once.
Written == [change \in {"insert", "update", "delete"} \X (Value \cup {<<>>}) |->
               Build(change[1], Key, change[2])]

Read == [text \in Range(Written) |-> ParseKeyValueStoreCmd(text)]

\* Nobody holds mutexsum; or the thread that does has put a member on the ring to
\* which keys must go ("added"), and has set the flag ("flagged").
Unlocked == [at |-> "unlocked"]
Merging(at, new) == [at |-> at, new |-> new]

\* The member that the machine has noted, or is about to note, in its Coordinator.
Pending(m) ==
    IF merge[m] # Unlocked THEN merge[m].new
    ELSE IF transfer[m] THEN newMember[m] ELSE NoHash

\* The timer thread is between two ticks; or it has taken the key out of the store, if
\* it was to be moved ("taken"), its command is with a thread of the machine place,
\* which is about to look up the owner ("routed") or to execute it ("here"), or all is
\* done ("sent").
Idle == [at |-> "idle"]
Job(why, at, text, place) == [why |-> why, at |-> at, text |-> text, place |-> place]
NoText == <<>>

Is(m, at)      == job[m].at = at
Become(m, at)  == [job EXCEPT ![m].at = at]
Busy(m)        == job[m] # Idle

\* The key is in a command that the timer thread of m is sending.
Carrier(m) == Busy(m) /\ ~Is(m, "sent") /\ job[m].text # NoText

Settled ==
    /\ leaving = {}
    /\ \A m \in up : view[m] = up /\ Pending(m) = NoHash /\ ~Busy(m)

\* getIPToSendToFromKeyHash on the ring of m
Owner(ring) == OwnerHash(ring, keyHash)

Init ==
    /\ keyHash \in Hash
    /\ up \in Starts /\ master \in up
    /\ leaving = {}
    /\ view = [m \in Machine |-> IF m \in up THEN up ELSE {}]
    /\ dropped = [m \in Machine |-> {}]
    /\ merge = [m \in Machine |-> Unlocked]
    /\ transfer = [m \in Machine |-> FALSE]
    /\ newMember = [m \in Machine |-> NoHash]
    /\ job = [m \in Machine |-> Idle]
    /\ current \in Value
    /\ store = [m \in Machine |-> IF m = Owner(up) THEN current ELSE NoValue]
    /\ raced = FALSE /\ misread = FALSE
    /\ joins = 0 /\ leaves = 0

--------------------------------------------------------------------------------
(* Members come and go                                                          *)

\* The constructor of ConnectionHandler: a machine starts, alone on its ring.
Join(m) ==
    /\ joins < MaxJoins
    /\ m \in Machine \ up
    /\ view[m] = {}
    /\ up' = up \cup {m}
    /\ view' = [view EXCEPT ![m] = {m}]
    /\ joins' = joins + 1
    /\ UNCHANGED <<fixed, leaving, dropped, merge, coordinator, job, data, history, leaves>>

\* sendLeaveMsg, and requestRetirement in the tick after it.  A bound: one machine
\* leaves at a time, and only when it knows somebody, everybody knows it and no key
\* is still to be given to it.
RequestRetirement(m) ==
    /\ leaves < MaxLeaves
    /\ leaving = {}
    /\ m \in up \ {master}
    /\ view[m] # {m}
    /\ \A x \in up : m \in view[x] /\ Pending(x) # m /\ (Busy(x) => job[x].place # m)
    /\ leaving' = {m}
    /\ leaves' = leaves + 1
    /\ UNCHANGED <<fixed, up, dropped, view, merge, coordinator, job, data, history, joins>>

\* getListOfMachinesToSendTo: does x gossip to m?  A machine alone writes to the
\* master.
GossipsTo(x, m) == m \in view[x] \/ (view[x] = {x} /\ m = master)

\* UDPSocketHandler, updateMembershipList: m may get the list of x, and a thread
\* merges it, an entry at a time.
Hears(m, x) == x \in up /\ GossipsTo(x, m)

\* Mutant: the ring does not wrap.
TransferRequiredBelow(ring, self, new) ==
    new < self /\ Predecessor(ring, self) = new

\* checkAndTransferKeys: is the new member just before this one on the ring?
TransferRequired(ring, self, new) ==
    /\ Cardinality(ring) > 1
    /\ \/ new < self /\ {h \in ring : new < h /\ h < self} = {}
       \/ self = Min(ring) /\ new = Max(ring)

\* The thread that updateMembershipList runs in has mutexsum until it has merged the
\* entry, the Coordinator included.

\* updateEntry, for an entry of a list m has been sent: it is new, and addToList
\* puts it on the ring.  A bound: nobody is told of a member that is leaving.
AddToList(m, new) ==
    /\ m \in up /\ merge[m] = Unlocked
    /\ new \in up \ (view[m] \cup leaving)
    /\ \E x \in Machine : Hears(m, x) /\ new \in view[x]
    /\ view' = [view EXCEPT ![m] = @ \cup {new}]
    /\ merge' = IF TransferRequired(view'[m], m, new)
                THEN [merge EXCEPT ![m] = Merging("added", new)] ELSE merge
    /\ UNCHANGED <<fixed, membership, coordinator, job, data, history>>

\* The timer thread is serving another join, and will clear this one's flag.
Unnoticed(m) == Busy(m) /\ job[m].why = "join"

\* setTransferKeysToMember, the first of four stores; the timer thread takes no lock.
SetTransferKeysToMember(m) ==
    /\ merge[m].at = "added"
    /\ transfer' = [transfer EXCEPT ![m] = TRUE]
    /\ merge' = [merge EXCEPT ![m].at = "flagged"]
    /\ raced' = (raced \/ Unnoticed(m))
    /\ UNCHANGED <<fixed, membership, view, newMember, job, data, misread>>

\* setNewMemberHash, setSelfHash and setReason, in this order: the hash of the machine
\* does not change, and until the first reason is set the others are not looked at.
SetNewMemberHash(m) ==
    /\ merge[m].at = "flagged"
    /\ newMember' = [newMember EXCEPT ![m] = merge[m].new]
    /\ merge' = [merge EXCEPT ![m] = Unlocked]
    /\ UNCHANGED <<fixed, membership, view, transfer, job, data, history>>

\* mergeEntries, for an entry with the leaving flag: the member is off the ring,
\* though not yet off the list, so that it is not added again.
MergeLeaving(m, gone) ==
    /\ m \in up \ {gone} /\ merge[m] = Unlocked
    /\ gone \in leaving \cap view[m]
    /\ \E x \in Machine : Hears(m, x) /\ (x = gone \/ gone \in dropped[x])
    /\ view' = [view EXCEPT ![m] = @ \ {gone}]
    /\ dropped' = [dropped EXCEPT ![m] = @ \cup {gone}]
    /\ UNCHANGED <<fixed, up, leaving, joins, leaves, merge, coordinator, job, data, history>>

\* The threads of m that merge lists, one at a time.
Receive(m) ==
    \/ \E x \in Machine : AddToList(m, x) \/ MergeLeaving(m, x)
    \/ SetTransferKeysToMember(m) \/ SetNewMemberHash(m)

--------------------------------------------------------------------------------
(* A tick of the timer thread (sendMemberList)                                  *)

\* Mutant: the keys above this machine stay, also when the ring begins with it.
SelectedBelow(self, new) == keyHash <= new

\* The condition of getCommandsForJoin.
Selected(self, new) == keyHash <= new \/ keyHash > self

\* lookupKey, which returns the empty text for a key that is not there
LookupKey(m) == IF store[m] = NoValue THEN <<>> ELSE store[m]

\* getCommands, for the one key there is.
Commands(m) == Written[<<"insert", LookupKey(m)>>]

\* hasMessage() and getReason() == JOIN: the reason is never reset, and neither is the
\* hash.
HasMessage(m) == transfer[m] /\ newMember[m] # NoHash

\* The flag is that of a new member, the hash still that of an earlier one.
Stale(m) == merge[m].at = "flagged"

\* getCommandsForJoin: the key leaves the store.
GetCommandsForJoin(m) ==
    /\ m \in up /\ ~Busy(m)
    /\ HasMessage(m)
    /\ IF store[m] # NoValue /\ Selected(m, newMember[m])
       THEN /\ job' = [job EXCEPT ![m] = Job("join", "taken", Commands(m), m)]
            /\ store' = [store EXCEPT ![m] = NoValue]
       ELSE /\ job' = [job EXCEPT ![m] = Job("join", "taken", NoText, m)]
            /\ UNCHANGED store
    /\ raced' = (raced \/ Stale(m))
    /\ UNCHANGED <<fixed, membership, view, merge, coordinator, current, misread>>

\* getIPFromHash(getNewMemberHash()): the hash may have changed by now.  And the first
\* tcpConnectSocket, which sends the text and waits for the answer.  (A text shorter
\* than the buffer is taken to arrive in one piece.)  A member that has left is not in
\* keyToIPMap, and getIPFromHash dereferences its end: the address is anything, and the
\* text, deleted from the store, goes nowhere.  The process may also crash there; the
\* module does not follow it then.
SendToNewMember(m) ==
    /\ Is(m, "taken")
    /\ misread' = (misread \/ newMember[m] \notin view[m])
    /\ job' = IF job[m].text = NoText \/ newMember[m] \notin view[m] THEN Become(m, "sent")
              ELSE [job EXCEPT ![m].at = "routed", ![m].place = newMember[m]]
    /\ UNCHANGED <<fixed, membership, view, merge, coordinator, data, raced>>

\* updateKeyValue at the machine the command has come to: it goes on to the owner
\* this machine sees, with another tcpConnectSocket.
Route(m) ==
    /\ Is(m, "routed")
    /\ LET place == job[m].place
           owner == Owner(view[place])
       IN  /\ place \in up
           /\ job' = IF owner = place THEN Become(m, "here")
                     ELSE [job EXCEPT ![m].place = owner]
    /\ UNCHANGED <<fixed, membership, view, merge, coordinator, data, history>>

\* The Coordinator has a join, or is about to have one, that the timer thread has not
\* begun to serve.
ToBeServed(m) == Pending(m) # NoHash /\ (Busy(m) => merge[m].at = "added")

\* The owner has changed since Route, and this machine has already seen to it.
Outdated(place) == Owner(view[place]) # place /\ ~ToBeServed(place)

\* insertKeyValue: a key that exists stays as it is.
Insert(old, value) == IF old = NoValue THEN value ELSE old

\* KeyValueStore::updateKeyValue: one that does not exist is not created.
Update(old, value) == IF old = NoValue THEN NoValue ELSE value

\* deleteKey
Delete == NoValue

\* What an operation makes of the value of the key.
Outcome(name, old, value) ==
    CASE name = "insert" -> Insert(old, value)
      [] name = "update" -> Update(old, value)
      [] name = "delete" -> Delete

\* What a machine that takes itself for the owner does with a text.
Performed(old, text) ==
    LET command == Read[text]
    IN  IF command.key = Key /\ command.name \in {<<"insert">>, <<"update">>, <<"delete">>}
        THEN Outcome(command.name[1], old, command.value) ELSE old

\* The end of ConnectionHandler::updateKeyValue.  Nobody looks at the answer.
Perform(m) ==
    /\ Is(m, "here")
    /\ job[m].place \in up
    /\ LET place == job[m].place
       IN  /\ store' = [store EXCEPT ![place] = Performed(@, job[m].text)]
           /\ raced' = (raced \/ Outdated(place))
    /\ job' = Become(m, "sent")
    /\ UNCHANGED <<fixed, membership, view, merge, coordinator, current, misread>>

\* Mutant: the message is never cleared.
KeepMessage(m) ==
    /\ Is(m, "sent") /\ job[m].why = "join"
    /\ job' = [job EXCEPT ![m] = Idle]
    /\ UNCHANGED <<fixed, membership, view, merge, coordinator, data, history>>

\* setTransferKeysToMember(0), whatever the Coordinator says by now.
ClearMessage(m) ==
    /\ Is(m, "sent") /\ job[m].why = "join"
    /\ transfer' = [transfer EXCEPT ![m] = FALSE]
    /\ job' = [job EXCEPT ![m] = Idle]
    /\ UNCHANGED <<fixed, membership, view, merge, newMember, data, history>>

\* Mutant: the machine does not wait.
ElapsedAtOnce(m) == TRUE

\* timeToCleanupInSeconds have passed since SIGTERM.  Assumed: in that time
\* everybody has heard of it, and commands that were on their way have arrived.
Elapsed(m) ==
    \A x \in up \ {m} : m \notin view[x] /\ (Busy(x) => job[x].place # m)

\* Mutant: the keys go down with the machine.
LeaveWithKeys(m) ==
    /\ m \in leaving /\ ~Busy(m) /\ ~HasMessage(m)
    /\ Elapsed(m)
    /\ job' = [job EXCEPT ![m] = Job("leave", "sent", NoText, m)]
    /\ UNCHANGED <<fixed, membership, view, merge, coordinator, data, history>>

\* getCommandsForLeave, and the first tcpConnectSocket to getIPofSuccessor.
GetCommandsForLeave(m) ==
    /\ m \in leaving /\ ~Busy(m) /\ ~HasMessage(m)
    /\ Elapsed(m)
    /\ job' = [job EXCEPT ![m] =
                 IF store[m] = NoValue THEN Job("leave", "sent", NoText, m)
                 ELSE Job("leave", "routed", Commands(m), Successor(view[m], m))]
    /\ UNCHANGED <<fixed, membership, view, merge, coordinator, data, history>>

\* exit(0)
Exit(m) ==
    /\ Is(m, "sent") /\ job[m].why = "leave"
    /\ up' = up \ {m}
    /\ leaving' = leaving \ {m}
    /\ store' = [store EXCEPT ![m] = NoValue]
    /\ merge' = [merge EXCEPT ![m] = Unlocked]
    /\ transfer' = [transfer EXCEPT ![m] = FALSE]
    /\ newMember' = [newMember EXCEPT ![m] = NoHash]
    /\ job' = [job EXCEPT ![m] = Idle]
    /\ UNCHANGED <<fixed, dropped, view, joins, leaves, current, history>>

Tick(m) ==
    \/ GetCommandsForJoin(m) \/ SendToNewMember(m) \/ Route(m) \/ Perform(m)
    \/ ClearMessage(m) \/ GetCommandsForLeave(m) \/ Exit(m)

--------------------------------------------------------------------------------
\* The key may have stayed where clients do not find it when a join was missed, or
\* when it has the hash of a machine: the conditions of getCommandsForJoin and
\* getIPToSendToFromKeyHash differ there.
MayBeStranded == raced \/ keyHash \in Machine

\* A client's insert, update or delete while nothing else happens: client.cpp sends
\* the text if it parses it, and whichever machine it asks, the owner executes it.
\* What it meant is what current becomes.  A bound: none once the key may be stranded.
ClientCommand ==
    /\ Settled /\ ~MayBeStranded
    /\ \E name \in {"insert", "update", "delete"}, value \in Value :
          LET text == Written[<<name, value>>]
          IN  /\ IsValid(Read[text])
              /\ current' = Outcome(name, current, value)
              /\ store' = [store EXCEPT ![Owner(up)] = Performed(@, text)]
    /\ UNCHANGED <<fixed, membership, view, merge, coordinator, job, history>>

Next ==
    \/ \E m \in Machine : Join(m) \/ RequestRetirement(m) \/ Receive(m) \/ Tick(m)
    \/ ClientCommand

Spec == Init /\ [][Next]_vars

\* Some timer thread or thread that serves a command goes on, and gossip gets through
\* to some machine.  That every one of them goes on is more than is needed.
Fairness ==
    /\ WF_vars(\E m \in Machine : Tick(m))
    /\ WF_vars(\E m \in Machine : Receive(m))

FairSpec == Spec /\ Fairness

--------------------------------------------------------------------------------
(* Properties                                                                   *)

\* The types of the variables: every machine is on its own ring, the member it notes in
\* its Coordinator is another one on it, and what a timer thread sends goes to a
\* machine that still runs (getIPFromHash, getIPofSuccessor).
TypeOK ==
    /\ keyHash \in Hash /\ master \in up
    /\ up \subseteq Machine /\ leaving \subseteq up
    /\ \A m \in up : m \in view[m] /\ view[m] \subseteq up
    /\ \A m \in up : Pending(m) \in (view[m] \ {m}) \cup {NoHash}
    /\ \A m \in Machine : newMember[m] \in Machine \cup {NoHash}
    /\ \A m \in Machine : store[m] \in Value \cup {NoValue}
    /\ \A m \in Machine : Busy(m) =>
          /\ m \in up
          /\ job[m].place \in up
          /\ Carrier(m) => IsValid(Read[job[m].text])
    /\ current \in Value \cup {NoValue}
    /\ raced \in BOOLEAN /\ misread \in BOOLEAN

\* While machines join and leave, the key is in the store of a machine that runs or
\* in a command on its way to one (getCommandsForJoin deletes before it sends, and
\* the machine that leaves does not wait to be believed), whatever characters the
\* value has.  One thing loses it: a timer thread that reads the flag of a new member
\* with the hash of one that has left (checkAndTransferKeys, getIPFromHash), and that
\* takes a missed join.
KeyIsNeverLost ==
    /\ current # NoValue /\ ~misread =>
          \E m \in up : \/ store[m] = current
                        \/ /\ Carrier(m)
                           /\ Read[job[m].text] = KeyValueStoreCommand(<<"insert">>, Key, current)
    /\ misread => raced /\ leaves > 0

\* When it is over one machine has what clients meant the key to have, and no other
\* one has the key, whatever rings the machines saw meanwhile and whichever joins have
\* taken each other's place in the Coordinator (checkAndTransferKeys).  It is the
\* machine that clients are sent to, unless a join has been missed.
OwnerHasTheKey ==
    Settled /\ ~misread =>
        \E m \in up : /\ store = [x \in Machine |-> IF x = m THEN current ELSE NoValue]
                      /\ ~MayBeStranded => m = Owner(up)

\* All handing over comes to an end: commands do not go round in circles between
\* machines with different rings, and the one that leaves gets to exit.
MovingEnds == []<>Settled
================================================================================
