# Helenus in TLA+

Helenus (`src/Helenus`) is a key-value store on a ring of machines. Machines find
each other by gossip over UDP, place themselves on a ring by a hash of one byte,
and keep every key at its owner and on the two machines that follow it. This
directory holds TLA+ models of it, TLC configurations that check the models on
small instances, and TLAPS proofs of the main results for every instance.

`src/buildStages` holds the program at four earlier times. MP1 (a distributed
grep), MP2 (the membership list before it had a mutex) and MP3 (a store without
replicas) behave differently from the current program in ways of their own, and
those are modelled too. MP4 is the current program but for five lines.

## 1. Inventory

| Part | Code | State | Operations |
|---|---|---|---|
| Membership list | `membershipList.h` | `memList`: id, heartbeat, local and failure time, failed, leaving | merge a received list, find silent members, beat, retire, choose targets |
| Ring view | `membershipList.h` | `keyToIPMap`, `selfHash` | machine at a distance, owner of a key, messages for a join or a loss |
| Coordinator | `coordinator.h` | queue of messages | push (membership list), pop (timer thread) |
| Gossip | `ConnectionHandler.cxx`, `Timer.h` | timer thread, one thread per datagram, SIGTERM flag | `executeCb`, `sendMemberList`, `UDPSocketHandler`, `updateMembershipList` |
| Backup file | `membershipList.h`, `fileHandler.h` | `ips.1.bak` on disk | write every 20 callbacks, read by a lone master |
| Key-value store | `keyValueStore.h` | key to value and ownership flag | insert, delete, update, lookup and forced forms; commands for moving keys |
| Requests | `ConnectionHandler.cxx` | server thread and replica threads of a request | `updateKeyValue`, `sendForceOperations`, `sendForceCommand`, `performOperationLocally` |
| Forwarding | `ConnectionHandler.cxx`, clients | a chain of server threads per request | `updateKeyValue` at any machine, its retry loop |
| Rebalancing | `ConnectionHandler.cxx` | none of its own | handlers of join and failure messages |
| Framing | `utility.h` | none | `sendData`, `rcvData`, `tcpConnectSocket` |
| Command text | `clt.h` | none | `parseKeyValueStoreCmd`, `getForceCommand` |
| Log grep | `buildStages/MP1` | `f->sock`, log, output and result files | `SocketHandler`, `ClientHandler`, `parseGrepCmd`, `logError` |
| MP2 list | `buildStages/MP2` | `memList`, a vector | as above, with the mutex in one of two threads only |
| MP3 store | `buildStages/MP3` | key to value; one new member in the Coordinator | commands; keys for a new member and for a successor |
| Rest | `Main.cxx`, `logger.h` | none that matters | start, prompt, log |

**How they interact.** A machine runs one timer thread, one thread that reads
datagrams (and one more for each datagram), and one thread that accepts TCP
connections (and one more for each). Datagram threads merge lists under the
list's mutex; a new entry calls `addToList`, which updates `keyToIPMap` and may
push a message to the Coordinator. The timer thread beats, looks for silent
members (a removal may push a message too), sends its list, and then empties the
Coordinator queue by moving keys over TCP. Server threads read `keyToIPMap` to
find the owner and the replicas; one that is not at the owner asks it over TCP and
waits. The owner's thread starts one thread per replica, waits for their answers
and runs the command under the store's mutex. Commands are texts everywhere: they
are parsed again at every machine they come to.

**What is hard.** Old, repeated and reordered lists, also across restarts;
suspicions racing with news; dead members coming back through gossip; work on the
ring that is queued while the ring changes; ranges on a ring of two, three or
four; threads of concurrent requests at the owner and at the replicas; replicas
that crash between connecting and answering; a condition variable without a
predicate; a timer thread which gossips and moves keys in turn; machines that
route one request on different rings; a length that `sendData` cannot send; in the
earlier stages, threads that share one socket, a vector, or a place for one
message. `PROJECT.json` lists these as hazards, each at its line, with the
properties that cover it or the reason why none does.

## 2. Modules

| Module | What it models | How |
|---|---|---|
| `Ring` | positions and ranges | operators on a set of hashes |
| `RingView` | one machine's `keyToIPMap` and queue | `AddToList`, `RemoveFromList`, `PopMessage` |
| `MembershipList` | `memList` | operators on a function from ids to entries |
| `Gossip` | the protocol | one action per step of the timer thread, datagram, crash, signal, clock |
| `GossipForget` | `Gossip` from the moment of a crash | adds a clock that runs since |
| `KeyValueStore` | the store and one command on it | operators on a function from keys to items |
| `AtomicStore` | what a client may rely on | the abstract specification of `Requests` |
| `Requests` | requests at the owner and its replicas | one action per step of each thread |
| `Rebalance` | the stores of all machines while members join and fail | composes `Ring` and `KeyValueStore`; one action per handler up to its sends, per command sent, per removal or addition a machine notices |
| `MasterBackup` | the backup file | one action per callback that writes or does not |
| `Command` | texts of commands | operators on sequences of symbols |
| `Stream` | `sendData`, `rcvData` | operators on texts, blocks and the places where TCP cuts |
| `Forwarding` | a request at every machine it comes to | composes `Ring`, `Command` and `Stream`; one action per step of each thread of the chain, join, crash, noticing |
| `LogGrep` | MP1 | one action per step of the threads of a request on all machines |
| `EarlyMembership` | MP2's list under its two threads | one action per access to the vector; entries are those of `MembershipList` |
| `EarlyCommand` | MP3's texts | as `Command`, with keys that are numbers |
| `EarlyStore` | MP3's stores while members come and go | composes `Ring` and `EarlyCommand` |
| `OperatorProofs` | facts about rings and about texts of commands | lemmas |
| `RingViewProofs`, `GossipProofs`, `RequestsProofs`, `ForwardingProofs`, `EarlyMembershipProofs`, `EarlyStoreProofs`, `RebalanceProofs` | theorems about the module of that name | inductive invariants |
| `MC...` | instances for TLC | |

Correspondences that are not one to one:

*Gossip*

* *Times are ages.* `age` is `now - localTimestamp`, `failAge` is
  `now - failureTimestamp`. Ages stop at `TTF + TTC + 2`, which no comparison of
  the code and no property tells from greater ones. `Tick` is one second of a
  clock all machines share; the code only ever compares readings of one machine.
* *A list is a function.* The vector has at most one entry per id, and its order
  decides only where the walk through it goes on after a random start; `Chosen`
  allows every order.
* *Incarnations are numbered.* A network id is `ip:start time`. Two starts of one
  machine within a second, which get the same id, are left out.
* *The callback is one step up to its sends*, and a merge is one step. Merges hold
  the mutex and never touch the machine's own entry (`HeartbeatNeverAhead` is the
  reason), and the rest of the callback only looks at other entries inside
  `processList` and the serialization. The callback's own reads and writes outside
  the mutex are data races in the code; the model gives them the effect they have
  when they do not tear. `EarlyMembership` looks at what happens without that.
* *`pending` is an over-approximation.* It holds every member that was added since
  the queue was emptied; `handleJoin` pushes a message for some of them only.
  `RingView` says for which.

*Requests and forwarding*

* *Connecting and executing are one step.* `Connect` of `Requests` runs the forced
  command at the replica; since it may happen at any time after the thread was
  started, so may the execution. A replica that crashes before it has answered
  yields "Failed to receive reply" or, when the length was read uninitialized,
  nothing.
* *In `Requests` a request is at its owner already*, and the ring does not change
  under it. In `Forwarding` the owner's work on the replicas is one step.
* *Requests in `Forwarding` share the machines only.* They do not touch each other's
  threads, except that a text on which `sendData` throws ends the machine, and all
  that run on it. One request with a bound on crashes of any origin shows what a
  second one could do to it.
* *Texts are delivered whole in `Forwarding`.* `TextsArriveIntact` checks in every
  state that what a thread is about to send would come out of `sendData` and
  `rcvData` as it went in, for all places where TCP may cut it. The block is five
  characters instead of 1024: the arithmetic is in units of the block.
* *`NoConnect` is a text.* The loop knows a failed connection by the words "Failed to
  Connect", which a stored value may have as well. `Replies` leaves that value out.

*Rebalancing*

* *One key of any hash.* `Rebalance` follows one key, whose hash `Init` chooses. The
  handlers build commands for all keys of a range, all deletes before all inserts;
  for one key that is a delete and an insert with any amount of time in between.
* *Who does what.* Members are dropped by `processList` and messages are handled by
  the loop that empties the queue; both are the timer thread, so that
  `RemoveFromList` waits for the thread to be `Idle`. `AddToList` is a receiver
  thread's and happens at any time, one entry after the other, in any order.
* *An insert that hands over a key is two steps* at the new member: it goes to the
  replicas the new member knows of, and is executed after that.

*Earlier stages*

* *MP1.* A line is a sequence of words, of which filters look for one. The steps of a
  thread are those at which it reads `f->sock`, a socket or a file; that the
  threads do so without a lock is part of the model. Lines are added by
  `createLogFiles`, which runs beside the machine. Files open and can be written.
  The tag line in front of each machine's output, the fixed `abc.txt` every merged
  answer begins with and the size that precedes a file are left out. A second write to a connection the other end has closed (SIGPIPE) takes three requests.
* *MP2.* `moved` says that the vector has been reallocated since the timer thread
  found its entry, as it is when it grows beyond its capacity (which doubles, as in
  libstdc++): what is written then is lost. `push_back` and `erase` are atomic.
  Others' lists are sound, and a machine's own count is not merged (`Gossip` says
  that it is never ahead). A second passes only while both threads rest.
* *MP3.* The store holds one key; commands are texts, read again by every machine
  they come to (`Written` and `Read` are tables of `Build` and
  `ParseKeyValueStoreCmd`). One machine leaves at a time and is known to all, the
  master stays, nobody hears of a member that is leaving for the first time, and
  the little over 4 seconds a leaving machine waits (`timeToCleanup`,
  `membershipList.h:169`) are enough for all to hear of it and for commands on their
  way to it to arrive.

  The Coordinator is written by the thread that merges a list, under `mutexsum`
  (`merge`), and read by the timer thread, which does not take it. The steps are the
  stores that thread makes: the member goes on the ring (`AddToList`), the flag is set
  (`SetTransferKeysToMember`), and then the hash (`SetNewMemberHash`, which also stands
  for the two stores after it: the hash of the machine does not change, and of the reason
  only the first store matters, before which the other fields are not looked at). The
  timer thread reads the flag and the hash in `GetCommandsForJoin`, the hash once more in
  `SendToNewMember`, and clears the flag in `ClearMessage`. Flag and hash keep their
  values in between, so that it may find a new flag with the hash of an earlier new member.
  Stores are taken to be seen in the order of the program.

  `raced` records that a join was missed: its flag was set while the timer thread served
  another one (`Unnoticed`), or was read with the old hash (`Stale`), or the owner changed
  under a command (`Outdated`). Then MP3 does not promise that the key is with its
  owner, and clients stop. `misread` records that the hash that was looked up is that of a
  member that has left: `getIPFromHash` dereferences `end()`. The address it returns is
  taken to be nobody's, so that the text goes nowhere; the process may also crash, which
  the module does not follow.

## 3. Runs

| Run | Instance | Shows |
|---|---|---|
| `ring_view` | six members on eight hashes, two messages waiting | every shape of ring up to six members: the ranges and machines named in join and failure messages are those the placement of copies asks for |
| `gossip` | master and one machine with two incarnations, one datagram in flight, delay up to 1 s, TTF = TTC = 1; and, with the same configuration, the two after a third one has crashed | `HeartbeatNeverAhead`, `SelfPresent`, `JoinsResolvable`, `RemovedOnlyWhenDueSteps`; `DeadIsForgotten` after five seconds |
| `requests` | two requests for one key with two values, two replicas, one crash, QUORUM and ALL | the promises of an answer, the ownership flags, the refinement of `AtomicStore` |
| `requests_sequential` | three requests at ALL, or one at ONE, one at a time, one crash | copies agree, no disagreement is reported, every request is answered |
| `requests_wakeup` | two requests at QUORUM, one at a time, no crash | **violated**: the wakeup call is lost |
| `rebalance` | five machines on six hashes, four of which fail, two at once or one after the other; and two machines which two more join; a key of any hash that clients insert, update and delete in between | after failures the stores are exactly as `Ring!Copies` asks; after joins the owner serves the key; the key is never lost |
| `rebalance_gap` | five machines, a second failure at any time after the first | **violated**: the key is lost with the second machine |
| `master_backup` | two peers, a write every second callback | **violated**: a restarted master finds nobody |
| `forwarding` | two machines, one joins, two crash on their own; one request out of five with brackets, dashes and lengths up to 14 characters; blocks of five | executed at most once and as meant, never sent back, answered |
| `grep` | three machines, one of which may be down; two requests, the second when the first is answered; a log grows | answers are exact and come |
| `early_membership` | two others with up to two heartbeats, three entries received, TTF = 2, TTC = 1 | what survives of the list |
| `early_store` | one machine, two join, two leave, a key of any hash on a ring of seven, a value that looks like the end of a command | the key is lost only when a member that has left is looked up, and ends with one machine, the owner unless a join was missed |

**Why the bounds are enough.** The longest distance the ring code uses is 4, so
that with six members no position coincides with another one by chance and all the
special cases (two, three and four members) are below the bound. The eight hashes
leave free places between members for keys, also beyond the last one. Two messages
in the queue are what one join can push. In `gossip`, two incarnations are what it
takes for an old list to meet a new one, two beats of the second machine for a
suspicion and news that lifts it, and the master's four beats let it suspect the
other one, hear of it again, and drop it. One-second timeouts keep the order of
all comparisons. Two machines cannot tell each other of a third: that is the part
after the crash, and the theorems hold for any number of machines. Two requests
are what an overlap needs; three are what it takes to insert, delete and insert
again. In `rebalance` a machine is next to its neighbours without free places in
between: `InRange` compares the key with hashes of machines only. Five machines
have a member that holds no copy, before and after a first pair of failures; with
four failures the ring shrinks through every special size. Two joins on a ring of
two go through sizes three and four, a new member in every place, and up to the
size at which replicas are dropped.

In `forwarding` three machines make a chain of every length the ring allows
(`NeverSentBack` is proved for any number), two crashes take the owner and the
machine that was asked in its place, and with blocks of five the first length that
throws is 14, of which there are two forced commands and an answer; lengths around
one and two blocks are reached as well. In `grep` the second request meets threads
of the first at the machine that was asked and at another one, which two requests
are enough for. In `early_membership` a removal moves one entry, two or none, and the
vector grows from one to two to four, which with TTF = 2 is the most for which
`ListSound` promises anything about the machine's own entry. In `early_store` the machine that starts is the middle one of three, so that one new
member comes before it and one, on the map, after it: both branches of
`checkAndTransferKeys`. The second arrives while the first is served or not, or when it
has left again, which is what it takes for the hash of a member that is gone to be read
with a new flag. One value is enough, because no two machines ever have the key and no
insert finds an older one. TLC has also checked the invariants, the inductive one of the
proofs included, when one of the others starts or two of them do.

**Deadlock** is checked in `ring_view`, `gossip`, `master_backup` and the runs of
`Rebalance`. The others end by design: `requests*`, `forwarding` and `grep` when all
requests have been answered, `early_membership` when the machine has left, and
`early_store` when clients have stopped because a join was missed or because the key
has a machine's hash.

**Fairness** is weak fairness of threads that can go on, everywhere.

* `Requests`: each server thread and replica thread. No client has to ask, no
  replica has to crash, and `pthread_cond_wait` never has to return without a
  signal.
* `Forwarding`: the threads of a request, the throw of a thread that will throw,
  the client's own `recv`, and that machines which are gone are noticed, which is
  what `processList` does after TTF and TTC. Nobody has to hear of a new member.
* `LogGrep`: as long as any thread can go on or any machine accept, one of them
  does. This is weaker than fairness of each thread.
* `EarlyMembership`: both threads, and time. A second SIGTERM makes the machine wait
  again; `SilentAreForgotten` says nothing of a machine that gets them for ever.
* `EarlyStore`: as long as some timer thread has something to do, one of them goes on,
  and as long as some machine has news to merge, one of them does, which periodic
  repetition to all members sees to. Weaker than fairness of each machine.

Nothing is assumed of the network beyond that a TCP connection is accepted, refused
or closed in the end, which the operating system sees to. The other specifications
have no fairness: their properties are safety properties.

Every property has a mutant, a plausible wrong version of a mapped definition
under which TLC finds the property violated (`PROJECT.json`, `mutants`).

## 4. What the checks show

* The special cases for rings of two to four machines in `handleJoin` and
  `handleFailOrLeave` are right, and needed: dropping any of them breaks a
  property. `handleFailOrLeave` has to run before the member leaves the map.
* Nothing that arrives late can raise a heartbeat above what its owner has sent.
  That keeps a machine's own entry out of reach of other machines' lists.
* A suspicion and the removal after it always take the full time, whatever the
  order of news and suspicion.
* Members that are gone are forgotten by those that remain, provided these are few and
  datagrams timely: (survivors) x (TTF + delay) may not exceed TTF + TTC + 1, so that
  the last has heard of the member before the first can have dropped it. It holds because
  suspicions are not taken over and suspected members are not added. The condition is
  sharp: TLC finds a dead member kept beyond the bound as soon as the product is
  TTF + TTC + 2 (with two survivors for TTF = 2, TTC = 0; with three for TTF = TTC = 2;
  TTC = 1 and 3 respectively meet the condition).
* With the code's TTF = TTC = 4 the condition holds for two survivors and fails for
  three. There TLC finds this, too, in a search for it: the second hears of the dead
  member from the first 4 seconds after the crash, the third from the second after 8; the
  first drops it after 10 and hears of it as a new member from the third after 12, which
  its entry allows up to then; it may tell the second after 16, and so on. It takes an
  unlucky choice of targets and lost datagrams, since whoever is told early breaks the
  circle. `updateTimeToFailure` and `updateTimeToCleanup` say of these times "Or just go
  static, anything is fine" (`membershipList.h:167` and `:175`); the theorem says what
  TTC has to be: at least (survivors - 1) x TTF + (survivors) x delay - 1.
* A success at ALL or QUORUM means what it says even when replicas crash, and
  each request takes effect once on the owner's store.
* Two machines may fail at once, whatever the order in which the others notice and
  work it off. It needs `removeFromList` and the handlers on one thread: a
  second replica that is looked up when the ring has changed since the first would
  leave out a machine. This is proved for rings of any size, and so is the other half
  of `rebalance_gap` below: two failures never lose a key if nobody has noticed the
  first when the second comes.
* A request that is routed on different rings does not go round: every machine sends
  it to one that is nearer above the key on the ring, or keeps it. It is executed at
  most once because only "Failed to Connect" makes the loop ask again, and answered
  because machines that are gone are dropped.
* Brackets and dashes in keys and values survive parsing, also in the forced form;
  a comma in a key does not (the key ends there), and a machine executes what was
  meant in all other cases.
* `sendData` counts one position too many per block. It does no harm for most
  lengths; for some (the first is 3071 with the buffer of 1024) it throws, which
  ends the process. Whoever waits for that process gets an error.
* `rebalance_gap` (finding): a machine that takes over a key refreshes its replica
  by deleting the key there and inserting it again, the inserts of all keys after
  the deletes of all keys. If it fails in between, two failures have lost the key,
  and `src/README.md` promises to tolerate two.
* After joins less holds than after failures: `OwnerServesWhenSettled` instead of
  `PlacedWhenSettled`. Copies stay behind on machines that no longer replicate the
  key, and a replica may lack it (hazards at `ConnectionHandler.cxx:757` and `:268`).
* `requests_wakeup` (finding): `sendForceOperations` starts the replica threads and
  only then locks the mutex and waits, without looking at the results. If both
  have signalled by then nothing wakes the server thread up, and the client waits
  for ever. The comment at `ConnectionHandler.cxx:379` expects the call to come.
* `master_backup` (finding): `writeIPsToFile` compares the exit status of `rm`,
  which is 0, with `FAILURE`, which is 0 as well, and does not write the file.
* MP1: answers are exact, with the lines of no earlier request, unless threads of two
  requests meet at one machine (`crossed`): `f->sock` is then the wrong connection,
  and files are removed too early. Even then no client waits for ever. Lines with
  two separators are outside the property: what they mean is not defined.
* MP2: once an entry is removed while another one is merged, a member may be listed
  twice, or with another one's heartbeat. Everybody who falls silent is forgotten
  nevertheless. The machine's own entry stays the first on the list.
* MP2's timer thread writes the stamp of the machine's own entry through a pointer it
  took before, and the vector may have moved in between: the stamp is lost, which the
  comment at `membershipList.h:566` says must not happen ("otherwise you might think
  you are dying"). It is made up for a second later. To suspect itself a machine would
  have to lose more than TTF (4 in the code) of them on end, each at another doubling
  of the vector: `ListSound` says that its entry is sound up to a capacity of 2^TTF
  entries, and that is proved.
* MP3: the key is deleted before it is sent, and no answer is looked at. Yet joins and
  orderly departures lose it in one way only. `checkAndTransferKeys` sets the flag of the
  Coordinator before the hash (`membershipList.h:699-700`), without a lock against the
  timer thread. If that reads the flag in between, with the hash of a member that has
  left since, it deletes the key and looks up a member that is not there. Without such a
  look-up the key is always somewhere, and ends with one machine.
* That machine is the owner unless a join was missed, by such a torn read also when the old
  hash is still that of a member, or because the flag was set and cleared while another
  join was served; or unless the key has the hash of a machine: the comparison of
  `getCommandsForJoin` includes that hash, the one of the owner does not. Then the key is
  where clients do not look for it.

## 5. Theorems

**`GossipProofs`**, for every choice of machines, master, bounds and timeouts
(assumptions `TimesAssumption` and `GossipAssumption`: types of the constants):

* `TypeCorrect`, `NeverAhead`, `AlwaysSelfPresent` from the inductive invariant
  `Inv == TypeOK /\ HeartbeatNeverAhead /\ SelfPresent /\ NoBeatBeforeStart /\
  SuspicionDated`. `SelfPresent` is not inductive by itself: a list with a higher
  heartbeat for the receiver would make `mergeEntries` overwrite its own entry, so
  it needs `HeartbeatNeverAhead`; and a new incarnation is on its list with the
  right count only because nobody has beaten for it before (`NoBeatBeforeStart`).
* `AlwaysRemovedWhenDue`: the step property, from `SuspicionDated`, which relates
  the two ages of a suspected entry (`failAge + TTF < age` up to the cap).
* `JoinsAlwaysResolvable`: needs `Interval <= TTC` as a hypothesis. A member whose
  join message waits is at most as old as the last callback (`PendingFresh`), and
  a removal takes more than TTC seconds.
* `DeadAlwaysForgotten`: `SpecForget => []DeadIsForgotten`, for any number of survivors,
  delay, interval and timeouts that satisfy `ForgetTimes`:

      Cardinality(Survivor) * (TTF + MaxDelay) <= TTF + TTC + 1
      ForgetBound >= (Cardinality(Survivor) - 1) * (TTF + MaxDelay) + TTF + TTC + 2 * Interval

  The invariant is `Inv /\ ForgetInv`. A dead machine has one heartbeat for everybody to
  hear of, so that no list can learn anything new of it (`OneBeat`). A machine
  passes an entry on only while it is at most TTF seconds old; so each survivor that
  hears of the dead machine for the first time does so at most one hop, TTF + MaxDelay,
  after the one before. With k survivors knowing, the last of them heard by k - 1 hops
  (`HeardInTime`), and before the first of them can drop it, TTF + TTC + 2 seconds after
  the crash, all survivors have heard who ever will (the first condition). From then on
  the lists only grow old (`ForgottenInTime`), which gives the second. TLC has checked
  the parts of `ForgetInv` for two survivors with the times of the run, whose bound is
  that of the theorem for datagrams that are not delayed.

**`RequestsProofs`**, for every number of requests, keys, values and crashes and
for zero, one or two replicas:

* `TypeCorrect`, `FlagsAlwaysTellRoles`, `AllAlwaysMeansEveryReplica`,
  `QuorumAlwaysMeansOneReplica`. The invariant follows the word "Command succeeded"
  backwards: a reply that was collected is the result of some replica thread
  (`CollectedIsBacked`), a result of success was said by that replica
  (`ResultWasSaid`), and a replica speaks once it was connected to
  (`SaidWhenConnected`).
* `Refinement`: `Spec => TakesEffectOnce`. The mapping takes the owner's store and
  turns every state of a server thread between question and execution into "open".
* `CopiesAlwaysAgree`: `CopiesAgree` for any number of requests, keys and values, with
  two hypotheses. `MaxOpen = 1` says that a client asks when the one before has its
  answer, which is what the property is about (the run has `MaxOpen = 1` as well). And no
  value reads "Agreement Failure", the text that `Disagree` stands for: a lookup of such
  a value could not be told from a disagreement. The invariant `SequentialInv` says that
  one request is open at most (`OneOpen`), and how far its command has got at each replica
  (`Copies`): those that have executed it hold what the owner will hold, the others what
  the owner holds, so that all give the same answer.

**`ForwardingProofs`**, for every set of machines, ring size, request, text, hash
function, block size and bound (assumptions `ForwardingAssumption`,
`KeyHashAssumption`, `MaxHashAssumption`, and `QuestionAssumption`, which says of
what parts a client puts a command together):

* `TypeCorrect`, `AtMostOnce`, `AlwaysTheOwnersAnswer`, `AlwaysNearer` from the
  inductive invariant `IInv == TypeOK /\ \A r : RequestInv(r)`. Nothing is executed
  twice because only the last thread of a chain executes and, once it has, is at
  its reply, done or dead (the last part of `ThreadInv`): a thread can go back to
  "connect" only for an answer `NoConnect`, which no operation gives
  (`NoConnect \notin Replies`). What is told is what was executed because
  every answer on its way back is an error or was heard from the machine that
  executed (`Heard`). And no request goes back because the owner is the member
  nearest above the key on whatever ring a machine sees, and the machine itself is
  on that ring (`OwnerIsNearest`).
* `AlwaysAsMeant`, `AlwaysOneForward` from `CalmInvariant`, the invariant
  `IInv /\ CalmInv`. What was executed is what the first machine read (`Faithful`),
  and while all machines have seen one ring (`Calm`) a chain has two threads at most,
  the second one on the owner, and only the owner executes; a request whose machines
  disagree, or lose one, is no longer calm and stays so.
* For `AlwaysAsMeant` there remains what a machine reads in a text that `buildCommand`
  has written (`ReadsWhatIsBuilt`, below).
* `AlwaysIntact`: `TextsArriveIntact` for blocks of any size, texts of any length and TCP
  cutting them anywhere, with `TextAssumption`: no text has a NUL in it, which is what the
  buffers are cleared with. `Received` is a recursive function over the pieces. Instead
  of an induction, the proof states what the buffer holds after each number of pieces and
  shows that this satisfies the equation of `Received`, and that two functions which
  satisfy it agree, since there is no least number of pieces where they differ
  (`MinIsLeast`).

**`OperatorProofs`**, about every finite set of hashes and all texts:

* `Min` and `Max` exist and are what their names say (`MinIsLeast`, by
  well-foundedness, and `MaxIsGreatest`); the owner of a key is on the ring
  (`OwnerOnRing`) and the nearest above it (`OwnerIsNearest`).
* Predecessor and successor are inverse to each other, and injective
  (`SuccessorOfPredecessor`, `PredecessorInjective`). `RingSize` and `RingSizeForward`
  tell how many members there are from where a walk of one to four steps ends, which
  is what the comparisons with the size of the map stand for.
* `OwnedRange`: a machine owns what is between its predecessor and itself;
  `OwnerAfterAdding`, `OwnedRangeMoves`: what a new member changes about it;
  `CopyHolders`: copies are with the owner and the two members after it.
* Who is nearest among the members of a ring when some are gone: the replicas are the
  second and third nearest (`ReplicasAreNearest`, `CopiesMean`), whoever is one among more
  members is one among fewer (`ReplicaAmongFewer`, `CopyAmongFewer`), the owner that is
  left when two are gone had a copy (`HeirHasCopy`), and who becomes a replica by that
  (`NewReplica`).
* `ReadsWhatIsBuilt` says that in a text `buildCommand` has written a machine reads what
  was meant, for keys and values of any symbols and length but for a comma in the key:
  the operation ends at the first bracket since no operation has one, the key at the
  first comma or, without a value, before the last bracket, and the value before the
  last bracket, which is the one `buildCommand` wrote (`Layout`, `NameIsFound`,
  `PartsAreFound`). `ForcedIsBuilt` says the same of the forced text. None of this is an
  induction: `Substring`, `FirstOf` and `LastOf` are not recursive.

**`RingViewProofs`**, for every ring size, set of members and queue (assumptions
`IdAssumption`, of distinct hashes, and `MaxHashAssumption`):

* `TypeCorrect`: `TypeOK` is inductive, since the special case for a ring of two
  machines in `handleJoin` gives the range a start where `getHashAtDistance` has none.
* `JoinMovesOwnedCorrect`, `JoinReplicatesCorrect`, `JoinDropsCorrect`,
  `FailureTakesOverCorrect`: the step properties. A step pushes messages of one kind
  (`OnlyOneKind`), the sizes of the ring below five are special cases, and with five
  or more the distances -2, -3, -4 are distinct machines. The run checks this up to
  six members; the proofs leave no larger ring to wonder about.

**`EarlyMembershipProofs`**, for every set of machines, count of heartbeats and of
news, and all timeouts (`TimesAssumption`, `EarlyMembershipAssumption`):

* `ListSoundAlways`: `ListSound` from the inductive invariant `Inv`, of three parts.
  Unless an entry was removed during a merge (`crossed`), the merging thread's search
  is right about the entries it has passed (`SearchSound`), so that no id comes twice.
  The machine's own entry is the first whatever happens, since the timer thread never
  marks it and removals only move what is behind it (`SelfFirst`). And the age of that
  entry is paid for with memory (`StampsPaid`): 2^age is at most the capacity, or
  twice that in the second before the next stamp, because each stamp that is lost has
  doubled the vector. With a capacity of at most 2^TTF the age never exceeds TTF where
  the timer thread looks at it.

**`EarlyStoreProofs`**, for every ring size, set of machines, hash of the key, values,
joins and departures (assumptions `EarlyStoreAssumption`, `MaxHashAssumption` and
`KeyAssumption`):

* `TypeCorrect`, `NeverLost`, `EndsWithOwner` from the inductive invariant `Inv`. The
  key is in one place: with one machine, its holder, or in one command on its way, its
  carrier (`OnePlace`), unless one was misread. What a Coordinator says, or is about to
  (`Pending`), is the machine just before its own on the ring that machine sees
  (`MachineInv`), because `checkAndTransferKeys` says yes for that one only
  (`TransferRequiredMeans`), and only a new member just before the owner takes a key
  from it (`NewOwnerIsPredecessor`). The hash a timer thread reads is that of a member
  unless the flag is a newer one (`CoordinatorInv`): a thread that serves a join under its
  own flag has not been overtaken, and a hash outlives its member only if one has left
  (`Misreading`). So a holder that is no longer the owner on its own
  ring has a join waiting to be served (`HolderPlaced`), unless one was missed, and what
  `getCommandsForJoin` leaves in the store belongs there (`UnselectedIsOwned`), unless
  the key has the hash of a machine. A machine that sends what it leaves behind is on
  nobody's ring and on no command's way (`LeavesAlone`).
* What is sent is read as it was meant by `PartsAreFound` (`ReadsWhatIsWritten`), which
  needs no more of the key than that `atoi` reads what `intToString` wrote
  (`KeyAssumption`). That is true of every number; a proof would be an induction over
  the digits, so it is assumed by name, and TLC evaluates it for the numbers up to 1100
  (`KeysAssumption` in `MCEarlyStore`).

**`RebalanceProofs`**, for every ring size, set of machines, hash of the key, values,
joins and failures, in any order the actions allow (assumptions `RebalanceAssumption` and
`MaxHashAssumption`). Four invariants build on each other:

* `Types` gives `TypeCorrect`. A machine that does not run has nothing to do and nothing
  stored, and a command has somewhere to go, because the handlers look at what
  `getHashAtDistance` returns before they make one.
* `Phase` gives `TransferTargets` and `OnlyOneOwner`, with any number of joins and
  failures. `OneOwner` says something of settled states only and is far from inductive.
  `Phase` says what it rests on in between. While a join is dealt with, the new member is
  the only machine anybody has yet to hear of, each message that hands over a range with
  the key belongs to the successor of that member, and a machine that wrongly takes
  itself for the owner has not heard of it, or has that message as its next one
  (`Old`, `New`). It is the first message because `handleJoin` pushes the one for the
  successor before the one for the predecessor. While failures are dealt with, rings
  have members too many and never too few, so that a machine which inherits the range of
  the key on its own ring is the owner (`Failing`, by `OwnerAmongFewer`). The two phases
  do not mix, since members change when all is settled.
* `Kept`, as long as `failures = 0`, gives `OwnerServes` and `CopyAlwaysSurvives`. The key
  is with a machine that has it as its own, or in an insert to the owner (`Somewhere`);
  the owner never has it as a mere replica (`OwnerOwns`), so that the insert is not
  ignored there, because whatever else a thread sends goes to other machines. The machine
  after the owner, which has handed over the key, has it deleted at its own second replica;
  that one is the owner only if there are three machines at most, and then
  `isReplicatedKeysDeletingRequiredForJoin` says no (`KeptJob`, `KeptContactSecondReplica`).
* `Repaired`, as long as `joins = 0`, gives `PlacedAlways`, `OwnerServesAfterFailures`,
  `CopySurvivesFailures` and `ToleratesFailuresTogether`. They have the hypothesis
  `Together`, a constant of `Rebalance`: a second machine is lost only before anybody has
  dropped the first from its ring. Without it `rebalance_gap` refutes the last one, and
  what is lost stays lost. Either nobody has noticed the failures (`Untouched`), or
  `Repairing` holds: the owner among those left has the key as a replica (`HeirHasCopy`),
  and the message that makes it the owner is in its queue when its own ring says that it
  is (`RepairStore`, `RepairQueue`); once it is, it is the only machine that sends
  anything (`RepairJob`), and each replica on its own ring has the key or is in a job or
  message that will give it the key (`Served`). The last member to be dropped changes
  who the second replica is; the message pushed then names that machine, since it is
  looked up on a ring that is final.

TLC has checked `Phase`, `OneOwner`, `KeptUnlessFailed` and `RepairedUnlessJoined` as
invariants of the instances of `MCRebalance.cfg`; they are not in the configuration,
because they follow.

**Only model-checked**, and why:

* Liveness (`EveryRequestAnswered` twice, `EveryRequestEnds`, `SilentAreForgotten`,
  `MovingEnds`): fairness and ENABLED are out of reach of the prover.
* `LogGrep`: what `AnswerIsExact` says of the lines of files it says with `SelectSeq`,
  which takes a test as its argument and of which the prover knows nothing, not even
  its definition. `TypeOK` says little without it.
* `OwnerServesWhenSettled` and `CopySurvives` when machines have joined before others
  fail: after joins a replica may lack the key (hazards at `ConnectionHandler.cxx:757` and
  `:268`), so that a failure of the owner may lose it. Nobody promises more, and the
  runs do not mix the two.
* `DeadIsForgotten` beyond the condition of `ForgetTimes` is false (section 4).

## 6. Not modelled, and what is left

* Bounds of what `Rebalance` says: joins and failures do not overlap with each
  other, nor clients' commands with either; a member that was dropped is not heard
  of again.
* Overlapping requests at level ALL may leave copies different; `AtomicStore` says
  what still holds, and there is no property about the replicas.
* Hash collisions: `RingView` and `Rebalance` take distinct hashes of machines. With
  one byte collisions will happen, and nothing the code promises holds then.
* The size limit of a datagram depends on boost's text format.
* Torn reads of the unlocked vector and maps of the current program, and of its store
  by lookups, which take no mutex.
* MP3: failures (they lose keys by design), the leaving of the master or of two
  machines at once; a crash in `getIPFromHash`; torn accesses to the store and to
  `keyToIPMap`, which no lock protects from the timer thread (only the Coordinator's
  fields are modelled store by store, and `getCommandsForJoin` is one step). MP2: others'
  lists that are unsound already.
* MP4 is the current program but for five lines without consequence. The logger,
  prompts, arguments of the command line, `actions.h` and measurement scripts
  change no state the properties speak of.

Worth proving next: that a key survives failures after joins as long as its owner does;
and that a dead member is forgotten by any number of machines if the times grow with
the list, once the code makes them do so.
