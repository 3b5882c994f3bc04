----------------------------- MODULE EarlyMembership ----------------------------
(* The membership list of the second build stage (MP2), a vector that two threads  *)
(* work on: the one which merges a received list holds a mutex, and the timer      *)
(* thread, which looks for silent members, takes none.  Only the merging thread    *)
(* adds entries, at the end; only the timer thread removes some, which moves those  *)
(* behind them.  Either may write to an entry that is another one by then, or to    *)
(* memory the vector has left.                                                    *)
(*                                                                               *)
(* One machine, the master, and what it may be told of the others: anything that   *)
(* was true at some time.  The steps of the loops are one access to the vector     *)
(* each; push_back and erase are taken to be atomic, and a second passes while     *)
(* neither thread is at work.                                                     *)
EXTENDS MembershipList, SequencesExt

CONSTANTS Self,           \* networkID, the machine's own
          Other,          \* the network ids of the others
          Beats,          \* the heartbeats each of them will ever have had
          MaxNews         \* bound on the entries the machine is sent

Id == Other \cup {Self}

ASSUME EarlyMembershipAssumption ==
    /\ Self \notin Other /\ Beats \in [Other -> Nat] /\ MaxNews \in Nat

VARIABLES list,           \* memList: entries with their ids
          capacity,       \* the entries the vector has memory for
          merging,        \* the thread with the mutex: where it is, at which entry,
                          \* and the entry it has been sent
          timer,          \* the timer thread: where it is, at which entry
          moved,          \* have the entries moved since it found that one?
          entriesToDelete, \* ids of entries processEntry has marked
          due,            \* a second has passed since its last turn
          leave, leaveAge, \* SIGTERM was received, and the seconds since
          news,           \* how many entries have come
          crossed         \* was an entry ever removed while another was merged?

clock   == <<due, leave, leaveAge>>
threads == <<merging, timer, moved>>
vars    == <<list, capacity, threads, entriesToDelete, clock, news, crossed>>

WithId(id, e) == [id |-> id, e |-> e]

\* A thread is somewhere, at the entry with index i if that matters there.
NoEntry  == [id |-> Self]
Free     == [at |-> "free", i |-> 0, sent |-> NoEntry]
Sleeping == [at |-> "sleep", i |-> 0]
Gone     == [at |-> "gone", i |-> 0]

--------------------------------------------------------------------------------
\* The constructors: a list that holds only the machine itself.
Init ==
    /\ list = <<WithId(Self, NewEntry(0))>>
    /\ capacity = 1
    /\ merging = Free
    /\ timer = Sleeping
    /\ moved = FALSE
    /\ entriesToDelete = <<>>
    /\ due = FALSE /\ leave = FALSE /\ leaveAge = 0
    /\ news = 0
    /\ crossed = FALSE

Running == timer # Gone

\* A second passes.
Tick ==
    /\ timer = Sleeping /\ merging = Free
    /\ ~due /\ due' = TRUE
    /\ list' = [i \in DOMAIN list |-> [list[i] EXCEPT !.e = Aged(@)]]
    /\ leaveAge' = IF leave /\ leaveAge <= TTC THEN leaveAge + 1 ELSE leaveAge
    /\ UNCHANGED <<capacity, threads, entriesToDelete, leave, news, crossed>>

\* sendLeaveMsg, the handler of SIGTERM; a second one makes the machine wait again.
Sigterm ==
    /\ Running
    /\ leave' = TRUE
    /\ leaveAge' = 0
    /\ UNCHANGED <<list, capacity, threads, entriesToDelete, due, news, crossed>>

--------------------------------------------------------------------------------
(* The thread that merges a list                                                *)

\* What others say of an id: a count it has had, and that it is suspected or wants
\* to leave.  Of this machine nobody knows a higher count than it does itself, so
\* that its own is not counted here.
SaidOf(id, beats) ==
    {WithId(id, [beat |-> beat, failed |-> flag = "failed", leaving |-> flag = "leaving"]) :
        beat \in beats, flag \in {"", "failed", "leaving"}}

Said == SaidOf(Self, {0}) \cup UNION {SaidOf(id, 1..Beats[id]) : id \in Other}

Goes(place, i) == merging' = [merging EXCEPT !.at = place, !.i = i]

\* The mutex is taken, and the first entry of the list looked up.  The entries of a
\* list are merged one by one, like lists of one entry.
UpdateMembershipList ==
    /\ Running /\ merging = Free
    /\ news < MaxNews /\ news' = news + 1
    /\ \E x \in Said : merging' = [at |-> "search", i |-> 1, sent |-> x]
    /\ UNCHANGED <<list, capacity, timer, moved, entriesToDelete, clock, crossed>>

\* One turn of the loop of updateEntry.  (Should the vector shrink between the
\* comparison with its size and the access, the news is lost, as if it had not come.)
Search ==
    /\ Running /\ merging.at = "search"
    /\ LET i == merging.i
       IN  \/ i <= Len(list) /\ list[i].id = merging.sent.id /\ Goes("merge", i)
           \/ i <= Len(list) /\ list[i].id # merging.sent.id /\ Goes("search", i + 1)
           \/ i > Len(list) /\ Goes("add", 0)
    /\ UNCHANGED <<list, capacity, timer, moved, entriesToDelete, clock, news, crossed>>

\* mergeEntries, for whatever entry is there by now.
Merge ==
    /\ Running /\ merging.at = "merge"
    /\ list' = IF merging.i \in DOMAIN list
               THEN [list EXCEPT ![merging.i].e = MergeEntries(@, merging.sent.e)]
               ELSE list
    /\ merging' = Free
    /\ UNCHANGED <<capacity, timer, moved, entriesToDelete, clock, news, crossed>>

\* Where the timer thread is about to write to an entry it has found.
Holding == {"retiring", "beating", "marking"}

\* The id has not been found: it is added, unless it is suspected or leaving.  A
\* vector that is full moves to twice the memory.
AddToList ==
    /\ Running /\ merging.at = "add"
    /\ LET new == merging.sent
       IN  \/ /\ ~new.e.failed /\ ~new.e.leaving
              /\ list' = Append(list, WithId(new.id, NewEntry(new.e.beat)))
              /\ capacity' = IF Len(list) = capacity THEN 2 * capacity ELSE capacity
              /\ moved' = (moved \/ (Len(list) = capacity /\ timer.at \in Holding))
           \/ (new.e.failed \/ new.e.leaving) /\ UNCHANGED <<list, capacity, moved>>
    /\ merging' = Free
    /\ UNCHANGED <<timer, entriesToDelete, clock, news, crossed>>

--------------------------------------------------------------------------------
(* The timer thread                                                             *)

At(place)      == timer.at = place
Then(place, i) == timer' = [at |-> place, i |-> i]

Elsewhere == <<capacity, merging, news>>

\* getListOfMachinesToSendTo finds nobody.
NobodyToSendTo ==
    \A i \in DOMAIN list : list[i].id = Self \/ list[i].e.failed \/ list[i].e.leaving

\* executeCb: without anybody to send to, the master reads its backup file, which is
\* not there, and gives up retiring.
ExecuteCb ==
    /\ timer = Sleeping /\ due
    /\ due' = FALSE
    /\ Then(IF leave /\ ~NobodyToSendTo THEN "retire" ELSE "beat", 0)
    /\ UNCHANGED <<Elsewhere, list, moved, entriesToDelete, leave, leaveAge, crossed>>

\* The first entry with this id, 0 if there is none.
Find(id) == SelectInSeq(list, LAMBDA x : x.id = id)

\* requestRetirement, incrementHeartbeat: the machine looks for itself.
FindSelf ==
    /\ \/ At("retire") /\ Then(IF Find(Self) = 0 THEN "beat" ELSE "retiring", Find(Self))
       \/ At("beat") /\ Then(IF Find(Self) = 0 THEN "sent" ELSE "beating", Find(Self))
    /\ moved' = FALSE
    /\ UNCHANGED <<Elsewhere, list, entriesToDelete, clock, crossed>>

\* What the thread writes to an entry it has found; in vain if that has moved.
Write(e) == list' = IF moved THEN list ELSE [list EXCEPT ![timer.i].e = e]

Found == list[timer.i].e

\* requestRetirement
SetLeaving ==
    /\ At("retiring")
    /\ Write([Found EXCEPT !.leaving = TRUE])
    /\ Then("beat", 0)
    /\ moved' = FALSE
    /\ UNCHANGED <<Elsewhere, entriesToDelete, clock, crossed>>

\* Mutant: the entry is not stamped.
BeatUnstamped ==
    /\ At("beating")
    /\ Then(IF leave THEN "sent" ELSE "process", 1)
    /\ moved' = FALSE
    /\ UNCHANGED <<Elsewhere, list, entriesToDelete, clock, crossed>>

\* incrementHeartbeat, which also stamps the entry; sendMemberList goes on to
\* processList unless the machine is leaving.
Beat ==
    /\ At("beating")
    /\ Write([Found EXCEPT !.age = 0])
    /\ Then(IF leave THEN "sent" ELSE "process", 1)
    /\ moved' = FALSE
    /\ UNCHANGED <<Elsewhere, entriesToDelete, clock, crossed>>

\* One turn of the loop of processList, up to what processEntry decides.
Examine ==
    /\ At("process")
    /\ LET i == timer.i
       IN  \/ i > Len(list) /\ Then("remove", 0) /\ UNCHANGED entriesToDelete
           \/ /\ i <= Len(list) /\ ToDelete(list[i].e)
              /\ entriesToDelete' = Append(entriesToDelete, list[i].id)
              /\ Then("process", i + 1)
           \/ /\ i <= Len(list) /\ ~ToDelete(list[i].e)
              /\ IF ToSuspect(list[i].e) THEN Then("marking", i) ELSE Then("process", i + 1)
              /\ UNCHANGED entriesToDelete
    /\ UNCHANGED <<Elsewhere, list, moved, clock, crossed>>

\* Mutant: failed == 1, a comparison.
SuspectUnmarked ==
    /\ At("marking")
    /\ Write([Found EXCEPT !.failAge = 0])
    /\ Then("process", timer.i + 1)
    /\ moved' = FALSE
    /\ UNCHANGED <<Elsewhere, entriesToDelete, clock, crossed>>

\* The entry is marked as failed, with the time.
Suspect ==
    /\ At("marking")
    /\ Write([Found EXCEPT !.failed = TRUE, !.failAge = 0])
    /\ Then("process", timer.i + 1)
    /\ moved' = FALSE
    /\ UNCHANGED <<Elsewhere, entriesToDelete, clock, crossed>>

\* The second loop of processList: removeFromList.
RemoveFromList ==
    /\ At("remove")
    /\ \/ /\ entriesToDelete # <<>>
          /\ LET i == Find(Head(entriesToDelete))
             IN  list' = IF i = 0 THEN list ELSE RemoveAt(list, i)
          /\ entriesToDelete' = Tail(entriesToDelete)
          /\ crossed' = (crossed \/ merging # Free)
          /\ UNCHANGED timer
       \/ entriesToDelete = <<>> /\ Then("sent", 0) /\ UNCHANGED <<list, entriesToDelete, crossed>>
    /\ UNCHANGED <<Elsewhere, moved, clock>>

\* The rest of sendMemberList: the process ends, or the list is sent.
Send ==
    /\ At("sent")
    /\ timer' = IF leave /\ leaveAge > TTC THEN Gone ELSE Sleeping
    /\ UNCHANGED <<Elsewhere, list, moved, entriesToDelete, clock, crossed>>

--------------------------------------------------------------------------------
Merging == Search \/ Merge \/ AddToList

TimerThread ==
    \/ ExecuteCb \/ FindSelf \/ SetLeaving \/ Beat
    \/ Examine \/ Suspect \/ RemoveFromList \/ Send

Next == UpdateMembershipList \/ Merging \/ TimerThread \/ Tick \/ Sigterm

Spec == Init /\ [][Next]_vars

\* Both threads run, and time passes.
FairSpec == Spec /\ WF_vars(Merging) /\ WF_vars(TimerThread) /\ WF_vars(Tick)

--------------------------------------------------------------------------------
(* Properties                                                                   *)

OneEntryEach == \A i, j \in DOMAIN list : list[i].id = list[j].id => i = j

NeverAhead ==
    \A i \in DOMAIN list : list[i].id # Self => list[i].e.beat <= Beats[list[i].id]

\* The machine is first on its own list, unsuspected, and on its way out only if asked.
SelfSound ==
    /\ list # <<>> /\ list[1].id = Self /\ ~list[1].e.failed
    /\ list[1].e.leaving => leave

\* Whatever the two threads do to each other, SelfSound holds, unless the vector has
\* grown too often: each time it moves, a stamp may be lost, and if that happens in
\* more than TTF turns on end the machine suspects itself.  Every id has one entry
\* ("one match is all we will have", updateEntry) and no more heartbeats than its
\* machine has had, as long as no entry was removed while another one was merged:
\* after that neither need hold.
ListSound ==
    /\ \A i \in DOMAIN list : list[i].id \in Id /\ list[i].e \in Entry
    /\ capacity <= 2^TTF => SelfSound
    /\ ~crossed => OneEntryEach /\ NeverAhead

\* When no more lists come everybody else is forgotten in the end, also those who are
\* on the list twice or with somebody else's heartbeat; a machine that is asked to
\* leave does, if it is not asked over and over (processList, sendMemberList).
SilentAreForgotten ==
    <>[][~Sigterm]_vars => <>[](timer = Gone \/ (~leave /\ Len(list) = 1))
================================================================================
