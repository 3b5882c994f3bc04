----------------------------- MODULE MembershipList -----------------------------
(* The membership list of one machine, as operators on its value: what class    *)
(* MembershipList (headers/membershipList.h) does to memList when a list is     *)
(* received, when the machine looks for silent members, and when it picks the   *)
(* machines it gossips to.                                                      *)
(*                                                                              *)
(* A list is a function from network ids to entries.  The code keeps a vector   *)
(* with at most one entry per id; its order only decides where the walk of      *)
(* getListOfMachinesToSendTo goes next, and any order is allowed here.  Times   *)
(* are kept as ages: age is now - localTimestamp, failAge now - failureTimestamp *)
(* while the entry is marked failed.                                            *)
EXTENDS Integers, FiniteSets

CONSTANTS TTF,            \* timeToFailure in seconds (4)
          TTC             \* timeToCleanup in seconds (4)

ASSUME TimesAssumption == TTF \in Nat /\ TTC \in Nat

\* No comparison of the code, and no property, tells greater ages apart.
AgeCap == TTF + TTC + 2

Older(age) == IF age < AgeCap THEN age + 1 ELSE AgeCap

Entry ==
    [beat    : Nat,             \* heartbeat
     age     : 0..AgeCap,       \* seconds since the heartbeat last grew
     failed  : BOOLEAN,         \* suspected
     leaving : BOOLEAN,         \* asked to retire
     failAge : 0..AgeCap]       \* seconds since it was suspected, 0 if it is not

\* An entry a second later.
Aged(e) == [e EXCEPT !.age = Older(@), !.failAge = IF e.failed THEN Older(@) ELSE 0]

\* An entry as another machine gets to see it: the receiver sets its own times.
Remote == [beat : Nat, failed : BOOLEAN, leaving : BOOLEAN]

\* Mutant: the local times are sent along.
AsRemoteWithTimes(list) == list

AsRemote(list) ==
    [id \in DOMAIN list |-> [beat    |-> list[id].beat,
                             failed  |-> list[id].failed,
                             leaving |-> list[id].leaving]]

NewEntry(beat) ==
    [beat |-> beat, age |-> 0, failed |-> FALSE, leaving |-> FALSE, failAge |-> 0]

--------------------------------------------------------------------------------
(* A list is received                                                           *)

\* Mutant: hearing of a heartbeat counts as another one.
MergeEntriesCounting(local, remote) ==
    IF remote.beat > local.beat /\ ~local.leaving /\ ~remote.failed
    THEN [beat |-> remote.beat + 1, age |-> 0, failed |-> FALSE,
          leaving |-> remote.leaving, failAge |-> 0]
    ELSE local

\* Mutant: news does not lift a suspicion.
MergeEntriesSuspecting(local, remote) ==
    IF remote.beat > local.beat /\ ~local.leaving /\ ~remote.failed
    THEN [beat |-> remote.beat, age |-> 0, failed |-> local.failed,
          leaving |-> remote.leaving, failAge |-> local.failAge]
    ELSE local

\* mergeEntries: only news counts, a member that is leaving has no more news, and
\* a suspicion is never taken over from another machine.
MergeEntries(local, remote) ==
    IF remote.beat > local.beat /\ ~local.leaving /\ ~remote.failed
    THEN [beat |-> remote.beat, age |-> 0, failed |-> FALSE,
          leaving |-> remote.leaving, failAge |-> 0]
    ELSE local

\* Mutant: a member somebody else suspects is added as well.
JoiningSuspected(list, remote) ==
    {id \in DOMAIN remote \ DOMAIN list : ~remote[id].leaving}

\* The ids updateEntry adds: unknown here, neither leaving nor suspected there.
Joining(list, remote) ==
    {id \in DOMAIN remote \ DOMAIN list :
        ~remote[id].leaving /\ ~remote[id].failed}

\* mergeList, one updateEntry for each entry of the received list.  The entries
\* are independent of each other, so the order of the loop does not show.
MergeList(list, remote) ==
    [id \in DOMAIN list \cup Joining(list, remote) |->
        IF id \notin DOMAIN list THEN NewEntry(remote[id].beat)
        ELSE IF id \in DOMAIN remote THEN MergeEntries(list[id], remote[id])
        ELSE list[id]]

--------------------------------------------------------------------------------
(* The machine looks at its own list                                            *)

\* Mutant: a leaving member is deleted a second early.
ToDeleteEarly(e) ==
    \/ e.failed /\ e.failAge > TTC
    \/ e.leaving /\ e.age >= TTC

\* processEntry, first branch: suspected or leaving for longer than TTC.
ToDelete(e) ==
    \/ e.failed /\ e.failAge > TTC
    \/ e.leaving /\ e.age > TTC

\* processEntry, second branch: silent for longer than TTF.
ToSuspect(e) == ~e.failed /\ ~e.leaving /\ e.age > TTF

ProcessEntry(e) ==
    IF ToSuspect(e) THEN [e EXCEPT !.failed = TRUE, !.failAge = 0] ELSE e

\* processList: the loop over processEntry, then removeFromList for each entry
\* that was marked for deletion.
ProcessList(list) ==
    [id \in {i \in DOMAIN list : ~ToDelete(list[i])} |-> ProcessEntry(list[id])]

\* Mutant: localTimestamp is left alone.
IncrementHeartbeatUnstamped(list, self) == [list EXCEPT ![self].beat = @ + 1]

\* incrementHeartbeat(1): the machine's own entry is also stamped.
IncrementHeartbeat(list, self) ==
    [list EXCEPT ![self].beat = @ + 1, ![self].age = 0]

\* requestRetirement
RequestRetirement(list, self) == [list EXCEPT ![self].leaving = TRUE]

--------------------------------------------------------------------------------
(* The machine chooses whom to gossip to                                        *)

Eligible(list, self) ==
    {id \in DOMAIN list : id # self /\ ~list[id].failed /\ ~list[id].leaving}

\* getListOfMachinesToSendTo with FRACTION 0.5: a walk from a random place takes
\* the first eligible entries, at most max(1, half the list) of them.
Chosen(list, self) ==
    LET half     == Cardinality(DOMAIN list) \div 2
        toChoose == IF half > 1 THEN half ELSE 1
        all      == Eligible(list, self)
    IN  IF Cardinality(all) <= toChoose THEN {all}
        ELSE {s \in SUBSET all : Cardinality(s) = toChoose}
================================================================================
