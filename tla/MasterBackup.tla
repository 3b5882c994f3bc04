------------------------------ MODULE MasterBackup ------------------------------
(* The file in which the master (machine number 1) keeps the addresses of the    *)
(* members, to find them again when it restarts.  It is written on every         *)
(* twentieth callback of the timer thread and read when the master's list has    *)
(* nobody to send to.                                                            *)
EXTENDS Naturals

CONSTANTS Peer,           \* IPs of the other machines
          WriteEvery      \* callbacks between two writes (20)

FAILURE == 0              \* errorCodes.h

VARIABLES up,             \* does the master run?
          members,        \* IPs on its list, neither suspected nor leaving
          sends,          \* callbacks since the last write
          file,           \* the addresses in ips.1.bak
          exists,         \* is there such a file?
          written         \* the members at the last call of writeIPsToFile

vars == <<up, members, sends, file, exists, written>>

Init ==
    /\ up = FALSE
    /\ members = {}
    /\ sends = 0
    /\ file = {}
    /\ exists = FALSE
    /\ written = {}

Start ==
    /\ ~up
    /\ up' = TRUE
    /\ UNCHANGED <<members, sends, file, exists, written>>

\* The file outlives the process.
Stop ==
    /\ up
    /\ up' = FALSE
    /\ members' = {}
    /\ sends' = 0
    /\ UNCHANGED <<file, exists, written>>

MembersChange ==
    /\ up
    /\ members' \in SUBSET Peer
    /\ UNCHANGED <<up, sends, file, exists, written>>

\* A callback which does not write.
Send ==
    /\ up
    /\ sends + 1 < WriteEvery
    /\ sends' = sends + 1
    /\ UNCHANGED <<up, members, file, exists, written>>

\* executeCmd returns what system("rm -rf ...") returns, 0 when the old file is
\* gone, and writeIPsToFile compares that with its own FAILURE.  If it goes on,
\* writeToFile appends to what is there.
WriteIPs(status) ==
    LET left == IF status = 0 THEN {} ELSE file
    IN  IF status # FAILURE
        THEN exists' = TRUE /\ file' = left \cup members
        ELSE exists' = (exists /\ status # 0) /\ file' = left

WriteIPsToFile ==
    /\ up
    /\ sends + 1 = WriteEvery
    /\ sends' = 0
    /\ \E status \in {0, 1} : WriteIPs(status)
    /\ written' = members
    /\ UNCHANGED <<up, members>>

Next == Start \/ Stop \/ MembersChange \/ Send \/ WriteIPsToFile

Spec == Init /\ [][Next]_vars

\* readIPsFromFile: whom a restarted master talks to first.
FirstContacts == IF exists THEN file ELSE {}

\* sendMemberList says that the file "helps to find an initial list of members to
\* talk to if the master restarts": what it finds there are the members at the
\* time of the last write.
RestartFindsMembers == written # {} => FirstContacts \cap written # {}
================================================================================
