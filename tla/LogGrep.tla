--------------------------------- MODULE LogGrep ---------------------------------
(* The first build stage (MP1): a client asks one machine to grep the logs of all  *)
(* of them.  A thread there asks the other machines, collects what they send in   *)
(* files, adds its own lines and sends everything back, while the logs grow.      *)
(*                                                                               *)
(* Every machine has one structure f with the connection it has accepted last,    *)
(* which all its threads use at every step.  Two requests are made, the second    *)
(* when the client has the answer to the first, as grepUnitTest does it: threads   *)
(* of the first may still be at work then.                                        *)
EXTENDS Naturals, SequencesExt

CONSTANTS Machine,        \* the machines, in the order of their addresses
          MayBeDown,      \* those of them that need not run
          Question,       \* what a request may ask: one filter, or two with a pipe
          Entry,          \* the machines its client may have been started with
          ErrType,        \* the types of errors that are logged
          OldLog,         \* the logs there are: sequences of lines, which are sequences of words
          MaxLogged       \* bound on the lines that are added to a log

Colon   == ":"
AnyText   == ".*"

Request == {1, 2}
NoRequest == <<>>
NoFile == <<<<>>>>
NoConn == <<>>
Nobody == 0

\* The connection for request r to machine m: the client's own, or one from the
\* machine the client has asked.
Conn == Request \X Machine

Filter == [spec : {"key", "value", "plain"}, text : STRING, anchored : BOOLEAN]

ASSUME LogGrepAssumption ==
    /\ Machine \subseteq Nat \ {Nobody} /\ MaxLogged \in [Machine -> Nat]
    /\ \A r \in Request : /\ Question[r] \subseteq Seq(Filter) \ {NoRequest}
                         /\ Entry[r] \subseteq Machine
    /\ ErrType \subseteq 2..5
    /\ OldLog \in [Machine -> Seq(Seq(STRING))]

VARIABLES up,             \* the machines that run
          log,            \* machine.<m>.log
          question,       \* the command of a request
          asked,          \* the machine the client asks
          logged,         \* the lengths of the logs at that time
          sock,           \* f->sock: the connection accepted last
          closed,         \* the connections that have been closed where accepted
          handler,        \* the thread that serves a connection
          sent,           \* the connections on which an answer has been sent
          file,           \* that answer
          reader,         \* the other end: a thread of the machine asked, or the client
          out,            \* cmd.<m>.out
          result,         \* result[m][p]: machine.<p>.log at machine m
          orphan,         \* readers whose file has been removed
          told,           \* what the client has received
          crossed         \* has a connection found another one's thread at work?

files == <<out, result, orphan>>
conns == <<closed, sent, file, reader>>
vars  == <<up, log, question, asked, logged, sock, handler, files, conns, told, crossed>>

--------------------------------------------------------------------------------
(* The command                                                                  *)

\* Mutant: the separator is left out.
RegexBare(f) == <<f.text>>

\* processKeyGrep, processValueGrep: what is given to the real grep.  A filter that
\* is neither is treated as one for keys.
Regex(f) ==
    CASE f.spec = "value" -> IF f.anchored THEN <<Colon, f.text>> ELSE <<Colon, AnyText, f.text>>
      [] OTHER            -> IF f.anchored THEN <<f.text, Colon>> ELSE <<f.text, AnyText, Colon>>

\* What grep makes of that.
GrepMatches(regex, line) ==
    \E i, j \in DOMAIN line :
        /\ line[i] = regex[1] /\ line[j] = Last(regex)
        /\ IF AnyText \in ToSet(regex) THEN i < j ELSE j = i + Len(regex) - 1

\* parseGrepCmd and processKeyAndValue: cat the log, through every filter.
Grep(q, m) ==
    SelectSeq(log[m], LAMBDA l : \A i \in DOMAIN q : GrepMatches(Regex(q[i]), l))

--------------------------------------------------------------------------------
(* The machines                                                                 *)

Peers(m) == SetToSortSeq(Machine \ {m}, <)

Init ==
    /\ up \in {Machine \ down : down \in SUBSET MayBeDown}
    /\ log = OldLog
    /\ question = [r \in Request |-> NoRequest]
    /\ asked = [r \in Request |-> Nobody]
    /\ logged = [r \in Request |-> [m \in Machine |-> 0]]
    /\ sock = [m \in Machine |-> NoConn]
    /\ closed = {}
    /\ handler = [k \in Conn |-> "none"]
    /\ sent = {}
    /\ file = [k \in Conn |-> <<>>]
    /\ reader = [k \in Conn |-> "none"]
    /\ out = [m \in Machine |-> NoFile]
    /\ result = [m \in Machine |-> [p \in Machine \ {m} |-> <<>>]]
    /\ orphan = {}
    /\ told = [r \in Request |-> <<>>]
    /\ crossed = FALSE

\* errorTypeToErrorString
ErrorTypeToErrorString ==
    <<"IO_ERROR", "NETWORK_ERROR", "HANDSHAKE_FAILURE", "DEST_NOT_FOUND", "INVALID_OPERATION">>

\* buildLogMsg: the type is the key, and the time is in front of the message.
BuildLogMsg(errType, msg) ==
    <<ErrorTypeToErrorString[errType], Colon, "timestamp-">> \o msg

\* The texts of randomWriteLogFile, of which the last words are kept.
Message ==
    [errType \in 2..5 |->
        <<"Check", CASE errType = 2 -> "connection" [] errType = 3 -> "HS"
                     [] errType = 4 -> "port"       [] errType = 5 -> "code">>]

\* FileHandler::writeToFile appends to the file.
WriteToFile(m, text) == log' = [log EXCEPT ![m] = Append(@, text)]

\* randomWriteLogFile, run by a program beside the machine: logError for one line.
Log(m) ==
    /\ m \in up
    /\ Len(log[m]) < Len(OldLog[m]) + MaxLogged[m]
    /\ \E errType \in ErrType : WriteToFile(m, BuildLogMsg(errType, Message[errType]))
    /\ UNCHANGED <<up, question, asked, logged, sock, handler, files, conns, told, crossed>>

\* client.cpp connects to machine m and sends the command.
Ask(r, m) ==
    /\ question[r] = NoRequest
    /\ r = 2 => asked[1] # Nobody /\ reader[<<1, asked[1]>>] = "done"
    /\ m \in Entry[r] \cap up
    /\ \E q \in Question[r] : question' = [question EXCEPT ![r] = q]
    /\ asked' = [asked EXCEPT ![r] = m]
    /\ logged' = [logged EXCEPT ![r] = [n \in Machine |-> Len(log[n])]]
    /\ reader' = [reader EXCEPT ![<<r, m>>] = "size"]
    /\ handler' = [handler EXCEPT ![<<r, m>>] = "accept"]
    /\ UNCHANGED <<up, log, sock, closed, sent, file, files, told, crossed>>

AtWork(k) == handler[k] \notin {"none", "accept", "done"}

\* Mutant: the thread is started before the structure is filled.
AcceptEarly(k) ==
    /\ handler[k] = "accept"
    /\ handler' = [handler EXCEPT ![k] = "recv"]
    /\ UNCHANGED <<up, log, question, asked, logged, sock, crossed, conns, files, told>>

\* The loop of the constructor: f->sock is overwritten, and a thread started.
Accept(k) ==
    LET m == k[2]
    IN  /\ handler[k] = "accept"
        /\ sock' = [sock EXCEPT ![m] = k]
        /\ handler' = [handler EXCEPT ![k] = "recv"]
        /\ crossed' = (crossed \/ \E other \in Conn : other[2] = m /\ AtWork(other))
        /\ UNCHANGED <<up, log, question, asked, logged, conns, files, told>>

--------------------------------------------------------------------------------
(* SocketHandler                                                                *)

\* The connection the machine of k has at the moment.
Sock(k)    == sock[k[2]]
IsPeer(k)  == asked[k[1]] # k[2]
Command(k) == question[k[1]]

At(k, place) == handler[k] = place
Goes(k, place) == handler' = [handler EXCEPT ![k] = place]
Elsewhere == <<up, log, question, asked, logged, sock, crossed, told>>

\* The command is read.  A peer executes it, a client's machine starts one thread
\* for every other machine.
Recv(k) ==
    /\ At(k, "recv")
    /\ Sock(k) \notin closed
    /\ IF IsPeer(k)
       THEN UNCHANGED reader
       ELSE reader' = [x \in Conn |-> IF x[1] = k[1] /\ x # k THEN "connect" ELSE reader[x]]
    /\ Goes(k, "execute")
    /\ UNCHANGED <<Elsewhere, closed, sent, file, files>>

\* All threads of the request have ended.
Joined(k) == \A p \in Machine \ {k[2]} : reader[<<k[1], p>>] = "done"

\* tagAndExecuteCmd, which a client's machine does when it has joined its threads:
\* the tag replaces what is in the file, and the lines are appended.
Execute(k) ==
    LET m == k[2]
    IN  /\ At(k, "execute")
        /\ IsPeer(k) \/ Joined(k)
        /\ out' = [out EXCEPT ![m] = [i \in DOMAIN Grep(Command(k), m) |->
                                        <<m, Grep(Command(k), m)[i]>>]]
        /\ Goes(k, "send")
        /\ UNCHANGED <<Elsewhere, conns, result, orphan>>

\* What a thread sends back: a peer its own lines, a client's machine the merge of
\* what the peers have sent and of its own lines (mergeFileOutputs).
Output(k) ==
    LET m     == k[2]
        mine  == IF out[m] = NoFile THEN <<>> ELSE out[m]
        peers == [i \in DOMAIN Peers(m) |-> result[m][Peers(m)[i]]]
    IN  IF IsPeer(k) THEN mine ELSE FlattenSeq(peers) \o mine

\* sendFile opens the file, and sends its size and all there is in it, if it is there.
Send(k) ==
    /\ At(k, "send")
    /\ Sock(k) \notin closed
    /\ IsPeer(k) => out[k[2]] # NoFile
    /\ file' = [file EXCEPT ![Sock(k)] = Output(k)]
    /\ sent' = sent \cup {Sock(k)}
    /\ Goes(k, "close")
    /\ UNCHANGED <<Elsewhere, closed, reader, files>>

\* Mutant: only a client's connection is closed.
CloseClients(k) ==
    /\ At(k, "close")
    /\ closed' = IF IsPeer(k) THEN closed ELSE closed \cup {Sock(k)}
    /\ Goes(k, IF IsPeer(k) THEN "done" ELSE "clean")
    /\ UNCHANGED <<Elsewhere, sent, file, reader, files>>

\* The connection is closed, whichever it is by now.
Close(k) ==
    /\ At(k, "close")
    /\ closed' = closed \cup {Sock(k)}
    /\ Goes(k, IF IsPeer(k) THEN "done" ELSE "clean")
    /\ UNCHANGED <<Elsewhere, sent, file, reader, files>>

\* A file that is missing, or a connection that has been closed: so is the
\* connection then, and the thread ends.
Fail(k) ==
    /\ \/ handler[k] \in {"recv", "send"} /\ Sock(k) \in closed
       \/ At(k, "send") /\ IsPeer(k) /\ out[k[2]] = NoFile
    /\ closed' = closed \cup {Sock(k)}
    /\ Goes(k, "done")
    /\ UNCHANGED <<Elsewhere, sent, file, reader, files>>

\* Mutant: the files are left.
CleanNothing(k) ==
    /\ At(k, "clean")
    /\ Goes(k, "done")
    /\ UNCHANGED <<Elsewhere, conns, files>>

\* rm of all files that were merged.  Who has one open writes on in vain.
Clean(k) ==
    LET m == k[2]
    IN  /\ At(k, "clean")
        /\ out' = [out EXCEPT ![m] = NoFile]
        /\ result' = [result EXCEPT ![m] = [p \in Machine \ {m} |-> <<>>]]
        /\ orphan' = orphan \cup {x \in Conn : /\ asked[x[1]] = m /\ x[2] # m
                                               /\ reader[x] \in {"size", "rest", "end"}}
        /\ Goes(k, "done")
        /\ UNCHANGED <<Elsewhere, conns>>

--------------------------------------------------------------------------------
(* The receiving end: ClientHandler, and the client                              *)

\* ClientHandler connects, sends the command and opens its file to append to it.
\* Nobody may listen there.
Connect(k) ==
    /\ reader[k] = "connect"
    /\ \/ /\ k[2] \in up
          /\ handler' = [handler EXCEPT ![k] = "accept"]
          /\ reader' = [reader EXCEPT ![k] = "size"]
       \/ /\ k[2] \notin up
          /\ reader' = [reader EXCEPT ![k] = "done"]
          /\ UNCHANGED handler
    /\ UNCHANGED <<Elsewhere, closed, sent, file, files>>

\* Where the receiving end of k writes what it gets.
Writes(k) ==
    IF IsPeer(k)
    THEN /\ result' = IF k \in orphan THEN result
                      ELSE [result EXCEPT ![asked[k[1]]][k[2]] = @ \o file[k]]
         /\ UNCHANGED told
    ELSE /\ told' = [told EXCEPT ![k[1]] = @ \o file[k]]
         /\ UNCHANGED result

Receives(k, place) ==
    /\ reader' = [reader EXCEPT ![k] = place]
    /\ UNCHANGED <<up, log, question, asked, logged, sock, crossed, handler, closed, sent,
                   file, out, orphan>>

\* The first recv is for the size.  What of the file comes with it is not counted,
\* so that the end of the connection will have to be waited for.
ReadSize(k) ==
    /\ reader[k] = "size"
    /\ k \in sent
    /\ \/ Receives(k, "rest") /\ UNCHANGED <<result, told>>
       \/ Receives(k, "end") /\ Writes(k)

\* The file has come in full.
ReadFile(k) ==
    /\ reader[k] = "rest"
    /\ Receives(k, "done") /\ Writes(k)

\* The connection is closed, and nothing is left to read.
ReadEnd(k) ==
    /\ (reader[k] = "size" /\ k \notin sent) \/ reader[k] = "end"
    /\ k \in closed
    /\ Receives(k, "done") /\ UNCHANGED <<result, told>>

--------------------------------------------------------------------------------
Handler(k) == Recv(k) \/ Execute(k) \/ Send(k) \/ Close(k) \/ Fail(k) \/ Clean(k)

Reader(k) == Connect(k) \/ ReadSize(k) \/ ReadFile(k) \/ ReadEnd(k)

Next ==
    \/ \E m \in Machine : Log(m)
    \/ \E r \in Request, m \in Machine : Ask(r, m)
    \/ \E k \in Conn : Accept(k) \/ Handler(k) \/ Reader(k)

Spec == Init /\ [][Next]_vars

\* As long as a thread can go on or a machine can accept somebody, one of them does.
Fairness == WF_vars(\E k \in Conn : Accept(k) \/ Handler(k) \/ Reader(k))

FairSpec == Spec /\ Fairness

--------------------------------------------------------------------------------
(* Properties                                                                   *)

\* A line with a key and a value.
OneSeparator(line) == Cardinality({i \in DOMAIN line : line[i] = Colon}) = 1

\* The types of the variables.  A line that is logged has one separator.  A
\* connection that has a thread has been accepted, and so the machine's structure is
\* never empty when a thread uses it.
TypeOK ==
    /\ up \subseteq Machine
    /\ \A m \in Machine :
          \A i \in Len(OldLog[m]) + 1 .. Len(log[m]) : OneSeparator(log[m][i])
    /\ \A r \in Request : question[r] \in Question[r] \cup {NoRequest}
    /\ asked \in [Request -> Machine \cup {Nobody}]
    /\ sock \in [Machine -> Conn \cup {NoConn}] /\ closed \cup sent \subseteq Conn
    /\ \A k \in Conn : AtWork(k) => sock[k[2]] # NoConn
    /\ reader \in [Conn -> {"none", "connect", "size", "rest", "end", "done"}]
    /\ handler \in [Conn -> {"none", "accept", "recv", "execute", "send", "close",
                             "clean", "done"}]
    /\ orphan \subseteq Conn /\ crossed \in BOOLEAN

\* What a user means by a filter: the text is in the part before the separator, or
\* at its end; in the part behind it, or at its beginning.
Means(f, line) ==
    LET at    == CHOOSE i \in DOMAIN line : line[i] = Colon
        key   == SubSeq(line, 1, at - 1)
        value == SubSeq(line, at + 1, Len(line))
    IN  IF f.spec = "value"
        THEN IF f.anchored THEN value # <<>> /\ Head(value) = f.text ELSE f.text \in ToSet(value)
        ELSE IF f.anchored THEN key # <<>> /\ Last(key) = f.text ELSE f.text \in ToSet(key)

\* What the log of machine m should add to an answer when it has n lines.
Expected(r, m, n) ==
    SelectSeq(SubSeq(log[m], 1, n),
              LAMBDA l : OneSeparator(l) /\ \A i \in DOMAIN question[r] : Means(question[r][i], l))

\* What it has added.
Answered(r, m) ==
    LET lines == SelectSeq(told[r], LAMBDA e : e[1] = m /\ OneSeparator(e[2]))
    IN  [i \in DOMAIN lines |-> lines[i][2]]

\* The client of r does not wait.
Ended(r) == asked[r] # Nobody => reader[<<r, asked[r]>>] = "done"

\* A client gets from every machine that runs exactly the lines which match, as they
\* were in its log at some moment since it asked, once and in their order; none from
\* other machines and none of an earlier request.  Unless threads of two requests
\* meet at a machine: then connections are closed and files removed for each other.
AnswerIsExact ==
    \A r \in Request :
        asked[r] # Nobody /\ Ended(r) /\ ~crossed =>
            \A m \in Machine :
                IF m \in up
                THEN \E n \in logged[r][m]..Len(log[m]) : Answered(r, m) = Expected(r, m, n)
                ELSE Answered(r, m) = <<>>

\* No client waits for ever, not even when threads of two requests meet: machines that
\* do not run are left out, and what has not been counted ends with the connection.
EveryRequestEnds == []<>(\A r \in Request : Ended(r))
================================================================================
