--------------------------------- MODULE Stream ---------------------------------
(* A text on a TCP connection: its length, then the text in blocks of a fixed     *)
(* size (Utility::sendData), read in pieces of any size up to that of a block     *)
(* (Utility::rcvData).                                                           *)
EXTENDS Naturals, SequencesExt

CONSTANTS Block,          \* the size of the buffers: 1024 in the code
          MaxCuts         \* bound on the pieces TCP makes beyond whole blocks

ASSUME StreamAssumption == Block \in Nat \ {0} /\ MaxCuts \in Nat

NUL == "NUL"

\* The loop of sendData counts one position too many for every block it has sent:
\* the b-th block goes out b - 1 characters early.
Sent(size) == {b \in 1..size : size >= Block * b - b + 2}

\* Once that has cost a character the loop runs past the end of the text: the
\* string is asked for a position it does not have, and throws, which nobody
\* catches.  With a buffer of 1024 the first such length is 3071.
Throws(size) == Cardinality(Sent(size)) * Block > size

\* A text which fills the buffer exactly has its closing NUL written behind it:
\* whatever lies there decides what happens.
Overruns(size) == size = Block

\* The blocks of a text that does not throw.  The buffer is not cleared, so that
\* the last one ends with what is left of the one before.
Wire(text) ==
    LET size  == Len(text)
        whole == Cardinality(Sent(size)) * Block
        tail  == SubSeq(text \o <<NUL>>, whole + 1, Min({whole + Block, size + 1}))
        stale == [j \in 1..(Block - Len(tail)) |->
                    IF whole = 0 THEN NUL ELSE text[whole - Block + Len(tail) + j]]
    IN  SubSeq(text, 1, whole) \o tail \o stale

\* The places where the pieces which recv returns may end.
Cuts(n) ==
    LET whole == {Block * b : b \in 1..(n \div Block)}
    IN  {whole \cup extra : extra \in
            UNION {kSubset(i, 1..n \ whole) : i \in 0..MaxCuts}}

\* Mutant: a piece is taken whole, with what follows its text.
PieceWhole(wire, from, to) == SubSeq(wire, from, to)

\* The characters of a piece up to the first NUL
Piece(wire, from, to) ==
    LET end == SelectInSubSeq(wire, from, to, LAMBDA c : c = NUL)
    IN  SubSeq(wire, from, IF end = 0 THEN to ELSE end - 1)

\* rcvData: one piece after the other until size characters have come.
Received(wire, size, cuts) ==
    LET end(from) == Min({c \in cuts : c > from})
        read[from \in 0..Len(wire)] ==
            IF from >= size THEN <<>>
            ELSE Piece(wire, from + 1, end(from)) \o read[end(from)]
    IN  read[0]
================================================================================
