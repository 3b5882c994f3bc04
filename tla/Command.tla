-------------------------------- MODULE Command ---------------------------------
(* The texts of commands: how a server reads the text a client has sent it       *)
(* (CommandLineTools::parseKeyValueStoreCmd), what it sends to the replicas       *)
(* (getForceCommand) and what the machines themselves write (buildCommand).       *)
(*                                                                               *)
(* A text is a sequence of symbols: the characters "(", ")", ",", "-", those of   *)
(* keys, values and consistency levels, and the name of an operation as one       *)
(* symbol.  The f of a forced operation is a symbol of its own.                   *)
EXTENDS Naturals, SequencesExt

NeedsValue == {"insert", "update"}
NeedsKey   == {"lookup", "delete"}
Name       == NeedsValue \cup NeedsKey

\* What parseKeyValueStoreCmd returns; name is <<>> if there is no operation.
Parsed(name, key, value, level) ==
    [name |-> name, key |-> key, value |-> value, level |-> level]

Operations      == {<<n>> : n \in Name}
ForceOperations == {<<"f", n>> : n \in Name}

\* isValidOperation, isForceOperation: how an operation is spelt
IsValidOperation(name) == name \in Operations \cup ForceOperations

IsForceOperation(command) == command.name \in ForceOperations

\* The operation without the f.
Plain(name) == name[Len(name)]

\* string::substr from position a to b.  A length below zero, as size_t, is the
\* whole rest.
Substring(text, a, b) ==
    SubSeq(text, a, IF b < a - 1 THEN Len(text) ELSE b)

\* What is between the key and the value of a command
Comma == ","

\* Positions of symbols, 0 if there is none.
FirstOf(text, c) == SelectInSeq(text, LAMBDA x : x = c)
LastOf(text, c)  == SelectLastInSeq(text, LAMBDA x : x = c)

\* The level is given as one character and a dash; ALL is the default.
LevelGiven(text) == FirstOf(text, "-") = 2

LevelOf(text) ==
    IF LevelGiven(text) /\ text[1] \in {"o", "q"} THEN text[1] ELSE "a"

\* Mutant: a value ends at the first bracket.
ParseToFirstBracket(text) ==
    LET bracket == FirstOf(text, "(")
        comma   == FirstOf(text, Comma)
        close   == FirstOf(text, ")")
        name    == Substring(text, IF LevelGiven(text) THEN 3 ELSE 1, bracket - 1)
    IN  Parsed(name, Substring(text, bracket + 1, (IF comma = 0 THEN Len(text) ELSE comma) - 1),
               IF Plain(name) \in NeedsValue THEN Substring(text, comma + 1, close - 1) ELSE <<>>,
               LevelOf(text))

\* parseKeyValueStoreCmd.  The key ends at the first comma, or before the last
\* character of a text without one; the value ends at the last closing bracket.
Parse(text) ==
    LET bracket   == FirstOf(text, "(")
        comma     == FirstOf(text, Comma)
        close     == LastOf(text, ")")
        name      == Substring(text, IF LevelGiven(text) THEN 3 ELSE 1, bracket - 1)
        keyEnd    == IF comma = 0 THEN Len(text) ELSE comma
        key       == Substring(text, bracket + 1, keyEnd - 1)
        value     == Substring(text, comma + 1, close - 1)
        malformed == Parsed(<<>>, <<>>, <<>>, LevelOf(text))
    IN  CASE bracket = 0 ->
               IF text = <<"show">> THEN Parsed(text, <<>>, <<>>, "a") ELSE malformed
          [] bracket # 0 /\ ~IsValidOperation(name) -> malformed
          [] bracket # 0 /\ IsValidOperation(name) /\ Plain(name) \in NeedsKey ->
               Parsed(name, key, <<>>, LevelOf(text))
          [] bracket # 0 /\ IsValidOperation(name) /\ Plain(name) \in NeedsValue ->
               IF comma = 0 \/ close = 0 THEN malformed
                                         ELSE Parsed(name, key, value, LevelOf(text))

\* isValidCommand, which the client asks before it sends
IsValidCommand(command) ==
    \/ command.name = <<"show">>
    \/ /\ IsValidOperation(command.name)
       /\ command.key # <<>>
       /\ Plain(command.name) \in NeedsValue => command.value # <<>>

\* getForceCommand
ForceCommand(text) ==
    <<"f">> \o (IF LevelGiven(text) THEN SubSeq(text, 3, Len(text)) ELSE text)

\* buildCommand, for an operation given by its spelling
BuildCommand(name, key, value) ==
    name \o <<"(">> \o key
         \o (IF Plain(name) \in NeedsValue THEN <<Comma>> \o value ELSE <<>>) \o <<")">>
================================================================================
