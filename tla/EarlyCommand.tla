------------------------------ MODULE EarlyCommand ------------------------------
(* The texts of commands in MP3, which are those of Command.tla but for the keys: *)
(* numbers above 0, read with atoi.  There are no levels and no forced operations. *)
EXTENDS Command

Digit == <<"0", "1", "2", "3", "4", "5", "6", "7", "8", "9">>

\* Utility::intToString
IntToString[n \in Nat] ==
    IF n < 10 THEN <<Digit[n + 1]>>
              ELSE Append(IntToString[n \div 10], Digit[(n % 10) + 1])

\* atoi, up to the first symbol that is no digit.  (Blanks and signs are left out: a
\* key below 1 is refused.)
Atoi(text) ==
    LET other  == SelectInSeq(text, LAMBDA x : x \notin ToSet(Digit))
        digits == IF other = 0 THEN text ELSE SubSeq(text, 1, other - 1)
    IN  FoldLeft(LAMBDA n, d : 10 * n + FirstOf(Digit, d) - 1, 0, digits)

\* KeyValueStoreCommand
KeyValueStoreCommand(name, key, value) == [name |-> name, key |-> key, value |-> value]

Malformed == KeyValueStoreCommand(<<>>, 0, <<>>)

\* Mutant: a value ends at the first bracket.
ParseCmdToFirstBracket(text) ==
    LET bracket == FirstOf(text, "(")
        comma   == FirstOf(text, Comma)
        name    == SubSeq(text, 1, bracket - 1)
    IN  IF bracket = 0 THEN Malformed
        ELSE KeyValueStoreCommand(name,
                 Atoi(Substring(text, bracket + 1, (IF comma = 0 THEN Len(text) ELSE comma) - 1)),
                 IF comma = 0 THEN <<>> ELSE Substring(text, comma + 1, FirstOf(text, ")") - 1))

\* parseKeyValueStoreCmd
ParseKeyValueStoreCmd(text) ==
    LET bracket == FirstOf(text, "(")
        comma   == FirstOf(text, Comma)
        close   == LastOf(text, ")")
        name    == SubSeq(text, 1, bracket - 1)
        keyEnd  == IF comma = 0 THEN Len(text) ELSE comma
        key     == Atoi(Substring(text, bracket + 1, keyEnd - 1))
    IN  CASE bracket = 0 ->
               KeyValueStoreCommand(IF text = <<"show">> THEN text ELSE <<>>, 0, <<>>)
          [] bracket # 0 /\ name \in {<<n>> : n \in NeedsKey} ->
               KeyValueStoreCommand(name, key, <<>>)
          [] bracket # 0 /\ name \in {<<n>> : n \in NeedsValue} /\ comma # 0 /\ close # 0 ->
               KeyValueStoreCommand(name, key, Substring(text, comma + 1, close - 1))
          [] OTHER -> Malformed

\* isValidCommand
IsValid(command) ==
    \/ command.name = <<"show">>
    \/ command.name \in Operations /\ command.key > 0
       /\ (command.name[1] \in NeedsValue => command.value # <<>>)

\* buildCommand
Build(name, key, value) ==
    <<name, "(">> \o IntToString[key]
        \o (IF name \in NeedsValue THEN <<Comma>> \o value ELSE <<>>) \o <<")">>
================================================================================
