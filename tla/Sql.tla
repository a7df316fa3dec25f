-------------------------------- MODULE Sql --------------------------------
(***************************************************************************)
(* The driver's own look at the text of a query before it is prepared:     *)
(* SqlLexer cuts the text into tokens, sql_utils::IsInternalCommand tells  *)
(* whether it is a command for the driver, SqlParser and                   *)
(* SqlSetStreamingCommand read the command (sql/sql_lexer.cpp,             *)
(* sql_utils.cpp, sql_parser.cpp, sql_set_streaming_command.cpp, called    *)
(* from Statement::InternalPrepareSqlQuery).                               *)
(*                                                                         *)
(* A text is a sequence of pieces: a piece is a separator, a quote, a      *)
(* punctuation mark, another delimiter (here "+") or letters, digits and   *)
(* underscores that stand together.  Pieces that are not separated make    *)
(* one word.  A step is one call of SqlLexer::Shift and what its caller    *)
(* does with the answer.                                                   *)
(***************************************************************************)
EXTENDS Integers, Sequences, SequencesExt

CONSTANTS
    Written,   \* lists of tokens that an application writes
    Gaps,      \* what it writes between them; <<>>: as little as is needed
    MaxInt     \* stands for INT32_MAX

VARIABLES
    written,   \* the tokens the text was put together from
    sql,       \* SqlLexer::sql
    pos,       \* SqlLexer::pos, counted from 1
    token,     \* SqlLexer::currentToken
    at,        \* who calls Shift next
    option,    \* the option whose value is read
    cmd,       \* the SqlSetStreamingCommand
    shifts,    \* how often Shift was called
    answer     \* of InternalPrepareSqlQuery

sqlVars == <<written, sql, pos, token, at, option, cmd, shifts, answer>>

-----------------------------------------------------------------------------
Blanks == {" ", "\n"}

Quotes == [p \in {"\"", "'"} |-> IF p = "'" THEN "STRING" ELSE "QUOTED"]

Marks ==
    [p \in {"-", ".", ",", ";", "(", ")"} |->
        CASE p = "-" -> "MINUS" [] p = "." -> "DOT" [] p = "," -> "COMMA"
          [] p = ";" -> "SEMICOLON" [] p = "(" -> "PARENTHESIS_LEFT"
          [] p = ")" -> "PARENTHESIS_RIGHT"]

IsDelimiter(p) == p \in Blanks \cup DOMAIN Quotes \cup DOMAIN Marks \cup {"+"}

Token(type, text) == [type |-> type, text |-> text]

EndOfData == Token("EOD", <<>>)

(* SqlToken::ToLower; one piece is here in upper case also. *)
ToLower(text) == [i \in DOMAIN text |-> IF text[i] = "SET" THEN "set" ELSE text[i]]

(* The place behind the separators and the comments that begin at i: a     *)
(* comment goes to the end of its line.                                    *)
Skip(s, i) ==
    LET endOfLine[p \in 1 .. Len(s) + 1] ==
            IF p > Len(s) THEN p ELSE IF s[p] = "\n" THEN p ELSE endOfLine[p + 1]
        skip[p \in 1 .. Len(s) + 1] ==
            IF p > Len(s) THEN p
            ELSE IF s[p] \in Blanks THEN skip[p + 1]
            ELSE IF s[p] = "-" /\ p + 1 <= Len(s) /\ s[p + 1] = "-" THEN skip[endOfLine[p + 2]]
            ELSE p
    IN  skip[i]

(* The quote that closes the one at i, 0 when none does: a quote that is   *)
(* written twice, and is followed by something, belongs to the literal.    *)
Closing(s, i) ==
    LET closing[p \in 1 .. Len(s) + 2] ==
            IF p > Len(s) THEN 0
            ELSE IF s[p] # s[i] THEN closing[p + 1]
            ELSE IF p + 2 > Len(s) \/ s[p + 1] # s[i] THEN p
            ELSE closing[p + 2]
    IN  closing[i + 1]

(* The place behind the word that begins at i: i itself at a delimiter     *)
(* that has no token of its own, where SqlLexer makes an empty word and    *)
(* stays.                                                                  *)
WordEnd(s, i) ==
    LET end[p \in 1 .. Len(s) + 1] ==
            IF p > Len(s) THEN p ELSE IF IsDelimiter(s[p]) THEN p ELSE end[p + 1]
    IN  end[i]

(* SqlLexer::Shift: the answer, the current token and the place behind it. *)
Shift ==
    LET begin == Skip(sql, pos)
        To(end, type) ==
            [answer |-> "TOKEN", token |-> Token(type, SubSeq(sql, begin, end - 1)), pos |-> end]
    IN  IF begin > Len(sql)
        THEN [answer |-> "END", token |-> EndOfData, pos |-> Len(sql) + 1]
        ELSE IF sql[begin] \in DOMAIN Quotes
        THEN IF Closing(sql, begin) = 0
             THEN [answer |-> "UNCLOSED", token |-> token, pos |-> Len(sql) + 1]
             ELSE To(Closing(sql, begin) + 1, Quotes[sql[begin]])
        ELSE IF sql[begin] \in DOMAIN Marks
        THEN To(begin + 1, Marks[sql[begin]])
        ELSE To(WordEnd(sql, begin), "WORD")

Is(step, type, text) ==
    step.answer = "TOKEN" /\ step.token.type = type /\ ToLower(step.token.text) = text

-----------------------------------------------------------------------------
(* The options of SET STREAMING and the members they set. *)
IntOptions ==
    [o \in {"batch_size", "per_node_buffer_size", "per_node_parallel_operations",
            "flush_frequency"} |->
        CASE o = "batch_size" -> "batchSize"
          [] o = "per_node_buffer_size" -> "bufferSizePerNode"
          [] o = "per_node_parallel_operations" -> "parallelOpsPerNode"
          [] o = "flush_frequency" -> "flushFrequency"]

Options == DOMAIN IntOptions \cup {"allow_overwrite", "ordered"}

SetStreaming ==
    [enabled |-> FALSE, allowOverwrite |-> FALSE, batchSize |-> 2048, parallelOpsPerNode |-> 0,
     bufferSizePerNode |-> 0, flushFrequency |-> 0, ordered |-> FALSE]

True == {<<"1">>, <<"on">>}

False == {<<"0">>, <<"off">>}

Digits == [d \in {"0", "1", "9"} |-> CASE d = "0" -> 0 [] d = "1" -> 1 [] d = "9" -> 9]

AllDigits(text) == \A i \in DOMAIN text : text[i] \in DOMAIN Digits

NumberOf(text) == FoldLeft(LAMBDA n, d : 10 * n + Digits[d], 0, text)

(* common::LexicalCast< int64_t >: of an empty text nothing is read, and   *)
(* the result is what its variable happened to hold.                       *)
LexicalCast(text) ==
    IF text = <<>> THEN {-1, 0, 1, MaxInt, MaxInt + 1} ELSE {NumberOf(text)}

-----------------------------------------------------------------------------
(* A call of Shift: a caller's step begins with it. *)
Shifted ==
    /\ shifts' = shifts + 1
    /\ pos' = Shift.pos
    /\ token' = Shift.token
    /\ UNCHANGED <<written, sql>>

Goto(place) == at' = place /\ UNCHANGED answer

End(result) == at' = "DONE" /\ answer' = result

(* What dereferencing the answer of Shift throws of an unclosed literal,   *)
(* and what the callers throw of a token they do not expect.               *)
GeneralError == End("HY000")

SyntaxError == End("42000")

(* sql_utils::IsInternalCommand: a text that begins with SET, after        *)
(* semicolons, may be a command.                                           *)
IsInternalCommand ==
    /\ at = "IsInternalCommand" /\ Shifted
    /\ IF Is(Shift, "SEMICOLON", <<";">>) THEN Goto("IsInternalCommand")
       ELSE IF Is(Shift, "WORD", <<"set">>) THEN Goto("ExpectNextToken")
       ELSE End("QUERY")
    /\ UNCHANGED <<option, cmd>>

(* SqlLexer::ExpectNextToken for STREAMING; a command is read from its     *)
(* beginning by a parser with a lexer of its own.                          *)
ExpectNextToken ==
    /\ at = "ExpectNextToken"
    /\ shifts' = shifts + 1
    /\ IF Is(Shift, "WORD", <<"streaming">>)
       THEN Goto("GetNextCommand") /\ pos' = 1 /\ token' = EndOfData
       ELSE End("QUERY") /\ pos' = Shift.pos /\ token' = Shift.token
    /\ UNCHANGED <<written, sql, option, cmd>>

(* SqlParser::GetNextCommand; "NULL" is an empty pointer, which            *)
(* Statement::ProcessInternalCommand asserts not to get.                   *)
GetNextCommand ==
    /\ at = "GetNextCommand" /\ Shifted
    /\ CASE Shift.answer = "UNCLOSED" -> GeneralError
         [] Shift.answer = "END" -> End("NULL")
         [] Is(Shift, "SEMICOLON", <<";">>) -> Goto("GetNextCommand")
         [] Is(Shift, "WORD", <<"set">>) -> Goto("ProcessCommand")
         [] OTHER -> SyntaxError
    /\ UNCHANGED <<option, cmd>>

(* SqlParser::ProcessCommand behind SET. *)
ProcessCommand ==
    /\ at = "ProcessCommand" /\ Shifted
    /\ CASE Shift.answer = "UNCLOSED" -> GeneralError
         [] Is(Shift, "WORD", <<"streaming">>) -> Goto("enabled")
         [] OTHER -> SyntaxError
    /\ cmd' = SetStreaming
    /\ UNCHANGED option

(* SqlSetStreamingCommand::ExpectBool, for ON or OFF and for the option    *)
(* ALLOW_OVERWRITE, with sql_utils::TokenToBoolean.                        *)
ExpectBool ==
    /\ at \in {"enabled", "allowOverwrite"} /\ Shifted
    /\ LET text == ToLower(Shift.token.text) IN
       CASE Shift.answer = "UNCLOSED" -> GeneralError /\ UNCHANGED cmd
         [] Shift.answer = "TOKEN" /\ text \in True \cup False ->
                cmd' = [cmd EXCEPT ![at] = text \in True] /\ Goto("Parse")
         [] OTHER -> SyntaxError /\ UNCHANGED cmd
    /\ UNCHANGED option

(* SqlSetStreamingCommand::Parse, the loop over the options, with          *)
(* CheckEnabled.  The type of the token of an option is not looked at.     *)
Parse ==
    /\ at = "Parse" /\ Shifted
    /\ LET text == ToLower(Shift.token.text)
           name == IF Shift.answer = "TOKEN" /\ Len(text) = 1 THEN text[1] ELSE ""
       IN  \/ Shift.answer = "UNCLOSED" /\ GeneralError /\ UNCHANGED <<option, cmd>>
           \/ /\ Shift.answer = "END" \/ Is(Shift, "SEMICOLON", <<";">>)
              /\ End("INTERNAL") /\ UNCHANGED <<option, cmd>>
           \/ /\ name \in DOMAIN IntOptions /\ cmd.enabled
              /\ option' = name /\ Goto("ExpectInt") /\ UNCHANGED cmd
           \/ /\ name = "allow_overwrite" /\ cmd.enabled
              /\ Goto("allowOverwrite") /\ UNCHANGED <<option, cmd>>
           \/ /\ name = "ordered" /\ cmd.enabled
              /\ cmd' = [cmd EXCEPT !.ordered = TRUE] /\ Goto("Parse") /\ UNCHANGED option
           \/ /\ Shift.answer = "TOKEN" /\ ~Is(Shift, "SEMICOLON", <<";">>)
              /\ name \notin Options \/ ~cmd.enabled
              /\ SyntaxError /\ UNCHANGED <<option, cmd>>

(* SqlSetStreamingCommand::ExpectInt with ExpectPositiveInteger: a minus   *)
(* may stand before the number, and then the number is not positive.       *)
ExpectInt ==
    /\ at \in {"ExpectInt", "ExpectNegative"} /\ Shifted
    /\ CASE Shift.answer = "UNCLOSED" -> GeneralError /\ UNCHANGED cmd
         [] Is(Shift, "MINUS", <<"-">>) /\ at = "ExpectInt" -> Goto("ExpectNegative") /\ UNCHANGED cmd
         [] Shift.answer = "TOKEN" /\ Shift.token.type = "WORD" /\ AllDigits(Shift.token.text) ->
                \E n \in LexicalCast(Shift.token.text) :
                    LET val == IF at = "ExpectNegative" THEN -n ELSE n IN
                    IF val \in 1 .. MaxInt
                    THEN cmd' = [cmd EXCEPT ![IntOptions[option]] = val] /\ Goto("Parse")
                    ELSE SyntaxError /\ UNCHANGED cmd
         [] OTHER -> SyntaxError /\ UNCHANGED cmd
    /\ UNCHANGED option

-----------------------------------------------------------------------------
(* The text an application makes of its tokens. *)
Text(tokens, gap) ==
    FoldLeft(LAMBDA text, t :
                 text \o (IF gap # <<>> THEN gap
                          ELSE IF text = <<>> \/ <<";">> \in {t, <<Last(text)>>} THEN <<>> ELSE <<" ">>)
                      \o t,
             <<>>, tokens)

SqlInit ==
    /\ written \in Written
    /\ sql \in {Text(written, gap) : gap \in Gaps}
    /\ pos = 1 /\ token = EndOfData
    /\ at = "IsInternalCommand" /\ option = "" /\ cmd = SetStreaming
    /\ shifts = 0 /\ answer = ""

SqlNext ==
    \/ IsInternalCommand \/ ExpectNextToken
    \/ GetNextCommand \/ ProcessCommand \/ ExpectBool \/ Parse \/ ExpectInt

-----------------------------------------------------------------------------
(* What the tokens mean: the command stands behind the semicolons and goes *)
(* to the next one.                                                        *)
Command ==
    LET first == {i \in DOMAIN written : written[i] # <<";">>}
        begin == CHOOSE i \in first : \A j \in first : i <= j
        ends == {i \in begin .. Len(written) : written[i] = <<";">>} \cup {Len(written) + 1}
    IN  IF first = {} THEN <<>>
        ELSE SubSeq(written, begin, (CHOOSE i \in ends : \A j \in ends : i <= j) - 1)

Named(i, name) == i \in DOMAIN Command /\ ToLower(Command[i]) = <<name>>

ForDriver == Named(1, "set") /\ Named(2, "streaming")

Positive(i) ==
    i \in DOMAIN Command /\ AllDigits(Command[i]) /\ NumberOf(Command[i]) \in 1 .. MaxInt

Bool(i) == i \in DOMAIN Command /\ Command[i] \in True \cup False

(* Every token behind ON is an option with what it needs or the value of   *)
(* the option before it; nothing stands behind OFF.                        *)
WellFormed ==
    /\ ForDriver /\ Bool(3)
    /\ Command[3] \in False => Len(Command) = 3
    /\ \A i \in 4 .. Len(Command) :
          \/ Named(i, "ordered")
          \/ Named(i, "allow_overwrite") /\ Bool(i + 1)
          \/ \E o \in DOMAIN IntOptions : Named(i, o) /\ Positive(i + 1)
          \/ Named(i - 1, "allow_overwrite")
          \/ \E o \in DOMAIN IntOptions : Named(i - 1, o)

(* The last value an option is given, its default when it is not. *)
Given(name, default) ==
    LET is == {i \in DOMAIN Command : Named(i, name)} IN
    IF is = {} THEN default ELSE Command[(CHOOSE i \in is : \A j \in is : i >= j) + 1]

(* SET STREAMING: a text is taken for a command of the driver exactly when *)
(* its first words are SET STREAMING, whatever stands between them and     *)
(* before them; the command is accepted exactly when it is well formed,    *)
(* and then has the values written in it, though the lexer makes empty     *)
(* words that pass for numbers; the parser never returns without a command *)
(* (the assert of Statement::ProcessInternalCommand); and no token is read *)
(* again and again, though the lexer may stay where it is.                 *)
CommandsAreRead ==
    /\ shifts <= 2 * Len(written) + 3
    /\ at = "DONE" =>
          /\ answer = "QUERY" <=> ~ForDriver
          /\ answer = "INTERNAL" <=> WellFormed
          /\ answer # "NULL"
          /\ answer = "INTERNAL" =>
                /\ cmd.enabled = (Command[3] \in True)
                /\ cmd.ordered = (\E i \in DOMAIN Command : Named(i, "ordered"))
                /\ cmd.allowOverwrite = (Given("allow_overwrite", <<"0">>) \in True)
                /\ \A o \in DOMAIN IntOptions :
                      cmd[IntOptions[o]] =
                          IF \E i \in DOMAIN Command : Named(i, o)
                          THEN NumberOf(Given(o, <<>>)) ELSE SetStreaming[IntOptions[o]]
=============================================================================
