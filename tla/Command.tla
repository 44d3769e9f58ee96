-------------------------------- MODULE Command --------------------------------
(***************************************************************************)
(* From a RESP value to a command (src/src/protocol/command.rs:            *)
(* Command::from_resp), and from a response to a RESP value                *)
(* (src/src/frontend/handler.rs: response_to_resp).                        *)
(***************************************************************************)
EXTENDS Resp

\* The words that commands, replies and errors are made of.
ASSUME WordAssumption ==
    {"PING", "SET", "GET", "DEL", "EXPIRE", "TTL", "INFO", "EX", "PONG", "OK", "ERR",
     "InvalidArgument", "InvalidFormat", "WrongArgCount", "EmptyCommand", "UnknownCommand",
     "text", "a", "\\r", "\\n"} \subseteq Tokens

\* String::to_uppercase on the names that come in lower case.
Uppercase ==
    [name \in {"ping", "set", "get", "del", "expire", "ttl", "info", "ex"} |->
        CASE name = "ping" -> "PING" [] name = "set" -> "SET" [] name = "get" -> "GET"
          [] name = "del" -> "DEL" [] name = "expire" -> "EXPIRE" [] name = "ttl" -> "TTL"
          [] name = "info" -> "INFO" [] name = "ex" -> "EX"]

ToUppercase(text) ==
    [i \in DOMAIN text |->
        IF text[i] \in DOMAIN Uppercase THEN Uppercase[text[i]] ELSE text[i]]

Accept(command) == <<"Ok", command>>
Refuse(error) == <<"Err", error>>

IsBulk(value) == value[1] = "bulk" /\ value[2] # None

\* The error of extract_bulk_string and extract_integer on a value of no use.
NullOrFormat(value) ==
    Refuse(IF value = BulkString(None) THEN <<"InvalidArgument">> ELSE <<"InvalidFormat">>)

\* extract_bulk_string on each argument in turn: the first error, or a command.
Extracting(args, command) ==
    LET useless == {i \in DOMAIN args : ~IsBulk(args[i])}
    IN  IF useless = {} THEN Accept(command) ELSE NullOrFormat(args[Min(useless)])

\* Mutant: a negative time to live is taken as it is.
SecondsUnchecked(value) ==
    LET meant == {n \in Numbers : value \in {Integer(n), BulkString(Numeral(n))}}
    IN  IF ~(value[1] = "integer" \/ IsBulk(value)) THEN NullOrFormat(value)
        ELSE IF meant = {} THEN Refuse(<<"InvalidArgument">>)
        ELSE Accept(CHOOSE n \in meant : TRUE)

\* extract_integer, and the test for a negative number that follows it.
Seconds(value) ==
    LET meant == {n \in Numbers : value \in {Integer(n), BulkString(Numeral(n))}}
    IN  IF ~(value[1] = "integer" \/ IsBulk(value)) THEN NullOrFormat(value)
        ELSE IF meant = {} \/ \E n \in meant : n < 0 THEN Refuse(<<"InvalidArgument">>)
        ELSE Accept(CHOOSE n \in meant : TRUE)

Text(value) == value[2]
-----------------------------------------------------------------------------
(***************************************************************************)
(* One operator per command; the arguments are those after the name.       *)
(***************************************************************************)
ParsePing(args) ==
    CASE Len(args) = 0 -> Accept(<<"Ping", None>>)
      [] Len(args) = 1 -> Extracting(args, <<"Ping", Text(args[1])>>)
      [] Len(args) > 1 -> Refuse(<<"WrongArgCount">>)

\* An option of SET from its i-th argument on: EX and a number.
SetOption(args, i) ==
    IF ~IsBulk(args[i]) THEN NullOrFormat(args[i])
    ELSE IF ToUppercase(Text(args[i])) # <<"EX">> THEN Refuse(<<"InvalidArgument">>)
    ELSE IF i = Len(args) THEN Refuse(<<"WrongArgCount">>)
    ELSE Seconds(args[i + 1])

\* The while loop of parse_set: the first error, or the last time to live.
SetOptions(args) ==
    LET places == {i \in 3 .. Len(args) : i % 2 = 1}
        refused == {i \in places : SetOption(args, i)[1] = "Err"}
    IN  IF refused # {} THEN SetOption(args, Min(refused))
        ELSE IF places = {} THEN Accept(None)
        ELSE SetOption(args, Max(places))

ParseSet(args) ==
    IF Len(args) < 2 THEN Refuse(<<"WrongArgCount">>)
    ELSE LET pair == Extracting(SubSeq(args, 1, 2), <<>>)
             ttl == SetOptions(args)
         IN  IF pair[1] = "Err" THEN pair
             ELSE IF ttl[1] = "Err" THEN ttl
             ELSE Accept(<<"Set", Text(args[1]), Text(args[2]), ttl[2]>>)

\* GET and TTL.
ParseKey(name, args) ==
    IF Len(args) # 1 THEN Refuse(<<"WrongArgCount">>)
    ELSE Extracting(args, <<name, Text(args[1])>>)

ParseDel(args) ==
    IF args = << >> THEN Refuse(<<"WrongArgCount">>)
    ELSE Extracting(args, <<"Del", [i \in DOMAIN args |-> Text(args[i])]>>)

ParseExpire(args) ==
    IF Len(args) # 2 THEN Refuse(<<"WrongArgCount">>)
    ELSE LET key == Extracting(SubSeq(args, 1, 1), <<>>)
             seconds == Seconds(args[2])
         IN  IF key[1] = "Err" THEN key
             ELSE IF seconds[1] = "Err" THEN seconds
             ELSE Accept(<<"Expire", Text(args[1]), seconds[2]>>)

\* INFO looks at its first argument only.
ParseInfo(args) ==
    IF args = << >> THEN Accept(<<"Info", None>>)
    ELSE Extracting(SubSeq(args, 1, 1), <<"Info", Text(args[1])>>)

ParseArgs(name, args) ==
    CASE name = <<"PING">>   -> ParsePing(args)
      [] name = <<"SET">>    -> ParseSet(args)
      [] name = <<"GET">>    -> ParseKey("Get", args)
      [] name = <<"DEL">>    -> ParseDel(args)
      [] name = <<"EXPIRE">> -> ParseExpire(args)
      [] name = <<"TTL">>    -> ParseKey("Ttl", args)
      [] name = <<"INFO">>   -> ParseInfo(args)
      [] OTHER -> Refuse(<<"UnknownCommand", name>>)

FromResp(value) ==
    IF value[1] # "array" THEN Refuse(<<"InvalidFormat">>)
    ELSE IF value[2] \in {None, << >>} THEN Refuse(<<"EmptyCommand">>)
    ELSE IF ~IsBulk(Head(value[2])) THEN Refuse(<<"InvalidFormat">>)
    ELSE ParseArgs(ToUppercase(Text(Head(value[2]))), Tail(value[2]))
-----------------------------------------------------------------------------
(***************************************************************************)
(* What the client is told.                                                *)
(***************************************************************************)
\* format!("{:?}") of a text: control characters are escaped.
Escaped(text) ==
    [i \in DOMAIN text |-> CASE text[i] = "CR" -> "\\r" [] text[i] = "LF" -> "\\n"
                             [] OTHER -> text[i]]

\* Mutant: the name of an unknown command is given back as it came.
RefusalPlain(error) ==
    Error(<<"ERR", error[1]>> \o (IF Len(error) = 2 THEN error[2] ELSE << >>))

\* Response::Error(format!("ERR {:?}", e)).
Refusal(error) ==
    Error(<<"ERR", error[1]>> \o (IF Len(error) = 2 THEN Escaped(error[2]) ELSE << >>))

\* response_to_resp of the responses a shard has for a command: the texts of
\* its errors hold no line end, a value may.
ResponsesTo(command) ==
    LET failure == Error(<<"ERR", "text">>) IN
    CASE command[1] = "Ping" -> {BulkString(<<"PONG">>), failure}
      [] command[1] = "Set"  -> {SimpleString(<<"OK">>), failure}
      [] command[1] = "Get"  -> {BulkString(None), BulkString(<<"a", "CR", "LF">>)}
      [] command[1] \in {"Del", "Expire"} -> {Integer(0), Integer(1)}
      [] command[1] = "Ttl"  -> {Integer(-2), Integer(1)}
      [] command[1] = "Info" -> {BulkString(<<"text", "CR", "LF">>), failure}
=============================================================================
