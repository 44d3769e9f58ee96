------------------------------ MODULE MCProtocol ------------------------------
(***************************************************************************)
(* Protocol for TLC: what clients send.                                    *)
(***************************************************************************)
EXTENDS Protocol

Word(w) == BulkString(<<w>>)
Request(words) == Array([i \in DOMAIN words |-> Word(words[i])])

\* Requests that are commands, in every form, and requests that are none.
Commands ==
    {Request(words) : words \in {
        <<"PING">>, <<"ping", "a">>, <<"GET", "a">>, <<"TTL", "a">>, <<"INFO">>,
        <<"INFO", "a", "b">>, <<"DEL", "a", "b">>, <<"EXPIRE", "a", "0">>,
        <<"set", "a", "b">>, <<"SET", "a", "b", "ex", "1">>,
        <<"SET", "a", "b", "EX", "1", "EX", "2">> }}
      \cup {Array(<<Word("EXPIRE"), Word("a"), Integer(1)>>),
            Array(<<Word("GET"), BulkString(<<"a", "CR", "LF", "b">>)>>),
            Array(<<Word("GET"), BulkString(<< >>)>>)}

Refused ==
    {Request(words) : words \in {
        <<"PING", "a", "b">>, <<"GET">>, <<"DEL">>, <<"EXPIRE", "a">>,
        <<"EXPIRE", "a", "-1">>, <<"EXPIRE", "a", "b">>, <<"SET", "a">>,
        <<"SET", "a", "b", "PX", "1">>, <<"SET", "a", "b", "EX">>,
        <<"SET", "a", "b", "EX", "-1">>, <<"SET", "a", "b", "EX", "-1", "EX", "1">>,
        <<"nope", "a">> }}
      \cup {Array(<< >>), Array(None), Integer(1), SimpleString(<<"a">>), Error(<<"a">>),
            BulkString(None), Array(<<Integer(1)>>), Array(<<BulkString(None)>>),
            Array(<<BulkString(<<"x", "CR", "LF", "y">>)>>),
            Array(<<Word("GET"), Integer(1)>>), Array(<<Word("DEL"), Word("a"), BulkString(None)>>),
            Array(<<Word("SET"), Word("a"), Word("b"), Word("EX"), BulkString(None)>>),
            Array(<<Word("GET"), Array(<<Word("a")>>)>>)}

\* Pairs, so that a read may hold the end of one value and the start of another.
Pairs == {<<first, second>> : first \in Commands \cup Refused, second \in Commands}

\* Bytes that are no value, or the beginning of one.
Tails ==
    {<<"x">>, <<"$", "-2", "CR", "LF">>, <<"*", "-2", "CR", "LF">>, <<":", "a", "CR", "LF">>,
     <<"$", "9", "CR", "LF">>, <<"$", "1", "CR", "LF", "a", "b", "CR", "LF">>,
     <<"+", "a", "LF">>, <<"*", "1", "CR", "LF", "x">>,
     <<"*", "2", "CR", "LF", "$", "1", "CR", "LF", "a", "CR", "LF">>}

MCStreams ==
    {<<<<value>>, << >>>> : value \in Commands \cup Refused}
      \cup {<<pair, << >>>> : pair \in Pairs}
      \cup {<<<<Request(<<"PING">>)>>, tail>> : tail \in Tails}

MCTokens == STRING
MCNumbers == -2 .. 9
MCDecimal == [n \in MCNumbers |-> ToString(n)]
=============================================================================
