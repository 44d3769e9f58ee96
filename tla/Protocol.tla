------------------------------- MODULE Protocol -------------------------------
(***************************************************************************)
(* The protocol of one connection, byte for byte: RespParser fed by reads  *)
(* that end anywhere, the commands it gives, and the bytes of the replies  *)
(* (src/src/protocol/ and the loop of frontend/handler.rs around it).      *)
(*                                                                         *)
(* The tasks, channels and failures of a connection are the matter of      *)
(* module Connection, which takes from this one what the parser makes of   *)
(* an item that a read has cut in two.                                     *)
(***************************************************************************)
EXTENDS Command

CONSTANT Streams   \* what clients send: values, and the bytes after the last

\* The bytes after the last value are none, and none begins with one.
ASSUME StreamAssumption ==
    \A s \in Streams :
      /\ s \in Seq(Values) \X Seq(Tokens)
      /\ \A n \in 1 .. Len(s[2]) : ~IsOk(ParseValue(SubSeq(s[2], 1, n)))

VARIABLES
    stream,    \* what this client sends
    incoming,  \* its bytes that have not been read
    buffer,    \* RespParser.buffer
    cursor,    \* RespParser.cursor
    phase,     \* "read", "parse", "end" (of input), or "error"
    parsed,    \* history: the values parse() returned
    results,   \* history: what from_resp made of them
    replies,   \* history: the values sent in reply
    outgoing   \* the bytes written to the client

vars == <<stream, incoming, buffer, cursor, phase, parsed, results, replies, outgoing>>
sent == stream[1]

Wire(s) == SerializeAll(s[1]) \o s[2]

Init ==
    /\ stream \in Streams
    /\ incoming = Wire(stream)
    /\ buffer = << >> /\ cursor = 0
    /\ phase = "read"
    /\ parsed = << >> /\ results = << >> /\ replies = << >> /\ outgoing = << >>

\* read() returns some of the bytes, and feed() appends them.
Read ==
    /\ phase = "read"
    /\ \E n \in 1 .. Len(incoming) :
         /\ buffer' = buffer \o SubSeq(incoming, 1, n)
         /\ incoming' = SubSeq(incoming, n + 1, Len(incoming))
    /\ phase' = "parse"
    /\ UNCHANGED <<stream, cursor, parsed, results, replies, outgoing>>

\* read() returns 0: the client has sent all it had to send.
ReadEof ==
    /\ phase = "read" /\ incoming = << >>
    /\ phase' = "end"
    /\ UNCHANGED <<stream, incoming, buffer, cursor, parsed, results, replies, outgoing>>

\* RespParser::parse at the cursor; Incomplete is its Ok(None).
Parsing ==
    IF cursor >= Len(buffer) THEN Err("Incomplete")
    ELSE ParseValue(SubSeq(buffer, cursor + 1, Len(buffer)))

\* A value: a command that is processed, or an error from from_resp; one reply
\* for each.
ParseSome ==
    /\ phase = "parse" /\ IsOk(Parsing)
    /\ cursor' = cursor + Parsing[3] - 1
    /\ parsed' = Append(parsed, Parsing[2])
    /\ LET result == FromResp(Parsing[2]) IN
         /\ results' = Append(results, result)
         /\ \E reply \in IF result[1] = "Ok" THEN ResponsesTo(result[2])
                         ELSE {Refusal(result[2])} :
              /\ replies' = Append(replies, reply)
              /\ outgoing' = outgoing \o Serialize(reply)
    /\ UNCHANGED <<stream, incoming, buffer, phase>>

\* Mutant: compact() leaves the cursor where it was.
CompactKeepingCursor ==
    /\ buffer' = SubSeq(buffer, cursor + 1, Len(buffer))
    /\ UNCHANGED cursor

\* Mutant: compact() drops what is not yet a whole value.
CompactAll ==
    /\ buffer' = << >>
    /\ cursor' = 0

Compact ==
    /\ buffer' = SubSeq(buffer, cursor + 1, Len(buffer))
    /\ cursor' = 0

\* No whole value: compact, and read on.
ParseNone ==
    /\ phase = "parse" /\ Parsing = Err("Incomplete")
    /\ Compact
    /\ phase' = "read"
    /\ UNCHANGED <<stream, incoming, parsed, results, replies, outgoing>>

\* Any other error ends the connection.
ParseFails ==
    /\ phase = "parse" /\ ~IsOk(Parsing) /\ Parsing # Err("Incomplete")
    /\ phase' = "error"
    /\ UNCHANGED <<stream, incoming, buffer, cursor, parsed, results, replies, outgoing>>

Next == Read \/ ReadEof \/ ParseSome \/ ParseNone \/ ParseFails

Spec == Init /\ [][Next]_vars
-----------------------------------------------------------------------------
(***************************************************************************)
(* Properties.                                                             *)
(***************************************************************************)
TypeOK ==
    /\ phase \in {"read", "parse", "end", "error"}
    /\ cursor \in 0 .. Len(buffer)
    /\ Len(parsed) = Len(results) /\ Len(parsed) = Len(replies)

\* However the bytes are cut into reads, and whatever follows, the parser
\* returns the values the client sent, in order, each once.
ParsedAsSent == IsPrefix(parsed, sent)

\* What has been read of the client's bytes.
BytesRead == Len(Wire(stream)) - Len(incoming)

\* The parser never waits for more than it needs: a value whose bytes have all
\* been read has been returned when the next read begins, unless the
\* connection has ended over an error.
NothingWithheld ==
    phase \in {"read", "end"} =>
      \A n \in DOMAIN sent :
        BytesRead >= BytesTo(Encoded[MaxDepth], sent, n) => Len(parsed) >= n

\* Where a read tears a value's first line: after its type byte and a byte more,
\* and before its LF; in an array, also where it tears that of an element.
Tears(encode, tears, value) ==
    2 .. Len(HeaderLine(value)) - 1
      \cup {at \in Nat :
              /\ value[1] = "array" /\ value[2] # None
              /\ \E i \in DOMAIN value[2] :
                   at - Len(HeaderLine(value)) - BytesTo(encode, value[2], i - 1)
                     \in tears[value[2][i]]}

TearsTo[depth \in 0 .. MaxDepth] ==
    [value \in ValuesTo[depth] |-> Tears(Encoded[depth - 1], TearsTo[depth - 1], value)]

\* A client that sends nothing malformed is turned away only when a read ended
\* inside the first line of a value: never between two lines, inside the data
\* of a bulk string, or after a value.
RejectedOnlyWhenTorn ==
    phase = "error" /\ stream[2] = << >> =>
      /\ Len(parsed) < Len(sent)
      /\ BytesRead - BytesTo(Encoded[MaxDepth], sent, Len(parsed))
           \in TearsTo[MaxDepth][sent[Len(parsed) + 1]]

\* The replies, as bytes, are one value each for the values parsed: whatever a
\* client put into a command, it reads back the replies that were meant.
RepliesReadBack ==
    Elements(ParseAt(outgoing), Len(replies), 1) = Ok(replies, Len(outgoing) + 1)

\* What a request means, as the documents have it and independently of how
\* from_resp reads it.
MeansNumber(value, n) == n >= 0 /\ value \in {Integer(n), BulkString(Numeral(n))}

Asks(elements, command) ==
    LET text(i) == Text(elements[i])
        name == ToUppercase(text(1))
        bulk(places) == \A i \in places : IsBulk(elements[i])
        last == Len(elements)
    IN  \/ name = <<"PING">> /\ last = 1 /\ command = <<"Ping", None>>
        \/ name = <<"PING">> /\ last = 2 /\ bulk({2}) /\ command = <<"Ping", text(2)>>
        \/ name = <<"GET">> /\ last = 2 /\ bulk({2}) /\ command = <<"Get", text(2)>>
        \/ name = <<"TTL">> /\ last = 2 /\ bulk({2}) /\ command = <<"Ttl", text(2)>>
        \/ name = <<"INFO">> /\ last = 1 /\ command = <<"Info", None>>
        \/ name = <<"INFO">> /\ last = 2 /\ bulk({2}) /\ command = <<"Info", text(2)>>
        \/ name = <<"DEL">> /\ last > 1 /\ bulk(2 .. last)
             /\ command = <<"Del", [i \in 1 .. last - 1 |-> text(i + 1)]>>
        \/ name = <<"EXPIRE">> /\ last = 3 /\ bulk({2})
             /\ \E n \in Numbers :
                  MeansNumber(elements[3], n) /\ command = <<"Expire", text(2), n>>
        \/ /\ name = <<"SET">> /\ last > 2 /\ last % 2 = 1 /\ bulk({2, 3})
           /\ \A i \in 4 .. last : i % 2 = 0 =>
                /\ bulk({i}) /\ ToUppercase(text(i)) = <<"EX">>
                /\ \E n \in Numbers : MeansNumber(elements[i + 1], n)
           /\ \E n \in Numbers \cup {None} :
                /\ n = None <=> last = 3
                /\ last > 3 => MeansNumber(elements[last], n)
                /\ command = <<"Set", text(2), text(3), n>>

\* INFO with more than one argument, which src/issues_detail.md:212-214 would
\* have refused: parse_info takes it for INFO with the first.
InfoWithMore(elements, command) ==
    /\ ToUppercase(Text(elements[1])) = <<"INFO">>
    /\ Len(elements) > 2 /\ IsBulk(elements[2])
    /\ command = <<"Info", Text(elements[2])>>

\* The commands that can be made of a request's texts.
Sayable(elements) ==
    LET texts == {Text(elements[i]) : i \in {i \in DOMAIN elements : IsBulk(elements[i])}}
        args == [i \in 1 .. Len(elements) - 1 |-> Text(elements[i + 1])]
    IN  {<<"Ping", None>>, <<"Info", None>>, <<"Del", args>>}
          \cup {<<name, t>> : name \in {"Ping", "Get", "Ttl", "Info"}, t \in texts}
          \cup {<<"Expire", t, n>> : t \in texts, n \in Numbers}
          \cup {<<"Set", t, u, n>> : t \in texts, u \in texts, n \in Numbers \cup {None}}

\* from_resp accepts the requests that ask for a command, and makes that command
\* of them: options in any number, names in either case, numbers as integers or
\* as text.  It accepts no other but an INFO with too many arguments.
CommandsAsAsked ==
    \A i \in DOMAIN parsed :
      LET elements == parsed[i][2]
          request == /\ parsed[i][1] = "array" /\ elements \notin {None, << >>}
                     /\ IsBulk(elements[1])
      IN  IF results[i][1] = "Ok"
          THEN request /\ (Asks(elements, results[i][2]) \/ InfoWithMore(elements, results[i][2]))
          ELSE request => \A command \in Sayable(elements) : ~Asks(elements, command)

(***************************************************************************)
(* What the repository's documents say and the code does not do.           *)
(***************************************************************************)
\* Input that is incomplete makes the parser wait for more bytes: a client that
\* sends nothing malformed is never turned away.
IncompleteWaits == stream[2] = << >> => phase # "error"
=============================================================================
