------------------------------ MODULE Connection ------------------------------
(***************************************************************************)
(* One client connection (src/src/frontend/handler.rs: handle_connection): *)
(* the reader reads bytes, parses them, has each command processed and     *)
(* sends the response over a bounded channel to the writer task, which     *)
(* writes it to the socket.                                                *)
(*                                                                         *)
(* What the client sends is a sequence of items: commands, well-formed     *)
(* values that are no command ("bad"), and bytes the parser rejects        *)
(* ("garbage").  A read may end anywhere; module Protocol says what the    *)
(* parser makes of an item cut in two: it waits for the rest, or, when the *)
(* cut is inside a line, rejects it.  Items and responses are known by     *)
(* their number in the sequence, and what a command does is the matter of  *)
(* module Dispatch.                                                        *)
(***************************************************************************)
EXTENDS Naturals, Sequences, SequencesExt

CONSTANTS
    Capacity,   \* of the response channel
    Outgoing,   \* responses the network holds for a client that does not read
    MaxItems,   \* bound: items the client sends
    None        \* no item, no response

ASSUME ConnectionAssumption ==
    /\ Capacity \in Nat \ {0} /\ Outgoing \in Nat \ {0} /\ MaxItems \in Nat
    /\ None \notin Nat

Kinds == {"command", "bad", "garbage"}
Torn == 0     \* in place of an item's number: a line that a read has cut
Items == Nat \ {Torn}

VARIABLES
    sent,       \* history: the kinds of the items the client has sent
    client,     \* "open", "ended" (sends no more), or "gone"
    input,      \* items on their way to the reader
    eof,        \* the end of input is behind them
    buffer,     \* items fed to the parser and not yet parsed
    reader,     \* the reader loop: where it is
    current,    \* the item it works on, or whose response it sends
    responses,  \* the response channel
    writer,     \* the writer task: where it is
    writing,    \* the response the writer has in hand
    outgoing,   \* responses written and not yet received
    received,   \* history: responses the client has received
    answered    \* history: items a response was made for

clientVars == <<sent, client, input, eof, outgoing, received>>
readerVars == <<buffer, reader, current, answered>>
writerVars == <<writer, writing>>
vars == <<clientVars, readerVars, responses, writerVars>>

Init ==
    /\ sent = << >> /\ client = "open" /\ input = << >> /\ eof = FALSE
    /\ buffer = << >> /\ reader = "read" /\ current = None
    /\ responses = << >>
    /\ writer = "recv" /\ writing = None
    /\ outgoing = << >> /\ received = << >> /\ answered = << >>
-----------------------------------------------------------------------------
(***************************************************************************)
(* The client and the network.                                             *)
(***************************************************************************)
ClientSends(kind) ==
    /\ client = "open" /\ Len(sent) < MaxItems
    /\ sent' = Append(sent, kind)
    /\ input' = Append(input, Len(sent'))
    /\ UNCHANGED <<client, eof, outgoing, received, readerVars, responses, writerVars>>

ClientReceives ==
    /\ client # "gone" /\ outgoing # << >>
    /\ received' = Append(received, Head(outgoing))
    /\ outgoing' = Tail(outgoing)
    /\ UNCHANGED <<sent, client, input, eof, readerVars, responses, writerVars>>

\* The client shuts down its sending side; it still reads.
ClientEnds ==
    /\ client = "open"
    /\ client' = "ended" /\ eof' = TRUE
    /\ UNCHANGED <<sent, input, outgoing, received, readerVars, responses, writerVars>>

\* The connection is reset: by a client that goes away, by the network, or by
\* the server's own system when both halves of the socket are dropped while
\* there is input nobody has read.  What was on its way may be lost; what has
\* arrived can still be read, an end of input that arrived before included.
Reset ==
    /\ client # "gone"
    /\ client' = "gone"
    /\ \/ UNCHANGED <<input, eof>>
       \/ /\ reader # "join"     \* it has not read the end of input yet
          /\ input' \in {input, << >>} /\ eof' = FALSE
    /\ outgoing' = << >>
    /\ UNCHANGED <<sent, received, readerVars, responses, writerVars>>
-----------------------------------------------------------------------------
(***************************************************************************)
(* The reader loop.                                                        *)
(***************************************************************************)
Kind(item) == IF item = Torn THEN "garbage" ELSE sent[item]

\* handle_connection has returned, so that response_tx is dropped.
ReaderGone == reader \in {"done", "failed"}

\* The writer task has ended, so that response_rx is dropped.
WriterGone == writer \in {"done", "failed"}

ReaderAt(place) == reader = place /\ UNCHANGED <<clientVars, writerVars>>

\* read() returns the bytes of n whole items, and maybe part of the next, which
\* are fed to the parser.  A part that ends inside a line is an item of its own
\* to it.
Read ==
    /\ reader = "read" /\ input # << >>
    /\ \E n \in 0 .. Len(input) :
         \/ /\ n > 0
            /\ buffer' = buffer \o SubSeq(input, 1, n)
            /\ input' = SubSeq(input, n + 1, Len(input))
         \/ /\ n < Len(input)
            /\ buffer' = Append(buffer \o SubSeq(input, 1, n), Torn)
            /\ input' = SubSeq(input, n + 2, Len(input))
    /\ reader' = "parse"
    /\ UNCHANGED <<sent, client, eof, outgoing, received, current, answered,
                   responses, writerVars>>

\* n == 0: leave the loop and wait for the writer.  The system returns 0 once
\* the end of input has arrived, also when a reset came after it; and after a
\* reset whose error a failing write has taken.
ReadEof ==
    /\ ReaderAt("read") /\ input = << >>
    /\ eof \/ (client = "gone" /\ writer = "failed")
    /\ reader' = "join"
    /\ UNCHANGED <<buffer, current, answered, responses>>

\* read().await? on a connection that was reset before the end of input came.
ReadFails ==
    /\ ReaderAt("read") /\ input = << >> /\ client = "gone" /\ ~eof
    /\ reader' = "failed"
    /\ UNCHANGED <<buffer, current, answered, responses>>

\* parse() returns a value: a command to process, or one from_resp refuses.
Parse ==
    /\ ReaderAt("parse") /\ buffer # << >>
    /\ current' = Head(buffer) /\ buffer' = Tail(buffer)
    /\ \/ Kind(Head(buffer)) = "command" /\ reader' = "process" /\ UNCHANGED answered
       \/ /\ Kind(Head(buffer)) = "bad" /\ reader' = "send"
          /\ answered' = Append(answered, Head(buffer))
    /\ UNCHANGED responses

\* Mutant: the writer is aborted when the reader returns an error.
ParseFailsAborting ==
    /\ reader = "parse" /\ buffer # << >> /\ Kind(Head(buffer)) = "garbage"
    /\ reader' = "failed"
    /\ responses' = << >> /\ writer' = "failed" /\ writing' = None
    /\ UNCHANGED <<clientVars, buffer, current, answered>>

\* parse() returns an error: the reader returns it; response_tx and the
\* writer's handle are dropped, and the writer goes on by itself.
ParseFails ==
    /\ ReaderAt("parse") /\ buffer # << >> /\ Kind(Head(buffer)) = "garbage"
    /\ reader' = "failed"
    /\ UNCHANGED <<buffer, current, answered, responses>>

\* Ok(None): nothing complete is left.
ParsedAll ==
    /\ ReaderAt("parse") /\ buffer = << >>
    /\ reader' = "read"
    /\ UNCHANGED <<buffer, current, answered, responses>>

\* process_command(cmd, ..).await: a response or an error, always (module
\* Dispatch, EveryCommandAnswered).
Process ==
    /\ ReaderAt("process")
    /\ reader' = "send" /\ answered' = Append(answered, current)
    /\ UNCHANGED <<buffer, current, responses>>
-----------------------------------------------------------------------------
\* Mutant: try_send, whose error is taken for a closed channel.
SendDroppingWhenFull ==
    /\ ReaderAt("send") /\ ~WriterGone
    /\ responses' = IF Len(responses) < Capacity
                    THEN Append(responses, current) ELSE responses
    /\ reader' = "parse" /\ current' = None
    /\ UNCHANGED <<buffer, answered>>

\* Mutant: an unbounded channel.
SendUnbounded ==
    /\ ReaderAt("send") /\ ~WriterGone
    /\ responses' = Append(responses, current)
    /\ reader' = "parse" /\ current' = None
    /\ UNCHANGED <<buffer, answered>>

\* response_tx.send(..).await: as soon as there is room.
Send ==
    /\ ReaderAt("send") /\ ~WriterGone /\ Len(responses) < Capacity
    /\ responses' = Append(responses, current)
    /\ reader' = "parse" /\ current' = None
    /\ UNCHANGED <<buffer, answered>>

\* Mutant: that the writer is gone goes unnoticed.
SendNeverFails == FALSE /\ UNCHANGED vars

\* The writer is gone.  After a command the reader leaves the parse loop and
\* reads on; after a value that is no command it does not even look.
SendFails ==
    /\ ReaderAt("send") /\ WriterGone
    /\ reader' = IF Kind(current) = "command" THEN "read" ELSE "parse"
    /\ current' = None
    /\ UNCHANGED <<buffer, answered, responses>>

\* writer_handle.await
Join ==
    /\ ReaderAt("join") /\ WriterGone
    /\ reader' = "done"
    /\ UNCHANGED <<buffer, current, answered, responses>>

ReaderStep ==
    \/ Read \/ ReadEof \/ ReadFails \/ Parse \/ ParseFails \/ ParsedAll
    \/ Process \/ Send \/ SendFails \/ Join
-----------------------------------------------------------------------------
(***************************************************************************)
(* The writer task.                                                        *)
(***************************************************************************)
WriterReceives ==
    /\ writer = "recv" /\ responses # << >>
    /\ writing' = Head(responses) /\ responses' = Tail(responses)
    /\ writer' = "write"
    /\ UNCHANGED <<clientVars, readerVars>>

\* recv() returns None: the channel is empty and its sender is dropped.
WriterEnds ==
    /\ writer = "recv" /\ responses = << >> /\ ReaderGone
    /\ writer' = "done"
    /\ UNCHANGED <<clientVars, readerVars, responses, writing>>

\* write_all and flush: they wait while the network takes nothing.
WriterWrites ==
    /\ writer = "write" /\ client # "gone" /\ Len(outgoing) < Outgoing
    /\ outgoing' = Append(outgoing, writing)
    /\ writer' = "recv" /\ writing' = None
    /\ UNCHANGED <<sent, client, input, eof, received, readerVars, responses>>

\* write_all or flush fails: the task ends, and what waits in the channel is
\* dropped with it.
WriteFails ==
    /\ writer = "write" /\ client = "gone"
    /\ writer' = "failed" /\ writing' = None /\ responses' = << >>
    /\ UNCHANGED <<clientVars, readerVars>>

WriterStep == WriterReceives \/ WriterEnds \/ WriterWrites \/ WriteFails

Next ==
    \/ \E kind \in Kinds : ClientSends(kind)
    \/ ClientReceives \/ ClientEnds \/ Reset
    \/ ReaderStep \/ WriterStep

Spec == Init /\ [][Next]_vars

\* The two tasks run, and the client reads what it is sent.
Fairness == WF_vars(ReaderStep) /\ WF_vars(WriterStep) /\ WF_vars(ClientReceives)

FairSpec == Spec /\ Fairness
-----------------------------------------------------------------------------
(***************************************************************************)
(* Properties.                                                             *)
(***************************************************************************)
Places == {"read", "parse", "process", "send", "join", "done", "failed"}

\* Type invariant.  In particular an item is in hand exactly while it is
\* processed or its response sent, and the channel keeps its capacity.
TypeOK ==
    /\ sent \in Seq(Kinds)
    /\ client \in {"open", "ended", "gone"} /\ eof \in BOOLEAN
    /\ client # "gone" => (eof <=> client = "ended")
    /\ input \in Seq(1 .. Len(sent)) /\ buffer \in Seq({Torn} \cup 1 .. Len(sent))
    /\ reader \in Places /\ current \in (1 .. Len(sent)) \cup {None}
    /\ current # None <=> reader \in {"process", "send"}
    /\ responses \in Seq(Items) /\ Len(responses) <= Capacity
    /\ writer \in {"recv", "write", "done", "failed"}
    /\ writing \in Items \cup {None} /\ (writing # None <=> writer = "write")
    /\ outgoing \in Seq(Items) /\ Len(outgoing) <= Outgoing
    /\ received \in Seq(Items) /\ answered \in Seq(Items)

\* The response the reader has made and not yet sent.
Unsent == IF reader = "send" THEN <<current>> ELSE << >>
InHand == IF writer = "write" THEN <<writing>> ELSE << >>

\* Every item up to the first the parser rejects gets one response, in the
\* order of the items, wherever reads cut the input; what the client receives
\* is a prefix of them, and while the connection is up none is missing between
\* the reader and the client.
ResponsesInOrder ==
    /\ \A i \in 1 .. Len(answered) : answered[i] = i
    /\ IsPrefix(received, answered)
    /\ client # "gone" =>
         received \o outgoing \o InHand \o responses \o Unsent = answered

\* A client that does not read its responses stops being served: the reader
\* is never further ahead of it than what the network and the channel hold
\* and the two tasks have in hand.
BoundedAhead ==
    client # "gone" => Len(answered) <= Len(received) + Outgoing + Capacity + 2

\* A response that was made reaches the client unless the connection is reset:
\* also when the client has stopped sending, and when the reader has returned
\* an error in the meantime.
EveryResponseDelivered ==
    \A n \in 1 .. MaxItems :
      Len(answered) >= n ~> (Len(received) >= n \/ client = "gone")

\* The two tasks wait for each other: the reader for the writer's end, the
\* writer for a response or the reader's.
Stuck == reader = "join" /\ writer = "recv" /\ responses = << >>

\* After a reset both tasks end, although the reader does not stop at the first
\* response it cannot send, but for one case: the end of input had arrived
\* before and no response is left to write, so that nothing fails any more.
ResetEndsConnection ==
    client = "gone" ~> (ReaderGone /\ WriterGone) \/ (eof /\ Stuck)

(***************************************************************************)
(* What the repository's documents say and the code does not do.           *)
(***************************************************************************)
\* The writer task, and with it the connection, ends when the reader loop has
\* ended, if not for a reset.
ConnectionEnds ==
    reader = "join" ~> (ReaderGone /\ WriterGone) \/ client = "gone"
=============================================================================
