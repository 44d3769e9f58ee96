------------------------------- MODULE Dispatch -------------------------------
(***************************************************************************)
(* How commands get from connections to shards and answers back            *)
(* (src/src/frontend/handler.rs: process_command, send_to_shard and        *)
(* process_multi_key_del; src/src/frontend/router.rs;                      *)
(* src/src/protocol/channels.rs; the command branch of worker.rs).         *)
(*                                                                         *)
(* A connection has one command at a time.  A command has a part on each   *)
(* shard that owns one of its keys; the parts of a DEL proceed             *)
(* independently (join_all).  A part is sent over the shard's bounded      *)
(* channel, with a timeout, and its reply awaited on a oneshot channel of  *)
(* its own, with a timeout.  A timeout gives up waiting and nothing else:  *)
(* a part that was sent stays in the channel and will be executed.         *)
(*                                                                         *)
(* A shard is reduced to the set of keys it holds; modules Shard and       *)
(* TtlStore say what it does with them.  A worker may panic (see           *)
(* Panic in Shard), which closes its channel for ever.         *)
(***************************************************************************)
EXTENDS Naturals, Sequences, FiniteSets, FiniteSetsExt

CONSTANTS
    Clients,     \* connection tasks
    Shards,      \* the shards
    Keys,        \* the keys
    RouteKey,    \* Router::route_key
    Commands,    \* per client: the commands it issues
    Capacity,    \* capacity of a command channel
    MaxRequests, \* bound: commands of each connection
    None         \* no command

Requests == 1 .. Max({MaxRequests[c] : c \in Clients})
Ops == {"set", "get", "del"}
Messages == [client : Clients, req : Requests, op : Ops, keys : SUBSET Keys]

ASSUME DispatchAssumption ==
    /\ RouteKey \in [Keys -> Shards]
    /\ \A c \in Clients : \A cmd \in Commands[c] :
         /\ cmd \in [op : Ops, keys : (SUBSET Keys) \ {{}}]
         /\ IsFiniteSet(cmd.keys)
         /\ cmd.op # "del" => Cardinality(cmd.keys) = 1
         /\ cmd # None
    /\ Capacity \in Nat \ {0}
    /\ MaxRequests \in [Clients -> Nat \ {0}]
    /\ IsFiniteSet(Clients) /\ Clients # {}

VARIABLES
    data,      \* the keys the shards hold
    alive,     \* shards whose worker is running
    channel,   \* per shard: the messages in its command channel
    issued,    \* per client: the commands issued so far
    current,   \* per client: the command being processed, or None
    part,      \* per client and shard: how far that part of it is
    oneshot,   \* per client, request and shard: the reply channel
    answers,   \* history: what each request was answered
    executed,  \* history: per client and shard, the requests executed
    result     \* history: per client, request and shard, the reply given

conns == <<issued, current, part, answers>>
history == <<executed, result>>
vars == <<data, alive, channel, conns, oneshot, history>>

SendErrors == {"closed", "overloaded"}
ReplyErrors == {"disconnected", "timeout"}
Replies == {<<"Ok">>} \cup ({"Value"} \X BOOLEAN) \cup ({"Integer"} \X Nat)
PartErrors == {"Error"} \X (SendErrors \cup ReplyErrors)

Unused == <<"unused">>        \* no such part; nothing happened
Sending == <<"sending">>      \* in sender.send(msg).await
Awaiting == <<"awaiting">>    \* in reply_rx.await
Gone == <<"gone">>            \* the receiving half was dropped
Dropped == <<"dropped">>      \* the sending half was dropped

Parts == Replies \cup PartErrors \cup {Unused, Sending, Awaiting}
Oneshots == Replies \cup {Unused, Gone, Dropped}
Answers == Replies \cup PartErrors \cup {Unused, <<"Error", "partial failure">>}

Init ==
    /\ data = {}
    /\ alive = Shards
    /\ channel = [s \in Shards |-> << >>]
    /\ issued = [c \in Clients |-> << >>]
    /\ current = [c \in Clients |-> None]
    /\ part = [c \in Clients |-> [s \in Shards |-> Unused]]
    /\ oneshot = [c \in Clients |-> [n \in Requests |-> [s \in Shards |-> Unused]]]
    /\ answers = [c \in Clients |-> [n \in Requests |-> Unused]]
    /\ executed = [c \in Clients |-> [s \in Shards |-> << >>]]
    /\ result = [c \in Clients |-> [n \in Requests |-> [s \in Shards |-> Unused]]]
-----------------------------------------------------------------------------
(***************************************************************************)
(* The connection.                                                         *)
(***************************************************************************)
\* Router::route_keys: the keys of a command that belong to shard s.
KeysOn(cmd, s) == {k \in cmd.keys : RouteKey[k] = s}
ShardsOf(cmd) == {RouteKey[k] : k \in cmd.keys}

\* The request a connection is processing.
Req(c) == Len(issued[c])

\* process_command: one part per shard, each starting to send.
Issue(c, cmd) ==
    /\ current[c] = None /\ Req(c) < MaxRequests[c]
    /\ issued' = [issued EXCEPT ![c] = Append(@, cmd)]
    /\ current' = [current EXCEPT ![c] = cmd]
    /\ part' = [part EXCEPT ![c] =
         [s \in Shards |-> IF s \in ShardsOf(cmd) THEN Sending ELSE Unused]]
    /\ UNCHANGED <<data, alive, channel, oneshot, answers, history>>

SetPart(c, s, p) == part' = [part EXCEPT ![c][s] = p]

Message(c, s) ==
    [client |-> c, req |-> Req(c), op |-> current[c].op,
     keys |-> KeysOn(current[c], s)]

\* Mutant: the channel is unbounded.
SendUnbounded(c, s) ==
    /\ part[c][s] = Sending /\ s \in alive
    /\ channel' = [channel EXCEPT ![s] = Append(@, Message(c, s))]
    /\ SetPart(c, s, Awaiting)
    /\ UNCHANGED <<data, alive, issued, current, oneshot, answers, history>>

\* sender.send(msg): completes once the channel has room; first in, first out.
Send(c, s) ==
    /\ part[c][s] = Sending /\ s \in alive
    /\ Len(channel[s]) < Capacity
    /\ channel' = [channel EXCEPT ![s] = Append(@, Message(c, s))]
    /\ SetPart(c, s, Awaiting)
    /\ UNCHANGED <<data, alive, issued, current, oneshot, answers, history>>

SendClosed(c, s) ==
    /\ part[c][s] = Sending /\ s \notin alive
    /\ SetPart(c, s, <<"Error", "closed">>)
    /\ UNCHANGED <<data, alive, channel, issued, current, oneshot, answers, history>>

\* timeout() polls the send first, so it gives up only when the channel is
\* full, counting the places already promised to senders ahead of it.  The
\* message is dropped with the future.
SendTimeout(c, s) ==
    /\ part[c][s] = Sending /\ s \in alive
    /\ LET ahead == {x \in Clients \ {c} : part[x][s] = Sending}
       IN  Len(channel[s]) + Cardinality(ahead) >= Capacity
    /\ SetPart(c, s, <<"Error", "overloaded">>)
    /\ UNCHANGED <<data, alive, channel, issued, current, oneshot, answers, history>>

Reply(c, s) == oneshot[c][Req(c)][s]

ReplyArrives(c, s) ==
    /\ part[c][s] = Awaiting /\ Reply(c, s) \in Replies
    /\ SetPart(c, s, Reply(c, s))
    /\ UNCHANGED <<data, alive, channel, issued, current, oneshot, answers, history>>

Disconnected(c, s) ==
    /\ part[c][s] = Awaiting /\ Reply(c, s) = Dropped
    /\ SetPart(c, s, <<"Error", "disconnected">>)
    /\ UNCHANGED <<data, alive, channel, issued, current, oneshot, answers, history>>

\* Mutant: there is no timeout on the reply.
ReplyNeverTimesOut(c, s) == FALSE /\ UNCHANGED vars

\* Mutant: a command whose reply is late is sent again.
ReplyTimeoutResends(c, s) ==
    /\ part[c][s] = Awaiting /\ Reply(c, s) = Unused
    /\ SetPart(c, s, Sending)
    /\ UNCHANGED <<data, alive, channel, issued, current, oneshot, answers, history>>

\* Mutant: one timeout for sending and waiting, and one error for both.
ReplyTimeoutAsOverload(c, s) ==
    /\ part[c][s] = Awaiting /\ Reply(c, s) = Unused
    /\ SetPart(c, s, <<"Error", "overloaded">>)
    /\ oneshot' = [oneshot EXCEPT ![c][Req(c)][s] = Gone]
    /\ UNCHANGED <<data, alive, channel, issued, current, answers, history>>

\* The wait is over before there is a reply; reply_rx is dropped.
ReplyTimeout(c, s) ==
    /\ part[c][s] = Awaiting /\ Reply(c, s) = Unused
    /\ SetPart(c, s, <<"Error", "timeout">>)
    /\ oneshot' = [oneshot EXCEPT ![c][Req(c)][s] = Gone]
    /\ UNCHANGED <<data, alive, channel, issued, current, answers, history>>

PartStep(c, s) ==
    \/ Send(c, s) \/ SendClosed(c, s) \/ SendTimeout(c, s)
    \/ ReplyArrives(c, s) \/ Disconnected(c, s) \/ ReplyTimeout(c, s)

IsError(p) == p[1] = "Error"

Total(replies, S) == SumFunction([s \in S |-> replies[s][2]])

\* Mutant: a DEL answers with what succeeded, whatever failed.
CombineIgnoringErrors(cmd, replies) ==
    LET S == ShardsOf(cmd)
    IN  IF cmd.op # "del" THEN replies[CHOOSE s \in S : TRUE]
        ELSE <<"Integer", Total(replies, {s \in S : ~IsError(replies[s])})>>

\* The answer to a command, from the outcome of its parts.
Combine(cmd, replies) ==
    LET S == ShardsOf(cmd)
    IN  IF cmd.op # "del" THEN replies[CHOOSE s \in S : TRUE]
        ELSE IF \E s \in S : IsError(replies[s])
               THEN <<"Error", "partial failure">>
               ELSE <<"Integer", Total(replies, S)>>

\* join_all is done: the response goes to the connection's writer.
Respond(c) ==
    /\ current[c] # None
    /\ \A s \in Shards : part[c][s] \notin {Sending, Awaiting}
    /\ answers' = [answers EXCEPT ![c][Req(c)] = Combine(current[c], part[c])]
    /\ current' = [current EXCEPT ![c] = None]
    /\ part' = [part EXCEPT ![c] = [s \in Shards |-> Unused]]
    /\ UNCHANGED <<data, alive, channel, issued, oneshot, history>>
-----------------------------------------------------------------------------
(***************************************************************************)
(* The shard worker.                                                       *)
(***************************************************************************)
ReplyTo(m) ==
    CASE m.op = "set" -> <<"Ok">>
      [] m.op = "get" -> <<"Value", m.keys \subseteq data>>
      [] m.op = "del" -> <<"Integer", Cardinality(m.keys \cap data)>>

EffectOf(m) ==
    CASE m.op = "set" -> data \cup m.keys
      [] m.op = "get" -> data
      [] m.op = "del" -> data \ m.keys

\* One turn of the select! loop: execute, and reply on the reply_tx that came
\* with the command.  A reply nobody waits for any more is dropped
\* (let _ = reply_tx.send(..)).
Execute(s) ==
    /\ s \in alive /\ channel[s] # << >>
    /\ LET m == Head(channel[s])
       IN  /\ data' = EffectOf(m)
           /\ oneshot' = [oneshot EXCEPT ![m.client][m.req][s] =
                            IF @ = Unused THEN ReplyTo(m) ELSE @]
           /\ executed' = [executed EXCEPT ![m.client][s] = Append(@, m.req)]
           /\ result' = [result EXCEPT ![m.client][m.req][s] = ReplyTo(m)]
    /\ channel' = [channel EXCEPT ![s] = Tail(@)]
    /\ UNCHANGED <<alive, conns>>

\* The task panics while it executes a command or a ticker branch, before
\* that command has changed anything: receiver, messages and their reply
\* channels are dropped.
WorkerPanics(s) ==
    /\ s \in alive
    /\ alive' = alive \ {s}
    /\ channel' = [channel EXCEPT ![s] = << >>]
    /\ oneshot' = [c \in Clients |-> [n \in Requests |->
         [oneshot[c][n] EXCEPT ![s] =
            IF /\ @ = Unused
               /\ \E i \in 1 .. Len(channel[s]) :
                    channel[s][i].client = c /\ channel[s][i].req = n
            THEN Dropped ELSE @]]]
    /\ UNCHANGED <<data, conns, history>>

Next ==
    \/ \E c \in Clients :
         \/ \E cmd \in Commands[c] : Issue(c, cmd)
         \/ \E s \in Shards : PartStep(c, s)
         \/ Respond(c)
    \/ \E s \in Shards : Execute(s) \/ WorkerPanics(s)

Spec == Init /\ [][Next]_vars

\* Connection tasks run, and their timers fire.  Nothing is assumed of the
\* shards.
Fairness ==
    \A c \in Clients :
      /\ WF_vars(Respond(c))
      /\ \A s \in Shards : WF_vars(PartStep(c, s))

FairSpec == Spec /\ Fairness
-----------------------------------------------------------------------------
(***************************************************************************)
(* Properties.                                                             *)
(***************************************************************************)
\* Type invariant.  In particular no command channel ever holds more than its
\* capacity, whatever is sent, timed out and left behind.
TypeOK ==
    /\ data \subseteq Keys
    /\ alive \subseteq Shards
    /\ channel \in [Shards -> Seq(Messages)]
    /\ \A s \in Shards : Len(channel[s]) <= Capacity
    /\ \A c \in Clients :
         /\ issued[c] \in Seq(Commands[c]) /\ Req(c) <= MaxRequests[c]
         /\ current[c] \in Commands[c] \cup {None}
    /\ part \in [Clients -> [Shards -> Parts]]
    /\ oneshot \in [Clients -> [Requests -> [Shards -> Oneshots]]]
    /\ answers \in [Clients -> [Requests -> Answers]]
    /\ executed \in [Clients -> [Shards -> Seq(Requests)]]
    /\ result \in [Clients -> [Requests -> [Shards -> Replies \cup {Unused}]]]

\* A shard executes what one connection asked of it in the order it was
\* asked, and nothing twice: also what the connection gave up waiting for,
\* which runs before the commands the connection sent after that.
SessionOrder ==
    \A c \in Clients, s \in Shards :
      \A i, j \in 1 .. Len(executed[c][s]) :
        i < j => executed[c][s][i] < executed[c][s][j]

ExecutedOn(c, n) ==
    {s \in Shards : \E i \in 1 .. Len(executed[c][s]) : executed[c][s][i] = n}

\* A client that is told "shard overloaded" or "shard channel closed" may
\* repeat the command: no shard has executed it, or ever will.
RefusedNeverExecuted ==
    \A c \in Clients, n \in Requests :
      answers[c][n] \in {"Error"} \X SendErrors => ExecutedOn(c, n) = {}

\* An answer that is no error is the answer to this very command, computed
\* from what every one of its shards did for it; a reply that comes after
\* its timeout is never taken for that of a later command.
AnswerIsOwn ==
    \A c \in Clients, n \in Requests :
      answers[c][n] \in Replies =>
        /\ ExecutedOn(c, n) = ShardsOf(issued[c][n])
        /\ answers[c][n] =
             IF answers[c][n][1] = "Integer"
               THEN <<"Integer", Total(result[c][n], ExecutedOn(c, n))>>
               ELSE result[c][n][CHOOSE s \in ExecutedOn(c, n) : TRUE]

\* Every command is answered, by a result or an error, even if the shards
\* stop for ever.
EveryCommandAnswered ==
    \A c \in Clients : current[c] # None ~> current[c] = None
=============================================================================
