---------------------------- MODULE DispatchProofs ----------------------------
(***************************************************************************)
(* Order, refusal and the answers for any number of connections, shards    *)
(* and keys, any capacity of the command channels and any number of        *)
(* commands.                                                               *)
(***************************************************************************)
EXTENDS Dispatch, DataLemmas, FiniteSetTheorems, TLAPS

USE DEF conns, history, vars

(***************************************************************************)
(* Where a connection's requests are: in a shard's channel, or executed.   *)
(***************************************************************************)
Pending(c, s, n) ==
    \E i \in 1 .. Len(channel[s]) : channel[s][i].client = c /\ channel[s][i].req = n

\* A part of the n-th command of c was executed on s.
Done(c, s, n) == \E i \in 1 .. Len(executed[c][s]) : executed[c][s][i] = n

\* Replies that say a command was not sent.
Refusals == {"Error"} \X SendErrors

\* What a part is before its message is sent, or when it never will be.
NotSent == {Unused, Sending} \cup Refusals

\* All commands, and the messages that may wait in a channel.
AllCommands == UNION {Commands[c] : c \in Clients}
Queueable == [client : Clients, req : Nat, op : Ops, keys : SUBSET Keys]

\* The types of what the proofs on order speak of.
Types ==
    /\ channel \in [Shards -> Seq(Queueable)]
    /\ executed \in [Clients -> [Shards -> Seq(Nat)]]
    /\ issued \in [Clients -> Seq(AllCommands)]
    /\ current \in [Clients -> AllCommands \cup {None}]
    /\ part \in [Clients -> [Shards -> Parts]]
    /\ DOMAIN answers = Clients /\ \A c \in Clients : DOMAIN answers[c] = Requests

\* A channel holds the messages of one connection in the order of its requests.
QueueOrder ==
    \A s \in Shards : \A i, j \in 1 .. Len(channel[s]) :
      i < j /\ channel[s][i].client = channel[s][j].client
        => channel[s][i].req < channel[s][j].req

\* What is in the channel was asked for, and after all that has been executed.
OrderInv ==
    /\ Types
    /\ QueueOrder
    /\ SessionOrder
    /\ \A c \in Clients, s \in Shards, n \in Nat :
         Pending(c, s, n) \/ Done(c, s, n) => n \in 1 .. Req(c)
    /\ \A c \in Clients, s \in Shards, m \in Nat, n \in Nat :
         Done(c, s, m) /\ Pending(c, s, n) => m < n
    /\ \A c \in Clients, s \in Shards :
         current[c] # None /\ part[c][s] \in NotSent
           => ~Pending(c, s, Req(c)) /\ ~Done(c, s, Req(c))
    /\ \A c \in Clients, s \in Shards : part[c][s] = Sending => current[c] # None
    /\ \A c \in Clients : current[c] # None => Req(c) > 0

\* A step puts nothing in a channel but a message of a command being processed.
NothingElseSent ==
    \A c \in Clients, s \in Shards, n \in Nat :
      Pending(c, s, n)' \/ Done(c, s, n)'
        => Pending(c, s, n) \/ Done(c, s, n) \/ (current[c] # None /\ n = Req(c))

\* What is known of a command.
LEMMA CommandFacts ==
    ASSUME NEW cmd \in AllCommands
    PROVE  /\ cmd.op \in Ops /\ cmd.keys \in SUBSET Keys /\ cmd.keys # {}
           /\ IsFiniteSet(cmd.keys) /\ cmd # None /\ (cmd.op # "del" => Cardinality(cmd.keys) = 1)
<1>1. PICK c \in Clients : cmd \in Commands[c]
  BY DEF AllCommands
<1>2. cmd \in [op : Ops, keys : (SUBSET Keys) \ {{}}]
  BY <1>1, DispatchAssumption
<1>3. IsFiniteSet(cmd.keys) /\ (cmd.op # "del" => Cardinality(cmd.keys) = 1) /\ cmd # None
  BY <1>1, DispatchAssumption
<1>4. cmd.op \in Ops
  BY <1>2
<1>5. cmd.keys \in (SUBSET Keys) \ {{}}
  BY <1>2
<1>6. cmd.keys \in SUBSET Keys /\ cmd.keys # {}
  BY <1>5
<1> QED
  BY <1>3, <1>4, <1>6

\* A set of one element has no other.
LEMMA OneElement ==
    ASSUME NEW S, IsFiniteSet(S), Cardinality(S) = 1, NEW x \in S
    PROVE  S = {x}
<1>1. PICK y : S = {y}
  BY FS_Singleton
<1> QED
  BY <1>1

\* What a part becomes once its message has been sent.
LEMMA SentIsKnown ==
    /\ Awaiting \notin NotSent
    /\ <<"Error", "disconnected">> \notin NotSent /\ <<"Error", "timeout">> \notin NotSent
    /\ \A r \in Replies : r \notin NotSent /\ r # Sending
<1> USE DEF NotSent, Unused, Sending, Awaiting, Refusals, SendErrors
<1>1. \A r \in Replies : r[1] \in {"Ok", "Value", "Integer"}
  BY DEF Replies
<1>2. \A r \in NotSent : r[1] \in {"unused", "sending", "Error"}
  OBVIOUS
<1>3. Awaiting[1] = "awaiting" /\ Sending[1] = "sending"
  OBVIOUS
<1>4. \A r \in Refusals : r[2] \in {"closed", "overloaded"}
  OBVIOUS
<1>5. ASSUME NEW e \in {"disconnected", "timeout"} PROVE <<"Error", e>> \notin NotSent
  <2>1. <<"Error", e>> \notin Refusals
    BY <1>4
  <2>2. <<"Error", e>> # Unused /\ <<"Error", e>> # Sending
    OBVIOUS
  <2> QED
    BY <2>1, <2>2
<1> QED
  BY <1>1, <1>2, <1>3, <1>5

\* The channels are empty at the start.
LEMMA OrderInit == Init => OrderInv
<1> SUFFICES ASSUME Init PROVE OrderInv
  OBVIOUS
<1>1. Types
  BY DEF Init, Types, Parts
<1>2. QueueOrder /\ SessionOrder
  BY DEF Init, QueueOrder, SessionOrder
<1>3. \A c \in Clients, s \in Shards, n \in Nat : ~Pending(c, s, n) /\ ~Done(c, s, n)
  BY DEF Init, Pending, Done
<1>4. \A c \in Clients, s \in Shards : current[c] = None /\ part[c][s] # Sending
  BY DEF Init, Unused, Sending
<1>5. \A c \in Clients : current[c] = None
  BY DEF Init
<1> QED
  BY <1>1, <1>2, <1>3, <1>4, <1>5 DEF OrderInv
-----------------------------------------------------------------------------
(***************************************************************************)
(* The steps that leave the channels alone.                                *)
(***************************************************************************)
LEMMA Unmoved ==
    ASSUME UNCHANGED <<channel, executed>>
    PROVE  \A c \in Clients, s \in Shards, n \in Nat :
             (Pending(c, s, n)' <=> Pending(c, s, n)) /\ (Done(c, s, n)' <=> Done(c, s, n))
BY DEF Pending, Done

\* A part that changes without a message being sent: it stays where it is as
\* far as the order is concerned.
LEMMA PartOnly ==
    ASSUME OrderInv, NEW c \in Clients, NEW s \in Shards, NEW p \in Parts, p # Sending,
           SetPart(c, s, p), UNCHANGED <<channel, executed, issued, current, answers>>,
           p \in NotSent => part[c][s] \in NotSent
    PROVE  OrderInv'
<1> USE DEF OrderInv
<1>1. /\ part' \in [Clients -> [Shards -> Parts]]
      /\ part'[c][s] = p
      /\ \A x \in Clients, y \in Shards : <<x, y>> # <<c, s>> => part'[x][y] = part[x][y]
  BY DEF SetPart, Types
<1>2. Types'
  BY <1>1 DEF Types
<1>3. QueueOrder' /\ SessionOrder'
  BY DEF QueueOrder, SessionOrder
<1>4. \A x \in Clients : Req(x)' = Req(x) /\ Req(x) \in Nat
  BY DEF Req, Types
<1>5. \A x \in Clients, y \in Shards :
        current'[x] # None /\ part'[x][y] \in NotSent
          => ~Pending(x, y, Req(x))' /\ ~Done(x, y, Req(x))'
  <2> SUFFICES ASSUME NEW x \in Clients, NEW y \in Shards,
                      current[x] # None, part'[x][y] \in NotSent
               PROVE  ~Pending(x, y, Req(x)) /\ ~Done(x, y, Req(x))
    BY <1>4, Unmoved DEF Req, Pending, Done
  <2>1. part[x][y] \in NotSent
    BY <1>1
  <2> QED
    BY <2>1
<1>6. \A x \in Clients, y \in Shards : part'[x][y] = Sending => current'[x] # None
  BY <1>1
<1>7. \A x \in Clients, y \in Shards, n \in Nat :
        Pending(x, y, n)' \/ Done(x, y, n)' => n \in 1 .. Req(x)'
  BY <1>4, Unmoved
<1>8. \A x \in Clients, y \in Shards, m \in Nat, n \in Nat :
        Done(x, y, m)' /\ Pending(x, y, n)' => m < n
  BY Unmoved
<1>9. \A x \in Clients : current'[x] # None => Req(x)' > 0
  BY <1>4
<1> QED
  BY <1>2, <1>3, <1>5, <1>6, <1>7, <1>8, <1>9

\* A new command comes after all of its connection.
LEMMA IssueOrder ==
    ASSUME OrderInv, NEW c \in Clients, NEW cmd \in Commands[c], Issue(c, cmd)
    PROVE  OrderInv'
<1> USE DEF OrderInv
<1>1. cmd \in AllCommands /\ cmd # None
  BY CommandFacts DEF AllCommands
<1>2. UNCHANGED <<channel, executed, answers>>
  BY DEF Issue
<1>3. /\ issued' \in [Clients -> Seq(AllCommands)] /\ Req(c)' = Req(c) + 1
      /\ \A x \in Clients : x # c => Req(x)' = Req(x)
      /\ \A x \in Clients : Req(x) \in Nat
  BY <1>1 DEF Issue, Types, Req
<1>4. /\ current' \in [Clients -> AllCommands \cup {None}] /\ current'[c] # None
      /\ \A x \in Clients : x # c => current'[x] = current[x]
  BY <1>1 DEF Issue, Types
<1>5. /\ part' \in [Clients -> [Shards -> Parts]]
      /\ \A x \in Clients : x # c => part'[x] = part[x]
  BY DEF Issue, Types, Parts
<1>6. Types'
  BY <1>2, <1>3, <1>4, <1>5 DEF Types
<1>7. QueueOrder' /\ SessionOrder'
  BY <1>2 DEF QueueOrder, SessionOrder
<1>8. \A x \in Clients, y \in Shards, n \in Nat :
        Pending(x, y, n)' \/ Done(x, y, n)' => n \in 1 .. Req(x) /\ n \in 1 .. Req(x)'
  BY <1>2, <1>3, Unmoved
<1>9. \A x \in Clients, y \in Shards, m \in Nat, n \in Nat :
        Done(x, y, m)' /\ Pending(x, y, n)' => m < n
  BY <1>2, Unmoved
<1>10. \A x \in Clients, y \in Shards :
         current'[x] # None /\ part'[x][y] \in NotSent
           => ~Pending(x, y, Req(x))' /\ ~Done(x, y, Req(x))'
  <2> SUFFICES ASSUME NEW x \in Clients, NEW y \in Shards,
                      current'[x] # None, part'[x][y] \in NotSent
               PROVE  ~Pending(x, y, Req(x))' /\ ~Done(x, y, Req(x))'
    OBVIOUS
  <2>1. CASE x = c
    <3>1. PICK n \in Nat : n = Req(x)' /\ n \notin 1 .. Req(x)
      BY <1>3, <2>1
    <3>2. ~Pending(x, y, n)' /\ ~Done(x, y, n)'
      BY <1>8, <3>1
    <3> QED
      BY <3>1, <3>2 DEF Pending, Done
  <2>2. CASE x # c
    <3>1. current[x] # None /\ part[x][y] \in NotSent /\ Req(x)' = Req(x)
      BY <1>3, <1>4, <1>5, <2>2
    <3>2. ~Pending(x, y, Req(x)) /\ ~Done(x, y, Req(x))
      BY <3>1
    <3> QED
      BY <1>2, <3>1, <3>2 DEF Pending, Done
  <2> QED
    BY <2>1, <2>2
<1>11. \A x \in Clients, y \in Shards : part'[x][y] = Sending => current'[x] # None
  BY <1>4, <1>5
<1>12. \A x \in Clients : current'[x] # None => Req(x)' > 0
  <2> TAKE x \in Clients
  <2>1. CASE x = c
    BY <1>3, <2>1
  <2>2. CASE x # c
    BY <1>3, <1>4, <2>2
  <2> QED
    BY <2>1, <2>2
<1> QED
  BY <1>6, <1>7, <1>8, <1>9, <1>10, <1>11, <1>12

\* An answer disturbs no order.
LEMMA RespondOrder ==
    ASSUME OrderInv, NEW c \in Clients, Respond(c)
    PROVE  OrderInv'
<1> USE DEF OrderInv
<1>1. UNCHANGED <<channel, executed, issued>>
  BY DEF Respond
<1>2. /\ current' \in [Clients -> AllCommands \cup {None}] /\ current'[c] = None
      /\ \A x \in Clients : x # c => current'[x] = current[x]
  BY DEF Respond, Types
<1>3. /\ part' \in [Clients -> [Shards -> Parts]]
      /\ \A y \in Shards : part'[c][y] = Unused
      /\ \A x \in Clients : x # c => part'[x] = part[x]
  BY DEF Respond, Types, Parts
<1>4. DOMAIN answers' = Clients /\ \A x \in Clients : DOMAIN answers'[x] = Requests
  BY DEF Respond, Types
<1>5. Types'
  BY <1>1, <1>2, <1>3, <1>4 DEF Types
<1>6. QueueOrder' /\ SessionOrder'
  BY <1>1 DEF QueueOrder, SessionOrder
<1>7. \A x \in Clients : Req(x)' = Req(x) /\ Req(x) \in Nat
  BY <1>1 DEF Req, Types
<1>8. \A x \in Clients, y \in Shards, n \in Nat :
        Pending(x, y, n)' \/ Done(x, y, n)' => n \in 1 .. Req(x)'
  BY <1>1, <1>7, Unmoved
<1>9. \A x \in Clients, y \in Shards, m \in Nat, n \in Nat :
        Done(x, y, m)' /\ Pending(x, y, n)' => m < n
  BY <1>1, Unmoved
<1>10. \A x \in Clients, y \in Shards :
         current'[x] # None /\ part'[x][y] \in NotSent
           => ~Pending(x, y, Req(x))' /\ ~Done(x, y, Req(x))'
  <2> SUFFICES ASSUME NEW x \in Clients, NEW y \in Shards,
                      current'[x] # None, part'[x][y] \in NotSent
               PROVE  ~Pending(x, y, Req(x)) /\ ~Done(x, y, Req(x))
    BY <1>1, <1>7 DEF Pending, Done
  <2>1. x # c /\ current[x] # None /\ part[x][y] \in NotSent
    BY <1>2, <1>3
  <2> QED
    BY <2>1
<1>11. \A x \in Clients, y \in Shards : part'[x][y] = Sending => current'[x] # None
  BY <1>2, <1>3 DEF Unused, Sending
<1>12. \A x \in Clients : current'[x] # None => Req(x)' > 0
  BY <1>2, <1>7
<1> QED
  BY <1>5, <1>6, <1>8, <1>9, <1>10, <1>11, <1>12
-----------------------------------------------------------------------------
(***************************************************************************)
(* The steps that move messages.                                           *)
(***************************************************************************)
LEMMA SendOrder ==
    ASSUME OrderInv, NEW c \in Clients, NEW s \in Shards, Send(c, s)
    PROVE  OrderInv' /\ NothingElseSent
<1> USE DEF OrderInv
<1>1. /\ part[c][s] = Sending /\ UNCHANGED <<executed, issued, current, answers>>
      /\ channel' = [channel EXCEPT ![s] = Append(@, Message(c, s))]
      /\ part' = [part EXCEPT ![c][s] = Awaiting]
  BY DEF Send, SetPart
<1>2. current[c] \in AllCommands /\ current[c] # None
  BY <1>1 DEF Types
<1>3. \A x \in Clients : Req(x) \in Nat /\ Req(x)' = Req(x)
  BY <1>1 DEF Req, Types
<1> DEFINE m == Message(c, s)
           q == channel[s]
<1>4. m \in Queueable /\ m.client = c /\ m.req = Req(c)
  BY <1>2, <1>3, CommandFacts DEF Message, Queueable, KeysOn
<1>5. q \in Seq(Queueable) /\ Len(q) \in Nat
  BY DEF Types
<1> HIDE DEF m, q
<1>6. /\ Append(q, m) \in Seq(Queueable) /\ Len(Append(q, m)) = Len(q) + 1
      /\ Append(q, m)[Len(q) + 1] = m
      /\ \A i \in 1 .. Len(q) : Append(q, m)[i] = q[i]
  BY <1>4, <1>5
<1>7. /\ channel' \in [Shards -> Seq(Queueable)] /\ channel'[s] = Append(q, m)
      /\ \A y \in Shards : y # s => channel'[y] = channel[y]
  BY <1>1, <1>6 DEF m, q, Types
<1>8. /\ part' \in [Clients -> [Shards -> Parts]] /\ part'[c][s] = Awaiting
      /\ \A x \in Clients, y \in Shards : <<x, y>> # <<c, s>> => part'[x][y] = part[x][y]
  BY <1>1 DEF Types, Parts
<1>9. Types'
  BY <1>1, <1>7, <1>8 DEF Types
<1>10. /\ \A n \in Nat : Pending(c, s, n)' <=> Pending(c, s, n) \/ n = Req(c)
       /\ \A x \in Clients, y \in Shards, n \in Nat :
            <<x, y>> # <<c, s>> => (Pending(x, y, n)' <=> Pending(x, y, n))
       /\ \A x \in Clients, y \in Shards, n \in Nat : Done(x, y, n)' <=> Done(x, y, n)
  <2>1. \A x \in Clients, n \in Nat :
          Pending(x, s, n)' <=> Pending(x, s, n) \/ (x = c /\ n = Req(c))
    <3> TAKE x \in Clients, n \in Nat
    <3>1. Pending(x, s, n)' => Pending(x, s, n) \/ (x = c /\ n = Req(c))
      <4> SUFFICES ASSUME Pending(x, s, n)', ~(x = c /\ n = Req(c))
                   PROVE  Pending(x, s, n)
        OBVIOUS
      <4>1. PICK i \in 1 .. Len(q) + 1 : /\ Append(q, m)[i].client = x
                                         /\ Append(q, m)[i].req = n
        BY <1>6, <1>7 DEF Pending
      <4>2. i \in 1 .. Len(q)
        BY <1>4, <1>5, <1>6, <4>1
      <4> QED
        BY <1>6, <4>1, <4>2 DEF Pending, q
    <3>2. Pending(x, s, n) => Pending(x, s, n)'
      <4> SUFFICES ASSUME Pending(x, s, n) PROVE Pending(x, s, n)'
        OBVIOUS
      <4>1. PICK i \in 1 .. Len(q) : q[i].client = x /\ q[i].req = n
        BY DEF Pending, q
      <4>2. i \in 1 .. Len(q) + 1 /\ Append(q, m)[i] = q[i]
        BY <1>5, <1>6
      <4> QED
        BY <1>6, <1>7, <4>1, <4>2 DEF Pending
    <3>3. x = c /\ n = Req(c) => Pending(x, s, n)'
      <4>1. Len(q) + 1 \in 1 .. Len(Append(q, m))
        BY <1>5, <1>6
      <4> QED
        BY <1>4, <1>6, <1>7, <4>1 DEF Pending
    <3> QED
      BY <3>1, <3>2, <3>3
  <2>2. \A x \in Clients, y \in Shards, n \in Nat :
          y # s => (Pending(x, y, n)' <=> Pending(x, y, n))
    BY <1>7 DEF Pending
  <2>3. \A x \in Clients, y \in Shards, n \in Nat : Done(x, y, n)' <=> Done(x, y, n)
    BY <1>1 DEF Done
  <2> QED
    BY <2>1, <2>2, <2>3
<1>11. ~Pending(c, s, Req(c)) /\ ~Done(c, s, Req(c))
  BY <1>1, <1>2 DEF NotSent
<1>12. \A n \in Nat : Pending(c, s, n) \/ Done(c, s, n) => n < Req(c)
  BY <1>3, <1>11
<1>13. QueueOrder'
  <2> SUFFICES ASSUME NEW y \in Shards, NEW i \in 1 .. Len(channel'[y]),
                      NEW j \in 1 .. Len(channel'[y]), i < j,
                      channel'[y][i].client = channel'[y][j].client
               PROVE  channel'[y][i].req < channel'[y][j].req
    BY DEF QueueOrder
  <2>1. CASE y # s
    BY <1>7, <2>1 DEF QueueOrder
  <2>2. CASE y = s
    <3>1. i \in 1 .. Len(q) /\ channel'[y][i] = q[i]
      BY <1>5, <1>6, <1>7, <2>2
    <3>2. CASE j \in 1 .. Len(q)
      <4>1. channel'[y][j] = q[j]
        BY <1>6, <1>7, <2>2, <3>2
      <4> QED
        BY <2>2, <3>1, <3>2, <4>1 DEF QueueOrder, q
    <3>3. CASE j = Len(q) + 1
      <4>1. channel'[y][j] = m
        BY <1>6, <1>7, <2>2, <3>3
      <4>2. q[i] \in Queueable
        BY <1>5, <3>1
      <4>3. Pending(c, s, q[i].req) /\ q[i].req \in Nat
        BY <1>4, <3>1, <4>1, <4>2 DEF Pending, q, Queueable
      <4> QED
        BY <1>4, <1>12, <3>1, <4>1, <4>3
    <3> QED
      BY <1>5, <1>6, <1>7, <2>2, <3>2, <3>3
  <2> QED
    BY <2>1, <2>2
<1>14. SessionOrder'
  BY <1>1 DEF SessionOrder
<1>15. \A x \in Clients, y \in Shards, n \in Nat :
         Pending(x, y, n)' \/ Done(x, y, n)' => n \in 1 .. Req(x)'
  <2>1. Req(c) \in 1 .. Req(c)
    BY <1>1, <1>2, <1>3
  <2> QED
    BY <1>3, <1>10, <2>1
<1>16. \A x \in Clients, y \in Shards, k \in Nat, n \in Nat :
         Done(x, y, k)' /\ Pending(x, y, n)' => k < n
  BY <1>10, <1>12
<1>17. \A x \in Clients, y \in Shards :
         current'[x] # None /\ part'[x][y] \in NotSent
           => ~Pending(x, y, Req(x))' /\ ~Done(x, y, Req(x))'
  <2> SUFFICES ASSUME NEW x \in Clients, NEW y \in Shards,
                      current[x] # None, part'[x][y] \in NotSent
               PROVE  ~Pending(x, y, Req(x))' /\ ~Done(x, y, Req(x))'
    BY <1>1
  <2>1. <<x, y>> # <<c, s>>
    BY <1>8, SentIsKnown
  <2>2. ~Pending(x, y, Req(x)) /\ ~Done(x, y, Req(x))
    BY <1>8, <2>1
  <2>3. PICK n \in Nat : n = Req(x) /\ n = Req(x)'
    BY <1>3
  <2>4. ~Pending(x, y, n) /\ ~Done(x, y, n)
    BY <2>2, <2>3
  <2>5. ~Pending(x, y, n)' /\ ~Done(x, y, n)'
    BY <1>10, <2>1, <2>4
  <2> QED
    BY <2>3, <2>5 DEF Pending, Done
<1>18. \A x \in Clients, y \in Shards : part'[x][y] = Sending => current'[x] # None
  BY <1>1, <1>2, <1>8
<1>19. \A x \in Clients : current'[x] # None => Req(x)' > 0
  BY <1>1, <1>3
<1>20. NothingElseSent
  BY <1>2, <1>10 DEF NothingElseSent
<1> QED
  BY <1>9, <1>13, <1>14, <1>15, <1>16, <1>17, <1>18, <1>19, <1>20

\* The first element of a sequence, and the rest.
LEMMA FirstAndRest ==
    ASSUME NEW S, NEW z \in Seq(S), z # << >>
    PROVE  /\ z[1] \in S /\ Head(z) = z[1]
           /\ Tail(z) \in Seq(S) /\ Len(Tail(z)) = Len(z) - 1
           /\ \A i \in 1 .. Len(z) - 1 : Tail(z)[i] = z[i + 1]
OBVIOUS

\* A worker executes what is first in its channel.
LEMMA ExecuteOrder ==
    ASSUME OrderInv, NEW s \in Shards, Execute(s)
    PROVE  OrderInv' /\ NothingElseSent
<1> USE DEF OrderInv
<1> DEFINE m == channel[s][1]
           c == m.client
           q == channel[s]
           done == executed[c][s]
<1>1. q \in Seq(Queueable) /\ q # << >> /\ Len(q) \in Nat /\ Len(q) > 0
  BY DEF Execute, Types
<1>2. m \in Queueable /\ c \in Clients /\ m.req \in Nat
  <2>1. PICK z : z = q
    OBVIOUS
  <2>2. z[1] \in Queueable
    BY <1>1, <2>1, FirstAndRest
  <2> QED
    BY <2>1, <2>2 DEF Queueable
<1>3. /\ UNCHANGED <<issued, current, part, answers>>
      /\ channel' = [channel EXCEPT ![s] = Tail(q)]
      /\ executed' = [executed EXCEPT ![c][s] = Append(done, m.req)]
  <2>0. PICK z : z = q
    OBVIOUS
  <2>1. Head(q) = m
    BY <1>1, <2>0, FirstAndRest
  <2> QED
    BY <2>1, Zenon DEF Execute
<1>4. done \in Seq(Nat) /\ Len(done) \in Nat
  BY <1>2 DEF Types
<1> HIDE DEF m, c, q, done
<1>5. /\ Tail(q) \in Seq(Queueable) /\ Len(Tail(q)) = Len(q) - 1
      /\ \A i \in 1 .. Len(q) - 1 : Tail(q)[i] = q[i + 1]
  BY <1>1
<1>6. /\ Append(done, m.req) \in Seq(Nat) /\ Len(Append(done, m.req)) = Len(done) + 1
      /\ Append(done, m.req)[Len(done) + 1] = m.req
      /\ \A i \in 1 .. Len(done) : Append(done, m.req)[i] = done[i]
  BY <1>2, <1>4
<1>7. /\ channel' \in [Shards -> Seq(Queueable)] /\ channel'[s] = Tail(q)
      /\ \A y \in Shards : y # s => channel'[y] = channel[y]
  BY <1>3, <1>5 DEF Types
<1>8. /\ executed' \in [Clients -> [Shards -> Seq(Nat)]]
      /\ executed'[c][s] = Append(done, m.req)
      /\ \A x \in Clients, y \in Shards : <<x, y>> # <<c, s>> => executed'[x][y] = executed[x][y]
  BY <1>2, <1>3, <1>6 DEF Types
<1>9. Types'
  BY <1>3, <1>7, <1>8 DEF Types
<1>10. \A x \in Clients : Req(x) \in Nat /\ Req(x)' = Req(x)
  BY <1>3 DEF Req, Types
<1>11. Pending(c, s, m.req)
  BY <1>1 DEF Pending, m, c, q
\* What is left was in the channel, and was asked after what is executed.
<1>12. \A x \in Clients, y \in Shards, n \in Nat :
         Pending(x, y, n)' => Pending(x, y, n) /\ (<<x, y>> = <<c, s>> => m.req < n)
  <2> SUFFICES ASSUME NEW x \in Clients, NEW y \in Shards, NEW n \in Nat, Pending(x, y, n)'
               PROVE  Pending(x, y, n) /\ (<<x, y>> = <<c, s>> => m.req < n)
    OBVIOUS
  <2>1. CASE y # s
    BY <1>7, <2>1 DEF Pending
  <2>2. CASE y = s
    <3>1. PICK i \in 1 .. Len(Tail(q)) : Tail(q)[i].client = x /\ Tail(q)[i].req = n
      BY <1>7, <2>2 DEF Pending
    <3>2. i + 1 \in 1 .. Len(q) /\ q[i + 1].client = x /\ q[i + 1].req = n /\ 1 < i + 1
      BY <1>1, <1>5, <3>1
    <3>3. Pending(x, y, n)
      BY <2>2, <3>2 DEF Pending, q
    <3>4. x = c => m.req < n
      BY <1>1, <3>2 DEF QueueOrder, m, c, q
    <3> QED
      BY <3>3, <3>4
  <2> QED
    BY <2>1, <2>2
<1>13. \A x \in Clients, y \in Shards, n \in Nat :
         Done(x, y, n)' => Done(x, y, n) \/ (<<x, y>> = <<c, s>> /\ n = m.req)
  <2> SUFFICES ASSUME NEW x \in Clients, NEW y \in Shards, NEW n \in Nat, Done(x, y, n)'
               PROVE  Done(x, y, n) \/ (<<x, y>> = <<c, s>> /\ n = m.req)
    OBVIOUS
  <2>1. CASE <<x, y>> # <<c, s>>
    BY <1>8, <2>1 DEF Done
  <2>2. CASE <<x, y>> = <<c, s>>
    <3>1. PICK i \in 1 .. Len(done) + 1 : Append(done, m.req)[i] = n
      BY <1>6, <1>8, <2>2 DEF Done
    <3>2. CASE i \in 1 .. Len(done)
      BY <1>6, <2>2, <3>1, <3>2 DEF Done, done
    <3>3. CASE i = Len(done) + 1
      BY <1>6, <2>2, <3>1, <3>3
    <3> QED
      BY <1>4, <3>2, <3>3
  <2> QED
    BY <2>1, <2>2
<1>14. QueueOrder'
  <2> SUFFICES ASSUME NEW y \in Shards, NEW i \in 1 .. Len(channel'[y]),
                      NEW j \in 1 .. Len(channel'[y]), i < j,
                      channel'[y][i].client = channel'[y][j].client
               PROVE  channel'[y][i].req < channel'[y][j].req
    BY DEF QueueOrder
  <2>1. CASE y # s
    BY <1>7, <2>1 DEF QueueOrder
  <2>2. CASE y = s
    <3>1. /\ i + 1 \in 1 .. Len(q) /\ j + 1 \in 1 .. Len(q)
          /\ channel'[y][i] = q[i + 1] /\ channel'[y][j] = q[j + 1]
      <4>1. channel'[y] = Tail(q) /\ i \in 1 .. Len(q) - 1 /\ j \in 1 .. Len(q) - 1
        BY <1>5, <1>7, <2>2
      <4> QED
        BY <1>1, <1>5, <4>1
    <3> QED
      BY <3>1 DEF QueueOrder, q
  <2> QED
    BY <2>1, <2>2
<1>15. SessionOrder'
  <2> SUFFICES ASSUME NEW x \in Clients, NEW y \in Shards,
                      NEW i \in 1 .. Len(executed'[x][y]),
                      NEW j \in 1 .. Len(executed'[x][y]), i < j
               PROVE  executed'[x][y][i] < executed'[x][y][j]
    BY DEF SessionOrder
  <2>1. CASE <<x, y>> # <<c, s>>
    BY <1>8, <2>1 DEF SessionOrder
  <2>2. CASE <<x, y>> = <<c, s>>
    <3>0. executed'[x][y] = Append(done, m.req) /\ j \in 1 .. Len(done) + 1
      BY <1>6, <1>8, <2>2
    <3>1. i \in 1 .. Len(done) /\ executed'[x][y][i] = done[i] /\ done[i] \in Nat
      <4>1. i \in 1 .. Len(done)
        BY <1>4, <3>0
      <4> QED
        BY <1>4, <1>6, <3>0, <4>1
    <3>2. CASE j \in 1 .. Len(done)
      <4>1. executed'[x][y][j] = done[j]
        BY <1>6, <3>0, <3>2
      <4> QED
        BY <1>2, <3>1, <3>2, <4>1 DEF SessionOrder, done
    <3>3. CASE j = Len(done) + 1
      <4>1. Done(c, s, done[i])
        BY <3>1 DEF Done, done
      <4> QED
        BY <1>2, <1>6, <1>8, <1>11, <2>2, <3>1, <3>3, <4>1
    <3> QED
      BY <1>4, <1>6, <1>8, <2>2, <3>2, <3>3
  <2> QED
    BY <2>1, <2>2
<1>16. \A x \in Clients, y \in Shards, n \in Nat :
         Pending(x, y, n)' \/ Done(x, y, n)' => n \in 1 .. Req(x)'
  BY <1>2, <1>10, <1>11, <1>12, <1>13
<1>17. \A x \in Clients, y \in Shards, k \in Nat, n \in Nat :
         Done(x, y, k)' /\ Pending(x, y, n)' => k < n
  BY <1>12, <1>13
<1>18. \A x \in Clients, y \in Shards :
         current'[x] # None /\ part'[x][y] \in NotSent
           => ~Pending(x, y, Req(x))' /\ ~Done(x, y, Req(x))'
  <2> SUFFICES ASSUME NEW x \in Clients, NEW y \in Shards,
                      current[x] # None, part[x][y] \in NotSent
               PROVE  ~Pending(x, y, Req(x))' /\ ~Done(x, y, Req(x))'
    BY <1>3
  <2>1. ~Pending(x, y, Req(x)) /\ ~Done(x, y, Req(x))
    OBVIOUS
  <2>2. PICK n \in Nat : n = Req(x) /\ n = Req(x)'
    BY <1>10
  <2>3. ~Pending(x, y, n) /\ ~Done(x, y, n)
    BY <2>1, <2>2
  <2>4. <<x, y>> = <<c, s>> => n # m.req
    BY <1>11, <2>3
  <2>5. ~Pending(x, y, n)' /\ ~Done(x, y, n)'
    BY <1>12, <1>13, <2>3, <2>4
  <2> QED
    BY <2>2, <2>5 DEF Pending, Done
<1>19. \A x \in Clients, y \in Shards : part'[x][y] = Sending => current'[x] # None
  BY <1>3
<1>20. \A x \in Clients : current'[x] # None => Req(x)' > 0
  BY <1>3, <1>10
<1>21. NothingElseSent
  BY <1>11, <1>12, <1>13 DEF NothingElseSent
<1> QED
  BY <1>9, <1>14, <1>15, <1>16, <1>17, <1>18, <1>19, <1>20, <1>21, Zenon

\* A worker that is lost executes nothing.
LEMMA PanicOrder ==
    ASSUME OrderInv, NEW s \in Shards, WorkerPanics(s)
    PROVE  OrderInv' /\ NothingElseSent
<1> USE DEF OrderInv
<1>1. UNCHANGED <<issued, current, part, answers, executed>>
  BY DEF WorkerPanics
<1>2. /\ channel' \in [Shards -> Seq(Queueable)] /\ channel'[s] = << >>
      /\ \A y \in Shards : y # s => channel'[y] = channel[y]
  BY DEF WorkerPanics, Types
<1>3. Types'
  BY <1>1, <1>2 DEF Types
<1>4. \A x \in Clients : Req(x)' = Req(x) /\ Req(x) \in Nat
  BY <1>1 DEF Req, Types
<1>5. /\ \A x \in Clients, y \in Shards, n \in Nat : Pending(x, y, n)' => Pending(x, y, n)
      /\ \A x \in Clients, y \in Shards, n \in Nat : Done(x, y, n)' <=> Done(x, y, n)
  BY <1>1, <1>2 DEF Pending, Done
<1>6. QueueOrder'
  <2> SUFFICES ASSUME NEW y \in Shards, NEW i \in 1 .. Len(channel'[y]),
                      NEW j \in 1 .. Len(channel'[y]), i < j,
                      channel'[y][i].client = channel'[y][j].client
               PROVE  channel'[y][i].req < channel'[y][j].req
    BY DEF QueueOrder
  <2>1. y # s
    BY <1>2
  <2> QED
    BY <1>2, <2>1 DEF QueueOrder
<1>7. SessionOrder'
  BY <1>1 DEF SessionOrder
<1>8. \A x \in Clients, y \in Shards, n \in Nat :
        Pending(x, y, n)' \/ Done(x, y, n)' => n \in 1 .. Req(x)'
  BY <1>4, <1>5
<1>9. \A x \in Clients, y \in Shards, k \in Nat, n \in Nat :
        Done(x, y, k)' /\ Pending(x, y, n)' => k < n
  BY <1>5
<1>10. \A x \in Clients, y \in Shards :
         current'[x] # None /\ part'[x][y] \in NotSent
           => ~Pending(x, y, Req(x))' /\ ~Done(x, y, Req(x))'
  <2> SUFFICES ASSUME NEW x \in Clients, NEW y \in Shards,
                      current[x] # None, part[x][y] \in NotSent
               PROVE  ~Pending(x, y, Req(x))' /\ ~Done(x, y, Req(x))'
    BY <1>1
  <2>1. ~Pending(x, y, Req(x)) /\ ~Done(x, y, Req(x))
    OBVIOUS
  <2>2. PICK n \in Nat : n = Req(x) /\ n = Req(x)'
    BY <1>4
  <2>3. ~Pending(x, y, n)' /\ ~Done(x, y, n)'
    BY <1>5, <2>1, <2>2
  <2> QED
    BY <2>2, <2>3 DEF Pending, Done
<1>11. \A x \in Clients, y \in Shards : part'[x][y] = Sending => current'[x] # None
  BY <1>1
<1>12. \A x \in Clients : current'[x] # None => Req(x)' > 0
  BY <1>1, <1>4
<1>13. NothingElseSent
  BY <1>5 DEF NothingElseSent
<1> QED
  BY <1>3, <1>6, <1>7, <1>8, <1>9, <1>10, <1>11, <1>12, <1>13

\* The outcomes of a part that are no message.
LEMMA OutcomeOrder ==
    ASSUME OrderInv, NEW c \in Clients, NEW s \in Shards, PartStep(c, s)
    PROVE  OrderInv'
<1> USE DEF PartStep
<1>1. CASE Send(c, s)
  BY <1>1, SendOrder
<1>2. CASE SendClosed(c, s) \/ SendTimeout(c, s)
  <2>1. PICK e \in SendErrors :
          /\ SetPart(c, s, <<"Error", e>>) /\ part[c][s] = Sending
          /\ UNCHANGED <<channel, executed, issued, current, answers>>
    BY <1>2 DEF SendClosed, SendTimeout, SendErrors
  <2>2. <<"Error", e>> \in Parts /\ <<"Error", e>> # Sending
    BY DEF Parts, PartErrors, Sending
  <2>3. Sending \in NotSent
    BY DEF NotSent
  <2> QED
    BY <2>1, <2>2, <2>3, PartOnly
<1>3. CASE ReplyArrives(c, s)
  <2>1. PICK r \in Replies :
          SetPart(c, s, r) /\ UNCHANGED <<channel, executed, issued, current, answers>>
    BY <1>3 DEF ReplyArrives
  <2>2. r \in Parts /\ r \notin NotSent /\ r # Sending
    BY SentIsKnown DEF Parts
  <2> QED
    BY <2>1, <2>2, PartOnly
<1>4. CASE Disconnected(c, s) \/ ReplyTimeout(c, s)
  <2>1. PICK e \in ReplyErrors :
          /\ SetPart(c, s, <<"Error", e>>)
          /\ UNCHANGED <<channel, executed, issued, current, answers>>
    BY <1>4 DEF Disconnected, ReplyTimeout, ReplyErrors
  <2>2. <<"Error", e>> \in Parts /\ <<"Error", e>> # Sending /\ <<"Error", e>> \notin NotSent
    BY SentIsKnown DEF Parts, PartErrors, Sending, ReplyErrors
  <2> QED
    BY <2>1, <2>2, PartOnly
<1> QED
  BY <1>1, <1>2, <1>3, <1>4

\* Every step keeps the order.
LEMMA OrderStep == OrderInv /\ [Next]_vars => OrderInv'
<1> SUFFICES ASSUME OrderInv, [Next]_vars PROVE OrderInv'
  OBVIOUS
<1>1. ASSUME NEW c \in Clients, NEW cmd \in Commands[c], Issue(c, cmd) PROVE OrderInv'
  BY <1>1, IssueOrder
<1>2. ASSUME NEW c \in Clients, NEW s \in Shards, PartStep(c, s) PROVE OrderInv'
  BY <1>2, OutcomeOrder
<1>3. ASSUME NEW c \in Clients, Respond(c) PROVE OrderInv'
  BY <1>3, RespondOrder
<1>4. ASSUME NEW s \in Shards, Execute(s) PROVE OrderInv'
  BY <1>4, ExecuteOrder
<1>5. ASSUME NEW s \in Shards, WorkerPanics(s) PROVE OrderInv'
  BY <1>5, PanicOrder
<1>6. CASE UNCHANGED vars
  BY <1>6 DEF OrderInv, Types, QueueOrder, SessionOrder, Pending, Done, Req
<1> QED
  BY <1>1, <1>2, <1>3, <1>4, <1>5, <1>6 DEF Next

\* A shard executes what one connection asked of it in the order the
\* connection asked, and nothing twice, however many commands the connection
\* has given up waiting for (handler.rs's timeouts around send and reply).
THEOREM DispatchInOrder == Spec => []SessionOrder
<1>1. OrderInv => SessionOrder
  BY DEF OrderInv
<1> QED
  BY <1>1, OrderInit, OrderStep, PTL DEF Spec
-----------------------------------------------------------------------------
(***************************************************************************)
(* Refusals.                                                               *)
(***************************************************************************)
\* A command has parts on its own shards only.
OwnParts ==
    \A c \in Clients : current[c] # None =>
      \A s \in Shards : s \notin ShardsOf(current[c]) => part[c][s] = Unused

\* The refused requests are over, and no shard has them or has had them.
RefusedKept ==
    \A c \in Clients, n \in Requests : answers[c][n] \in Refusals =>
      /\ n \in Nat /\ n <= Req(c) /\ (current[c] # None => n < Req(c))
      /\ \A s \in Shards : ~Pending(c, s, n) /\ ~Done(c, s, n)

\* What DispatchRefused rests on.
RefusalInv == OrderInv /\ OwnParts /\ RefusedKept

\* Nothing has been refused at the start.
LEMMA RefusalInit == Init => RefusalInv
<1> SUFFICES ASSUME Init PROVE RefusalInv
  OBVIOUS
<1>1. OwnParts
  BY DEF Init, OwnParts
<1>2. \A c \in Clients, n \in Requests : answers[c][n] = Unused /\ Unused \notin Refusals
  BY DEF Init, Unused, Refusals
<1> QED
  BY <1>1, <1>2, OrderInit DEF RefusalInv, RefusedKept

\* The steps that answer nothing and issue nothing.
LEMMA RefusedStay ==
    ASSUME RefusalInv, NothingElseSent, UNCHANGED <<issued, current, answers>>
    PROVE  RefusedKept'
<1> SUFFICES ASSUME NEW c \in Clients, NEW n \in Requests, answers[c][n] \in Refusals
             PROVE  /\ n \in Nat /\ n <= Req(c)' /\ (current'[c] # None => n < Req(c)')
                    /\ \A s \in Shards : ~Pending(c, s, n)' /\ ~Done(c, s, n)'
  BY DEF RefusedKept
<1>1. /\ n \in Nat /\ n <= Req(c) /\ (current[c] # None => n < Req(c))
      /\ \A s \in Shards : ~Pending(c, s, n) /\ ~Done(c, s, n)
  BY DEF RefusalInv, RefusedKept
<1>2. Req(c)' = Req(c) /\ Req(c) \in Nat
  BY DEF Req, RefusalInv, OrderInv, Types
<1> QED
  BY <1>1, <1>2 DEF NothingElseSent

\* Where no channel changes nothing was sent.
LEMMA UnmovedSendsNothing ==
    UNCHANGED <<channel, executed>> => NothingElseSent
BY Unmoved DEF NothingElseSent

\* A part on its way concerns no request that is over.
LEMMA PartStepRefusal ==
    ASSUME RefusalInv, NEW c \in Clients, NEW s \in Shards, PartStep(c, s)
    PROVE  RefusalInv'
<1>1. OrderInv'
  BY OutcomeOrder DEF RefusalInv
<1>2. /\ UNCHANGED <<issued, current, answers>> /\ part[c][s] # Unused
      /\ \E p : SetPart(c, s, p)
  BY DEF PartStep, Send, SendClosed, SendTimeout, ReplyArrives, Disconnected, ReplyTimeout,
         Unused, Sending, Awaiting
<1>3. NothingElseSent
  <2>1. CASE Send(c, s)
    BY <2>1, SendOrder DEF RefusalInv
  <2>2. CASE ~Send(c, s)
    <3>1. UNCHANGED <<channel, executed>>
      BY <2>2 DEF PartStep, SendClosed, SendTimeout, ReplyArrives, Disconnected, ReplyTimeout
    <3> QED
      BY <3>1, UnmovedSendsNothing
  <2> QED
    BY <2>1, <2>2
<1>4. RefusedKept'
  BY <1>2, <1>3, RefusedStay
<1>5. OwnParts'
  <2> SUFFICES ASSUME NEW x \in Clients, current[x] # None,
                      NEW y \in Shards, y \notin ShardsOf(current[x])
               PROVE  part'[x][y] = Unused
    BY <1>2 DEF OwnParts, ShardsOf
  <2>1. part[x][y] = Unused
    BY DEF RefusalInv, OwnParts
  <2>2. part'[x][y] = part[x][y]
    BY <1>2, <2>1 DEF SetPart, RefusalInv, OrderInv, Types
  <2> QED
    BY <2>1, <2>2
<1> QED
  BY <1>1, <1>4, <1>5 DEF RefusalInv

\* A new command has not been refused.
LEMMA IssueRefusal ==
    ASSUME RefusalInv, NEW c \in Clients, NEW cmd \in Commands[c], Issue(c, cmd)
    PROVE  RefusalInv'
<1>1. OrderInv' /\ Types
  BY IssueOrder DEF RefusalInv, OrderInv
<1>2. UNCHANGED <<channel, executed, answers>>
  BY DEF Issue
<1>3. /\ \A x \in Clients : Req(x) \in Nat
      /\ Req(c)' = Req(c) + 1 /\ current'[c] = cmd
      /\ \A x \in Clients : x # c => Req(x)' = Req(x) /\ current'[x] = current[x]
  <2>1. cmd \in AllCommands
    BY DEF AllCommands
  <2> QED
    BY <1>1, <2>1 DEF Issue, Types, Req
<1>4. OwnParts'
  <2> SUFFICES ASSUME NEW x \in Clients, current'[x] # None,
                      NEW y \in Shards, y \notin ShardsOf(current'[x])
               PROVE  part'[x][y] = Unused
    BY DEF OwnParts, ShardsOf
  <2>1. CASE x = c
    BY <1>1, <1>3, <2>1 DEF Issue, Types
  <2>2. CASE x # c
    BY <1>1, <1>3, <2>2 DEF Issue, Types, RefusalInv, OwnParts
  <2> QED
    BY <2>1, <2>2
<1>5. RefusedKept'
  <2> SUFFICES ASSUME NEW x \in Clients, NEW n \in Requests, answers[x][n] \in Refusals
               PROVE  /\ n \in Nat /\ n <= Req(x)' /\ (current'[x] # None => n < Req(x)')
                      /\ \A s \in Shards : ~Pending(x, s, n)' /\ ~Done(x, s, n)'
    BY <1>2 DEF RefusedKept
  <2>1. /\ n \in Nat /\ n <= Req(x) /\ (current[x] # None => n < Req(x))
        /\ \A s \in Shards : ~Pending(x, s, n) /\ ~Done(x, s, n)
    BY DEF RefusalInv, RefusedKept
  <2>2. \A s \in Shards : ~Pending(x, s, n)' /\ ~Done(x, s, n)'
    BY <1>2, <2>1, Unmoved
  <2> QED
    BY <1>3, <2>1, <2>2
<1> QED
  BY <1>1, <1>4, <1>5 DEF RefusalInv

\* A refusal is the answer to a command with one part, which was not sent.
LEMMA RefusedWhole ==
    ASSUME RefusalInv, NEW c \in Clients, current[c] # None,
           Combine(current[c], part[c]) \in Refusals
    PROVE  \A s \in Shards : part[c][s] \in NotSent
<1> DEFINE cmd == current[c]
<1>1. cmd \in AllCommands
  BY DEF RefusalInv, OrderInv, Types
<1>2. cmd.op # "del"
  <2> SUFFICES ASSUME cmd.op = "del" PROVE FALSE
    OBVIOUS
  <2>1. \/ Combine(cmd, part[c]) = <<"Error", "partial failure">>
        \/ Combine(cmd, part[c]) = <<"Integer", Total(part[c], ShardsOf(cmd))>>
    BY DEF Combine
  <2>2. \A r \in Refusals : r[1] = "Error" /\ r[2] \in {"closed", "overloaded"}
    BY DEF Refusals, SendErrors
  <2>3. <<"Error", "partial failure">> \notin Refusals
    BY <2>2
  <2>4. <<"Integer", Total(part[c], ShardsOf(cmd))>> \notin Refusals
    BY <2>2
  <2> QED
    BY <2>1, <2>3, <2>4
<1>3. PICK k : cmd.keys = {k} /\ k \in Keys
  <2>1. cmd.keys \in SUBSET Keys /\ Cardinality(cmd.keys) = 1 /\ cmd.keys # {}
    BY <1>1, <1>2, CommandFacts
  <2>2. PICK k \in cmd.keys : TRUE
    BY <2>1
  <2>3. cmd.keys = {k}
    BY <1>1, <2>1, <2>2, CommandFacts, OneElement
  <2> QED
    BY <2>1, <2>3
<1>4. RouteKey[k] \in Shards /\ ShardsOf(cmd) = {RouteKey[k]}
  BY <1>3, DispatchAssumption DEF ShardsOf
<1>5. Combine(cmd, part[c]) = part[c][RouteKey[k]]
  BY <1>2, <1>4 DEF Combine
<1>6. \A s \in Shards : s # RouteKey[k] => part[c][s] = Unused
  BY <1>4 DEF RefusalInv, OwnParts
<1> QED
  BY <1>5, <1>6 DEF NotSent

\* A refusal answers a command whose only part was never sent.
LEMMA RespondRefusal ==
    ASSUME RefusalInv, NEW c \in Clients, Respond(c)
    PROVE  RefusalInv'
<1>1. OrderInv' /\ OrderInv /\ Types
  BY RespondOrder DEF RefusalInv, OrderInv
<1>2. UNCHANGED <<channel, executed, issued>> /\ current[c] # None
  BY DEF Respond
<1>3. /\ current'[c] = None
      /\ \A x \in Clients : x # c => current'[x] = current[x] /\ part'[x] = part[x]
  BY <1>1 DEF Respond, Types
<1>4. /\ \A n \in Requests : n # Req(c) => answers'[c][n] = answers[c][n]
      /\ Req(c) \in Requests => answers'[c][Req(c)] = Combine(current[c], part[c])
      /\ \A x \in Clients : x # c => answers'[x] = answers[x]
  BY <1>1 DEF Respond, Types
<1>5. \A x \in Clients : Req(x)' = Req(x) /\ Req(x) \in Nat
  BY <1>1, <1>2 DEF Req, Types
<1>6. OwnParts'
  BY <1>3 DEF OwnParts, ShardsOf, RefusalInv
<1>7. RefusedKept'
  <2> SUFFICES ASSUME NEW x \in Clients, NEW n \in Requests, answers'[x][n] \in Refusals
               PROVE  /\ n \in Nat /\ n <= Req(x) /\ (current'[x] # None => n < Req(x))
                      /\ \A s \in Shards : ~Pending(x, s, n)' /\ ~Done(x, s, n)'
    BY <1>5 DEF RefusedKept
  <2>1. CASE x = c /\ n = Req(c)
    <3>1. \A s \in Shards : part[c][s] \in NotSent
      BY <1>2, <1>4, <2>1, RefusedWhole
    <3>2. \A s \in Shards : ~Pending(c, s, Req(c)) /\ ~Done(c, s, Req(c))
      BY <1>1, <1>2, <3>1 DEF OrderInv
    <3>3. PICK k \in Nat : k = Req(c)
      BY <1>5
    <3>4. \A s \in Shards : ~Pending(x, s, n)' /\ ~Done(x, s, n)'
      BY <1>2, <2>1, <3>2, <3>3, Unmoved
    <3> QED
      BY <1>3, <1>5, <2>1, <3>4
  <2>2. CASE ~(x = c /\ n = Req(c))
    <3>1. answers[x][n] \in Refusals
      BY <1>4, <2>2
    <3>2. /\ n \in Nat /\ n <= Req(x) /\ (current[x] # None => n < Req(x))
          /\ \A s \in Shards : ~Pending(x, s, n) /\ ~Done(x, s, n)
      BY <3>1 DEF RefusalInv, RefusedKept
    <3>3. \A s \in Shards : ~Pending(x, s, n)' /\ ~Done(x, s, n)'
      BY <1>2, <3>2, Unmoved
    <3> QED
      BY <1>3, <3>2, <3>3
  <2> QED
    BY <2>1, <2>2
<1> QED
  BY <1>1, <1>6, <1>7 DEF RefusalInv

\* A worker executes nothing that was refused.
LEMMA WorkerRefusal ==
    ASSUME RefusalInv, NEW s \in Shards, Execute(s) \/ WorkerPanics(s)
    PROVE  RefusalInv'
<1>1. OrderInv' /\ NothingElseSent
  <2>1. OrderInv
    BY DEF RefusalInv
  <2>2. CASE Execute(s)
    BY <2>1, <2>2, ExecuteOrder
  <2>3. CASE WorkerPanics(s)
    BY <2>1, <2>3, PanicOrder
  <2> QED
    BY <2>2, <2>3
<1>2. UNCHANGED <<issued, current, answers, part>>
  BY Zenon DEF Execute, WorkerPanics
<1>3. RefusedKept'
  BY <1>1, <1>2, RefusedStay
<1>4. OwnParts'
  BY <1>2 DEF OwnParts, ShardsOf, RefusalInv
<1> QED
  BY <1>1, <1>3, <1>4 DEF RefusalInv

\* Every step keeps refused requests from being executed.
LEMMA RefusalStep == RefusalInv /\ [Next]_vars => RefusalInv'
<1> SUFFICES ASSUME RefusalInv, [Next]_vars PROVE RefusalInv'
  OBVIOUS
<1>1. ASSUME NEW c \in Clients, NEW cmd \in Commands[c], Issue(c, cmd) PROVE RefusalInv'
  BY <1>1, IssueRefusal
<1>2. ASSUME NEW c \in Clients, NEW s \in Shards, PartStep(c, s) PROVE RefusalInv'
  BY <1>2, PartStepRefusal
<1>3. ASSUME NEW c \in Clients, Respond(c) PROVE RefusalInv'
  BY <1>3, RespondRefusal
<1>4. ASSUME NEW s \in Shards, Execute(s) \/ WorkerPanics(s) PROVE RefusalInv'
  BY <1>4, WorkerRefusal
<1>5. CASE UNCHANGED vars
  <2>1. OrderInv'
    BY <1>5, OrderStep DEF RefusalInv
  <2>2. OwnParts' /\ RefusedKept'
    BY <1>5 DEF RefusalInv, OwnParts, ShardsOf, RefusedKept, Pending, Done, Req
  <2> QED
    BY <2>1, <2>2 DEF RefusalInv
<1> QED
  BY <1>1, <1>2, <1>3, <1>4, <1>5 DEF Next

\* What is refused with "shard channel closed" or "shard overloaded"
\* (send_to_shard's errors before the message is in the channel) is never
\* executed, so the client may send it again.
THEOREM DispatchRefused == Spec => []RefusedNeverExecuted
<1>1. RefusalInv => RefusedNeverExecuted
  <2> SUFFICES ASSUME RefusalInv, NEW c \in Clients, NEW n \in Requests,
                      answers[c][n] \in Refusals
               PROVE  ExecutedOn(c, n) = {}
    BY DEF RefusedNeverExecuted, Refusals
  <2>1. \A s \in Shards : ~Done(c, s, n)
    BY DEF RefusalInv, RefusedKept
  <2> QED
    BY <2>1 DEF ExecutedOn, Done
<1> QED
  BY <1>1, RefusalInit, RefusalStep, PTL DEF Spec
-----------------------------------------------------------------------------
(***************************************************************************)
(* Answers.                                                                *)
(***************************************************************************)
\* What a shard may reply to an operation.
KindOf(op) ==
    CASE op = "set" -> {<<"Ok">>}
      [] op = "get" -> {"Value"} \X BOOLEAN
      [] op = "del" -> {"Integer"} \X Nat

\* A message is the part on that shard of the command its connection issued.
MessagesFit ==
    \A s \in Shards : \A i \in 1 .. Len(channel[s]) :
      LET m == channel[s][i]
          cmd == issued[m.client][m.req]
      IN  s \in ShardsOf(cmd) /\ m.op = cmd.op /\ m.keys = KeysOn(cmd, s)

\* A shard executes parts of its own, and replies to them in kind.
ResultsFit ==
    \A c \in Clients, s \in Shards, n \in Requests : Done(c, s, n) =>
      s \in ShardsOf(issued[c][n]) /\ result[c][n][s] \in KindOf(issued[c][n].op)

\* The reply that waits for a request is what its shard made of it.
RepliesFit ==
    \A c \in Clients, n \in Requests, s \in Shards : oneshot[c][n][s] \in Replies =>
      Done(c, s, n) /\ oneshot[c][n][s] = result[c][n][s]

\* So is the reply a part of the command in progress has received.
PartFits(c, s) ==
    /\ part[c][s] # Unused
    /\ part[c][s] \in Replies => Done(c, s, Req(c)) /\ part[c][s] = result[c][Req(c)][s]

\* The parts of every command in progress fit it.
PartsFit ==
    \A c \in Clients : current[c] # None =>
      /\ issued[c][Req(c)] = current[c]
      /\ \A s \in ShardsOf(current[c]) : PartFits(c, s)

\* The answer to a command all of whose parts were executed.
AnswerTo(cmd, replies) ==
    IF cmd.op = "del" THEN <<"Integer", Total(replies, ShardsOf(cmd))>>
                      ELSE replies[CHOOSE s \in ShardsOf(cmd) : TRUE]

\* Every answer given is one to the command it answers.
AnswersFit ==
    \A c \in Clients, n \in Requests : answers[c][n] \in Replies =>
      /\ n <= Req(c)
      /\ \A s \in ShardsOf(issued[c][n]) : Done(c, s, n)
      /\ answers[c][n] = AnswerTo(issued[c][n], result[c][n])

\* From types to answers: what AnswersOwn rests on.
AnswerInv == TypeOK /\ MessagesFit /\ ResultsFit /\ RepliesFit /\ PartsFit /\ AnswersFit

\* The bound on the number of requests is that of some connection.
LEMMA RequestsCover ==
    /\ Requests \subseteq Nat \ {0}
    /\ \A c \in Clients : \A n \in 1 .. MaxRequests[c] : n \in Requests
<1> DEFINE M == {MaxRequests[c] : c \in Clients}
<1>1. M \in SUBSET Nat /\ M # {} /\ \A c \in Clients : MaxRequests[c] \in M
  BY DispatchAssumption
<1>2. IsFiniteSet(M)
  BY ImageIsFinite, DispatchAssumption
<1> HIDE DEF M
<1>3. Max(M) \in Nat /\ \A x \in M : x <= Max(M)
  BY <1>1, <1>2, MaxIsUpper
<1>4. Requests = 1 .. Max(M)
  BY DEF Requests, M
<1>5. \A c \in Clients : MaxRequests[c] \in Nat /\ MaxRequests[c] <= Max(M)
  BY <1>1, <1>3
<1> QED
  BY <1>3, <1>4, <1>5

\* A command has finitely many parts, at least one, each on a shard and
\* about finitely many keys.
LEMMA PartsOfCommand ==
    ASSUME NEW cmd \in AllCommands
    PROVE  /\ IsFiniteSet(ShardsOf(cmd)) /\ ShardsOf(cmd) # {} /\ ShardsOf(cmd) \subseteq Shards
           /\ \A s \in Shards : KeysOn(cmd, s) \subseteq Keys /\ IsFiniteSet(KeysOn(cmd, s))
<1>1. cmd.keys \in SUBSET Keys /\ cmd.keys # {} /\ IsFiniteSet(cmd.keys)
  BY CommandFacts
<1>2. IsFiniteSet(ShardsOf(cmd))
  BY <1>1, ImageIsFinite DEF ShardsOf
<1>3. ShardsOf(cmd) # {} /\ ShardsOf(cmd) \subseteq Shards
  BY <1>1, DispatchAssumption DEF ShardsOf
<1>4. \A s \in Shards : KeysOn(cmd, s) \subseteq cmd.keys
  BY DEF KeysOn
<1> QED
  BY <1>1, <1>2, <1>3, <1>4, FS_Subset

\* Replies are told from everything else a part or a reply channel may be.
LEMMA RepliesApart ==
    /\ \A r \in Replies : /\ r \notin {Unused, Sending, Awaiting, Gone, Dropped}
                          /\ r \notin PartErrors /\ ~IsError(r)
                          /\ r # <<"Error", "partial failure">>
    /\ \A e \in PartErrors : IsError(e)
    /\ Unused # Sending /\ Unused # Awaiting /\ Sending # Awaiting
    /\ Sending \notin PartErrors /\ Awaiting \notin PartErrors /\ Unused \notin PartErrors
<1>1. \A r \in Replies : r[1] \in {"Ok", "Value", "Integer"}
  BY DEF Replies
<1>2. \A e \in PartErrors : e[1] = "Error"
  BY DEF PartErrors
<1>3. \A r \in {Unused, Sending, Awaiting, Gone, Dropped} :
        r[1] \in {"unused", "sending", "awaiting", "gone", "dropped"}
  BY DEF Unused, Sending, Awaiting, Gone, Dropped
<1>4. Unused[1] = "unused" /\ Sending[1] = "sending" /\ Awaiting[1] = "awaiting"
  BY DEF Unused, Sending, Awaiting
<1>5. \A e \in PartErrors : IsError(e)
  BY <1>2 DEF IsError
<1>6. Sending \notin PartErrors /\ Awaiting \notin PartErrors /\ Unused \notin PartErrors
  BY <1>2, <1>4
<1>7. <<"Error", "partial failure">>[1] = "Error"
  OBVIOUS
<1>8. ASSUME NEW r \in Replies
      PROVE  /\ r \notin {Unused, Sending, Awaiting, Gone, Dropped}
             /\ r \notin PartErrors /\ ~IsError(r) /\ r # <<"Error", "partial failure">>
  <2>1. r[1] # "Error" /\ r[1] \notin {"unused", "sending", "awaiting", "gone", "dropped"}
    BY <1>1
  <2>2. r \notin PartErrors /\ ~IsError(r)
    BY <1>2, <2>1 DEF IsError
  <2>3. r # <<"Error", "partial failure">>
    BY <1>7, <2>1
  <2> QED
    BY <1>3, <2>1, <2>2, <2>3
<1> QED
  BY <1>4, <1>5, <1>6, <1>8

\* What a shard may reply to an operation is a reply.
LEMMA KindsAreReplies ==
    /\ \A op \in Ops : KindOf(op) \subseteq Replies
    /\ \A r \in KindOf("del") : r[1] = "Integer" /\ r[2] \in Nat
    /\ \A op \in Ops : op # "del" => \A r \in KindOf(op) : r[1] # "Integer"
<1>1. KindOf("set") = {<<"Ok">>} /\ KindOf("get") = {"Value"} \X BOOLEAN
      /\ KindOf("del") = {"Integer"} \X Nat
  BY DEF KindOf
<1>2. \A op \in Ops : op \in {"set", "get", "del"}
  BY DEF Ops
<1> QED
  BY <1>1, <1>2 DEF Replies

\* The first answers are none.
LEMMA AnswerInit == Init => AnswerInv
<1> SUFFICES ASSUME Init PROVE AnswerInv
  OBVIOUS
<1>1. \A c \in Clients : Req(c) = 0 /\ MaxRequests[c] >= 0
  BY DispatchAssumption DEF Init, Req
<1>2. TypeOK
  BY <1>1, DispatchAssumption DEF Init, TypeOK, Parts, Oneshots, Answers
<1>3. MessagesFit
  BY DEF Init, MessagesFit
<1>4. \A c \in Clients, s \in Shards, n \in Requests : ~Done(c, s, n)
  BY DEF Init, Done
<1>5. \A c \in Clients, n \in Requests :
        answers[c][n] \notin Replies /\ \A s \in Shards : oneshot[c][n][s] \notin Replies
  BY RepliesApart DEF Init
<1>6. PartsFit
  BY DEF Init, PartsFit
<1> QED
  BY <1>2, <1>3, <1>4, <1>5, <1>6 DEF AnswerInv, ResultsFit, RepliesFit, AnswersFit

\* The requests in progress, in the channels and executed are counted ones.
LEMMA Counted ==
    ASSUME RefusalInv, TypeOK, NEW c \in Clients
    PROVE  /\ Req(c) \in Nat
           /\ current[c] # None => Req(c) \in Requests /\ current[c] \in AllCommands
           /\ \A s \in Shards, n \in Nat : Pending(c, s, n) \/ Done(c, s, n) => n \in Requests
<1>1. Req(c) \in Nat /\ Req(c) <= MaxRequests[c] /\ MaxRequests[c] \in Nat
  BY DispatchAssumption DEF TypeOK, RefusalInv, OrderInv, Types, Req
<1>2. \A n \in 1 .. Req(c) : n \in Requests
  BY <1>1, RequestsCover
<1>3. current[c] # None => Req(c) > 0 /\ current[c] \in AllCommands
  BY DEF RefusalInv, OrderInv, Types
<1> QED
  BY <1>1, <1>2, <1>3 DEF RefusalInv, OrderInv

\* What fits stays fit while no shard executes anything.
LEMMA NothingDone ==
    ASSUME RefusalInv, AnswerInv, UNCHANGED <<executed, result>>,
           \A x \in Clients : /\ Req(x)' \in Nat /\ Req(x) <= Req(x)'
                              /\ \A n \in 1 .. Req(x) : issued'[x][n] = issued[x][n],
           \A x \in Clients, n \in Requests, y \in Shards :
             oneshot'[x][n][y] \in Replies => oneshot'[x][n][y] = oneshot[x][n][y]
    PROVE  ResultsFit' /\ RepliesFit' /\ (UNCHANGED answers => AnswersFit')
<1>1. \A x \in Clients, y \in Shards, n \in Nat : Done(x, y, n)' <=> Done(x, y, n)
  BY DEF Done
<1>2. \A x \in Clients : Req(x) \in Nat
  BY Counted DEF AnswerInv
<1>3. \A n \in Requests : n \in Nat /\ n > 0
  BY RequestsCover
<1>4. ResultsFit'
  <2> SUFFICES ASSUME NEW x \in Clients, NEW y \in Shards, NEW n \in Requests, Done(x, y, n)'
               PROVE  /\ y \in ShardsOf(issued'[x][n])
                      /\ result'[x][n][y] \in KindOf(issued'[x][n].op)
    BY DEF ResultsFit, ShardsOf
  <2>1. Done(x, y, n) /\ n \in 1 .. Req(x)
    BY <1>1, <1>3 DEF RefusalInv, OrderInv
  <2>2. issued'[x][n] = issued[x][n]
    BY <2>1
  <2> QED
    BY <2>1, <2>2 DEF AnswerInv, ResultsFit
<1>5. RepliesFit'
  <2> SUFFICES ASSUME NEW x \in Clients, NEW n \in Requests, NEW y \in Shards,
                      oneshot'[x][n][y] \in Replies
               PROVE  Done(x, y, n)' /\ oneshot'[x][n][y] = result'[x][n][y]
    BY DEF RepliesFit
  <2>1. Done(x, y, n) /\ oneshot[x][n][y] = result[x][n][y]
    BY DEF AnswerInv, RepliesFit
  <2> QED
    BY <1>1, <1>3, <2>1
<1>6. ASSUME UNCHANGED answers PROVE AnswersFit'
  <2> SUFFICES ASSUME NEW x \in Clients, NEW n \in Requests, answers[x][n] \in Replies
               PROVE  /\ n <= Req(x)'
                      /\ \A y \in ShardsOf(issued'[x][n]) : Done(x, y, n)'
                      /\ answers[x][n] = AnswerTo(issued'[x][n], result'[x][n])
    BY <1>6 DEF AnswersFit, ShardsOf, AnswerTo, Total
  <2>1. /\ n <= Req(x) /\ \A y \in ShardsOf(issued[x][n]) : Done(x, y, n)
        /\ answers[x][n] = AnswerTo(issued[x][n], result[x][n])
    BY DEF AnswerInv, AnswersFit
  <2>2. issued'[x][n] = issued[x][n] /\ n <= Req(x)'
    BY <1>2, <1>3, <2>1
  <2>3. \A y \in Shards : Done(x, y, n)' <=> Done(x, y, n)
    BY <1>1, <1>3
  <2>4. \A y \in ShardsOf(issued[x][n]) : Done(x, y, n)'
    BY <2>1 DEF Done
  <2> QED
    BY <2>1, <2>2, <2>4
<1> QED
  BY <1>4, <1>5, <1>6

\* So does a part that does not move, or moves to no reply.
LEMMA PartStays ==
    ASSUME UNCHANGED <<executed, result>>, NEW x \in Clients, NEW y \in Shards,
           issued'[x] = issued[x],
           \/ PartFits(x, y) /\ part'[x][y] = part[x][y]
           \/ part'[x][y] \notin Replies \cup {Unused}
    PROVE  PartFits(x, y)'
BY DEF PartFits, Done, Req

\* A part that is over: it was refused, it failed, or its reply is there.
LEMMA PartOver ==
    ASSUME RefusalInv, AnswerInv, NEW c \in Clients, NEW s \in Shards,
           NEW p \in Replies \cup PartErrors, SetPart(c, s, p),
           p \in Replies => p = Reply(c, s),
           UNCHANGED <<data, alive, channel, executed, issued, current, answers, result>>,
           oneshot' \in [Clients -> [Requests -> [Shards -> Oneshots]]],
           \A x \in Clients, n \in Requests, y \in Shards :
             oneshot'[x][n][y] \in {oneshot[x][n][y], Gone}
    PROVE  AnswerInv'
<1>1. /\ part' \in [Clients -> [Shards -> Parts]] /\ part'[c][s] = p
      /\ \A x \in Clients, y \in Shards : <<x, y>> # <<c, s>> => part'[x][y] = part[x][y]
  BY DEF SetPart, AnswerInv, TypeOK, Parts
<1>2. TypeOK'
  BY <1>1, Zenon DEF AnswerInv, TypeOK, Req
<1>3. MessagesFit'
  BY DEF AnswerInv, MessagesFit, ShardsOf, KeysOn
<1>4. \A x \in Clients : Req(x)' = Req(x) /\ Req(x) \in Nat
  BY Counted DEF Req, AnswerInv
<1>5. ResultsFit' /\ RepliesFit' /\ AnswersFit'
  <2>1. \A x \in Clients, n \in Requests, y \in Shards :
          oneshot'[x][n][y] \in Replies => oneshot'[x][n][y] = oneshot[x][n][y]
    <3>1. Gone \notin Replies
      BY RepliesApart
    <3> QED
      BY <3>1
  <2> QED
    BY <1>4, <2>1, NothingDone
<1>6. PartsFit'
  <2> SUFFICES ASSUME NEW x \in Clients, current[x] # None
               PROVE  /\ issued[x][Req(x)] = current[x]
                      /\ \A y \in ShardsOf(current[x]) : PartFits(x, y)'
    BY <1>4 DEF PartsFit, ShardsOf
  <2>1. issued[x][Req(x)] = current[x] /\ \A y \in ShardsOf(current[x]) : PartFits(x, y)
    BY DEF AnswerInv, PartsFit
  <2>2. \A y \in ShardsOf(current[x]) : y \in Shards
    BY Counted, PartsOfCommand DEF AnswerInv
  <2>3. ASSUME NEW y \in ShardsOf(current[x]), <<x, y>> # <<c, s>> PROVE PartFits(x, y)'
    BY <1>1, <2>1, <2>2, <2>3, PartStays
  <2>4. CASE x = c
    <3>1. p # Unused
      BY RepliesApart
    <3>2. p \in Replies => Done(c, s, Req(c)) /\ p = result[c][Req(c)][s]
      BY <2>4, Counted DEF AnswerInv, RepliesFit, Reply
    <3>3. PartFits(c, s)'
      BY <1>1, <3>1, <3>2 DEF PartFits, Done, Req
    <3> QED
      BY <2>1, <2>3, <2>4, <3>3
  <2> QED
    BY <2>1, <2>3, <2>4
<1> QED
  BY <1>2, <1>3, <1>5, <1>6 DEF AnswerInv

\* A message that is sent fits its command.
LEMMA SendAnswer ==
    ASSUME RefusalInv, AnswerInv, NEW c \in Clients, NEW s \in Shards, Send(c, s)
    PROVE  AnswerInv'
<1> DEFINE m == Message(c, s)
           q == channel[s]
<1>1. /\ part[c][s] = Sending /\ Len(q) < Capacity
      /\ UNCHANGED <<data, alive, executed, issued, current, answers, oneshot, result>>
      /\ channel' = [channel EXCEPT ![s] = Append(q, m)]
      /\ part' = [part EXCEPT ![c][s] = Awaiting]
  BY DEF Send, SetPart
<1>2. current[c] # None /\ current[c] \in AllCommands /\ Req(c) \in Requests
  BY <1>1, Counted DEF RefusalInv, OrderInv, AnswerInv
<1>3. s \in ShardsOf(current[c]) /\ issued[c][Req(c)] = current[c]
  BY <1>1, <1>2, RepliesApart DEF RefusalInv, OwnParts, AnswerInv, PartsFit
<1>4. /\ m \in Messages /\ m.client = c /\ m.req = Req(c)
      /\ m.op = current[c].op /\ m.keys = KeysOn(current[c], s)
  BY <1>2, CommandFacts, PartsOfCommand DEF Message, Messages
<1>5. q \in Seq(Messages) /\ Len(q) \in Nat
  BY DEF AnswerInv, TypeOK
<1> HIDE DEF m, q
<1>6. /\ Append(q, m) \in Seq(Messages) /\ Len(Append(q, m)) = Len(q) + 1
      /\ Append(q, m)[Len(q) + 1] = m
      /\ \A i \in 1 .. Len(q) : Append(q, m)[i] = q[i]
  BY <1>4, <1>5
<1>7. /\ channel' \in [Shards -> Seq(Messages)] /\ channel'[s] = Append(q, m)
      /\ \A y \in Shards : y # s => channel'[y] = channel[y]
  BY <1>1, <1>6 DEF AnswerInv, TypeOK
<1>8. /\ part' \in [Clients -> [Shards -> Parts]] /\ part'[c][s] = Awaiting
      /\ \A x \in Clients, y \in Shards : <<x, y>> # <<c, s>> => part'[x][y] = part[x][y]
  BY <1>1 DEF AnswerInv, TypeOK, Parts
<1>9. \A y \in Shards : Len(channel'[y]) <= Capacity
  <2>1. Len(channel'[s]) <= Capacity
    BY <1>1, <1>5, <1>6, <1>7, DispatchAssumption
  <2> QED
    BY <1>7, <2>1 DEF AnswerInv, TypeOK
<1>10. TypeOK'
  BY <1>1, <1>7, <1>8, <1>9 DEF AnswerInv, TypeOK, Req
<1>11. \A x \in Clients : Req(x)' = Req(x) /\ Req(x) \in Nat
  BY <1>1, Counted DEF Req, AnswerInv
<1>12. ResultsFit' /\ RepliesFit' /\ AnswersFit'
  BY <1>1, <1>11, NothingDone
<1>13. MessagesFit'
  <2> SUFFICES ASSUME NEW y \in Shards, NEW i \in 1 .. Len(channel'[y])
               PROVE  LET n == channel'[y][i]
                          cmd == issued[n.client][n.req]
                      IN  y \in ShardsOf(cmd) /\ n.op = cmd.op /\ n.keys = KeysOn(cmd, y)
    BY <1>1 DEF MessagesFit, ShardsOf, KeysOn
  <2>1. CASE y = s /\ i = Len(q) + 1
    <3>1. channel'[y][i] = m
      BY <1>6, <1>7, <2>1
    <3> QED
      BY <1>3, <1>4, <2>1, <3>1
  <2>2. CASE y = s /\ i # Len(q) + 1
    <3>1. i \in 1 .. Len(channel[y]) /\ channel'[y][i] = channel[y][i]
      BY <1>5, <1>6, <1>7, <2>2 DEF q
    <3> QED
      BY <3>1 DEF AnswerInv, MessagesFit
  <2>3. CASE y # s
    <3>1. channel'[y] = channel[y]
      BY <1>7, <2>3
    <3> QED
      BY <3>1 DEF AnswerInv, MessagesFit
  <2> QED
    BY <2>1, <2>2, <2>3, Zenon
<1>14. PartsFit'
  <2> SUFFICES ASSUME NEW x \in Clients, current[x] # None
               PROVE  /\ issued[x][Req(x)] = current[x]
                      /\ \A y \in ShardsOf(current[x]) : PartFits(x, y)'
    BY <1>1, <1>11 DEF PartsFit, ShardsOf
  <2>1. issued[x][Req(x)] = current[x] /\ \A y \in ShardsOf(current[x]) : PartFits(x, y)
    BY DEF AnswerInv, PartsFit
  <2>2. \A y \in ShardsOf(current[x]) : y \in Shards
    BY Counted, PartsOfCommand DEF AnswerInv
  <2>3. ASSUME NEW y \in ShardsOf(current[x])
        PROVE  part'[x][y] = part[x][y] \/ part'[x][y] \notin Replies \cup {Unused}
    BY <1>8, <2>2, RepliesApart
  <2> QED
    BY <1>1, <2>1, <2>2, <2>3, PartStays
<1> QED
  BY <1>10, <1>12, <1>13, <1>14 DEF AnswerInv

\* A step of one part leaves its result fit for its command.
LEMMA PartStepAnswer ==
    ASSUME RefusalInv, AnswerInv, NEW c \in Clients, NEW s \in Shards, PartStep(c, s)
    PROVE  AnswerInv'
<1>0. oneshot \in [Clients -> [Requests -> [Shards -> Oneshots]]]
  BY DEF AnswerInv, TypeOK
<1>1. CASE Send(c, s)
  BY <1>1, SendAnswer
<1>2. CASE SendClosed(c, s) \/ SendTimeout(c, s) \/ Disconnected(c, s)
  <2>1. PICK e \in SendErrors \cup ReplyErrors :
          /\ SetPart(c, s, <<"Error", e>>)
          /\ UNCHANGED <<data, alive, channel, executed, issued, current, answers,
                         oneshot, result>>
    BY <1>2 DEF SendClosed, SendTimeout, Disconnected, SendErrors, ReplyErrors
  <2>2. <<"Error", e>> \in PartErrors /\ <<"Error", e>> \notin Replies
    BY RepliesApart DEF PartErrors
  <2> QED
    BY <1>0, <2>1, <2>2, PartOver
<1>3. CASE ReplyArrives(c, s)
  <2>1. /\ Reply(c, s) \in Replies /\ SetPart(c, s, Reply(c, s))
        /\ UNCHANGED <<data, alive, channel, executed, issued, current, answers,
                       oneshot, result>>
    BY <1>3 DEF ReplyArrives
  <2> QED
    BY <1>0, <2>1, PartOver
<1>4. CASE ReplyTimeout(c, s)
  <2>1. /\ SetPart(c, s, <<"Error", "timeout">>)
        /\ oneshot' = [oneshot EXCEPT ![c][Req(c)][s] = Gone]
        /\ UNCHANGED <<data, alive, channel, executed, issued, current, answers, result>>
    BY <1>4 DEF ReplyTimeout
  <2>2. <<"Error", "timeout">> \in PartErrors /\ <<"Error", "timeout">> \notin Replies
    BY RepliesApart DEF PartErrors, ReplyErrors
  <2>3. oneshot' \in [Clients -> [Requests -> [Shards -> Oneshots]]]
    BY <1>0, <2>1 DEF Oneshots
  <2>4. \A x \in Clients, n \in Requests, y \in Shards :
          oneshot'[x][n][y] \in {oneshot[x][n][y], Gone}
    BY <1>0, <2>1
  <2> QED
    BY <2>1, <2>2, <2>3, <2>4, PartOver
<1> QED
  BY <1>1, <1>2, <1>3, <1>4 DEF PartStep

\* A new command has no results.
LEMMA IssueAnswer ==
    ASSUME RefusalInv, AnswerInv, NEW c \in Clients, NEW cmd \in Commands[c], Issue(c, cmd)
    PROVE  AnswerInv'
<1>1. /\ UNCHANGED <<data, alive, channel, oneshot, answers, executed, result>>
      /\ Req(c) < MaxRequests[c] /\ MaxRequests[c] \in Nat
  BY DispatchAssumption DEF Issue
<1>2. /\ issued[c] \in Seq(Commands[c]) /\ issued \in [Clients -> Seq(AllCommands)]
      /\ \A x \in Clients : Req(x) \in Nat
  BY Counted DEF AnswerInv, TypeOK, RefusalInv, OrderInv, Types
<1>3. /\ issued'[c] = Append(issued[c], cmd)
      /\ \A x \in Clients : x # c => issued'[x] = issued[x]
  BY <1>2 DEF Issue
<1>4. /\ issued'[c] \in Seq(Commands[c]) /\ Len(issued'[c]) = Req(c) + 1
      /\ issued'[c][Req(c) + 1] = cmd
      /\ \A n \in 1 .. Req(c) : issued'[c][n] = issued[c][n]
  BY <1>2, <1>3 DEF Req
<1>5. /\ Req(c)' = Req(c) + 1
      /\ \A x \in Clients : x # c => Req(x)' = Req(x)
  BY <1>3, <1>4 DEF Req
<1>6. /\ current'[c] = cmd
      /\ \A x \in Clients : x # c => current'[x] = current[x]
  BY DEF Issue, RefusalInv, OrderInv, Types
<1>7. /\ part' \in [Clients -> [Shards -> Parts]]
      /\ \A y \in Shards : part'[c][y] = IF y \in ShardsOf(cmd) THEN Sending ELSE Unused
      /\ \A x \in Clients : x # c => part'[x] = part[x]
  BY DEF Issue, AnswerInv, TypeOK, Parts
<1>8. TypeOK'
  <2>1. \A x \in Clients : /\ issued'[x] \in Seq(Commands[x]) /\ Req(x)' <= MaxRequests[x]
                           /\ current'[x] \in Commands[x] \cup {None}
    <3> TAKE x \in Clients
    <3>1. CASE x = c
      BY <1>1, <1>2, <1>4, <1>5, <1>6, <3>1
    <3>2. CASE x # c
      BY <1>3, <1>5, <1>6, <3>2 DEF AnswerInv, TypeOK
    <3> QED
      BY <3>1, <3>2
  <2> QED
    BY <1>1, <1>7, <2>1 DEF AnswerInv, TypeOK
<1>9. \A x \in Clients : /\ Req(x)' \in Nat /\ Req(x) <= Req(x)'
                         /\ \A n \in 1 .. Req(x) : issued'[x][n] = issued[x][n]
  BY <1>2, <1>3, <1>4, <1>5
<1>10. ResultsFit' /\ RepliesFit' /\ AnswersFit'
  BY <1>1, <1>9, NothingDone
<1>11. MessagesFit'
  <2> SUFFICES ASSUME NEW y \in Shards, NEW i \in 1 .. Len(channel[y])
               PROVE  LET m == channel[y][i]
                          b == issued'[m.client][m.req]
                      IN  y \in ShardsOf(b) /\ m.op = b.op /\ m.keys = KeysOn(b, y)
    BY <1>1 DEF MessagesFit, ShardsOf, KeysOn
  <2> DEFINE m == channel[y][i]
  <2>1. m \in Messages /\ m.client \in Clients /\ m.req \in Requests
    <3>1. m \in Messages
      BY DEF AnswerInv, TypeOK
    <3> QED
      BY <3>1 DEF Messages
  <2>2. Pending(m.client, y, m.req)
    BY DEF Pending
  <2>3. m.req \in 1 .. Req(m.client)
    BY <2>1, <2>2, RequestsCover DEF RefusalInv, OrderInv
  <2>4. issued'[m.client][m.req] = issued[m.client][m.req]
    BY <1>9, <2>1, <2>3
  <2> QED
    BY <2>4 DEF AnswerInv, MessagesFit
<1>12. PartsFit'
  <2> SUFFICES ASSUME NEW x \in Clients, current'[x] # None
               PROVE  /\ issued'[x][Req(x)'] = current'[x]
                      /\ \A y \in ShardsOf(current'[x]) : PartFits(x, y)'
    BY DEF PartsFit, ShardsOf
  <2>1. CASE x = c
    <3>1. issued'[x][Req(x)'] = current'[x]
      BY <1>4, <1>5, <1>6, <2>1
    <3>2. cmd \in AllCommands
      BY DEF AllCommands
    <3>3. ASSUME NEW y \in ShardsOf(cmd) PROVE PartFits(c, y)'
      <4>1. part'[c][y] = Sending
        BY <1>7, <3>2, <3>3, PartsOfCommand
      <4> QED
        BY <4>1, RepliesApart DEF PartFits
    <3> QED
      BY <1>6, <2>1, <3>1, <3>3
  <2>2. CASE x # c
    <3>1. /\ current[x] # None /\ issued[x][Req(x)] = current[x]
          /\ \A y \in ShardsOf(current[x]) : PartFits(x, y)
      BY <1>6, <2>2 DEF AnswerInv, PartsFit
    <3>2. ASSUME NEW y \in ShardsOf(current[x]) PROVE PartFits(x, y)'
      <4>1. y \in Shards
        BY <3>1, Counted, PartsOfCommand DEF AnswerInv
      <4>2. PartFits(x, y) /\ issued'[x] = issued[x] /\ part'[x][y] = part[x][y]
        BY <1>3, <1>7, <2>2, <3>1
      <4> QED
        BY <1>1, <4>1, <4>2, PartStays
    <3> QED
      BY <1>3, <1>5, <1>6, <2>2, <3>1, <3>2
  <2> QED
    BY <2>1, <2>2
<1> QED
  BY <1>8, <1>10, <1>11, <1>12 DEF AnswerInv

\* A worker that is lost drops its messages, and answers nothing.
LEMMA PanicAnswer ==
    ASSUME RefusalInv, AnswerInv, NEW s \in Shards, WorkerPanics(s)
    PROVE  AnswerInv'
<1>1. UNCHANGED <<data, issued, current, part, answers, executed, result>> /\ alive' \subseteq Shards
  BY DEF WorkerPanics, AnswerInv, TypeOK
<1>2. /\ channel' \in [Shards -> Seq(Messages)] /\ channel'[s] = << >>
      /\ \A y \in Shards : y # s => channel'[y] = channel[y]
  BY DEF WorkerPanics, AnswerInv, TypeOK
<1>3. oneshot \in [Clients -> [Requests -> [Shards -> Oneshots]]]
  BY DEF AnswerInv, TypeOK
<1>4. /\ oneshot' \in [Clients -> [Requests -> [Shards -> Oneshots]]]
      /\ \A x \in Clients, n \in Requests, y \in Shards :
           oneshot'[x][n][y] \in {oneshot[x][n][y], Dropped}
  <2> DEFINE lost(x, n) == \E i \in 1 .. Len(channel[s]) :
               channel[s][i].client = x /\ channel[s][i].req = n
  <2>1. oneshot' = [x \in Clients |-> [n \in Requests |->
          [oneshot[x][n] EXCEPT ![s] = IF @ = Unused /\ lost(x, n) THEN Dropped ELSE @]]]
    BY DEF WorkerPanics
  <2> HIDE DEF lost
  <2> QED
    BY <1>3, <2>1 DEF Oneshots
<1>5. TypeOK'
  <2>1. \A y \in Shards : Len(channel'[y]) <= Capacity
    <3>1. Len(<< >>) = 0 /\ 0 <= Capacity
      BY DispatchAssumption
    <3> QED
      BY <1>2, <3>1 DEF AnswerInv, TypeOK
  <2> QED
    BY <1>1, <1>2, <1>4, <2>1 DEF AnswerInv, TypeOK, Req
<1>6. \A x \in Clients : Req(x)' = Req(x) /\ Req(x) \in Nat
  BY <1>1, Counted DEF Req, AnswerInv
<1>7. ResultsFit' /\ RepliesFit' /\ AnswersFit'
  <2>1. Dropped \notin Replies
    BY RepliesApart
  <2>2. \A x \in Clients, n \in Requests, y \in Shards :
          oneshot'[x][n][y] \in Replies => oneshot'[x][n][y] = oneshot[x][n][y]
    BY <1>4, <2>1
  <2> QED
    BY <1>1, <1>6, <2>2, NothingDone
<1>8. MessagesFit'
  BY <1>1, <1>2 DEF AnswerInv, MessagesFit, ShardsOf, KeysOn
<1>9. PartsFit'
  BY <1>1 DEF AnswerInv, PartsFit, PartFits, ShardsOf, Done, Req
<1> QED
  BY <1>5, <1>7, <1>8, <1>9 DEF AnswerInv

\* What the parts of a command make of it: an error if one of them is, and
\* otherwise what the shards replied.
LEMMA Combined ==
    ASSUME RefusalInv, AnswerInv, NEW c \in Clients, current[c] # None,
           \A s \in Shards : part[c][s] \notin {Sending, Awaiting}
    PROVE  /\ Combine(current[c], part[c]) \in Answers
           /\ Combine(current[c], part[c]) \in Replies =>
                /\ \A s \in ShardsOf(current[c]) : Done(c, s, Req(c))
                /\ Combine(current[c], part[c]) = AnswerTo(current[c], result[c][Req(c)])
<1> DEFINE cmd == current[c]
           S == ShardsOf(cmd)
           r == result[c][Req(c)]
<1>1. /\ cmd \in AllCommands /\ cmd.op \in Ops /\ issued[c][Req(c)] = cmd
      /\ Req(c) \in Requests /\ Req(c) \in Nat
  BY Counted, CommandFacts DEF AnswerInv, PartsFit
<1>2. IsFiniteSet(S) /\ S # {} /\ S \subseteq Shards
  BY <1>1, PartsOfCommand
<1>3. \A s \in S : PartFits(c, s)
  BY DEF AnswerInv, PartsFit
<1>4. \A s \in S : part[c][s] \in Replies \/ part[c][s] \in PartErrors
  BY <1>2, <1>3 DEF AnswerInv, TypeOK, Parts, PartFits
<1>5. ASSUME NEW s \in S, part[c][s] \in Replies
      PROVE  Done(c, s, Req(c)) /\ part[c][s] = r[s] /\ r[s] \in KindOf(cmd.op)
  BY <1>1, <1>2, <1>3, <1>5 DEF PartFits, AnswerInv, ResultsFit
<1>6. CASE cmd.op # "del"
  <2>1. PICK k : cmd.keys = {k} /\ k \in Keys
    <3>1. cmd.keys \in SUBSET Keys /\ Cardinality(cmd.keys) = 1 /\ cmd.keys # {}
          /\ IsFiniteSet(cmd.keys)
      BY <1>1, <1>6, CommandFacts
    <3>2. PICK k \in cmd.keys : TRUE
      BY <3>1
    <3> QED
      BY <3>1, <3>2, OneElement
  <2> DEFINE t == RouteKey[k]
  <2>2. S = {t}
    BY <2>1 DEF ShardsOf
  <2> HIDE DEF cmd, r
  <2>3. Combine(cmd, part[c]) = part[c][t] /\ AnswerTo(cmd, r) = r[t]
    BY <1>6, <2>2 DEF Combine, AnswerTo
  <2>4. Combine(cmd, part[c]) \in Answers
    BY <1>4, <2>2, <2>3 DEF Answers
  <2> QED
    BY <1>5, <2>2, <2>3, <2>4 DEF cmd, r
<1>7. CASE cmd.op = "del" /\ \E s \in S : IsError(part[c][s])
  <2>1. Combine(cmd, part[c]) = <<"Error", "partial failure">>
    BY <1>7 DEF Combine
  <2> QED
    BY <2>1, RepliesApart DEF Answers
<1>8. CASE cmd.op = "del" /\ ~\E s \in S : IsError(part[c][s])
  <2>1. Combine(cmd, part[c]) = <<"Integer", Total(part[c], S)>>
    BY <1>8 DEF Combine
  <2>2. \A s \in S : part[c][s] \in Replies
    BY <1>4, <1>8, RepliesApart
  <2>3. \A s \in S : Done(c, s, Req(c)) /\ part[c][s] = r[s] /\ r[s][2] \in Nat
    BY <1>5, <1>8, <2>2, KindsAreReplies
  <2> HIDE DEF S, r
  <2>4. Total(part[c], S) = Total(r, S)
    BY <2>3 DEF Total
  <2>5. Total(r, S) \in Nat
    <3> DEFINE f == [s \in S |-> r[s][2]]
    <3>1. \A s \in S : f[s] \in Nat
      BY <2>3
    <3>2. Total(r, S) = SumFunctionOnSet(f, S)
      BY DEF Total, SumFunction
    <3> HIDE DEF f
    <3> QED
      BY <1>2, <3>1, <3>2, SumIsNat
  <2>6. Combine(cmd, part[c]) \in Answers
    BY <2>1, <2>4, <2>5 DEF Answers, Replies
  <2>7. AnswerTo(cmd, r) = <<"Integer", Total(r, S)>>
    BY <1>8 DEF AnswerTo, S
  <2> QED
    BY <2>1, <2>3, <2>4, <2>6, <2>7 DEF S, r
<1> QED
  BY <1>6, <1>7, <1>8

\* What is made of the results of the parts answers the command.
LEMMA RespondAnswer ==
    ASSUME RefusalInv, AnswerInv, NEW c \in Clients, Respond(c)
    PROVE  AnswerInv'
<1> DEFINE a == Combine(current[c], part[c])
<1>1. /\ UNCHANGED <<data, alive, channel, oneshot, issued, executed, result>>
      /\ current[c] # None /\ \A s \in Shards : part[c][s] \notin {Sending, Awaiting}
      /\ answers' = [answers EXCEPT ![c][Req(c)] = a]
  BY DEF Respond
<1>2. Req(c) \in Requests /\ current[c] \in AllCommands /\ issued[c][Req(c)] = current[c]
  BY <1>1, Counted DEF AnswerInv, PartsFit
<1>3. /\ a \in Answers
      /\ a \in Replies => /\ \A s \in ShardsOf(current[c]) : Done(c, s, Req(c))
                          /\ a = AnswerTo(current[c], result[c][Req(c)])
  BY <1>1, Combined
<1> HIDE DEF a
<1>4. /\ answers' \in [Clients -> [Requests -> Answers]] /\ answers'[c][Req(c)] = a
      /\ \A x \in Clients, n \in Requests :
           <<x, n>> # <<c, Req(c)>> => answers'[x][n] = answers[x][n]
  BY <1>1, <1>2, <1>3 DEF AnswerInv, TypeOK
<1>5. /\ part' \in [Clients -> [Shards -> Parts]]
      /\ \A x \in Clients : x # c => part'[x] = part[x]
  BY DEF Respond, AnswerInv, TypeOK, Parts
<1>6. /\ current'[c] = None
      /\ \A x \in Clients : x # c => current'[x] = current[x]
  BY DEF Respond, RefusalInv, OrderInv, Types
<1>7. TypeOK'
  BY <1>1, <1>4, <1>5, <1>6 DEF AnswerInv, TypeOK, Req
<1>8. \A x \in Clients : Req(x)' = Req(x) /\ Req(x) \in Nat
  BY <1>1, Counted DEF Req, AnswerInv
<1>9. ResultsFit' /\ RepliesFit'
  BY <1>1, <1>8, NothingDone
<1>10. MessagesFit'
  BY <1>1 DEF AnswerInv, MessagesFit, ShardsOf, KeysOn
<1>11. PartsFit'
  <2> SUFFICES ASSUME NEW x \in Clients, current'[x] # None
               PROVE  /\ issued[x][Req(x)] = current'[x]
                      /\ \A y \in ShardsOf(current'[x]) : PartFits(x, y)'
    BY <1>1, <1>8 DEF PartsFit, ShardsOf
  <2>1. x # c /\ current'[x] = current[x] /\ part'[x] = part[x]
    BY <1>5, <1>6
  <2>2. issued[x][Req(x)] = current[x] /\ \A y \in ShardsOf(current[x]) : PartFits(x, y)
    BY <2>1 DEF AnswerInv, PartsFit
  <2> QED
    BY <1>1, <2>1, <2>2 DEF PartFits, Done, Req
<1>12. AnswersFit'
  <2> SUFFICES ASSUME NEW x \in Clients, NEW n \in Requests, answers'[x][n] \in Replies
               PROVE  /\ n <= Req(x)
                      /\ \A s \in ShardsOf(issued[x][n]) : Done(x, s, n)
                      /\ answers'[x][n] = AnswerTo(issued[x][n], result[x][n])
    <3>1. \A x \in Clients, n \in Requests :
            AnswerTo(issued[x][n], result[x][n])' = AnswerTo(issued[x][n], result[x][n])
      BY <1>1 DEF AnswerTo, Total, ShardsOf
    <3>2. \A x \in Clients, n \in Requests, s \in Shards : Done(x, s, n)' <=> Done(x, s, n)
      BY <1>1 DEF Done
    <3> QED
      BY <1>1, <1>8, <3>1, <3>2 DEF AnswersFit, ShardsOf, Done
  <2>1. CASE <<x, n>> = <<c, Req(c)>>
    BY <1>2, <1>3, <1>4, <1>8, <2>1
  <2>2. CASE <<x, n>> # <<c, Req(c)>>
    BY <1>4, <2>2 DEF AnswerInv, AnswersFit
  <2> QED
    BY <2>1, <2>2
<1> QED
  BY <1>7, <1>9, <1>10, <1>11, <1>12 DEF AnswerInv

\* An answer depends on the replies of the command's own shards.
LEMMA SameAnswer ==
    ASSUME NEW cmd \in AllCommands, NEW r, NEW q, \A s \in ShardsOf(cmd) : r[s] = q[s]
    PROVE  AnswerTo(cmd, r) = AnswerTo(cmd, q)
<1>1. (CHOOSE s \in ShardsOf(cmd) : TRUE) \in ShardsOf(cmd)
  BY PartsOfCommand
<1>2. Total(r, ShardsOf(cmd)) = Total(q, ShardsOf(cmd))
  BY DEF Total
<1> QED
  BY <1>1, <1>2 DEF AnswerTo

\* What a worker replies fits the part it executed.
LEMMA ExecuteAnswer ==
    ASSUME RefusalInv, AnswerInv, NEW s \in Shards, Execute(s)
    PROVE  AnswerInv'
<1> DEFINE q == channel[s]
           m == channel[s][1]
<1>1. q \in Seq(Messages) /\ q # << >> /\ Len(q) \in Nat /\ Len(q) > 0 /\ Len(q) <= Capacity
  BY DEF Execute, AnswerInv, TypeOK
<1>0. m \in Messages /\ m.op \in Ops /\ m.keys \subseteq Keys
  <2>1. m \in Messages
    BY <1>1
  <2> QED
    BY <2>1 DEF Messages
<1>2. PICK c \in Clients, k \in Requests : m.client = c /\ m.req = k /\ k \in Nat
  BY <1>0, RequestsCover DEF Messages
<1> DEFINE cmd == issued[c][k]
           r == ReplyTo(m)
           done == executed[c][s]
<1>3. Pending(c, s, k) /\ k \in 1 .. Req(c) /\ ~Done(c, s, k)
  <2>1. Pending(c, s, k)
    BY <1>1, <1>2 DEF Pending
  <2> QED
    BY <1>2, <2>1 DEF RefusalInv, OrderInv
<1>4. /\ cmd \in AllCommands /\ s \in ShardsOf(cmd)
      /\ m.op = cmd.op /\ m.keys = KeysOn(cmd, s)
  <2>1. cmd \in AllCommands
    BY <1>2, <1>3 DEF RefusalInv, OrderInv, Types, Req
  <2>2. 1 \in 1 .. Len(channel[s])
    BY <1>1
  <2> QED
    BY <1>2, <2>1, <2>2 DEF AnswerInv, MessagesFit
<1>5. r \in KindOf(cmd.op) /\ r \in Replies
  <2>1. IsFiniteSet(m.keys)
    BY <1>4, PartsOfCommand
  <2>2. Cardinality(m.keys \cap data) \in Nat
    BY <2>1, FS_Intersection, FS_CardinalityType
  <2>3. r \in KindOf(m.op)
    BY <1>0, <2>2 DEF ReplyTo, KindOf, Ops
  <2> QED
    BY <1>0, <1>4, <2>3, KindsAreReplies
<1>6. data' \subseteq Keys
  <2>0. PICK z : z = channel[s]
    OBVIOUS
  <2>1. Head(channel[s]) = m
    BY <1>1, <2>0, FirstAndRest
  <2>2. data' = EffectOf(m)
    BY <2>1, Zenon DEF Execute
  <2> QED
    BY <1>0, <2>2 DEF EffectOf, Ops, AnswerInv, TypeOK
<1>7. /\ UNCHANGED <<alive, issued, current, part, answers>>
      /\ channel' = [channel EXCEPT ![s] = Tail(q)]
      /\ oneshot' = [oneshot EXCEPT ![c][k][s] = IF @ = Unused THEN r ELSE @]
      /\ executed' = [executed EXCEPT ![c][s] = Append(done, k)]
      /\ result' = [result EXCEPT ![c][k][s] = r]
  <2>0. PICK z : z = q
    OBVIOUS
  <2>1. Head(q) = m
    BY <1>1, <2>0, FirstAndRest
  <2> QED
    BY <1>2, <2>1, Zenon DEF Execute
<1>8. done \in Seq(Requests) /\ Len(done) \in Nat
  BY <1>2 DEF AnswerInv, TypeOK
<1> HIDE DEF m, q, r, cmd, done
<1>9. /\ Tail(q) \in Seq(Messages) /\ Len(Tail(q)) = Len(q) - 1
      /\ \A i \in 1 .. Len(q) - 1 : Tail(q)[i] = q[i + 1]
  BY <1>1
<1>10. /\ channel' \in [Shards -> Seq(Messages)] /\ channel'[s] = Tail(q)
       /\ \A y \in Shards : y # s => channel'[y] = channel[y]
  BY <1>7, <1>9 DEF AnswerInv, TypeOK
<1>11. \A y \in Shards : Len(channel'[y]) <= Capacity
  <2>1. Len(channel'[s]) <= Capacity
    BY <1>1, <1>9, <1>10, DispatchAssumption
  <2> QED
    BY <1>10, <2>1 DEF AnswerInv, TypeOK
<1>12. /\ Append(done, k) \in Seq(Requests) /\ Len(Append(done, k)) = Len(done) + 1
       /\ Append(done, k)[Len(done) + 1] = k
       /\ \A i \in 1 .. Len(done) : Append(done, k)[i] = done[i]
  BY <1>2, <1>8
<1>13. /\ executed' \in [Clients -> [Shards -> Seq(Requests)]]
       /\ executed'[c][s] = Append(done, k)
       /\ \A x \in Clients, y \in Shards :
            <<x, y>> # <<c, s>> => executed'[x][y] = executed[x][y]
  BY <1>2, <1>7, <1>12 DEF AnswerInv, TypeOK
<1>14. /\ result' \in [Clients -> [Requests -> [Shards -> Replies \cup {Unused}]]]
       /\ result'[c][k][s] = r
       /\ \A x \in Clients, n \in Requests, y \in Shards :
            <<x, n, y>> # <<c, k, s>> => result'[x][n][y] = result[x][n][y]
  <2>1. result \in [Clients -> [Requests -> [Shards -> Replies \cup {Unused}]]]
    BY DEF AnswerInv, TypeOK
  <2> QED
    BY <1>2, <1>5, <1>7, <2>1
<1>15. /\ oneshot' \in [Clients -> [Requests -> [Shards -> Oneshots]]]
       /\ oneshot'[c][k][s] = IF oneshot[c][k][s] = Unused THEN r ELSE oneshot[c][k][s]
       /\ \A x \in Clients, n \in Requests, y \in Shards :
            <<x, n, y>> # <<c, k, s>> => oneshot'[x][n][y] = oneshot[x][n][y]
  <2>1. oneshot \in [Clients -> [Requests -> [Shards -> Oneshots]]] /\ r \in Oneshots
    BY <1>5 DEF AnswerInv, TypeOK, Oneshots
  <2> QED
    BY <1>2, <1>7, <2>1
<1>16. TypeOK'
  BY <1>6, <1>7, <1>10, <1>11, <1>13, <1>14, <1>15 DEF AnswerInv, TypeOK, Req
<1>17. /\ Done(c, s, k)'
       /\ \A x \in Clients, y \in Shards, n \in Nat : Done(x, y, n) => Done(x, y, n)'
       /\ \A x \in Clients, y \in Shards, n \in Nat :
            Done(x, y, n)' => Done(x, y, n) \/ <<x, n, y>> = <<c, k, s>>
  <2>1. Len(done) + 1 \in 1 .. Len(done) + 1
    BY <1>8
  <2>2. Done(c, s, k)'
    BY <1>12, <1>13, <2>1 DEF Done
  <2>3. ASSUME NEW x \in Clients, NEW y \in Shards, NEW n \in Nat
        PROVE  /\ Done(x, y, n) => Done(x, y, n)'
               /\ Done(x, y, n)' => Done(x, y, n) \/ <<x, n, y>> = <<c, k, s>>
    <3>1. CASE <<x, y>> # <<c, s>>
      BY <1>13, <3>1 DEF Done
    <3>2. CASE <<x, y>> = <<c, s>>
      <4>1. Done(x, y, n) => Done(x, y, n)'
        <5> SUFFICES ASSUME Done(x, y, n) PROVE Done(x, y, n)'
          OBVIOUS
        <5>1. PICK i \in 1 .. Len(done) : done[i] = n
          BY <3>2 DEF Done, done
        <5>2. i \in 1 .. Len(done) + 1 /\ Append(done, k)[i] = n
          BY <1>8, <1>12, <5>1
        <5> QED
          BY <1>12, <1>13, <3>2, <5>2 DEF Done
      <4>2. Done(x, y, n)' => Done(x, y, n) \/ n = k
        <5> SUFFICES ASSUME Done(x, y, n)', n # k PROVE Done(x, y, n)
          OBVIOUS
        <5>1. PICK i \in 1 .. Len(done) + 1 : Append(done, k)[i] = n
          BY <1>12, <1>13, <3>2 DEF Done
        <5>2. i \in 1 .. Len(done) /\ done[i] = n
          BY <1>8, <1>12, <5>1
        <5> QED
          BY <3>2, <5>2 DEF Done, done
      <4> QED
        BY <3>2, <4>1, <4>2
    <3> QED
      BY <3>1, <3>2
  <2> QED
    BY <2>2, <2>3
\* The reply of a request that was executed before does not change.
<1>18. \A x \in Clients, n \in Requests, y \in Shards :
         Done(x, y, n) => result'[x][n][y] = result[x][n][y]
  BY <1>3, <1>14
<1>19. \A n \in Requests : n \in Nat
  BY RequestsCover
<1>20. MessagesFit'
  <2> SUFFICES ASSUME NEW y \in Shards, NEW i \in 1 .. Len(channel'[y])
               PROVE  LET p == channel'[y][i]
                          b == issued[p.client][p.req]
                      IN  y \in ShardsOf(b) /\ p.op = b.op /\ p.keys = KeysOn(b, y)
    BY <1>7 DEF MessagesFit, ShardsOf, KeysOn
  <2>1. CASE y = s
    <3>1. i \in 1 .. Len(q) - 1 /\ channel'[y][i] = q[i + 1]
      <4>1. channel'[y] = Tail(q)
        BY <1>10, <2>1
      <4> QED
        BY <1>9, <4>1
    <3>2. i + 1 \in 1 .. Len(q)
      BY <1>1, <3>1 DEF q
    <3>3. i + 1 \in 1 .. Len(channel[y]) /\ channel'[y][i] = channel[y][i + 1]
      BY <2>1, <3>1, <3>2 DEF q
    <3> QED
      BY <3>3 DEF AnswerInv, MessagesFit
  <2>2. CASE y # s
    <3>1. channel'[y] = channel[y]
      BY <1>10, <2>2
    <3> QED
      BY <3>1 DEF AnswerInv, MessagesFit
  <2> QED
    BY <2>1, <2>2, Zenon
<1>21. ResultsFit'
  <2> SUFFICES ASSUME NEW x \in Clients, NEW y \in Shards, NEW n \in Requests, Done(x, y, n)'
               PROVE  /\ y \in ShardsOf(issued[x][n])
                      /\ result'[x][n][y] \in KindOf(issued[x][n].op)
    BY <1>7 DEF ResultsFit, ShardsOf
  <2>1. CASE <<x, n, y>> = <<c, k, s>>
    BY <1>4, <1>5, <1>14, <2>1 DEF cmd
  <2>2. CASE Done(x, y, n)
    BY <1>18, <2>2 DEF AnswerInv, ResultsFit
  <2> QED
    BY <1>17, <1>19, <2>1, <2>2
<1>22. RepliesFit'
  <2> SUFFICES ASSUME NEW x \in Clients, NEW n \in Requests, NEW y \in Shards,
                      oneshot'[x][n][y] \in Replies
               PROVE  Done(x, y, n)' /\ oneshot'[x][n][y] = result'[x][n][y]
    BY DEF RepliesFit
  <2>1. CASE oneshot[x][n][y] \in Replies /\ oneshot'[x][n][y] = oneshot[x][n][y]
    <3>1. Done(x, y, n) /\ oneshot[x][n][y] = result[x][n][y]
      BY <2>1 DEF AnswerInv, RepliesFit
    <3> QED
      BY <1>17, <1>18, <1>19, <2>1, <3>1
  <2>2. CASE <<x, n, y>> = <<c, k, s>> /\ oneshot'[x][n][y] = r
    BY <1>14, <1>17, <2>2
  <2> QED
    BY <1>15, <2>1, <2>2
<1>23. PartsFit'
  <2> SUFFICES ASSUME NEW x \in Clients, current[x] # None
               PROVE  /\ issued[x][Req(x)] = current[x]
                      /\ \A y \in ShardsOf(current[x]) : PartFits(x, y)'
    <3>1. \A z \in Clients : Req(z)' = Req(z)
      BY <1>7 DEF Req
    <3> QED
      BY <1>7, <3>1 DEF PartsFit, ShardsOf
  <2>1. issued[x][Req(x)] = current[x] /\ Req(x) \in Requests
    BY Counted DEF AnswerInv, PartsFit
  <2>2. PICK n \in Requests : n = Req(x) /\ n = Req(x)'
    BY <1>7, <2>1 DEF Req
  <2>3. ASSUME NEW y \in ShardsOf(current[x]) PROVE PartFits(x, y)'
    <3>1. PartFits(x, y) /\ y \in Shards
      BY Counted, PartsOfCommand DEF AnswerInv, PartsFit
    <3>2. part[x][y] \in Replies => Done(x, y, n)' /\ part[x][y] = result'[x][n][y]
      BY <1>17, <1>18, <1>19, <2>2, <3>1 DEF PartFits
    <3> QED
      BY <1>7, <2>2, <3>1, <3>2 DEF PartFits, Done
  <2> QED
    BY <2>1, <2>3
<1>24. AnswersFit'
  <2> SUFFICES ASSUME NEW x \in Clients, NEW n \in Requests, answers[x][n] \in Replies
               PROVE  /\ n <= Req(x)
                      /\ \A y \in ShardsOf(issued[x][n]) : Done(x, y, n)'
                      /\ answers[x][n] = AnswerTo(issued[x][n], result'[x][n])
    <3>1. \A z \in Clients : Req(z)' = Req(z)
      BY <1>7 DEF Req
    <3> QED
      BY <1>7, <3>1 DEF AnswersFit
  <2>1. /\ n <= Req(x) /\ \A y \in ShardsOf(issued[x][n]) : Done(x, y, n)
        /\ answers[x][n] = AnswerTo(issued[x][n], result[x][n])
    BY DEF AnswerInv, AnswersFit
  <2>2. issued[x][n] \in AllCommands
    <3>1. n \in 1 .. Len(issued[x])
      BY <2>1, RequestsCover, Counted DEF Req, AnswerInv
    <3> QED
      BY <3>1 DEF RefusalInv, OrderInv, Types
  <2>3. ShardsOf(issued[x][n]) \subseteq Shards
    BY <2>2, PartsOfCommand
  <2>4. \A y \in ShardsOf(issued[x][n]) : result'[x][n][y] = result[x][n][y]
    BY <1>18, <2>1, <2>3
  <2>5. AnswerTo(issued[x][n], result'[x][n]) = AnswerTo(issued[x][n], result[x][n])
    BY <2>2, <2>4, SameAnswer
  <2>6. ASSUME NEW y \in ShardsOf(issued[x][n]) PROVE Done(x, y, n)'
    BY <1>17, <1>19, <2>1, <2>3
  <2> QED
    BY <2>1, <2>5, <2>6
<1> QED
  BY <1>16, <1>20, <1>21, <1>22, <1>23, <1>24, Zenon DEF AnswerInv

\* Every step keeps answers with their commands.
LEMMA AnswerStep == RefusalInv /\ AnswerInv /\ [Next]_vars => AnswerInv'
<1> SUFFICES ASSUME RefusalInv, AnswerInv, [Next]_vars PROVE AnswerInv'
  OBVIOUS
<1>1. ASSUME NEW c \in Clients, NEW cmd \in Commands[c], Issue(c, cmd) PROVE AnswerInv'
  BY <1>1, IssueAnswer
<1>2. ASSUME NEW c \in Clients, NEW s \in Shards, PartStep(c, s) PROVE AnswerInv'
  BY <1>2, PartStepAnswer
<1>3. ASSUME NEW c \in Clients, Respond(c) PROVE AnswerInv'
  BY <1>3, RespondAnswer
<1>4. ASSUME NEW s \in Shards, Execute(s) PROVE AnswerInv'
  BY <1>4, ExecuteAnswer
<1>5. ASSUME NEW s \in Shards, WorkerPanics(s) PROVE AnswerInv'
  BY <1>5, PanicAnswer
<1>6. CASE UNCHANGED vars
  <2>1. TypeOK' /\ MessagesFit' /\ ResultsFit' /\ RepliesFit'
    BY <1>6 DEF AnswerInv, TypeOK, MessagesFit, ResultsFit, RepliesFit, ShardsOf, KeysOn,
                Done, Req
  <2>2. PartsFit'
    BY <1>6 DEF AnswerInv, PartsFit, PartFits, ShardsOf, Done, Req
  <2>3. AnswersFit'
    <3>1. \A x \in Clients : Req(x)' = Req(x)
      BY <1>6 DEF Req
    <3>2. \A x \in Clients, y \in Shards, n \in Requests : Done(x, y, n)' <=> Done(x, y, n)
      BY <1>6 DEF Done
    <3>3. \A x \in Clients, n \in Requests :
            AnswerTo(issued[x][n], result[x][n])' = AnswerTo(issued[x][n], result[x][n])
      BY <1>6 DEF AnswerTo, Total, ShardsOf
    <3> QED
      BY <1>6, <3>1, <3>2, <3>3 DEF AnswerInv, AnswersFit, ShardsOf, Done
  <2> QED
    BY <2>1, <2>2, <2>3, Zenon DEF AnswerInv
<1> QED
  BY <1>1, <1>2, <1>3, <1>4, <1>5, <1>6 DEF Next

\* Parts, reply channels and answers have the values they may have, the
\* requests stay within their number, and no shard's channel ever holds more
\* than its capacity (the bounded mpsc channel of protocol/channels.rs).
THEOREM DispatchTypeCorrect == Spec => []TypeOK
<1>1. AnswerInv => TypeOK
  BY DEF AnswerInv
<1> QED
  BY <1>1, RefusalInit, RefusalStep, AnswerInit, AnswerStep, PTL DEF Spec

\* A result is only ever told the connection that asked for it, for the very
\* command it asked with, and a DEL's total adds what each of its shards
\* deleted: the reply of a part that timed out is never taken for that of a
\* later command (the oneshot channel of send_to_shard).
THEOREM AnswersOwn == Spec => []AnswerIsOwn
<1>1. RefusalInv /\ AnswerInv => AnswerIsOwn
  <2> SUFFICES ASSUME RefusalInv, AnswerInv, NEW c \in Clients, NEW n \in Requests,
                      answers[c][n] \in Replies
               PROVE  /\ ExecutedOn(c, n) = ShardsOf(issued[c][n])
                      /\ answers[c][n] =
                           IF answers[c][n][1] = "Integer"
                             THEN <<"Integer", Total(result[c][n], ExecutedOn(c, n))>>
                             ELSE result[c][n][CHOOSE s \in ExecutedOn(c, n) : TRUE]
    BY DEF AnswerIsOwn
  <2> DEFINE cmd == issued[c][n]
             S == ShardsOf(cmd)
             r == result[c][n]
  <2>1. /\ n <= Req(c) /\ \A s \in S : Done(c, s, n)
        /\ answers[c][n] = AnswerTo(cmd, r)
    BY DEF AnswerInv, AnswersFit
  <2>2. cmd \in AllCommands /\ cmd.op \in Ops
    <3>1. n \in 1 .. Len(issued[c])
      BY <2>1, RequestsCover, Counted DEF Req, AnswerInv
    <3>2. cmd \in AllCommands
      BY <3>1 DEF RefusalInv, OrderInv, Types
    <3> QED
      BY <3>2, CommandFacts
  <2>3. S \subseteq Shards /\ S # {}
    BY <2>2, PartsOfCommand
  <2>4. ExecutedOn(c, n) = {s \in Shards : Done(c, s, n)}
    BY DEF ExecutedOn, Done
  <2>5. \A s \in Shards : Done(c, s, n) => s \in S
    BY DEF AnswerInv, ResultsFit
  <2>6. ExecutedOn(c, n) = S
    BY <2>1, <2>3, <2>4, <2>5
  <2>7. CASE cmd.op = "del"
    <3>1. answers[c][n] = <<"Integer", Total(r, S)>>
      BY <2>1, <2>7 DEF AnswerTo
    <3> QED
      BY <2>6, <3>1
  <2>8. CASE cmd.op # "del"
    <3>1. answers[c][n] = r[CHOOSE s \in S : TRUE]
      BY <2>1, <2>8 DEF AnswerTo
    <3>2. r[CHOOSE s \in S : TRUE] \in KindOf(cmd.op)
      BY <2>1, <2>3 DEF AnswerInv, ResultsFit
    <3>3. answers[c][n][1] # "Integer"
      BY <2>2, <2>8, <3>1, <3>2, KindsAreReplies
    <3> QED
      BY <2>6, <3>1, <3>3
  <2> QED
    BY <2>7, <2>8
<1> QED
  BY <1>1, RefusalInit, RefusalStep, AnswerInit, AnswerStep, PTL DEF Spec
=============================================================================
