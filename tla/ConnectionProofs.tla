--------------------------- MODULE ConnectionProofs ---------------------------
(***************************************************************************)
(* What holds of a connection for every capacity of its channel, whatever  *)
(* the network holds and however much the client sends.                    *)
(***************************************************************************)
EXTENDS Connection, TLAPS

USE DEF clientVars, readerVars, writerVars, vars
-----------------------------------------------------------------------------
(***************************************************************************)
(* Type correctness.                                                       *)
(***************************************************************************)
LEMMA TypeInit == Init => TypeOK
<1> SUFFICES ASSUME Init PROVE TypeOK
  OBVIOUS
<1>1. /\ sent \in Seq(Kinds) /\ input \in Seq(1 .. Len(sent))
      /\ buffer \in Seq({Torn} \cup 1 .. Len(sent))
  BY DEF Init
<1>2. /\ responses \in Seq(Items) /\ Len(responses) <= Capacity
      /\ outgoing \in Seq(Items) /\ Len(outgoing) <= Outgoing
      /\ received \in Seq(Items) /\ answered \in Seq(Items)
  BY ConnectionAssumption DEF Init
<1> QED
  BY <1>1, <1>2 DEF Init, TypeOK, Places

\* Taking the first element off a sequence.
LEMMA HeadTail ==
    ASSUME NEW S, NEW s \in Seq(S), s # << >>
    PROVE  /\ Head(s) \in S /\ Head(s) = s[1]
           /\ Tail(s) \in Seq(S) /\ Len(Tail(s)) = Len(s) - 1 /\ Len(s) \in Nat \ {0}
           /\ \A i \in 1 .. Len(Tail(s)) : Tail(s)[i] = s[i + 1]
OBVIOUS

\* Adding one at the end.
LEMMA Appended ==
    ASSUME NEW S, NEW s \in Seq(S), NEW e \in S
    PROVE  /\ Append(s, e) \in Seq(S) /\ Len(Append(s, e)) = Len(s) + 1 /\ Len(s) \in Nat
           /\ Append(s, e)[Len(s) + 1] = e
           /\ \A i \in 1 .. Len(s) : Append(s, e)[i] = s[i]
OBVIOUS

\* A sequence over a set is one over a larger set.
LEMMA Widened ==
    ASSUME NEW S, NEW T, S \subseteq T, NEW s \in Seq(S)
    PROVE  s \in Seq(T)
<1>1. \A i \in 1 .. Len(s) : s[i] \in T
  OBVIOUS
<1> QED
  BY <1>1

\* What a read moves from the input to the buffer.
LEMMA Moved ==
    ASSUME NEW S, NEW T, S \subseteq T, NEW b \in Seq(T), NEW s \in Seq(S),
           NEW n \in 0 .. Len(s)
    PROVE  /\ b \o SubSeq(s, 1, n) \in Seq(T)
           /\ Len(b \o SubSeq(s, 1, n)) = Len(b) + n /\ Len(b) \in Nat
           /\ \A i \in 1 .. Len(b) : (b \o SubSeq(s, 1, n))[i] = b[i]
           /\ \A i \in 1 .. n : (b \o SubSeq(s, 1, n))[Len(b) + i] = s[i]
           /\ SubSeq(s, n + 1, Len(s)) \in Seq(S)
           /\ Len(SubSeq(s, n + 1, Len(s))) = Len(s) - n /\ Len(s) \in Nat
           /\ \A i \in 1 .. Len(s) - n : SubSeq(s, n + 1, Len(s))[i] = s[n + i]
<1>1. SubSeq(s, 1, n) \in Seq(T) /\ Len(SubSeq(s, 1, n)) = n
  <2>1. \A i \in 1 .. n : s[i] \in T
    OBVIOUS
  <2> QED
    BY <2>1
<1>2. \A i \in 1 .. n : SubSeq(s, 1, n)[i] = s[i]
  OBVIOUS
<1>3. SubSeq(s, n + 1, Len(s)) \in Seq(S)
  OBVIOUS
<1>4. Len(SubSeq(s, n + 1, Len(s))) = Len(s) - n
  OBVIOUS
<1>5. \A i \in 1 .. Len(s) - n : SubSeq(s, n + 1, Len(s))[i] = s[n + i]
  OBVIOUS
<1> DEFINE m == SubSeq(s, 1, n)
<1>6. m \in Seq(T) /\ Len(m) = n /\ \A i \in 1 .. n : m[i] = s[i]
  BY <1>1, <1>2
<1> HIDE DEF m
<1>7. /\ b \o m \in Seq(T) /\ Len(b \o m) = Len(b) + n /\ Len(b) \in Nat
      /\ \A i \in 1 .. Len(b) : (b \o m)[i] = b[i]
      /\ \A i \in 1 .. n : (b \o m)[Len(b) + i] = s[i]
  BY <1>6
<1> QED
  BY <1>3, <1>4, <1>5, <1>7 DEF m

LEMMA TypeStep == TypeOK /\ [Next]_vars => TypeOK'
<1> SUFFICES ASSUME TypeOK, [Next]_vars PROVE TypeOK'
  OBVIOUS
<1> USE ConnectionAssumption DEF TypeOK, Places, Torn
<1>1. ASSUME NEW kind \in Kinds, ClientSends(kind) PROVE TypeOK'
  <2>1. sent' \in Seq(Kinds) /\ Len(sent') = Len(sent) + 1 /\ Len(sent) \in Nat
    BY <1>1, Appended DEF ClientSends
  <2>2. 1 .. Len(sent) \subseteq 1 .. Len(sent')
    BY <2>1
  <2>3. input \in Seq(1 .. Len(sent')) /\ buffer \in Seq({0} \cup 1 .. Len(sent'))
    <3>1. {0} \cup 1 .. Len(sent) \subseteq {0} \cup 1 .. Len(sent')
      BY <2>2
    <3>2. PICK y, z : y = input /\ z = buffer
      OBVIOUS
    <3>3. y \in Seq(1 .. Len(sent)) /\ z \in Seq({0} \cup 1 .. Len(sent))
      BY <3>2
    <3>4. y \in Seq(1 .. Len(sent'))
      BY <2>2, <3>3, Widened
    <3>5. z \in Seq({0} \cup 1 .. Len(sent'))
      BY <3>1, <3>3, Widened
    <3> QED
      BY <3>2, <3>4, <3>5
  <2>4. input' \in Seq(1 .. Len(sent'))
    BY <1>1, <2>1, <2>3 DEF ClientSends
  <2> QED
    BY <1>1, <2>1, <2>2, <2>3, <2>4 DEF ClientSends
<1>2. CASE ClientReceives
  <2>1. Head(outgoing) \in Items /\ Tail(outgoing) \in Seq(Items)
          /\ Len(Tail(outgoing)) = Len(outgoing) - 1
    BY <1>2, HeadTail DEF ClientReceives
  <2>2. Append(received, Head(outgoing)) \in Seq(Items)
    BY <2>1, Appended
  <2> DEFINE rest == Tail(outgoing)
             more == Append(received, Head(outgoing))
  <2>3. received' = more /\ outgoing' = rest
    BY <1>2 DEF ClientReceives
  <2>4. rest \in Seq(Items) /\ Len(rest) <= Outgoing /\ more \in Seq(Items)
    BY <2>1, <2>2
  <2> HIDE DEF rest, more
  <2>5. received' \in Seq(Items) /\ outgoing' \in Seq(Items) /\ Len(outgoing') <= Outgoing
    BY <2>3, <2>4
  <2> QED
    BY <1>2, <2>5 DEF ClientReceives
<1>3. CASE ClientEnds \/ Reset
  <2>1. << >> \in Seq(1 .. Len(sent)) /\ << >> \in Seq(Items) /\ Len(<< >>) = 0
    OBVIOUS
  <2>2. /\ client' \in {"ended", "gone"} /\ eof' \in BOOLEAN
        /\ client' # "gone" => (eof' <=> client' = "ended")
        /\ UNCHANGED <<sent, received, readerVars, responses, writerVars>>
    BY <1>3 DEF ClientEnds, Reset
  <2>3. input' = input \/ input' = << >>
    BY <1>3 DEF ClientEnds, Reset
  <2>4. outgoing' = outgoing \/ outgoing' = << >>
    BY <1>3 DEF ClientEnds, Reset
  <2>5. input' \in Seq(1 .. Len(sent))
    BY <2>1, <2>3
  <2>6. outgoing' \in Seq(Items) /\ Len(outgoing') <= Outgoing
    <3>1. CASE outgoing' = outgoing
      BY <3>1
    <3>2. CASE outgoing' = << >>
      BY <3>2, <2>1
    <3> QED
      BY <2>4, <3>1, <3>2
  <2> QED
    BY <2>2, <2>5, <2>6
<1>4. CASE Read
  <2> DEFINE T == {0} \cup 1 .. Len(sent)
  <2>1. PICK n \in 0 .. Len(input) :
          \/ /\ buffer' = buffer \o SubSeq(input, 1, n)
             /\ input' = SubSeq(input, n + 1, Len(input))
          \/ /\ n < Len(input)
             /\ buffer' = Append(buffer \o SubSeq(input, 1, n), 0)
             /\ input' = SubSeq(input, n + 2, Len(input))
    BY <1>4 DEF Read
  <2>2. buffer \o SubSeq(input, 1, n) \in Seq(T)
    BY Moved
  <2>3. Append(buffer \o SubSeq(input, 1, n), 0) \in Seq(T)
    BY <2>2
  <2>4. SubSeq(input, n + 1, Len(input)) \in Seq(1 .. Len(sent))
    BY Moved
  <2>5. n < Len(input) => SubSeq(input, n + 2, Len(input)) \in Seq(1 .. Len(sent))
    <3> SUFFICES ASSUME n < Len(input)
                 PROVE  SubSeq(input, n + 2, Len(input)) \in Seq(1 .. Len(sent))
      OBVIOUS
    <3>1. PICK m : m = n + 1
      OBVIOUS
    <3>2. m \in 0 .. Len(input) /\ m + 1 = n + 2
      BY <3>1
    <3>3. SubSeq(input, m + 1, Len(input)) \in Seq(1 .. Len(sent))
      BY <3>2, Moved
    <3> QED
      BY <3>2, <3>3
  <2> QED
    BY <1>4, <2>1, <2>2, <2>3, <2>4, <2>5 DEF Read
<1>5. CASE ReadEof \/ ReadFails \/ ParsedAll \/ Join
  BY <1>5 DEF ReadEof, ReadFails, ParsedAll, Join, ReaderAt
<1>6. CASE Parse
  <2>1. Head(buffer) \in {0} \cup 1 .. Len(sent)
          /\ Tail(buffer) \in Seq({0} \cup 1 .. Len(sent))
    BY <1>6, HeadTail DEF Parse
  <2>2. Head(buffer) \in 1 .. Len(sent)
    BY <1>6, <2>1 DEF Parse, Kind
  <2>3. Append(answered, Head(buffer)) \in Seq(Items)
    BY <2>2, Appended DEF Items
  <2>4. current' \in 1 .. Len(sent) /\ current' # None /\ reader' \in {"process", "send"}
    BY <1>6, <2>2 DEF Parse
  <2>5. UNCHANGED <<clientVars, writerVars, responses>>
    BY <1>6 DEF Parse, ReaderAt
  <2>6. buffer' \in Seq({0} \cup 1 .. Len(sent)) /\ answered' \in Seq(Items)
    BY <1>6, <2>1, <2>3 DEF Parse
  <2> QED
    BY <2>4, <2>5, <2>6
<1>7. CASE ParseFails
  <2>1. reader # "process" /\ reader # "send"
    BY <1>7 DEF ParseFails, ReaderAt
  <2> QED
    BY <1>7, <2>1 DEF ParseFails, ReaderAt
<1>8. CASE Process
  <2>1. current \in Items
    BY <1>8 DEF Process, ReaderAt, Items
  <2>2. Append(answered, current) \in Seq(Items)
    BY <2>1, Appended
  <2> QED
    BY <1>8, <2>2 DEF Process, ReaderAt
<1>9. CASE Send
  <2>1. current \in Items
    BY <1>9 DEF Send, ReaderAt, Items
  <2>2. responses' \in Seq(Items) /\ Len(responses') <= Capacity
    BY <1>9, <2>1, Appended DEF Send
  <2> QED
    BY <1>9, <2>2 DEF Send, ReaderAt
<1>10. CASE SendFails
  BY <1>10 DEF SendFails, ReaderAt
<1>11. CASE WriterReceives
  <2>1. Head(responses) \in Items /\ Tail(responses) \in Seq(Items)
          /\ Len(Tail(responses)) = Len(responses) - 1
    BY <1>11, HeadTail DEF WriterReceives
  <2>2. responses' \in Seq(Items) /\ Len(responses') <= Capacity
    BY <1>11, <2>1 DEF WriterReceives
  <2>3. writing' \in Items /\ writing' # None
    BY <1>11, <2>1 DEF WriterReceives, Items
  <2> QED
    BY <1>11, <2>2, <2>3 DEF WriterReceives
<1>12. CASE WriterEnds
  BY <1>12 DEF WriterEnds
<1>13. CASE WriterWrites
  <2>1. outgoing' \in Seq(Items) /\ Len(outgoing') <= Outgoing
    BY <1>13, Appended DEF WriterWrites
  <2> QED
    BY <1>13, <2>1 DEF WriterWrites
<1>14. CASE WriteFails
  BY <1>14 DEF WriteFails
<1>15. CASE UNCHANGED vars
  BY <1>15
<1> QED
  BY <1>1, <1>2, <1>3, <1>4, <1>5, <1>6, <1>7, <1>8, <1>9, <1>10, <1>11, <1>12,
     <1>13, <1>14, <1>15 DEF Next, ReaderStep, WriterStep

\* The states of a connection are well typed, the response channel within its
\* capacity, and an item in hand exactly while it is worked on.
THEOREM ConnectionTypeCorrect == Spec => []TypeOK
BY TypeInit, TypeStep, PTL DEF Spec
-----------------------------------------------------------------------------
(***************************************************************************)
(* Order.  The invariant counts: an item has its number in the sequence of *)
(* all that was sent, and everything on its way is numbered from what is   *)
(* before it.                                                              *)
(***************************************************************************)
\* The items that have left the buffer.
Base == Len(answered) + (IF reader = "process" THEN 1 ELSE 0)

\* No read has torn the first i items of the buffer.
Whole(i) == \A j \in 1 .. i : buffer[j] # Torn

ItemsNumbered ==
    /\ reader = "process" => current = Len(answered) + 1
    /\ \A i \in 1 .. Len(buffer) : Whole(i) => buffer[i] = Base + i
    /\ Whole(Len(buffer)) =>
         \A i \in 1 .. Len(input) : input[i] = Base + Len(buffer) + i
    /\ client = "open" /\ Whole(Len(buffer)) =>
         Base + Len(buffer) + Len(input) = Len(sent)

InHandCount == IF writer = "write" THEN 1 ELSE 0
UnsentCount == IF reader = "send" THEN 1 ELSE 0

ResponsesNumbered ==
    /\ \A i \in 1 .. Len(answered) : answered[i] = i
    /\ \A i \in 1 .. Len(received) : received[i] = i
    /\ Len(received) <= Len(answered)
    /\ client # "gone" =>
         /\ Len(received) + Len(outgoing) + InHandCount + Len(responses) + UnsentCount
              = Len(answered)
         /\ \A i \in 1 .. Len(outgoing) : outgoing[i] = Len(received) + i
         /\ writer = "write" => writing = Len(received) + Len(outgoing) + 1
         /\ \A i \in 1 .. Len(responses) :
              responses[i] = Len(received) + Len(outgoing) + InHandCount + i
         /\ reader = "send" => current = Len(answered)
         /\ writer # "failed" /\ (writer = "done" => ReaderGone)

OrderInv == TypeOK /\ ItemsNumbered /\ ResponsesNumbered

LEMMA OrderInit == Init => OrderInv
BY TypeInit, ConnectionAssumption
   DEF Init, OrderInv, ItemsNumbered, ResponsesNumbered, Base, Whole, InHandCount,
       UnsentCount

LEMMA ItemsStep == OrderInv /\ [Next]_vars => ItemsNumbered'
<1> SUFFICES ASSUME OrderInv, [Next]_vars PROVE ItemsNumbered'
  OBVIOUS
<1> USE ConnectionAssumption DEF OrderInv
<1> DEFINE S == 1 .. Len(sent)
           T == {Torn} \cup 1 .. Len(sent)
<1>0. /\ buffer \in Seq(T) /\ input \in Seq(S) /\ S \subseteq T
      /\ Len(buffer) \in Nat /\ Len(input) \in Nat /\ Len(answered) \in Nat
      /\ Len(sent) \in Nat /\ Base \in Nat
  BY DEF TypeOK, Base
<1>1. ASSUME NEW kind \in Kinds, ClientSends(kind) PROVE ItemsNumbered'
  <2>1. Len(sent') = Len(sent) + 1
    BY <1>1, Appended DEF ClientSends, TypeOK
  <2>2. input \in Seq(Nat) /\ Len(sent') \in Nat
    BY <1>0, <2>1, Widened
  <2>0. Len(input') = Len(input) + 1
    BY <1>1, <2>2, Appended DEF ClientSends
  <2>3. /\ Len(input') = Len(input) + 1 /\ input'[Len(input) + 1] = Len(sent')
        /\ \A i \in 1 .. Len(input) : input'[i] = input[i]
    BY <1>1, <2>2, Appended DEF ClientSends
  <2>4. client = "open" /\ UNCHANGED <<client, readerVars>>
    BY <1>1 DEF ClientSends
  <2>5. Base' = Base /\ (Whole(Len(buffer)) <=> Whole(Len(buffer))')
    BY <2>4 DEF Base, Whole
  <2>6. UNCHANGED <<buffer, answered, reader, current>>
    BY <2>4
  <2>7. Whole(Len(buffer)) => input'[Len(input) + 1] = Base + Len(buffer) + (Len(input) + 1)
    <3>1. Whole(Len(buffer)) => Base + Len(buffer) + Len(input) = Len(sent)
      BY <2>4 DEF ItemsNumbered
    <3>2. input'[Len(input) + 1] = Len(sent) + 1
      BY <2>1, <2>3
    <3> QED
      BY <1>0, <3>1, <3>2
  <2>8. Whole(Len(buffer))' =>
          \A i \in 1 .. Len(input') : input'[i] = Base' + Len(buffer') + i
    <3> SUFFICES ASSUME Whole(Len(buffer)), NEW i \in 1 .. Len(input')
                 PROVE  input'[i] = Base + Len(buffer) + i
      BY <2>5, <2>6
    <3>1. CASE i = Len(input) + 1
      BY <2>7, <3>1
    <3>2. CASE i # Len(input) + 1
      <4>1. i \in 1 .. Len(input)
        BY <1>0, <2>0, <3>2
      <4> QED
        BY <2>3, <4>1 DEF ItemsNumbered
    <3> QED
      BY <3>1, <3>2
  <2>9. \A i \in 1 .. Len(buffer') : Whole(i)' => buffer'[i] = Base' + i
    BY <2>5, <2>6 DEF ItemsNumbered, Whole
  <2>10. client' = "open" /\ Whole(Len(buffer))' =>
           Base' + Len(buffer') + Len(input') = Len(sent')
    BY <1>0, <2>1, <2>3, <2>4, <2>5, <2>6 DEF ItemsNumbered
  <2> QED
    BY <2>6, <2>8, <2>9, <2>10 DEF ItemsNumbered
<1>2. CASE ClientReceives \/ ClientEnds \/ Join \/ ReadEof \/ ReadFails \/ ParsedAll
             \/ ParseFails \/ Send \/ SendFails \/ WriterStep
  <2>1. UNCHANGED <<sent, input, buffer, answered>>
    BY <1>2 DEF ClientReceives, ClientEnds, Join, ReadEof, ReadFails, ParsedAll,
                ParseFails, Send, SendFails, WriterStep, WriterReceives, WriterEnds,
                WriterWrites, WriteFails, ReaderAt
  <2>2. client' = "open" => client = "open"
    BY <1>2 DEF ClientReceives, ClientEnds, Join, ReadEof, ReadFails, ParsedAll,
                ParseFails, Send, SendFails, WriterStep, WriterReceives, WriterEnds,
                WriterWrites, WriteFails, ReaderAt
  <2>3. (reader' = "process" <=> reader = "process")
          /\ (reader = "process" => current' = current)
    BY <1>2 DEF ClientReceives, ClientEnds, Join, ReadEof, ReadFails, ParsedAll,
                ParseFails, Send, SendFails, WriterStep, WriterReceives, WriterEnds,
                WriterWrites, WriteFails, ReaderAt
  <2> QED
    BY <2>1, <2>2, <2>3 DEF ItemsNumbered, Base, Whole
<1>3. CASE Reset
  <2>1. client' # "open" /\ UNCHANGED <<sent, readerVars>>
    BY <1>3 DEF Reset
  <2>2. CASE input' = input
    BY <2>1, <2>2 DEF ItemsNumbered, Base, Whole
  <2>3. CASE input' = << >>
    BY <2>1, <2>3 DEF ItemsNumbered, Base, Whole
  <2> QED
    BY <1>3, <2>2, <2>3 DEF Reset
<1>4. CASE Read
  <2>1. reader = "read" /\ reader' = "parse" /\ UNCHANGED <<sent, client, current, answered>>
    BY <1>4 DEF Read
  <2>2. Base' = Base
    BY <2>1 DEF Base
  <2>3. PICK n \in 0 .. Len(input) :
          \/ /\ buffer' = buffer \o SubSeq(input, 1, n)
             /\ input' = SubSeq(input, n + 1, Len(input))
          \/ /\ n < Len(input)
             /\ buffer' = Append(buffer \o SubSeq(input, 1, n), Torn)
             /\ input' = SubSeq(input, n + 2, Len(input))
    BY <1>4 DEF Read
  <2> DEFINE b == buffer \o SubSeq(input, 1, n)
             r == SubSeq(input, n + 1, Len(input))
  <2>4. /\ b \in Seq(T) /\ Len(b) = Len(buffer) + n
        /\ \A i \in 1 .. Len(buffer) : b[i] = buffer[i]
        /\ \A i \in 1 .. n : b[Len(buffer) + i] = input[i]
        /\ Len(r) = Len(input) - n
        /\ \A i \in 1 .. Len(input) - n : r[i] = input[n + i]
    <3>1. n \in 0 .. Len(input)
      OBVIOUS
    <3> HIDE DEF S, T, vars, OrderInv
    <3>2. PICK z, y : z = buffer /\ y = input
      OBVIOUS
    <3>3. z \in Seq(T) /\ y \in Seq(S) /\ n \in 0 .. Len(y)
          /\ S \subseteq T
      BY <1>0, <3>1, <3>2
    <3>4. /\ z \o SubSeq(y, 1, n) \in Seq(T) /\ Len(z \o SubSeq(y, 1, n)) = Len(z) + n
          /\ \A i \in 1 .. Len(z) : (z \o SubSeq(y, 1, n))[i] = z[i]
          /\ \A i \in 1 .. n : (z \o SubSeq(y, 1, n))[Len(z) + i] = y[i]
          /\ Len(SubSeq(y, n + 1, Len(y))) = Len(y) - n
          /\ \A i \in 1 .. Len(y) - n : SubSeq(y, n + 1, Len(y))[i] = y[n + i]
      BY <3>3, Moved
    <3> QED
      BY <3>2, <3>4, Zenon
  <2>5. \A i \in 1 .. n : input[i] # Torn
    BY <1>0 DEF Torn
  <2>6. ASSUME NEW i \in 1 .. Len(b), \A j \in 1 .. i : b[j] # Torn
        PROVE  b[i] = Base + i
    <3>1. CASE i <= Len(buffer)
      <4>1. Whole(i)
        BY <1>0, <2>4, <2>6, <3>1 DEF Whole
      <4> QED
        BY <1>0, <2>4, <3>1, <4>1 DEF ItemsNumbered
    <3>2. CASE i > Len(buffer)
      <4>1. Whole(Len(buffer))
        BY <1>0, <2>4, <2>6, <3>2 DEF Whole
      <4>2. i - Len(buffer) \in 1 .. n
        BY <1>0, <2>4, <3>2
      <4>3. b[Len(buffer) + (i - Len(buffer))] = input[i - Len(buffer)]
        BY <2>4, <4>2
      <4>4. input[i - Len(buffer)] = Base + Len(buffer) + (i - Len(buffer))
        BY <1>0, <4>1, <4>2 DEF ItemsNumbered
      <4> QED
        BY <1>0, <4>3, <4>4
    <3> QED
      BY <1>0, <2>4, <3>1, <3>2
  <2>7. ASSUME \A j \in 1 .. Len(b) : b[j] # Torn PROVE Whole(Len(buffer))
    BY <1>0, <2>4, <2>7 DEF Whole
  <2>8. CASE buffer' = b /\ input' = r
    <3> HIDE DEF b, r
    <3>1. Whole(Len(buffer))' => Whole(Len(buffer))
      BY <2>7, <2>8 DEF Whole
    <3>2. Whole(Len(buffer))' =>
            \A i \in 1 .. Len(input') : input'[i] = Base' + Len(buffer') + i
      <4> SUFFICES ASSUME Whole(Len(buffer)), NEW i \in 1 .. Len(input) - n
                   PROVE  r[i] = Base + (Len(buffer) + n) + i
        BY <2>2, <2>4, <2>8, <3>1
      <4>1. n + i \in 1 .. Len(input) /\ n \in Nat /\ i \in Nat
        BY <1>0
      <4>2. input[n + i] = Base + Len(buffer) + (n + i)
        BY <4>1 DEF ItemsNumbered
      <4>3. r[i] = input[n + i]
        BY <2>4
      <4> QED
        BY <1>0, <4>1, <4>2, <4>3
    <3>3. \A i \in 1 .. Len(buffer') : Whole(i)' => buffer'[i] = Base' + i
      BY <2>2, <2>6, <2>8 DEF Whole
    <3>4. client' = "open" /\ Whole(Len(buffer))' =>
            Base' + Len(buffer') + Len(input') = Len(sent')
      BY <1>0, <2>1, <2>2, <2>4, <2>8, <3>1 DEF ItemsNumbered
    <3> QED
      BY <2>1, <3>2, <3>3, <3>4 DEF ItemsNumbered
  <2>9. CASE n < Len(input) /\ buffer' = Append(b, Torn)
    <3> HIDE DEF b, r
    <3>1. Len(buffer') = Len(b) + 1 /\ buffer'[Len(b) + 1] = Torn /\ Len(b) \in Nat
            /\ \A i \in 1 .. Len(b) : buffer'[i] = b[i]
      BY <2>4, <2>9, Appended
    <3>2. ~Whole(Len(buffer))'
      BY <3>1 DEF Whole
    <3>3. ASSUME NEW i \in 1 .. Len(buffer'), Whole(i)' PROVE buffer'[i] = Base' + i
      <4>1. i # Len(b) + 1
        BY <3>1, <3>3 DEF Whole
      <4>2. i \in 1 .. Len(b)
        BY <3>1, <4>1
      <4>3. \A j \in 1 .. i : b[j] # Torn
        BY <3>1, <3>3, <4>2 DEF Whole
      <4> QED
        BY <2>2, <2>6, <3>1, <4>2, <4>3
    <3> QED
      BY <2>1, <3>2, <3>3 DEF ItemsNumbered
  <2> QED
    BY <2>3, <2>8, <2>9
<1>5. CASE Parse
  <2>1. buffer # << >> /\ reader = "parse" /\ UNCHANGED <<sent, client, input>>
    BY <1>5 DEF Parse, ReaderAt
  <2>2. /\ Len(buffer') = Len(buffer) - 1 /\ Len(buffer) > 0
        /\ \A i \in 1 .. Len(buffer') : buffer'[i] = buffer[i + 1]
        /\ Head(buffer) = buffer[1] /\ Head(buffer) \in T
    <3>1. PICK z : z = buffer
      OBVIOUS
    <3> HIDE DEF S, T
    <3>2. z \in Seq(T) /\ z # << >> /\ buffer' = Tail(z)
      <4>1. buffer' = Tail(buffer)
        BY <1>5, Zenon DEF Parse
      <4> QED
        BY <1>0, <2>1, <3>1, <4>1
    <3>3. /\ Head(z) \in T /\ Head(z) = z[1]
          /\ Len(Tail(z)) = Len(z) - 1 /\ Len(z) \in Nat \ {0}
          /\ \A i \in 1 .. Len(Tail(z)) : Tail(z)[i] = z[i + 1]
      BY <3>2, HeadTail
    <3>4. Len(Tail(z)) = Len(z) - 1 /\ Len(z) > 0
      BY <3>3
    <3> QED
      BY <3>1, <3>2, <3>3, <3>4, Zenon
  <2>3. buffer[1] # Torn
    BY <1>5, <2>2, Zenon DEF Parse, Kind
  <2>4. Base = Len(answered) /\ buffer[1] = Base + 1
    <3>1. Whole(1) /\ 1 \in 1 .. Len(buffer)
      BY <1>0, <2>2, <2>3 DEF Whole
    <3>2. Base = Len(answered)
      BY <2>1 DEF Base
    <3> QED
      BY <3>1, <3>2 DEF ItemsNumbered
  <2>5. Base' = Base + 1 /\ (reader' = "process" => current' = Len(answered') + 1)
    <3>1. CASE reader' = "process" /\ UNCHANGED answered
      BY <1>0, <1>5, <2>2, <2>4, <3>1, Zenon DEF Base, Parse
    <3>2. CASE reader' = "send" /\ answered' = Append(answered, Head(buffer))
      <4>1. Len(answered') = Len(answered) + 1
        BY <2>2, <2>3, <3>2, Appended DEF TypeOK, Items
      <4> QED
        BY <1>0, <2>4, <3>2, <4>1 DEF Base
    <3> QED
      BY <1>5, <3>1, <3>2 DEF Parse
  <2>6. \A i \in 0 .. Len(buffer') : Whole(i)' => Whole(i + 1)
    <3> SUFFICES ASSUME NEW i \in 0 .. Len(buffer'), Whole(i)', NEW j \in 1 .. i + 1
                 PROVE  buffer[j] # Torn
      BY DEF Whole
    <3>1. CASE j = 1
      BY <2>3, <3>1
    <3>2. CASE j # 1
      <4>1. j - 1 \in 1 .. i /\ j - 1 \in 1 .. Len(buffer') /\ (j - 1) + 1 = j
        BY <1>0, <2>2, <3>2
      <4>2. buffer'[j - 1] # Torn /\ buffer'[j - 1] = buffer[j]
        BY <2>2, <4>1 DEF Whole
      <4> QED
        BY <4>2
    <3> QED
      BY <3>1, <3>2
  <2>7. Whole(Len(buffer))' => Whole(Len(buffer))
    BY <1>0, <2>2, <2>6
  <2>8. \A i \in 1 .. Len(buffer') : Whole(i)' => buffer'[i] = Base' + i
    BY <1>0, <2>2, <2>5, <2>6 DEF ItemsNumbered
  <2>9. Whole(Len(buffer))' =>
          \A i \in 1 .. Len(input') : input'[i] = Base' + Len(buffer') + i
    <3> SUFFICES ASSUME Whole(Len(buffer)), NEW i \in 1 .. Len(input)
                 PROVE  input[i] = Base' + Len(buffer') + i
      BY <2>1, <2>7
    <3>1. input[i] = Base + Len(buffer) + i
      BY DEF ItemsNumbered
    <3> QED
      BY <1>0, <2>2, <2>5, <3>1
  <2>10. client' = "open" /\ Whole(Len(buffer))' =>
           Base' + Len(buffer') + Len(input') = Len(sent')
    <3> SUFFICES ASSUME client = "open", Whole(Len(buffer))
                 PROVE  Base' + Len(buffer') + Len(input) = Len(sent)
      BY <2>1, <2>7
    <3>1. Base + Len(buffer) + Len(input) = Len(sent)
      BY DEF ItemsNumbered
    <3>2. Base' = Base + 1 /\ Len(buffer') = Len(buffer) - 1
      BY <2>2, <2>5
    <3>3. (Base + 1) + (Len(buffer) - 1) + Len(input) = Base + Len(buffer) + Len(input)
      BY <1>0
    <3> QED
      BY <3>1, <3>2, <3>3
  <2> QED
    BY <2>5, <2>8, <2>9, <2>10 DEF ItemsNumbered
<1>6. CASE Process
  <2>1. reader = "process" /\ reader' = "send" /\ UNCHANGED <<sent, client, input, buffer>>
    BY <1>6 DEF Process, ReaderAt
  <2>2. Len(answered') = Len(answered) + 1
    BY <1>6, Appended DEF Process, ReaderAt, TypeOK, Items, Torn
  <2>3. Base' = Base
    BY <1>0, <2>1, <2>2 DEF Base
  <2> QED
    BY <2>1, <2>3 DEF ItemsNumbered, Whole
<1>7. CASE UNCHANGED vars
  BY <1>7 DEF ItemsNumbered, Base, Whole
<1> QED
  BY <1>1, <1>2, <1>3, <1>4, <1>5, <1>6, <1>7 DEF Next, ReaderStep

\* What a response adds to the history of answers.
LEMMA Answering ==
    ASSUME OrderInv, reader \in {"parse", "process"}, NEW e, e = Len(answered) + 1,
           answered' = Append(answered, e), reader' = "send", current' = e,
           UNCHANGED <<client, received, outgoing, responses, writerVars>>
    PROVE  ResponsesNumbered'
<1> USE DEF OrderInv, TypeOK
<1>1. e \in Nat /\ e \in Items /\ Len(answered) \in Nat /\ answered \in Seq(Items)
  BY DEF Items, Torn
<1>2. /\ Len(answered') = Len(answered) + 1 /\ answered'[Len(answered) + 1] = e
      /\ \A i \in 1 .. Len(answered) : answered'[i] = answered[i]
  BY <1>1, Appended
<1>3. \A i \in 1 .. Len(answered') : answered'[i] = i
  <2> SUFFICES ASSUME NEW i \in 1 .. Len(answered') PROVE answered'[i] = i
    OBVIOUS
  <2>1. i \in 1 .. Len(answered) \/ i = Len(answered) + 1
    BY <1>1, <1>2
  <2> QED
    BY <1>2, <2>1 DEF ResponsesNumbered
<1>4. UnsentCount = 0 /\ UnsentCount' = 1
  BY DEF UnsentCount
<1>5. InHandCount' = InHandCount /\ InHandCount \in Nat
  BY DEF InHandCount
<1>6. /\ Len(received) \in Nat /\ Len(outgoing) \in Nat /\ Len(responses) \in Nat
      /\ received' = received /\ outgoing' = outgoing /\ responses' = responses
      /\ client' = client /\ writer' = writer /\ writing' = writing
  BY DEF writerVars
<1>7. ASSUME client # "gone" PROVE writer # "done" \/ ReaderGone'
  BY <1>7 DEF ResponsesNumbered, ReaderGone
<1> HIDE DEF TypeOK
<1>8. ASSUME client # "gone"
      PROVE  Len(received) + Len(outgoing) + InHandCount + Len(responses) + 1 = Len(answered) + 1
  BY <1>1, <1>4, <1>5, <1>6, <1>8 DEF ResponsesNumbered
<1>9. Len(received) <= Len(answered')
  BY <1>1, <1>2, <1>6 DEF ResponsesNumbered
<1> QED
  BY <1>1, <1>2, <1>3, <1>4, <1>5, <1>6, <1>7, <1>8, <1>9 DEF ResponsesNumbered

LEMMA ResponsesStep == OrderInv /\ [Next]_vars => ResponsesNumbered'
<1> SUFFICES ASSUME OrderInv, [Next]_vars PROVE ResponsesNumbered'
  OBVIOUS
<1> USE ConnectionAssumption DEF OrderInv
<1>0. /\ Len(answered) \in Nat /\ Len(received) \in Nat /\ Len(outgoing) \in Nat
      /\ Len(responses) \in Nat /\ InHandCount \in Nat /\ UnsentCount \in Nat
      /\ received \in Seq(Items) /\ outgoing \in Seq(Items) /\ responses \in Seq(Items)
  BY DEF TypeOK, InHandCount, UnsentCount
<1>1. ASSUME \/ \E kind \in Kinds : ClientSends(kind)
             \/ ClientEnds \/ Reset \/ WriteFails \/ UNCHANGED vars
      PROVE  ResponsesNumbered'
  <2>1. UNCHANGED <<received, answered, reader, current>>
    BY <1>1 DEF ClientSends, ClientEnds, Reset, WriteFails
  <2>2. \/ client' = "gone"
        \/ client # "gone" /\ UNCHANGED <<outgoing, responses, writer, writing>>
    BY <1>1 DEF ClientSends, ClientEnds, Reset, WriteFails
  <2> QED
    BY <2>1, <2>2 DEF ResponsesNumbered, InHandCount, UnsentCount, ReaderGone
<1>2. CASE ClientReceives
  <2>1. client # "gone" /\ outgoing # << >>
          /\ UNCHANGED <<answered, reader, current, client, responses, writer, writing>>
    BY <1>2 DEF ClientReceives
  <2>2. /\ Head(outgoing) \in Items /\ Head(outgoing) = outgoing[1]
        /\ Len(outgoing') = Len(outgoing) - 1 /\ Len(outgoing) > 0
        /\ \A i \in 1 .. Len(outgoing') : outgoing'[i] = outgoing[i + 1]
    BY <1>0, <1>2, <2>1, HeadTail DEF ClientReceives
  <2>3. /\ Len(received') = Len(received) + 1 /\ received'[Len(received) + 1] = Head(outgoing)
        /\ \A i \in 1 .. Len(received) : received'[i] = received[i]
    <3> DEFINE h == Head(outgoing)
    <3>1. h \in Items /\ received' = Append(received, h)
      BY <1>2, <2>2, Zenon DEF ClientReceives
    <3> HIDE DEF h
    <3>2. /\ Len(received') = Len(received) + 1 /\ received'[Len(received) + 1] = h
          /\ \A i \in 1 .. Len(received) : received'[i] = received[i]
      BY <1>0, <3>1, Appended
    <3> QED
      BY <3>2, Zenon DEF h
  <2>4. Head(outgoing) = Len(received) + 1
    BY <1>0, <2>1, <2>2 DEF ResponsesNumbered
  <2>5. InHandCount' = InHandCount /\ UnsentCount' = UnsentCount /\ ReaderGone' = ReaderGone
    BY <2>1 DEF InHandCount, UnsentCount, ReaderGone
  <2>6. \A i \in 1 .. Len(received') : received'[i] = i
    <3> SUFFICES ASSUME NEW i \in 1 .. Len(received') PROVE received'[i] = i
      OBVIOUS
    <3>1. i \in 1 .. Len(received) \/ i = Len(received) + 1
      BY <1>0, <2>3
    <3> QED
      BY <2>3, <2>4, <3>1 DEF ResponsesNumbered
  <2>7. Len(received') + Len(outgoing') = Len(received) + Len(outgoing)
    BY <1>0, <2>2, <2>3
  <2>8. \A i \in 1 .. Len(outgoing') : outgoing'[i] = Len(received') + i
    <3> SUFFICES ASSUME NEW i \in 1 .. Len(outgoing') PROVE outgoing'[i] = Len(received') + i
      OBVIOUS
    <3>1. i + 1 \in 1 .. Len(outgoing)
      BY <1>0, <2>2
    <3>2. outgoing[i + 1] = Len(received) + (i + 1)
      BY <2>1, <3>1 DEF ResponsesNumbered
    <3> QED
      BY <1>0, <2>2, <2>3, <3>2
  <2>9. Len(received') <= Len(answered')
    BY <1>0, <2>1, <2>2, <2>3 DEF ResponsesNumbered
  <2> QED
    BY <2>1, <2>5, <2>6, <2>7, <2>8, <2>9 DEF ResponsesNumbered
<1>3. CASE Read \/ ReadEof \/ ReadFails \/ ParsedAll \/ ParseFails \/ Join
  <2>1. UNCHANGED <<answered, received, outgoing, client, responses, writer, writing>>
    BY <1>3 DEF Read, ReadEof, ReadFails, ParsedAll, ParseFails, Join, ReaderAt
  <2>2. reader \in {"read", "parse", "join"} /\ reader' # "send"
    BY <1>3 DEF Read, ReadEof, ReadFails, ParsedAll, ParseFails, Join, ReaderAt
  <2>3. client # "gone" /\ writer = "done" => ReaderGone'
    BY <1>3, <2>2 DEF ResponsesNumbered, ReaderGone
  <2>4. InHandCount' = InHandCount /\ UnsentCount' = UnsentCount
    BY <2>1, <2>2 DEF InHandCount, UnsentCount
  <2> QED
    BY <2>1, <2>2, <2>3, <2>4 DEF ResponsesNumbered
<1>4. CASE Parse
  <2>1. reader = "parse" /\ buffer # << >>
          /\ UNCHANGED <<client, received, outgoing, responses, writer, writing>>
    BY <1>4 DEF Parse, ReaderAt
  <2>2. CASE reader' = "process" /\ UNCHANGED answered
    BY <2>1, <2>2 DEF ResponsesNumbered, InHandCount, UnsentCount, ReaderGone
  <2>3. CASE reader' = "send" /\ answered' = Append(answered, Head(buffer))
    <3>1. Head(buffer) = buffer[1] /\ 1 \in 1 .. Len(buffer)
      BY <2>1, HeadTail DEF TypeOK
    <3>2. buffer[1] # Torn
      BY <1>4, <3>1 DEF Parse, Kind
    <3>3. Base = Len(answered) /\ buffer[1] = Base + 1
      BY <1>0, <2>1, <3>1, <3>2 DEF Base, ItemsNumbered, Whole
    <3>4. current' = Head(buffer) /\ Head(buffer) = Len(answered) + 1
      BY <1>4, <3>1, <3>3 DEF Parse
    <3> QED
      BY <2>1, <2>3, <3>4, Answering
  <2> QED
    BY <1>4, <2>2, <2>3 DEF Parse
<1>5. CASE Process
  <2>1. reader = "process" /\ reader' = "send" /\ answered' = Append(answered, current)
          /\ UNCHANGED <<client, received, outgoing, responses, writer, writing, current>>
    BY <1>5 DEF Process, ReaderAt
  <2>2. current = Len(answered) + 1
    BY <2>1 DEF ItemsNumbered
  <2> QED
    BY <2>1, <2>2, Answering
<1>6. CASE Send
  <2>1. reader = "send" /\ reader' = "parse" /\ responses' = Append(responses, current)
          /\ UNCHANGED <<client, received, outgoing, answered, writer, writing>> /\ ~WriterGone
    BY <1>6 DEF Send, ReaderAt
  <2>2. current \in Items
    BY <2>1 DEF TypeOK, Items, Torn
  <2>3. /\ Len(responses') = Len(responses) + 1 /\ responses'[Len(responses) + 1] = current
        /\ \A i \in 1 .. Len(responses) : responses'[i] = responses[i]
    BY <1>0, <2>1, <2>2, Appended
  <2>4. InHandCount' = InHandCount /\ UnsentCount = 1 /\ UnsentCount' = 0
    BY <2>1 DEF InHandCount, UnsentCount
  <2>5. ASSUME client # "gone", NEW i \in 1 .. Len(responses')
        PROVE  responses'[i] = Len(received) + Len(outgoing) + InHandCount + i
    <3>1. CASE i \in 1 .. Len(responses)
      BY <2>3, <2>5, <3>1 DEF ResponsesNumbered
    <3>2. CASE i = Len(responses) + 1
      <4>1. current = Len(answered) /\ Len(answered) =
              Len(received) + Len(outgoing) + InHandCount + Len(responses) + UnsentCount
        BY <2>1, <2>5 DEF ResponsesNumbered
      <4> QED
        BY <1>0, <2>3, <2>4, <3>2, <4>1
    <3> QED
      BY <1>0, <2>3, <3>1, <3>2
  <2>6. client # "gone" =>
          Len(received) + Len(outgoing) + InHandCount + Len(responses') + UnsentCount'
            = Len(answered)
    BY <1>0, <2>3, <2>4 DEF ResponsesNumbered
  <2>7. writer # "done" /\ writer # "failed"
    BY <2>1 DEF WriterGone
  <2> QED
    BY <2>1, <2>4, <2>5, <2>6, <2>7 DEF ResponsesNumbered
<1>7. CASE SendFails
  <2>1. reader = "send" /\ WriterGone /\ UNCHANGED <<client, received, answered>>
    BY <1>7 DEF SendFails, ReaderAt
  <2>2. client = "gone"
    BY <2>1 DEF ResponsesNumbered, WriterGone, ReaderGone
  <2> QED
    BY <2>1, <2>2 DEF ResponsesNumbered
<1>8. CASE WriterReceives
  <2>1. writer = "recv" /\ writer' = "write" /\ responses # << >> /\ writing' = Head(responses)
          /\ UNCHANGED <<client, received, outgoing, answered, reader, current>>
    BY <1>8 DEF WriterReceives
  <2>2. /\ Head(responses) = responses[1] /\ Len(responses') = Len(responses) - 1
        /\ \A i \in 1 .. Len(responses') : responses'[i] = responses[i + 1]
        /\ 1 \in 1 .. Len(responses)
    BY <1>0, <1>8, <2>1, HeadTail DEF WriterReceives
  <2>3. InHandCount = 0 /\ InHandCount' = 1 /\ UnsentCount' = UnsentCount
    BY <2>1 DEF InHandCount, UnsentCount
  <2>4. client # "gone" => writing' = Len(received) + Len(outgoing) + 1
    BY <1>0, <2>1, <2>2, <2>3 DEF ResponsesNumbered
  <2>5. ASSUME client # "gone", NEW i \in 1 .. Len(responses')
        PROVE  responses'[i] = Len(received) + Len(outgoing) + InHandCount' + i
    <3>1. i + 1 \in 1 .. Len(responses)
      BY <1>0, <2>2
    <3>2. responses[i + 1] = Len(received) + Len(outgoing) + InHandCount + (i + 1)
      BY <2>5, <3>1 DEF ResponsesNumbered
    <3> QED
      BY <1>0, <2>2, <2>3, <3>2
  <2>6. client # "gone" =>
          Len(received) + Len(outgoing) + InHandCount' + Len(responses') + UnsentCount'
            = Len(answered)
    <3> SUFFICES ASSUME client # "gone"
                 PROVE  Len(received) + Len(outgoing) + InHandCount' + Len(responses')
                          + UnsentCount' = Len(answered)
      OBVIOUS
    <3>1. Len(received) + Len(outgoing) + 0 + Len(responses) + UnsentCount = Len(answered)
      BY <2>3 DEF ResponsesNumbered
    <3>2. Len(responses') = Len(responses) - 1 /\ InHandCount' = 1
            /\ UnsentCount' = UnsentCount
      BY <2>2, <2>3
    <3>3. PICK m, o, w, u : /\ m = Len(received) /\ o = Len(outgoing) /\ w = Len(responses)
                            /\ u = UnsentCount
      OBVIOUS
    <3>4. m \in Nat /\ o \in Nat /\ w \in Nat /\ u \in Nat
      BY <1>0, <3>3
    <3>5. m + o + 1 + (w - 1) + u = m + o + 0 + w + u
      BY <3>4
    <3> QED
      BY <3>1, <3>2, <3>3, <3>5
  <2> QED
    BY <2>1, <2>3, <2>4, <2>5, <2>6 DEF ResponsesNumbered
<1>9. CASE WriterEnds
  BY <1>9 DEF WriterEnds, ResponsesNumbered, InHandCount, UnsentCount, ReaderGone
<1>10. CASE WriterWrites
  <2>1. writer = "write" /\ writer' = "recv" /\ client # "gone"
          /\ outgoing' = Append(outgoing, writing)
          /\ UNCHANGED <<client, received, responses, answered, reader, current>>
    BY <1>10 DEF WriterWrites
  <2>2. writing \in Items /\ writing = Len(received) + Len(outgoing) + 1
    BY <2>1 DEF TypeOK, ResponsesNumbered
  <2>3. /\ Len(outgoing') = Len(outgoing) + 1 /\ outgoing'[Len(outgoing) + 1] = writing
        /\ \A i \in 1 .. Len(outgoing) : outgoing'[i] = outgoing[i]
    BY <1>0, <2>1, <2>2, Appended
  <2>4. InHandCount = 1 /\ InHandCount' = 0 /\ UnsentCount' = UnsentCount
    BY <2>1 DEF InHandCount, UnsentCount
  <2>5. \A i \in 1 .. Len(outgoing') : outgoing'[i] = Len(received) + i
    <3> SUFFICES ASSUME NEW i \in 1 .. Len(outgoing') PROVE outgoing'[i] = Len(received) + i
      OBVIOUS
    <3>1. CASE i \in 1 .. Len(outgoing)
      BY <2>1, <2>3, <3>1 DEF ResponsesNumbered
    <3>2. CASE i = Len(outgoing) + 1
      BY <1>0, <2>2, <2>3, <3>2
    <3> QED
      BY <1>0, <2>3, <3>1, <3>2
  <2>6. Len(received) + Len(outgoing') + InHandCount' = Len(received) + Len(outgoing) + InHandCount
    BY <1>0, <2>3, <2>4
  <2> QED
    BY <2>1, <2>4, <2>5, <2>6 DEF ResponsesNumbered, ReaderGone
<1> QED
  BY <1>1, <1>2, <1>3, <1>4, <1>5, <1>6, <1>7, <1>8, <1>9, <1>10
     DEF Next, ReaderStep, WriterStep

LEMMA OrderStep == OrderInv /\ [Next]_vars => OrderInv'
BY TypeStep, ItemsStep, ResponsesStep DEF OrderInv

\* The elements of s count on from a.
CountsFrom(s, a) == \A i \in 1 .. Len(s) : s[i] = a + i

LEMMA CountsOn ==
    ASSUME NEW s \in Seq(Items), NEW t \in Seq(Items), NEW a \in Nat,
           CountsFrom(s, a), CountsFrom(t, a + Len(s))
    PROVE  /\ s \o t \in Seq(Items) /\ Len(s \o t) = Len(s) + Len(t)
           /\ CountsFrom(s \o t, a)
<1>1. s \o t \in Seq(Items) /\ Len(s \o t) = Len(s) + Len(t) /\ Len(s) \in Nat /\ Len(t) \in Nat
  OBVIOUS
<1>2. ASSUME NEW i \in 1 .. Len(s \o t) PROVE (s \o t)[i] = a + i
  <2>1. CASE i <= Len(s)
    BY <1>1, <2>1 DEF CountsFrom
  <2>2. CASE i > Len(s)
    <3>1. i - Len(s) \in 1 .. Len(t) /\ (s \o t)[i] = t[i - Len(s)]
      BY <1>1, <2>2
    <3> QED
      BY <1>1, <3>1 DEF CountsFrom
  <2> QED
    BY <1>1, <2>1, <2>2
<1> QED
  BY <1>1, <1>2 DEF CountsFrom

LEMMA SameCount ==
    ASSUME NEW s \in Seq(Items), NEW t \in Seq(Items),
           CountsFrom(s, 0), CountsFrom(t, 0), Len(s) <= Len(t)
    PROVE  IsPrefix(s, t) /\ (Len(s) = Len(t) => s = t)
<1>1. \A i \in 1 .. Len(s) : s[i] = t[i]
  BY DEF CountsFrom
<1>2. s = SubSeq(t, 1, Len(s))
  <2>1. SubSeq(t, 1, Len(s)) \in Seq(Items) /\ Len(SubSeq(t, 1, Len(s))) = Len(s)
    OBVIOUS
  <2>2. \A i \in 1 .. Len(s) : SubSeq(t, 1, Len(s))[i] = t[i]
    OBVIOUS
  <2> DEFINE u == SubSeq(t, 1, Len(s))
  <2>3. u \in Seq(Items) /\ Len(u) = Len(s) /\ \A i \in 1 .. Len(s) : u[i] = s[i]
    BY <1>1, <2>1, <2>2
  <2> HIDE DEF u
  <2>4. u = s
    BY <2>3
  <2> QED
    BY <2>4 DEF u
<1>3. ASSUME Len(s) = Len(t) PROVE s = t
  BY <1>1, <1>3
<1> QED
  BY <1>2, <1>3 DEF IsPrefix

\* What counts on is what the properties say.
LEMMA OrderSuffices == OrderInv => ResponsesInOrder /\ BoundedAhead
<1> SUFFICES ASSUME OrderInv PROVE ResponsesInOrder /\ BoundedAhead
  OBVIOUS
<1>0. /\ answered \in Seq(Items) /\ received \in Seq(Items) /\ outgoing \in Seq(Items)
      /\ responses \in Seq(Items) /\ Len(answered) \in Nat /\ Len(received) \in Nat
      /\ Len(outgoing) \in Nat /\ Len(responses) \in Nat
      /\ Len(outgoing) <= Outgoing /\ Len(responses) <= Capacity
      /\ Outgoing \in Nat /\ Capacity \in Nat
  BY ConnectionAssumption DEF OrderInv, TypeOK
<1>1. CountsFrom(answered, 0) /\ CountsFrom(received, 0) /\ Len(received) <= Len(answered)
  BY <1>0 DEF OrderInv, ResponsesNumbered, CountsFrom
<1>2. IsPrefix(received, answered)
  BY <1>0, <1>1, SameCount
<1>3. ASSUME client # "gone"
      PROVE  /\ received \o outgoing \o InHand \o responses \o Unsent = answered
             /\ Len(answered) <= Len(received) + Outgoing + Capacity + 2
  <2>1. /\ Len(received) + Len(outgoing) + InHandCount + Len(responses) + UnsentCount
             = Len(answered)
        /\ CountsFrom(outgoing, Len(received))
        /\ writer = "write" => writing = Len(received) + Len(outgoing) + 1
        /\ CountsFrom(responses, Len(received) + Len(outgoing) + InHandCount)
        /\ reader = "send" => current = Len(answered)
    BY <1>3 DEF OrderInv, ResponsesNumbered, CountsFrom
  <2>2. InHandCount \in 0 .. 1 /\ UnsentCount \in 0 .. 1
    BY DEF InHandCount, UnsentCount
  <2>3. InHand \in Seq(Items) /\ Len(InHand) = InHandCount
    <3>1. writer = "write" => writing \in Items
      BY DEF OrderInv, TypeOK
    <3> QED
      BY <3>1 DEF InHand, InHandCount
  <2>4. Unsent \in Seq(Items) /\ Len(Unsent) = UnsentCount
    <3>1. reader = "send" => current \in Items
      BY ConnectionAssumption DEF OrderInv, TypeOK, Items, Torn
    <3> QED
      BY <3>1 DEF Unsent, UnsentCount
  <2>5. CountsFrom(InHand, Len(received) + Len(outgoing))
    <3> SUFFICES ASSUME writer = "write", NEW i \in 1 .. 1
                 PROVE  InHand[i] = Len(received) + Len(outgoing) + i
      BY DEF InHand, CountsFrom
    <3>1. i = 1 /\ InHand[i] = writing
      BY DEF InHand
    <3> QED
      BY <1>0, <2>1, <3>1
  <2>6. CountsFrom(Unsent, Len(received) + Len(outgoing) + InHandCount + Len(responses))
    <3> SUFFICES ASSUME reader = "send"
                 PROVE  current =
                          Len(received) + Len(outgoing) + InHandCount + Len(responses) + 1
      BY DEF Unsent, CountsFrom
    <3> QED
      BY <1>0, <2>1, <2>2 DEF UnsentCount
  <2> DEFINE a == received \o outgoing
             b == a \o InHand
             c == b \o responses
             d == c \o Unsent
  <2>7. a \in Seq(Items) /\ Len(a) = Len(received) + Len(outgoing) /\ CountsFrom(a, 0)
    BY <1>0, <1>1, <2>1, CountsOn
  <2> HIDE DEF a
  <2>8. b \in Seq(Items) /\ Len(b) = Len(a) + InHandCount /\ CountsFrom(b, 0)
    <3>1. CountsFrom(InHand, 0 + Len(a))
      BY <1>0, <2>5, <2>7
    <3> QED
      BY <1>0, <2>3, <2>4, <2>7, <3>1, CountsOn
  <2> HIDE DEF b
  <2>9. c \in Seq(Items) /\ Len(c) = Len(b) + Len(responses) /\ CountsFrom(c, 0)
    <3>1. CountsFrom(responses, 0 + Len(b))
      BY <1>0, <2>1, <2>2, <2>7, <2>8
    <3> QED
      BY <1>0, <2>3, <2>4, <2>8, <3>1, CountsOn
  <2> HIDE DEF c
  <2>10. d \in Seq(Items) /\ Len(d) = Len(c) + UnsentCount /\ CountsFrom(d, 0)
    <3>1. CountsFrom(Unsent, 0 + Len(c))
      BY <1>0, <2>2, <2>6, <2>7, <2>8, <2>9
    <3> QED
      BY <1>0, <2>3, <2>4, <2>9, <3>1, CountsOn
  <2> HIDE DEF d
  <2>11. Len(d) = Len(answered)
    BY <1>0, <2>1, <2>2, <2>7, <2>8, <2>9, <2>10
  <2>12. d = answered
    BY <1>0, <1>1, <2>10, <2>11, SameCount
  <2> QED
    BY <1>0, <2>1, <2>2, <2>12 DEF a, b, c, d
<1> QED
  BY <1>1, <1>2, <1>3 DEF ResponsesInOrder, BoundedAhead, CountsFrom

\* However reads cut what the client sends, it is answered item by item in its
\* order, and nothing is missing between the reader and the client while the
\* connection is up.
THEOREM ConnectionInOrder == Spec => []ResponsesInOrder
BY OrderInit, OrderStep, OrderSuffices, PTL DEF Spec

\* The reader stops serving a client that does not read.
THEOREM ConnectionBounded == Spec => []BoundedAhead
BY OrderInit, OrderStep, OrderSuffices, PTL DEF Spec
=============================================================================
