---------------------------- MODULE ProtocolProofs ----------------------------
(***************************************************************************)
(* What holds of the protocol of a connection for every stream of values,  *)
(* however deep they nest, and however a network cuts its bytes.           *)
(***************************************************************************)
EXTENDS Protocol, DataLemmas, TLAPS

(***************************************************************************)
(* The least element of a set, which ends a line.                          *)
(***************************************************************************)
\* Min is the least element, where there is one.
LEMMA MinIs ==
    ASSUME NEW S \in SUBSET Int, NEW a \in S, \A x \in S : a <= x
    PROVE  Min(S) = a
<1>1. Min(S) \in S /\ \A x \in S : Min(S) <= x
  BY DEF Min
<1>2. Min(S) <= a /\ a <= Min(S) /\ a \in Int /\ Min(S) \in Int
  BY <1>1
<1> QED
  BY <1>2

\* Max of two is the greater one.
LEMMA MaxOfTwo ==
    ASSUME NEW a \in Int, NEW b \in Int
    PROVE  Max({a, b}) = IF a >= b THEN a ELSE b
<1>1. Max({a, b}) \in {a, b} /\ \A x \in {a, b} : Max({a, b}) >= x
  <2>1. \E x \in {a, b} : \A y \in {a, b} : x >= y
    OBVIOUS
  <2> QED
    BY <2>1 DEF Max
<1> QED
  BY <1>1

\* A set of naturals that is not empty has one.
LEMMA MinIsLower ==
    ASSUME NEW S \in SUBSET Nat, S # {}
    PROVE  Min(S) \in S /\ \A x \in S : Min(S) <= x
<1> DEFINE Q == {n \in Nat : (\E x \in S : x <= n) => \E a \in S : \A x \in S : a <= x}
<1>1. 0 \in Q
  OBVIOUS
<1>2. ASSUME NEW n \in Nat, n \in Q PROVE n + 1 \in Q
  <2>1. CASE \E x \in S : x <= n
    BY <1>2, <2>1
  <2>2. CASE ~\E x \in S : x <= n
    BY <2>2
  <2> QED
    BY <2>1, <2>2
<1>3. Nat \subseteq Q
  <2> HIDE DEF Q
  <2> QED
    BY <1>1, <1>2, SetInduction
<1>4. PICK y \in S : TRUE
  OBVIOUS
<1>5. PICK a \in S : \A x \in S : a <= x
  <2>1. y \in Q
    BY <1>3
  <2> QED
    BY <2>1
<1> QED
  BY <1>5, MinIs

\* Part of a sequence.
LEMMA PartOf ==
    ASSUME NEW S, NEW s \in Seq(S), NEW m \in 1 .. Len(s) + 1, NEW n \in m - 1 .. Len(s)
    PROVE  /\ SubSeq(s, m, n) \in Seq(S)
           /\ Len(SubSeq(s, m, n)) = n - m + 1
           /\ \A i \in 1 .. n - m + 1 : SubSeq(s, m, n)[i] = s[m + i - 1]
OBVIOUS

\* Two sequences one behind the other.
LEMMA JoinOf ==
    ASSUME NEW S, NEW s \in Seq(S), NEW t \in Seq(S)
    PROVE  /\ s \o t \in Seq(S)
           /\ Len(s) \in Nat /\ Len(t) \in Nat /\ Len(s \o t) = Len(s) + Len(t)
           /\ \A i \in 1 .. Len(s) : (s \o t)[i] = s[i]
           /\ \A i \in 1 .. Len(t) : (s \o t)[Len(s) + i] = t[i]
OBVIOUS

\* Sequences of the same length and the same elements are the same.
LEMMA SameSequence ==
    ASSUME NEW S, NEW s \in Seq(S), NEW t \in Seq(S), Len(s) = Len(t),
           \A i \in 1 .. Len(s) : s[i] = t[i]
    PROVE  s = t
OBVIOUS
-----------------------------------------------------------------------------
(***************************************************************************)
(* Lines and data.                                                         *)
(***************************************************************************)
\* What a line ends with.
LEMMA CrlfIs ==
    ASSUME NEW s \in Seq(Tokens)
    PROVE  s = Crlf <=> Len(s) = 2 /\ s[1] = "CR" /\ s[2] = "LF"
<1>1. Crlf \in Seq(Tokens) /\ Len(Crlf) = 2 /\ Crlf[1] = "CR" /\ Crlf[2] = "LF"
  <2>1. Crlf \in Seq(Tokens)
    BY TokenAssumption DEF Crlf
  <2>2. Len(Crlf) = 2
    BY DEF Crlf
  <2>3. Crlf[1] = "CR"
    BY DEF Crlf
  <2>4. Crlf[2] = "LF"
    BY DEF Crlf
  <2> QED
    BY <2>1, <2>2, <2>3, <2>4
<1>2. ASSUME Len(s) = 2, s[1] = "CR", s[2] = "LF" PROVE s = Crlf
  <2>1. \A i \in 1 .. Len(s) : s[i] = Crlf[i]
    <3>1. \A i \in 1 .. Len(s) : i = 1 \/ i = 2
      BY <1>2
    <3> QED
      BY <1>1, <1>2, <3>1
  <2> QED
    BY <1>1, <1>2, <2>1, SameSequence
<1> QED
  BY <1>1, <1>2

\* A sequence and a line end behind it.
LEMMA WithCrlf ==
    ASSUME NEW s \in Seq(Tokens)
    PROVE  /\ s \o Crlf \in Seq(Tokens) /\ Len(s \o Crlf) = Len(s) + 2
           /\ \A i \in 1 .. Len(s) : (s \o Crlf)[i] = s[i]
           /\ \A i \in 1 .. 2 : (s \o Crlf)[Len(s) + i] = Crlf[i]
<1>0. Crlf \in Seq(Tokens)
  BY TokenAssumption DEF Crlf
<1>1. PICK t \in Seq(Tokens) : t = Crlf
  BY <1>0
<1>2. Len(t) = 2
  BY <1>1 DEF Crlf
<1>3. /\ s \o t \in Seq(Tokens) /\ Len(s \o t) = Len(s) + Len(t)
      /\ \A i \in 1 .. Len(s) : (s \o t)[i] = s[i]
      /\ \A i \in 1 .. Len(t) : (s \o t)[Len(s) + i] = t[i]
  BY JoinOf
<1> QED
  BY <1>1, <1>2, <1>3

\* From a place on, the bytes are those of w, as far as they go.
Carries(bytes, pos, w) ==
    \A i \in 1 .. Len(w) : pos + i - 1 <= Len(bytes) => bytes[pos + i - 1] = w[i]

\* The bytes from a place on.
Left(bytes, pos) == Len(bytes) + 1 - pos

\* A line that is there in part is no line, and a whole one is read as it was
\* written.
LEMMA LineRead ==
    ASSUME NEW bytes \in Seq(Tokens), NEW pos \in 1 .. Len(bytes) + 1, NEW text \in Lines,
           Carries(bytes, pos, text \o Crlf)
    PROVE  /\ Left(bytes, pos) = 0 => ReadLine(bytes, pos) = Err("Incomplete")
           /\ Left(bytes, pos) \in 1 .. Len(text) + 1
                => ReadLine(bytes, pos) = Err("InvalidFormat")
           /\ Left(bytes, pos) >= Len(text) + 2
                => ReadLine(bytes, pos) = Ok(text, pos + Len(text) + 2)
<1> DEFINE n == Len(bytes)
           l == Len(text)
           ends == {i \in pos .. n : bytes[i] = "LF"}
           last == Min(ends \cup {n})
<1>1. n \in Nat /\ l \in Nat /\ text \in Seq(Tokens) /\ pos \in Nat /\ pos >= 1
  BY DEF Lines
<1>2. /\ \A i \in 1 .. l : text[i] # "LF" /\ (text \o Crlf)[i] = text[i]
      /\ Len(text \o Crlf) = l + 2
      /\ (text \o Crlf)[l + 1] = "CR" /\ (text \o Crlf)[l + 2] = "LF"
  BY <1>1 DEF Lines, Crlf
<1>3. \A i \in 1 .. l + 2 : pos + i - 1 <= n => bytes[pos + i - 1] = (text \o Crlf)[i]
  BY <1>2 DEF Carries
<1>4. ASSUME NEW j \in pos .. n, j <= pos + l PROVE bytes[j] # "LF"
  <2> DEFINE i == j - pos + 1
  <2>1. i \in 1 .. l + 2 /\ pos + i - 1 = j /\ i <= l + 1
    BY <1>1, <1>4
  <2> HIDE DEF i
  <2>2. bytes[j] = (text \o Crlf)[i]
    <3>1. pos + i - 1 <= n
      BY <1>1, <2>1
    <3> QED
      BY <1>3, <2>1, <3>1
  <2>3. CASE i \in 1 .. l
    BY <1>2, <2>2, <2>3
  <2>4. CASE i = l + 1
    BY <1>2, <2>2, <2>4
  <2> QED
    BY <1>1, <2>1, <2>3, <2>4
<1>5. /\ pos > n => ReadLine(bytes, pos) = Err("Incomplete")
      /\ pos <= n /\ SubSeq(bytes, Max({pos, last - 1}), last) # Crlf
           => ReadLine(bytes, pos) = Err("InvalidFormat")
      /\ pos <= n /\ SubSeq(bytes, Max({pos, last - 1}), last) = Crlf
           => ReadLine(bytes, pos) = Ok(SubSeq(bytes, pos, last - 2), last + 1)
  BY <1>1 DEF ReadLine
<1>6. ASSUME Left(bytes, pos) \in 1 .. l + 1
      PROVE  ReadLine(bytes, pos) = Err("InvalidFormat")
  <2>1. n >= pos /\ n <= pos + l
    BY <1>1, <1>6 DEF Left
  <2>2. ends = {}
    BY <1>1, <1>4, <2>1
  <2>3. last = n
    <3>1. ends \cup {n} = {n}
      BY <2>2
    <3>2. Min({n}) = n
      <4>1. {n} \in SUBSET Int /\ n \in {n} /\ \A x \in {n} : n <= x
        BY <1>1
      <4> QED
        BY <4>1, MinIs
    <3> QED
      BY <3>1, <3>2
  <2> HIDE DEF last
  <2>4. Max({pos, last - 1}) \in 1 .. n
    BY <1>1, <2>1, <2>3, MaxOfTwo
  <2>5. bytes[n] # "LF"
    BY <1>1, <1>4, <2>1
  <2>6. ASSUME NEW m \in 1 .. n, SubSeq(bytes, m, n) = Crlf PROVE FALSE
    <3> DEFINE s == SubSeq(bytes, m, n)
    <3>1. /\ s \in Seq(Tokens) /\ Len(s) = n - m + 1
          /\ \A i \in 1 .. n - m + 1 : s[i] = bytes[m + i - 1]
      <4>1. m \in 1 .. Len(bytes) + 1 /\ n \in m - 1 .. Len(bytes)
        BY <1>1
      <4> QED
        BY <4>1, PartOf
    <3>2. s = Crlf
      BY <2>6
    <3> HIDE DEF s
    <3>3. Len(s) = 2 /\ s[2] = "LF"
      BY <3>1, <3>2, CrlfIs
    <3>4. 2 \in 1 .. n - m + 1 /\ m + 2 - 1 = n
      <4>1. n - m + 1 = 2
        BY <3>1, <3>3
      <4> QED
        BY <1>1, <4>1
    <3> QED
      BY <2>5, <3>1, <3>3, <3>4
  <2> QED
    BY <1>5, <2>1, <2>3, <2>4, <2>6
<1>7. ASSUME Left(bytes, pos) >= l + 2
      PROVE  ReadLine(bytes, pos) = Ok(text, pos + l + 2)
  <2>1. n >= pos + l + 1 /\ pos <= n
    BY <1>1, <1>7 DEF Left
  <2>2. bytes[pos + l] = "CR" /\ bytes[pos + l + 1] = "LF"
    <3>1. l + 1 \in 1 .. l + 2 /\ pos + (l + 1) - 1 = pos + l
      BY <1>1
    <3>2. l + 2 \in 1 .. l + 2 /\ pos + (l + 2) - 1 = pos + l + 1
      BY <1>1
    <3>3. pos + l <= n
      BY <1>1, <2>1
    <3> QED
      BY <1>2, <1>3, <2>1, <3>1, <3>2, <3>3
  <2>3. last = pos + l + 1
    <3>1. pos + l + 1 \in ends
      BY <1>1, <2>1, <2>2
    <3>2. \A x \in ends \cup {n} : pos + l + 1 <= x
      BY <1>1, <1>4, <2>1
    <3>3. ends \cup {n} \in SUBSET Int
      BY <1>1
    <3> HIDE DEF ends
    <3> QED
      BY <3>1, <3>2, <3>3, MinIs
  <2> HIDE DEF last
  <2>4. Max({pos, last - 1}) = pos + l
    BY <1>1, <2>3, MaxOfTwo
  <2>5. SubSeq(bytes, pos + l, last) = Crlf
    <3> DEFINE s == SubSeq(bytes, pos + l, last)
    <3>1. pos + l \in 1 .. Len(bytes) + 1 /\ last \in (pos + l) - 1 .. Len(bytes)
      BY <1>1, <2>1, <2>3
    <3>2. /\ s \in Seq(Tokens) /\ Len(s) = last - (pos + l) + 1
          /\ \A i \in 1 .. last - (pos + l) + 1 : s[i] = bytes[(pos + l) + i - 1]
      BY <3>1, PartOf
    <3> HIDE DEF s
    <3>3. last - (pos + l) + 1 = 2 /\ (pos + l) + 1 - 1 = pos + l /\ (pos + l) + 2 - 1 = pos + l + 1
      BY <1>1, <2>3
    <3>4. Len(s) = 2 /\ s[1] = bytes[pos + l] /\ s[2] = bytes[pos + l + 1]
      <4>1. 1 \in 1 .. last - (pos + l) + 1 /\ 2 \in 1 .. last - (pos + l) + 1
        BY <3>3
      <4> QED
        BY <3>2, <3>3, <4>1
    <3>5. s = Crlf
      BY <2>2, <3>2, <3>4, CrlfIs
    <3> QED
      BY <3>5 DEF s
  <2>6. SubSeq(bytes, pos, last - 2) = text
    <3>1. last - 2 = pos + l - 1
      BY <1>1, <2>3
    <3>2. /\ SubSeq(bytes, pos, pos + l - 1) \in Seq(Tokens)
          /\ Len(SubSeq(bytes, pos, pos + l - 1)) = l
          /\ \A i \in 1 .. l : SubSeq(bytes, pos, pos + l - 1)[i] = bytes[pos + i - 1]
      BY <1>1, <2>1
    <3>3. ASSUME NEW i \in 1 .. l PROVE SubSeq(bytes, pos, pos + l - 1)[i] = text[i]
      <4>1. i \in 1 .. l + 2 /\ pos + i - 1 <= n
        BY <1>1, <2>1
      <4>2. bytes[pos + i - 1] = text[i]
        BY <1>2, <1>3, <4>1
      <4> QED
        BY <3>2, <4>2
    <3>4. Len(text) = l /\ \A i \in 1 .. Len(SubSeq(bytes, pos, pos + l - 1)) :
                             SubSeq(bytes, pos, pos + l - 1)[i] = text[i]
      BY <3>2, <3>3
    <3>5. SubSeq(bytes, pos, pos + l - 1) = text
      BY <1>1, <3>2, <3>4, SameSequence
    <3> QED
      BY <3>1, <3>5
  <2>7. last + 1 = pos + l + 2
    BY <1>1, <2>3
  <2> QED
    BY <1>5, <2>1, <2>4, <2>5, <2>6, <2>7
<1>8. Left(bytes, pos) = 0 => pos > n
  BY <1>1 DEF Left
<1> QED
  BY <1>5, <1>6, <1>7, <1>8

\* A number is read from its numeral.
LEMMA NumberRead ==
    ASSUME NEW bytes \in Seq(Tokens), NEW pos \in 1 .. Len(bytes) + 1, NEW n \in Numbers,
           Carries(bytes, pos, Numeral(n) \o Crlf)
    PROVE  /\ Left(bytes, pos) = 0 => ReadNumber(bytes, pos) = Err("Incomplete")
           /\ Left(bytes, pos) \in 1 .. 2 => ReadNumber(bytes, pos) = Err("InvalidFormat")
           /\ Left(bytes, pos) >= 3 => ReadNumber(bytes, pos) = Ok(n, pos + 3)
<1> DEFINE line == ReadLine(bytes, pos)
           meant == {m \in Numbers : IsOk(line) /\ line[2] = Numeral(m)}
<1>1. /\ Numeral(n) \in Lines /\ Len(Numeral(n)) = 1
      /\ \A m \in Numbers : Numeral(m) = Numeral(n) => m = n
  <2>1. \A m \in Numbers : Decimal[m] \in Tokens /\ Decimal[m] # "LF"
    BY DecimalAssumption
  <2>2. \A m \in Numbers : Len(Numeral(m)) = 1 /\ Numeral(m)[1] = Decimal[m]
    BY DEF Numeral
  <2>3. Numeral(n) \in Seq(Tokens)
    BY <2>1 DEF Numeral
  <2>4. \A i \in DOMAIN Numeral(n) : i = 1
    BY <2>2, <2>3
  <2> QED
    BY <2>1, <2>2, <2>3, <2>4, DecimalAssumption DEF Lines
<1>2. /\ Left(bytes, pos) = 0 => line = Err("Incomplete")
      /\ Left(bytes, pos) \in 1 .. 1 + 1 => line = Err("InvalidFormat")
      /\ Left(bytes, pos) >= 1 + 2 => line = Ok(Numeral(n), pos + 1 + 2)
  BY <1>1, LineRead
<1>3. /\ ~IsOk(line) => ReadNumber(bytes, pos) = line
      /\ IsOk(line) /\ meant # {} => ReadNumber(bytes, pos) = Ok(CHOOSE m \in meant : TRUE, line[3])
  BY DEF ReadNumber
<1> HIDE DEF line
<1>4. ASSUME Left(bytes, pos) >= 3 PROVE ReadNumber(bytes, pos) = Ok(n, pos + 3)
  <2>1. line = Ok(Numeral(n), pos + 3)
    <3>1. pos + 1 + 2 = pos + 3 /\ 1 + 2 = 3
      OBVIOUS
    <3> QED
      BY <1>2, <1>4, <3>1
  <2>2. IsOk(line) /\ line[2] = Numeral(n) /\ line[3] = pos + 3
    BY <2>1 DEF Ok, IsOk
  <2>3. meant = {n}
    BY <1>1, <2>2
  <2>4. meant # {} /\ (CHOOSE m \in meant : TRUE) = n
    BY <2>3
  <2> QED
    BY <1>3, <2>2, <2>4
<1>5. \A e : ~IsOk(Err(e)) <=> e # "ok"
  BY DEF Err, IsOk
<1> QED
  BY <1>2, <1>3, <1>4, <1>5

\* The data of a bulk string, with the line end after it, are waited for.
LEMMA BulkRead ==
    ASSUME NEW bytes \in Seq(Tokens), NEW pos \in 1 .. Len(bytes) + 1, NEW data \in Datas,
           Carries(bytes, pos, data \o Crlf)
    PROVE  /\ Left(bytes, pos) < Len(data) + 2
                => BulkFrom(bytes, Len(data), pos) = Err("Incomplete")
           /\ Left(bytes, pos) >= Len(data) + 2
                => BulkFrom(bytes, Len(data), pos) = Ok(BulkString(data), pos + Len(data) + 2)
<1> DEFINE n == Len(bytes)
           l == Len(data)
           end == pos + l + 1
           ending == SubSeq(bytes, end - 1, end)
           middle == SubSeq(bytes, pos, pos + l - 1)
<1>1. n \in Nat /\ l \in Nat /\ data \in Seq(Tokens) /\ pos \in Nat /\ pos >= 1
  BY DEF Datas
<1>2. l \in 0 .. MaxValueSize /\ l # -1 /\ ~(l < -1) /\ ~(l > MaxValueSize)
  BY <1>1, RespAssumption DEF Datas
<1>3. /\ end > n => BulkFrom(bytes, l, pos) = Err("Incomplete")
      /\ end <= n /\ ending = Crlf
           => BulkFrom(bytes, l, pos) = Ok(BulkString(middle), end + 1)
  <2>1. end \in Int
    BY <1>1
  <2> HIDE DEF end, l, n, ending, middle
  <2>2. ASSUME end > n PROVE BulkFrom(bytes, l, pos) = Err("Incomplete")
    BY <1>1, <1>2, <2>1, <2>2 DEF BulkFrom, end, n
  <2>3. ASSUME end <= n, ending = Crlf
        PROVE  BulkFrom(bytes, l, pos) = Ok(BulkString(middle), end + 1)
    BY <1>1, <1>2, <2>1, <2>3 DEF BulkFrom, end, n, ending, middle
  <2> QED
    BY <2>2, <2>3
<1>4. Left(bytes, pos) < l + 2 <=> end > n
  BY <1>1 DEF Left
<1>5. ASSUME end <= n PROVE ending = Crlf /\ middle = data /\ end + 1 = pos + l + 2
  <2>1. /\ Len(data \o Crlf) = l + 2
        /\ \A i \in 1 .. l : (data \o Crlf)[i] = data[i]
        /\ (data \o Crlf)[l + 1] = "CR" /\ (data \o Crlf)[l + 2] = "LF"
    BY <1>1 DEF Crlf
  <2>2. ASSUME NEW i \in 1 .. l + 2 PROVE bytes[pos + i - 1] = (data \o Crlf)[i]
    <3>1. pos + i - 1 <= n /\ i \in 1 .. Len(data \o Crlf)
      BY <1>1, <1>5, <2>1
    <3> QED
      BY <3>1 DEF Carries
  <2>3. bytes[pos + l] = "CR" /\ bytes[pos + l + 1] = "LF"
    <3>1. l + 1 \in 1 .. l + 2 /\ pos + (l + 1) - 1 = pos + l
      BY <1>1
    <3>2. l + 2 \in 1 .. l + 2 /\ pos + (l + 2) - 1 = pos + l + 1
      BY <1>1
    <3> QED
      BY <2>1, <2>2, <3>1, <3>2
  <2>4. ending = Crlf
    <3>1. end - 1 \in 1 .. Len(bytes) + 1 /\ end \in (end - 1) - 1 .. Len(bytes)
      BY <1>1, <1>5
    <3>2. end - (end - 1) + 1 = 2 /\ (end - 1) + 1 - 1 = pos + l /\ (end - 1) + 2 - 1 = pos + l + 1
      BY <1>1
    <3> HIDE DEF end
    <3>3. /\ ending \in Seq(Tokens) /\ Len(ending) = end - (end - 1) + 1
          /\ \A i \in 1 .. end - (end - 1) + 1 : ending[i] = bytes[(end - 1) + i - 1]
      BY <3>1, PartOf
    <3> HIDE DEF ending
    <3>4. Len(ending) = 2 /\ ending[1] = bytes[pos + l] /\ ending[2] = bytes[pos + l + 1]
      BY <3>2, <3>3
    <3> QED
      BY <2>3, <3>3, <3>4, CrlfIs
  <2>5. middle = data
    <3>1. pos \in 1 .. Len(bytes) + 1 /\ pos + l - 1 \in pos - 1 .. Len(bytes)
      BY <1>1, <1>5
    <3>2. (pos + l - 1) - pos + 1 = l
      BY <1>1
    <3>3. /\ middle \in Seq(Tokens) /\ Len(middle) = (pos + l - 1) - pos + 1
          /\ \A i \in 1 .. (pos + l - 1) - pos + 1 : middle[i] = bytes[pos + i - 1]
      BY <3>1, PartOf
    <3> HIDE DEF middle
    <3>4. Len(middle) = l /\ \A i \in 1 .. l : middle[i] = bytes[pos + i - 1]
      BY <3>2, <3>3
    <3>5. \A i \in 1 .. l : middle[i] = data[i]
      <4>1. \A i \in 1 .. l : i \in 1 .. l + 2
        BY <1>1
      <4> QED
        BY <2>1, <2>2, <3>4, <4>1
    <3> QED
      BY <1>1, <3>3, <3>4, <3>5, SameSequence
  <2> QED
    BY <1>1, <2>4, <2>5
<1>6. Left(bytes, pos) \in Int /\ n \in Int /\ l \in Int /\ end \in Int
  BY <1>1 DEF Left
<1> HIDE DEF end, middle, ending
<1>7. ASSUME Left(bytes, pos) < l + 2 PROVE BulkFrom(bytes, l, pos) = Err("Incomplete")
  BY <1>3, <1>4, <1>7
<1>8. ASSUME Left(bytes, pos) >= l + 2
      PROVE  BulkFrom(bytes, l, pos) = Ok(BulkString(data), pos + l + 2)
  <2>1. end <= n
    BY <1>4, <1>6, <1>8
  <2> QED
    BY <1>3, <1>5, <2>1
<1> QED
  BY <1>7, <1>8
-----------------------------------------------------------------------------
(***************************************************************************)
(* The parser moves on.                                                    *)
(***************************************************************************)
\* A result, if it is a value, ends behind a place and within the bytes.
EndsIn(result, first, bytes) == IsOk(result) => result[3] \in first .. Len(bytes) + 1

\* A line takes at least its LF.
LEMMA LineMoves ==
    ASSUME NEW bytes \in Seq(Tokens), NEW pos \in 1 .. Len(bytes) + 1
    PROVE  EndsIn(ReadLine(bytes, pos), pos + 1, bytes)
<1> DEFINE n == Len(bytes)
           ends == {i \in pos .. n : bytes[i] = "LF"}
           last == Min(ends \cup {n})
<1>1. n \in Nat
  OBVIOUS
<1>2. \/ \E e : e # "ok" /\ ReadLine(bytes, pos) = Err(e)
      \/ pos <= n /\ ReadLine(bytes, pos) = Ok(SubSeq(bytes, pos, last - 2), last + 1)
  <2>1. ReadLine(bytes, pos) =
          IF pos > n THEN Err("Incomplete")
          ELSE IF SubSeq(bytes, Max({pos, last - 1}), last) # Crlf THEN Err("InvalidFormat")
          ELSE Ok(SubSeq(bytes, pos, last - 2), last + 1)
    BY DEF ReadLine
  <2> DEFINE part == SubSeq(bytes, Max({pos, last - 1}), last)
  <2> HIDE DEF last, part
  <2>2. CASE pos > n
    BY <2>1, <2>2
  <2>3. CASE ~(pos > n) /\ part # Crlf
    BY <2>1, <2>3 DEF part
  <2>4. CASE ~(pos > n) /\ part = Crlf
    <3>1. pos <= n
      BY <1>1, <2>4
    <3> QED
      BY <2>1, <2>4, <3>1 DEF part
  <2> QED
    BY <2>2, <2>3, <2>4
<1>3. CASE \E e : e # "ok" /\ ReadLine(bytes, pos) = Err(e)
  BY <1>3 DEF EndsIn, IsOk, Err
<1>4. CASE pos <= n /\ ReadLine(bytes, pos) = Ok(SubSeq(bytes, pos, last - 2), last + 1)
  <2>1. ends \cup {n} \in SUBSET Nat /\ ends \cup {n} # {}
    BY <1>1
  <2> HIDE DEF ends
  <2>2. last \in ends \cup {n}
    BY <2>1, MinIsLower
  <2>3. last \in pos .. n
    BY <1>1, <1>4, <2>2 DEF ends
  <2> HIDE DEF last
  <2>4. ReadLine(bytes, pos)[3] = last + 1
    BY <1>4 DEF Ok
  <2> QED
    BY <1>1, <2>3, <2>4 DEF EndsIn
<1> HIDE DEF last
<1> QED
  BY <1>2, <1>3, <1>4

\* A line that is a number ends behind its first byte, and is one of the numbers.
LEMMA NumberMoves ==
    ASSUME NEW bytes \in Seq(Tokens), NEW pos \in 1 .. Len(bytes) + 1
    PROVE  /\ EndsIn(ReadNumber(bytes, pos), pos + 1, bytes)
           /\ IsOk(ReadNumber(bytes, pos)) => ReadNumber(bytes, pos)[2] \in Numbers
<1> DEFINE line == ReadLine(bytes, pos)
           meant == {n \in Numbers : IsOk(line) /\ line[2] = Numeral(n)}
<1>1. EndsIn(line, pos + 1, bytes)
  BY LineMoves
<1>2. /\ ~IsOk(line) => ReadNumber(bytes, pos) = line
      /\ IsOk(line) /\ meant = {} => ReadNumber(bytes, pos) = Err("InvalidInteger")
      /\ IsOk(line) /\ meant # {} => ReadNumber(bytes, pos) = Ok(CHOOSE n \in meant : TRUE, line[3])
  BY DEF ReadNumber
<1> HIDE DEF line
<1>3. CASE ~IsOk(line)
  BY <1>2, <1>3 DEF EndsIn
<1>4. CASE IsOk(line) /\ meant = {}
  BY <1>2, <1>4 DEF EndsIn, IsOk, Err
<1>5. CASE IsOk(line) /\ meant # {}
  <2>1. (CHOOSE n \in meant : TRUE) \in meant
    BY <1>5
  <2>2. (CHOOSE n \in meant : TRUE) \in Numbers
    BY <2>1
  <2>3. ReadNumber(bytes, pos) = Ok(CHOOSE n \in meant : TRUE, line[3])
    BY <1>2, <1>5
  <2> DEFINE chosen == CHOOSE n \in meant : TRUE
  <2> HIDE DEF chosen
  <2>4. ReadNumber(bytes, pos)[2] = chosen /\ ReadNumber(bytes, pos)[3] = line[3]
    BY <2>3 DEF Ok, chosen
  <2>5. chosen \in Numbers
    BY <2>2 DEF chosen
  <2> QED
    BY <1>1, <1>5, <2>4, <2>5 DEF EndsIn
<1> QED
  BY <1>3, <1>4, <1>5

\* A bulk string ends no earlier than it begins.
LEMMA BulkMoves ==
    ASSUME NEW bytes \in Seq(Tokens), NEW pos \in 1 .. Len(bytes) + 1, NEW count \in Numbers
    PROVE  EndsIn(BulkFrom(bytes, count, pos), pos, bytes)
<1> DEFINE n == Len(bytes)
           end == pos + count + 1
           result == BulkFrom(bytes, count, pos)
<1>1. n \in Nat /\ count \in Int /\ MaxValueSize \in Nat
  BY RespAssumption
<1>2. CASE count = -1
  <2>1. result = Ok(BulkString(None), pos)
    BY <1>1, <1>2 DEF BulkFrom
  <2> QED
    BY <1>1, <2>1 DEF EndsIn, Ok
<1>3. CASE count < -1 \/ count > MaxValueSize
  <2>1. result = Err("InvalidLength")
    BY <1>1, <1>3 DEF BulkFrom
  <2> QED
    BY <2>1 DEF EndsIn, IsOk, Err
<1>4. CASE count \in 0 .. MaxValueSize
  <2>1. \/ \E e : e # "ok" /\ result = Err(e)
        \/ end <= n /\ result = Ok(BulkString(SubSeq(bytes, pos, pos + count - 1)), end + 1)
    <3>1. CASE end > n
      <4>1. result = Err("Incomplete")
        BY <1>1, <1>4, <3>1 DEF BulkFrom
      <4> QED
        BY <4>1
    <3>2. CASE end <= n
      <4>1. result = IF SubSeq(bytes, end - 1, end) # Crlf THEN Err("InvalidFormat")
                     ELSE Ok(BulkString(SubSeq(bytes, pos, pos + count - 1)), end + 1)
        BY <1>1, <1>4, <3>2 DEF BulkFrom
      <4> QED
        BY <3>2, <4>1
    <3> QED
      BY <1>1, <3>1, <3>2
  <2>2. CASE \E e : e # "ok" /\ result = Err(e)
    BY <2>2 DEF EndsIn, IsOk, Err
  <2>3. CASE end <= n /\ result = Ok(BulkString(SubSeq(bytes, pos, pos + count - 1)), end + 1)
    <3> HIDE DEF result
    <3>1. result[3] = end + 1
      BY <2>3 DEF Ok
    <3> QED
      BY <1>1, <1>4, <2>3, <3>1 DEF EndsIn, result
  <2> HIDE DEF result
  <2> QED
    BY <2>1, <2>2, <2>3
<1> QED
  BY <1>1, <1>2, <1>3, <1>4
-----------------------------------------------------------------------------
(***************************************************************************)
(* The loop over the elements of an array.                                 *)
(***************************************************************************)
\* What has been read after each turn.
IsRead(read, parse, pos, count) ==
    read = [k \in 0 .. count |->
              IF k = 0 THEN Ok(<< >>, pos) ELSE Push(read[k - 1], parse[read[k - 1][3]])]

\* The function that Elements defines exists.
LEMMA ReadExists ==
    ASSUME NEW parse, NEW pos, NEW count \in Nat
    PROVE  \E read : IsRead(read, parse, pos, count)
<1> DEFINE Q == {n \in Nat : \E read : IsRead(read, parse, pos, n)}
<1>1. 0 \in Q
  <2> DEFINE f == [k \in 0 .. 0 |-> Ok(<< >>, pos)]
  <2>1. IsRead(f, parse, pos, 0)
    BY DEF IsRead
  <2> HIDE DEF f
  <2> QED
    BY <2>1
<1>2. ASSUME NEW n \in Nat, n \in Q PROVE n + 1 \in Q
  <2>1. PICK g : IsRead(g, parse, pos, n)
    BY <1>2
  <2> DEFINE f == [k \in 0 .. n + 1 |->
                     IF k = n + 1 THEN Push(g[n], parse[g[n][3]]) ELSE g[k]]
             h == [k \in 0 .. n + 1 |->
                     IF k = 0 THEN Ok(<< >>, pos) ELSE Push(f[k - 1], parse[f[k - 1][3]])]
  <2>2. \A k \in 0 .. n : g[k] = IF k = 0 THEN Ok(<< >>, pos)
                                 ELSE Push(g[k - 1], parse[g[k - 1][3]])
    BY <2>1 DEF IsRead
  <2>3. f[n + 1] = Push(g[n], parse[g[n][3]]) /\ \A k \in 0 .. n : f[k] = g[k]
    OBVIOUS
  <2>4. \A k \in 0 .. n + 1 : h[k] = IF k = 0 THEN Ok(<< >>, pos)
                                     ELSE Push(f[k - 1], parse[f[k - 1][3]])
    OBVIOUS
  <2>5. ASSUME NEW k \in 0 .. n + 1 PROVE f[k] = h[k]
    <3> HIDE DEF f, h
    <3>1. CASE k = n + 1
      <4>1. k # 0 /\ k - 1 = n /\ n \in 0 .. n
        BY <3>1
      <4> QED
        BY <2>3, <2>4, <3>1, <4>1
    <3>2. CASE k # n + 1
      <4>1. k \in 0 .. n /\ (k # 0 => k - 1 \in 0 .. n)
        BY <3>2
      <4> QED
        BY <2>2, <2>3, <2>4, <4>1
    <3> QED
      BY <3>1, <3>2
  <2>6. f = h
    BY <2>5
  <2>7. IsRead(f, parse, pos, n + 1)
    BY <2>6 DEF IsRead
  <2> QED
    BY <2>7
<1> HIDE DEF Q
<1>3. Nat \subseteq Q
  BY <1>1, <1>2, SetInduction
<1> QED
  BY <1>3 DEF Q

\* What is read with each turn.
Turns(read, parse, pos, count) ==
    /\ read[0] = Ok(<< >>, pos)
    /\ \A k \in 1 .. count : read[k] = Push(read[k - 1], parse[read[k - 1][3]])

\* Elements turn by turn.
LEMMA ElementsRead ==
    ASSUME NEW parse, NEW pos, NEW count \in Nat
    PROVE  \E read : Turns(read, parse, pos, count) /\ Elements(parse, count, pos) = read[count]
<1> DEFINE read == CHOOSE read : IsRead(read, parse, pos, count)
<1>1. IsRead(read, parse, pos, count)
  BY ReadExists
<1>2. Elements(parse, count, pos) = read[count]
  BY DEF Elements, IsRead
<1> HIDE DEF read
<1>3. \A k \in 0 .. count : read[k] = IF k = 0 THEN Ok(<< >>, pos)
                                      ELSE Push(read[k - 1], parse[read[k - 1][3]])
  BY <1>1 DEF IsRead
<1>4. read[0] = Ok(<< >>, pos)
  BY <1>3
<1>5. \A k \in 1 .. count : read[k] = Push(read[k - 1], parse[read[k - 1][3]])
  BY <1>3
<1> QED
  BY <1>2, <1>4, <1>5 DEF Turns

\* What the loop finds depends on the values behind the place it starts from.
LEMMA ElementsAgree ==
    ASSUME NEW bytes \in Seq(Tokens), NEW pos \in 1 .. Len(bytes) + 1, NEW count \in Nat,
           NEW f, NEW g, \A q \in pos .. Len(bytes) + 1 : f[q] = g[q] /\ EndsIn(f[q], q, bytes)
    PROVE  /\ Elements(f, count, pos) = Elements(g, count, pos)
           /\ EndsIn(Elements(f, count, pos), pos, bytes)
<1>1. PICK rf : Turns(rf, f, pos, count) /\ Elements(f, count, pos) = rf[count]
  BY ElementsRead
<1>2. PICK rg : Turns(rg, g, pos, count) /\ Elements(g, count, pos) = rg[count]
  BY ElementsRead
<1> DEFINE Q == {n \in Nat : n <= count => rf[n] = rg[n] /\ EndsIn(rf[n], pos, bytes)}
<1>3. 0 \in Q
  <2>1. rf[0][3] = pos
    BY <1>1 DEF Ok, Turns
  <2> QED
    BY <1>1, <1>2, <2>1 DEF EndsIn, Turns
<1>4. ASSUME NEW n \in Nat, n \in Q PROVE n + 1 \in Q
  <2> SUFFICES ASSUME n + 1 <= count
               PROVE  rf[n + 1] = rg[n + 1] /\ EndsIn(rf[n + 1], pos, bytes)
    OBVIOUS
  <2>0. n + 1 \in 1 .. count /\ (n + 1) - 1 = n /\ n <= count
    OBVIOUS
  <2> DEFINE b == rf[n]
             e == f[b[3]]
  <2>1. rg[n] = b /\ EndsIn(b, pos, bytes)
    BY <1>4, <2>0
  <2>2. rf[n + 1] = Push(b, e) /\ rg[n + 1] = Push(b, g[b[3]])
    BY <1>1, <1>2, <2>0, <2>1 DEF Turns
  <2>3. CASE ~IsOk(b)
    <3> HIDE DEF b, e
    <3>1. rf[n + 1] = b /\ rg[n + 1] = b
      BY <2>2, <2>3 DEF Push
    <3> QED
      BY <2>1, <3>1
  <2>4. CASE IsOk(b)
    <3>1. b[3] \in pos .. Len(bytes) + 1
      BY <2>1, <2>4 DEF EndsIn
    <3>2. e = g[b[3]] /\ EndsIn(e, b[3], bytes)
      BY <3>1
    <3>3. EndsIn(e, pos, bytes)
      BY <3>1, <3>2 DEF EndsIn
    <3> HIDE DEF b, e
    <3>4. CASE ~IsOk(e)
      BY <2>2, <2>4, <3>2, <3>3, <3>4 DEF Push
    <3>5. CASE IsOk(e)
      <4>1. rf[n + 1] = Ok(Append(b[2], e[2]), e[3]) /\ rg[n + 1] = rf[n + 1]
        BY <2>2, <2>4, <3>2, <3>5 DEF Push
      <4>2. rf[n + 1][3] = e[3]
        BY <4>1 DEF Ok
      <4> QED
        BY <3>3, <3>5, <4>1, <4>2 DEF EndsIn
    <3> QED
      BY <3>4, <3>5
  <2> QED
    BY <2>3, <2>4
<1> HIDE DEF Q
<1>5. Nat \subseteq Q
  BY <1>3, <1>4, SetInduction
<1>6. count \in Q
  BY <1>5
<1> QED
  BY <1>1, <1>2, <1>6 DEF Q
-----------------------------------------------------------------------------
(***************************************************************************)
(* The value at each place.                                                *)
(***************************************************************************)
LEMMA TypedOk ==
    ASSUME NEW type, NEW content, NEW next
    PROVE  Typed(type, Ok(content, next)) = Ok(<<type, content>>, next)
BY DEF Typed, Ok, IsOk

\* A type does not change where a result ends.
LEMMA TypedEnds ==
    ASSUME NEW type, NEW result, NEW first, NEW bytes, EndsIn(result, first, bytes)
    PROVE  EndsIn(Typed(type, result), first, bytes)
<1>1. CASE IsOk(result)
  <2>1. Typed(type, result)[3] = result[3]
    BY <1>1 DEF Typed, Ok
  <2> QED
    BY <1>1, <2>1 DEF EndsIn
<1>2. CASE ~IsOk(result)
  BY <1>2 DEF Typed
<1> QED
  BY <1>1, <1>2

\* What is found further on counts only behind the place itself.
LEMMA ValueAgrees ==
    ASSUME NEW bytes \in Seq(Tokens), NEW pos \in 1 .. Len(bytes) + 1, NEW f, NEW g,
           \A q \in pos + 1 .. Len(bytes) + 1 : f[q] = g[q] /\ EndsIn(f[q], q, bytes)
    PROVE  /\ ValueAt(f, bytes, pos) = ValueAt(g, bytes, pos)
           /\ EndsIn(ValueAt(f, bytes, pos), pos, bytes)
<1> DEFINE n == Len(bytes)
           line == ReadLine(bytes, pos + 1)
           number == ReadNumber(bytes, pos + 1)
<1>0. n \in Nat
  OBVIOUS
<1>1. CASE pos > n
  BY <1>1 DEF ValueAt, EndsIn, IsOk, Err
<1>2. CASE pos <= n
  <2>1. pos + 1 \in 1 .. n + 1 /\ ~(pos > n)
    BY <1>0, <1>2
  <2>2. /\ EndsIn(line, (pos + 1) + 1, bytes) /\ EndsIn(number, (pos + 1) + 1, bytes)
        /\ IsOk(number) => number[2] \in Numbers
    BY <2>1, LineMoves, NumberMoves
  <2>3. EndsIn(line, pos, bytes) /\ EndsIn(number, pos, bytes)
    BY <1>0, <2>2 DEF EndsIn
  <2>4. ASSUME IsOk(number)
        PROVE  EndsIn(BulkFrom(bytes, number[2], number[3]), pos, bytes)
    <3>1. number[3] \in 1 .. n + 1 /\ number[3] >= pos /\ number[2] \in Numbers
      BY <1>0, <2>2, <2>4 DEF EndsIn
    <3> HIDE DEF number
    <3>2. EndsIn(BulkFrom(bytes, number[2], number[3]), number[3], bytes)
      BY <3>1, BulkMoves
    <3> QED
      BY <1>0, <3>1, <3>2 DEF EndsIn
  <2>5. ASSUME IsOk(number)
        PROVE  /\ ArrayFrom(f, number[2], number[3]) = ArrayFrom(g, number[2], number[3])
               /\ EndsIn(ArrayFrom(f, number[2], number[3]), pos, bytes)
    <3> DEFINE count == number[2]
               from == number[3]
    <3>0. from \in (pos + 1) + 1 .. n + 1 /\ count \in Numbers
      BY <2>2, <2>5 DEF EndsIn
    <3> HIDE DEF count, from
    <3>1. from \in 1 .. n + 1 /\ from > pos /\ count \in Int
      BY <1>0, <3>0, RespAssumption
    <3>2. CASE count = -1
      <4>1. ArrayFrom(f, count, from) = Ok(Array(None), from) /\ ArrayFrom(g, count, from) = Ok(Array(None), from)
        BY <3>2 DEF ArrayFrom
      <4> QED
        BY <1>0, <3>1, <4>1 DEF EndsIn, Ok, count, from
    <3>3. CASE count < -1
      <4>1. ArrayFrom(f, count, from) = Err("InvalidLength") /\ ArrayFrom(g, count, from) = Err("InvalidLength")
        BY <3>1, <3>3 DEF ArrayFrom
      <4> QED
        BY <4>1 DEF EndsIn, IsOk, Err, count, from
    <3>4. CASE count >= 0
      <4>1. \A q \in from .. n + 1 : f[q] = g[q] /\ EndsIn(f[q], q, bytes)
        BY <1>0, <3>1
      <4>2. count \in Nat
        BY <3>1, <3>4
      <4>3. /\ Elements(f, count, from) = Elements(g, count, from)
            /\ EndsIn(Elements(f, count, from), from, bytes)
        BY <3>1, <4>1, <4>2, ElementsAgree
      <4>4. /\ ArrayFrom(f, count, from) = Typed("array", Elements(f, count, from))
            /\ ArrayFrom(g, count, from) = Typed("array", Elements(g, count, from))
        BY <3>1, <3>4 DEF ArrayFrom
      <4>5. EndsIn(ArrayFrom(f, count, from), from, bytes)
        BY <4>3, <4>4, TypedEnds
      <4>6. EndsIn(ArrayFrom(f, count, from), pos, bytes)
        BY <1>0, <3>1, <4>5 DEF EndsIn
      <4> QED
        BY <4>3, <4>4, <4>6 DEF count, from
    <3> QED
      BY <3>1, <3>2, <3>3, <3>4
  <2>6. \A type : EndsIn(Typed(type, line), pos, bytes) /\ EndsIn(Typed(type, number), pos, bytes)
    BY <2>3, TypedEnds
  <2> HIDE DEF line, number
  <2>7. CASE bytes[pos] = "+"
    BY <2>1, <2>6, <2>7 DEF ValueAt, line
  <2>8. CASE bytes[pos] = "-"
    BY <2>1, <2>6, <2>8 DEF ValueAt, line
  <2>9. CASE bytes[pos] = ":"
    BY <2>1, <2>6, <2>9 DEF ValueAt, number
  <2>10. CASE bytes[pos] = "$"
    <3>1. /\ ValueAt(f, bytes, pos) = IF ~IsOk(number) THEN number ELSE BulkFrom(bytes, number[2], number[3])
          /\ ValueAt(g, bytes, pos) = ValueAt(f, bytes, pos)
      BY <2>1, <2>10 DEF ValueAt, number
    <3> QED
      BY <2>3, <2>4, <3>1
  <2>11. CASE bytes[pos] = "*"
    <3>1. /\ ValueAt(f, bytes, pos) = IF ~IsOk(number) THEN number ELSE ArrayFrom(f, number[2], number[3])
          /\ ValueAt(g, bytes, pos) = IF ~IsOk(number) THEN number ELSE ArrayFrom(g, number[2], number[3])
      BY <2>1, <2>11 DEF ValueAt, number
    <3> QED
      BY <2>3, <2>5, <3>1
  <2>12. CASE bytes[pos] \notin {"+", "-", ":", "$", "*"}
    <3>1. \A h : ValueAt(h, bytes, pos) = Err("InvalidType")
      BY <2>1, <2>12 DEF ValueAt
    <3> QED
      BY <3>1 DEF EndsIn, IsOk, Err
  <2> QED
    BY <2>7, <2>8, <2>9, <2>10, <2>11, <2>12
<1> QED
  BY <1>0, <1>1, <1>2

\* The values at the places from one on.
IsParse(parse, bytes, first) ==
    parse = [pos \in first .. Len(bytes) + 1 |-> ValueAt(parse, bytes, pos)]

\* The function that ParseAt defines exists.
LEMMA ParseExists ==
    ASSUME NEW bytes \in Seq(Tokens)
    PROVE  \E parse : IsParse(parse, bytes, 1)
<1> DEFINE end == Len(bytes) + 1
           Good(f, first) == /\ IsParse(f, bytes, first)
                             /\ \A q \in first .. end : EndsIn(f[q], q, bytes)
           Q == {n \in Nat : n <= end => \E f : Good(f, end + 1 - n)}
<1>0. end \in Nat
  OBVIOUS
<1>1. 0 \in Q
  <2> DEFINE f == [q \in end + 1 .. end |-> 0]
  <2>1. f = [q \in end + 1 .. end |-> ValueAt(f, bytes, q)]
    BY <1>0
  <2>2. Good(f, end + 1)
    BY <1>0, <2>1 DEF IsParse
  <2> QED
    BY <1>0, <2>2
<1>2. ASSUME NEW n \in Nat, n \in Q PROVE n + 1 \in Q
  <2> SUFFICES ASSUME n + 1 <= end PROVE \E f : Good(f, end + 1 - (n + 1))
    OBVIOUS
  <2>0. PICK p \in 1 .. end : p = end + 1 - (n + 1) /\ p + 1 = end + 1 - n
    BY <1>0
  <2>1. PICK g : Good(g, p + 1)
    BY <1>0, <1>2, <2>0
  <2> DEFINE f == [q \in p .. end |-> IF q = p THEN ValueAt(g, bytes, p) ELSE g[q]]
  <2>2. \A q \in p + 1 .. end : g[q] = ValueAt(g, bytes, q) /\ EndsIn(g[q], q, bytes)
    BY <2>1 DEF IsParse
  <2>3. /\ p \in p .. end /\ f[p] = ValueAt(g, bytes, p)
        /\ \A q \in p + 1 .. end : q \in p .. end /\ f[q] = g[q]
    BY <1>0
  <2> HIDE DEF f
  <2>4. ASSUME NEW q \in p .. end
        PROVE  f[q] = ValueAt(f, bytes, q) /\ EndsIn(f[q], q, bytes)
    <3>1. q \in 1 .. end /\ \A r \in q + 1 .. end : r \in p + 1 .. end
      BY <1>0
    <3>2. \A r \in q + 1 .. end : g[r] = f[r] /\ EndsIn(g[r], r, bytes)
      BY <2>2, <2>3, <3>1
    <3>3. ValueAt(g, bytes, q) = ValueAt(f, bytes, q) /\ EndsIn(ValueAt(g, bytes, q), q, bytes)
      BY <3>1, <3>2, ValueAgrees
    <3>4. f[q] = ValueAt(g, bytes, q)
      <4>1. CASE q = p
        BY <2>3, <4>1
      <4>2. CASE q # p
        BY <2>2, <2>3, <4>2
      <4> QED
        BY <4>1, <4>2
    <3> QED
      BY <3>3, <3>4
  <2>5. f = [q \in p .. end |-> f[q]]
    BY DEF f
  <2>6. f = [q \in p .. end |-> ValueAt(f, bytes, q)]
    BY <2>4, <2>5
  <2>7. Good(f, p)
    BY <2>4, <2>6 DEF IsParse
  <2> QED
    BY <2>0, <2>7
<1> HIDE DEF Q
<1>3. Nat \subseteq Q
  BY <1>1, <1>2, SetInduction
<1>4. \E f : Good(f, end + 1 - end)
  BY <1>0, <1>3 DEF Q
<1> QED
  <2>1. end + 1 - end = 1
    BY <1>0
  <2> QED
    BY <1>4, <2>1

\* The value at each place is what parse_value finds there.
LEMMA ParseAtIs ==
    ASSUME NEW bytes \in Seq(Tokens), NEW pos \in 1 .. Len(bytes) + 1
    PROVE  ParseAt(bytes)[pos] = ValueAt(ParseAt(bytes), bytes, pos)
<1> DEFINE parse == CHOOSE parse : IsParse(parse, bytes, 1)
<1>1. IsParse(parse, bytes, 1)
  BY ParseExists
<1>2. ParseAt(bytes) = parse
  BY DEF ParseAt, IsParse
<1> HIDE DEF parse
<1> QED
  BY <1>1, <1>2 DEF IsParse
-----------------------------------------------------------------------------
(***************************************************************************)
(* Values one behind the other.                                            *)
(***************************************************************************)
LEMMA ConcatIsBytes ==
    ASSUME NEW V, NEW encode, \A v \in V : encode[v] \in Seq(Tokens), NEW values \in Seq(V)
    PROVE  Concat(encode, values) \in Seq(Tokens)
<1> DEFINE pieces == [i \in DOMAIN values |-> encode[values[i]]]
<1>1. PICK n \in Nat : n = Len(values)
  OBVIOUS
<1>2. DOMAIN values = 1 .. n /\ \A i \in 1 .. n : values[i] \in V
  BY <1>1
<1>3. pieces \in [1 .. n -> Seq(Tokens)] /\ Concat(encode, values) = FlattenSeq(pieces)
  BY <1>2 DEF Concat
<1> HIDE DEF pieces
<1> QED
  BY <1>3, FlattenPieces

\* The bytes of one value more come last.
LEMMA ConcatAppend ==
    ASSUME NEW V, NEW encode, \A v \in V : encode[v] \in Seq(Tokens),
           NEW values \in Seq(V), NEW value \in V
    PROVE  Concat(encode, Append(values, value)) = Concat(encode, values) \o encode[value]
<1> DEFINE n == Len(values)
           pieces == [i \in DOMAIN values |-> encode[values[i]]]
           more == [i \in DOMAIN Append(values, value) |-> encode[Append(values, value)[i]]]
<1>1. n \in Nat /\ DOMAIN values = 1 .. n /\ DOMAIN Append(values, value) = 1 .. n + 1
  OBVIOUS
<1>2. /\ \A i \in 1 .. n : values[i] \in V /\ Append(values, value)[i] = values[i]
      /\ Append(values, value)[n + 1] = value
  OBVIOUS
<1>3. pieces \in Seq(Seq(Tokens)) /\ Len(pieces) = n /\ \A i \in 1 .. n : pieces[i] = encode[values[i]]
  BY <1>1, <1>2
<1>4. /\ DOMAIN more = 1 .. n + 1 /\ more[n + 1] = encode[value]
      /\ \A i \in 1 .. n : more[i] = pieces[i]
  BY <1>1, <1>2
<1>5. more = [i \in 1 .. n + 1 |-> more[i]]
  BY <1>1
<1> HIDE DEF more, pieces
<1>6. /\ Append(pieces, encode[value]) = [i \in 1 .. n + 1 |-> Append(pieces, encode[value])[i]]
      /\ Append(pieces, encode[value])[n + 1] = encode[value]
      /\ \A i \in 1 .. n : Append(pieces, encode[value])[i] = pieces[i]
  BY <1>3
<1>7. \A i \in 1 .. n + 1 : more[i] = Append(pieces, encode[value])[i]
  BY <1>1, <1>4, <1>6
<1>8. more = Append(pieces, encode[value])
  BY <1>5, <1>6, <1>7
<1>9. FlattenSeq(more) = FlattenSeq(pieces) \o encode[value]
  BY <1>3, <1>8, FlattenAppend
<1> QED
  BY <1>9 DEF Concat, more, pieces

\* The bytes of some values, one value's behind the other's.
Laid(bytes, encode, values) ==
    /\ bytes \in Seq(Tokens)
    /\ BytesTo(encode, values, 0) = 0
    /\ BytesTo(encode, values, Len(values)) = Len(bytes)
    /\ \A i \in 1 .. Len(values) :
         /\ BytesTo(encode, values, i - 1) \in Nat /\ BytesTo(encode, values, i) \in Nat
         /\ BytesTo(encode, values, i) = BytesTo(encode, values, i - 1) + Len(encode[values[i]])
         /\ \A j \in 1 .. Len(encode[values[i]]) :
              bytes[BytesTo(encode, values, i - 1) + j] = encode[values[i]][j]

\* The bytes of a sequence of values lie one behind the other.
LEMMA ConcatLays ==
    ASSUME NEW V, NEW encode, \A v \in V : encode[v] \in Seq(Tokens), NEW values \in Seq(V)
    PROVE  Laid(Concat(encode, values), encode, values)
<1> DEFINE n == Len(values)
           pieces == [i \in 1 .. n |-> encode[values[i]]]
           to(i) == BytesTo(encode, values, i)
<1>1. n \in Nat /\ \A i \in 1 .. n : values[i] \in V
  OBVIOUS
<1>2. pieces \in [1 .. n -> Seq(Tokens)] /\ Concat(encode, values) = FlattenSeq(pieces)
  <2>1. pieces \in [1 .. n -> Seq(Tokens)]
    BY <1>1
  <2>2. DOMAIN values = 1 .. n
    OBVIOUS
  <2>3. [i \in DOMAIN values |-> encode[values[i]]] = pieces
    BY <2>2
  <2> QED
    BY <2>1, <2>3 DEF Concat
<1>3. /\ FlattenSeq(pieces) \in Seq(Tokens)
      /\ \E off \in [0 .. n -> Nat] : Pieces(FlattenSeq(pieces), pieces, off, n)
  BY <1>1, <1>2, FlattenPieces
<1>4. PICK off \in [0 .. n -> Nat] : Pieces(FlattenSeq(pieces), pieces, off, n)
  BY <1>3
<1>5. /\ off[0] = 0 /\ Len(Concat(encode, values)) = off[n]
      /\ \A i \in 1 .. n : /\ off[i] = off[i - 1] + Len(encode[values[i]])
                           /\ \A j \in 1 .. Len(encode[values[i]]) :
                                Concat(encode, values)[off[i - 1] + j] = encode[values[i]][j]
  BY <1>2, <1>4 DEF Pieces
<1>6. to(0) = 0
  <2>1. SubSeq(values, 1, 0) = << >>
    OBVIOUS
  <2>2. Concat(encode, << >>) = << >>
    BY DEF Concat, FlattenSeq
  <2>3. to(0) = Len(Concat(encode, SubSeq(values, 1, 0)))
    BY DEF BytesTo
  <2>4. to(0) = Len(<< >>)
    BY <2>1, <2>2, <2>3
  <2> QED
    BY <2>4
<1>7. ASSUME NEW i \in 1 .. n
      PROVE  to(i - 1) \in Nat /\ to(i) = to(i - 1) + Len(encode[values[i]])
  <2> DEFINE before == SubSeq(values, 1, i - 1)
  <2>1. before \in Seq(V) /\ SubSeq(values, 1, i) = Append(before, values[i])
    <3>1. /\ before \in Seq(V) /\ Len(before) = i - 1
          /\ \A k \in 1 .. i - 1 : before[k] = values[k]
      BY <1>1
    <3>2. /\ SubSeq(values, 1, i) \in Seq(V) /\ Len(SubSeq(values, 1, i)) = i
          /\ \A k \in 1 .. i : SubSeq(values, 1, i)[k] = values[k]
      BY <1>1
    <3> HIDE DEF before
    <3>3. /\ Append(before, values[i]) \in Seq(V) /\ Len(Append(before, values[i])) = i
          /\ \A k \in 1 .. i : Append(before, values[i])[k] = values[k]
      BY <1>1, <3>1
    <3> QED
      BY <3>1, <3>2, <3>3, SameSequence
  <2> HIDE DEF before
  <2>2. Concat(encode, SubSeq(values, 1, i)) = Concat(encode, before) \o encode[values[i]]
    BY <1>1, <2>1, ConcatAppend
  <2>3. Concat(encode, before) \in Seq(Tokens)
    BY <2>1, ConcatIsBytes
  <2>4. /\ Len(Concat(encode, before)) \in Nat
        /\ Len(Concat(encode, before) \o encode[values[i]])
             = Len(Concat(encode, before)) + Len(encode[values[i]])
    BY <1>1, <2>3
  <2> QED
    BY <2>2, <2>4 DEF BytesTo, before
<1> HIDE DEF to
<1>8. \A i \in 0 .. n : to(i) = off[i]
  <2> DEFINE Q == {i \in Nat : i <= n => to(i) = off[i]}
  <2>1. 0 \in Q
    BY <1>5, <1>6
  <2>2. ASSUME NEW i \in Nat, i \in Q PROVE i + 1 \in Q
    <3> SUFFICES ASSUME i + 1 <= n PROVE to(i + 1) = off[i + 1]
      OBVIOUS
    <3>1. i + 1 \in 1 .. n /\ (i + 1) - 1 = i /\ i <= n
      BY <1>1
    <3>2. to(i) = off[i]
      BY <2>2, <3>1
    <3>3. to(i + 1) = to((i + 1) - 1) + Len(encode[values[i + 1]])
      BY <1>7, <3>1
    <3>4. off[i + 1] = off[(i + 1) - 1] + Len(encode[values[i + 1]])
      BY <1>5, <3>1
    <3> QED
      BY <3>1, <3>2, <3>3, <3>4
  <2> HIDE DEF Q
  <2>3. Nat \subseteq Q
    BY <2>1, <2>2, SetInduction
  <2>4. \A i \in 0 .. n : i \in Nat /\ i <= n
    BY <1>1
  <2> QED
    BY <2>3, <2>4 DEF Q
<1>9. \A i \in 1 .. n : i - 1 \in 0 .. n /\ i \in 0 .. n
  BY <1>1
<1>10. n \in 0 .. n
  BY <1>1
<1>11. to(n) = Len(Concat(encode, values)) /\ Concat(encode, values) \in Seq(Tokens)
  BY <1>2, <1>3, <1>5, <1>8, <1>10
<1>12. ASSUME NEW i \in 1 .. n
       PROVE  /\ to(i - 1) \in Nat /\ to(i) \in Nat
              /\ \A j \in 1 .. Len(encode[values[i]]) :
                   Concat(encode, values)[to(i - 1) + j] = encode[values[i]][j]
  <2>1. i - 1 \in 0 .. n /\ i \in 0 .. n
    BY <1>9
  <2>2. to(i - 1) = off[i - 1] /\ to(i) = off[i] /\ off[i - 1] \in Nat /\ off[i] \in Nat
    BY <1>8, <2>1
  <2>3. \A j \in 1 .. Len(encode[values[i]]) :
          Concat(encode, values)[off[i - 1] + j] = encode[values[i]][j]
    BY <1>5
  <2> QED
    BY <2>2, <2>3
<1> QED
  BY <1>6, <1>7, <1>11, <1>12 DEF Laid, to

\* What parse_value makes of the bytes of a value, of which the last may not
\* be there.
Reads(result, left, pos, word, tears, value) ==
    /\ left >= Len(word) => result = Ok(value, pos + Len(word))
    /\ left < Len(word) /\ left \in tears => result = Err("InvalidFormat")
    /\ left < Len(word) /\ left \notin tears => result = Err("Incomplete")

\* Bytes of which some are those of a sequence carry its parts as well.
LEMMA CarriesPart ==
    ASSUME NEW bytes \in Seq(Tokens), NEW pos \in 1 .. Len(bytes) + 1, NEW whole,
           Carries(bytes, pos, whole), NEW at \in Nat, NEW part, Len(part) \in Nat,
           Len(whole) \in Nat, at + Len(part) <= Len(whole),
           \A j \in 1 .. Len(part) : whole[at + j] = part[j]
    PROVE  Carries(bytes, pos + at, part)
<1> SUFFICES ASSUME NEW j \in 1 .. Len(part), pos + at + j - 1 <= Len(bytes)
             PROVE  bytes[pos + at + j - 1] = part[j]
  BY DEF Carries
<1> DEFINE i == at + j
<1>1. i \in 1 .. Len(whole) /\ pos + i - 1 = pos + at + j - 1 /\ whole[i] = part[j]
  OBVIOUS
<1> HIDE DEF i
<1>2. bytes[pos + i - 1] = whole[i]
  BY <1>1 DEF Carries
<1> QED
  BY <1>1, <1>2

\* Where the offsets grow, the last is the greatest.
LEMMA OffsetsGrow ==
    ASSUME NEW bytes, NEW encode, NEW values, Len(values) \in Nat, Laid(bytes, encode, values),
           \A i \in 1 .. Len(values) : Len(encode[values[i]]) \in Nat \ {0}
    PROVE  \A k \in 0 .. Len(values) : \A i \in 0 .. k :
             /\ BytesTo(encode, values, i) \in Nat
             /\ BytesTo(encode, values, i) <= BytesTo(encode, values, k)
             /\ i < k => BytesTo(encode, values, i) < BytesTo(encode, values, k)
<1> DEFINE n == Len(values)
           to(i) == BytesTo(encode, values, i)
           Q == {k \in Nat : k <= n =>
                   \A i \in 0 .. k : to(i) \in Nat /\ to(i) <= to(k) /\ (i < k => to(i) < to(k))}
<1>1. to(0) = 0 /\ \A i \in 1 .. n : to(i - 1) \in Nat /\ to(i) = to(i - 1) + Len(encode[values[i]])
  BY DEF Laid
<1> HIDE DEF to
<1>2. 0 \in Q
  BY <1>1
<1>3. ASSUME NEW k \in Nat, k \in Q PROVE k + 1 \in Q
  <2> SUFFICES ASSUME k + 1 <= n, NEW i \in 0 .. k + 1
               PROVE  to(i) \in Nat /\ to(i) <= to(k + 1) /\ (i < k + 1 => to(i) < to(k + 1))
    OBVIOUS
  <2>1. k + 1 \in 1 .. n /\ (k + 1) - 1 = k /\ k <= n /\ k \in 0 .. k
    OBVIOUS
  <2>2. to(k) \in Nat /\ to(k + 1) = to(k) + Len(encode[values[k + 1]])
    BY <1>1, <2>1
  <2>3. Len(encode[values[k + 1]]) \in Nat \ {0}
    BY <2>1
  <2>4. to(k + 1) \in Nat /\ to(k) < to(k + 1)
    BY <2>2, <2>3
  <2>5. CASE i = k + 1
    BY <2>4, <2>5
  <2>6. CASE i # k + 1
    <3>1. i \in 0 .. k
      BY <2>6
    <3>2. to(i) \in Nat /\ to(i) <= to(k)
      BY <1>3, <2>1, <3>1
    <3> QED
      BY <2>2, <2>4, <3>2
  <2> QED
    BY <2>5, <2>6
<1> HIDE DEF Q
<1>4. Nat \subseteq Q
  BY <1>2, <1>3, SetInduction
<1>5. \A k \in 0 .. n : k \in Nat /\ k <= n
  OBVIOUS
<1> QED
  BY <1>4, <1>5 DEF Q, to

\* The values of V are read from their bytes.
Readable(V, encode, tears, bytes, parse) ==
    \A v \in V :
      /\ encode[v] \in Seq(Tokens) /\ Len(encode[v]) > 0
      /\ \A t \in tears[v] : t \in Int /\ 0 < t /\ t < Len(encode[v])
      /\ \A pos \in 1 .. Len(bytes) + 1 :
           Carries(bytes, pos, encode[v])
             => Reads(parse[pos], Left(bytes, pos), pos, encode[v], tears[v], v)

\* Where the bytes of values one behind the other may not end.
TearsIn(encode, tears, values) ==
    {at \in Nat : \E i \in 1 .. Len(values) :
       at - BytesTo(encode, values, i - 1) \in tears[values[i]]}

\* Then so are values one behind the other: the loop of parse_array returns them
\* when all their bytes are there, and fails where the last of the bytes fall.
LEMMA ElementsOf ==
    ASSUME NEW V, NEW encode, NEW tears, NEW bytes \in Seq(Tokens), NEW parse,
           Readable(V, encode, tears, bytes, parse),
           NEW values \in Seq(V), NEW pos \in 1 .. Len(bytes) + 1,
           Carries(bytes, pos, Concat(encode, values))
    PROVE  Reads(Elements(parse, Len(values), pos), Left(bytes, pos), pos,
                 Concat(encode, values),
                 TearsIn(encode, tears, values),
                 values)
<1> DEFINE n == Len(values)
           word == Concat(encode, values)
           to(i) == BytesTo(encode, values, i)
           left == Left(bytes, pos)
           Torn(k) == \E i \in 1 .. k : left - to(i - 1) \in tears[values[i]]
<1>1. /\ n \in Nat /\ Len(bytes) \in Nat /\ left \in Nat /\ pos + left = Len(bytes) + 1
      /\ \A i \in 1 .. n : values[i] \in V
  BY DEF Left
<1>2. /\ \A v \in V : encode[v] \in Seq(Tokens)
      /\ \A i \in 1 .. n : /\ Len(encode[values[i]]) \in Nat \ {0}
                           /\ \A t \in tears[values[i]] : t \in Int /\ 0 < t /\ t < Len(encode[values[i]])
  BY <1>1 DEF Readable
<1>3. Laid(word, encode, values)
  BY <1>2, ConcatLays
<1> HIDE DEF word
<1>4. /\ to(0) = 0 /\ to(n) = Len(word) /\ word \in Seq(Tokens)
      /\ \A i \in 1 .. n : /\ to(i - 1) \in Nat /\ to(i) \in Nat
                           /\ to(i) = to(i - 1) + Len(encode[values[i]])
                           /\ \A j \in 1 .. Len(encode[values[i]]) :
                                word[to(i - 1) + j] = encode[values[i]][j]
  BY <1>3 DEF Laid
<1>5. \A k \in 0 .. n : \A i \in 0 .. k : to(i) \in Nat /\ to(i) <= to(k)
  BY <1>1, <1>2, <1>3, OffsetsGrow
<1> HIDE DEF to, left
<1>6. PICK read : Turns(read, parse, pos, n) /\ Elements(parse, n, pos) = read[n]
  BY <1>1, ElementsRead
<1> HIDE DEF n
<1> DEFINE Right(k) == /\ left >= to(k) => read[k] = Ok(SubSeq(values, 1, k), pos + to(k))
                       /\ left < to(k) /\ Torn(k) => read[k] = Err("InvalidFormat")
                       /\ left < to(k) /\ ~Torn(k) => read[k] = Err("Incomplete")
           Q == {k \in Nat : k <= n => Right(k)}
<1>7. 0 \in Q
  <2>1. read[0] = Ok(<< >>, pos) /\ SubSeq(values, 1, 0) = << >> /\ pos + to(0) = pos
    BY <1>4, <1>6 DEF Turns
  <2>2. ~(left < to(0))
    BY <1>1, <1>4
  <2> HIDE DEF Torn
  <2> QED
    BY <2>1, <2>2
<1>8. ASSUME NEW m \in Nat, m \in Q PROVE m + 1 \in Q
  <2>0. PICK k \in Nat \ {0} : k = m + 1
    OBVIOUS
  <2> SUFFICES ASSUME k <= n PROVE Right(k)
    BY <2>0
  <2>1. k \in 1 .. n /\ k - 1 = m /\ m \in 0 .. n /\ k \in 0 .. n /\ m \in 0 .. k
    BY <1>1, <2>0
  <2> DEFINE v == values[k]
             from == pos + to(m)
  <2>2. Right(m)
    BY <1>8, <2>1
  <2>3. read[k] = Push(read[m], parse[read[m][3]])
    BY <1>6, <2>1 DEF Turns
  <2>4. v \in V /\ to(m) \in Nat /\ to(k) = to(m) + Len(encode[v]) /\ Len(encode[v]) \in Nat \ {0}
    BY <1>1, <1>2, <1>4, <2>1
  <2>5. Torn(k) <=> Torn(m) \/ left - to(m) \in tears[v]
    <3>1. \A i : i \in 1 .. k <=> i \in 1 .. m \/ i = k
      BY <2>0
    <3>2. Torn(k) <=> Torn(m) \/ left - to(k - 1) \in tears[v]
      BY <3>1
    <3> QED
      BY <2>1, <3>2
  <2>6. \A t \in tears[v] : t \in Int /\ 0 < t /\ t < Len(encode[v])
    BY <1>2, <2>1
  <2>7. CASE left < to(m)
    <3>1. left - to(m) \notin tears[v] /\ left < to(k)
      BY <1>1, <2>4, <2>6, <2>7
    <3>2. read[m] = IF Torn(m) THEN Err("InvalidFormat") ELSE Err("Incomplete")
      BY <2>2, <2>7
    <3> HIDE DEF Torn
    <3>3. ~IsOk(read[m])
      BY <3>2 DEF IsOk, Err
    <3>4. read[k] = read[m]
      BY <2>3, <3>3 DEF Push
    <3> QED
      BY <1>1, <2>4, <2>5, <3>1, <3>2, <3>4
  <2>8. CASE left >= to(m)
    <3>1. read[m] = Ok(SubSeq(values, 1, m), from)
      BY <2>2, <2>8
    <3>2. from \in 1 .. Len(bytes) + 1
      BY <1>1, <2>4, <2>8
    <3>3. Left(bytes, from) = left - to(m)
      BY <1>1, <2>4 DEF Left, left
    <3>4. Carries(bytes, from, encode[v])
      <4>1. to(m) + Len(encode[v]) <= Len(word)
        BY <1>1, <1>4, <1>5, <2>1, <2>4
      <4>2. \A j \in 1 .. Len(encode[v]) : word[to(m) + j] = encode[v][j]
        BY <1>4, <2>1
      <4>3. Carries(bytes, pos, word)
        BY DEF word
      <4>4. Len(word) \in Nat
        BY <1>4
      <4> HIDE DEF v
      <4> QED
        BY <2>4, <4>1, <4>2, <4>3, <4>4, CarriesPart
    <3> DEFINE e == parse[from]
               rest == left - to(m)
    <3>5. Reads(e, rest, from, encode[v], tears[v], v)
      BY <2>4, <3>2, <3>3, <3>4 DEF Readable
    <3>6. ~Torn(m)
      <4> SUFFICES ASSUME NEW i \in 1 .. m, left - to(i - 1) \in tears[values[i]] PROVE FALSE
        OBVIOUS
      <4>1. i \in 1 .. n /\ i \in 0 .. m
        BY <1>1, <2>1
      <4>2. /\ left - to(i - 1) < Len(encode[values[i]]) /\ to(i) <= to(m)
            /\ to(i) = to(i - 1) + Len(encode[values[i]])
            /\ to(i) \in Nat /\ to(i - 1) \in Nat /\ Len(encode[values[i]]) \in Nat
        BY <1>2, <1>4, <1>5, <2>1, <4>1
      <4>3. PICK a, b, c, l, w : /\ a = to(i - 1) /\ b = to(i) /\ c = to(m) /\ l = left
                                 /\ w = Len(encode[values[i]])
        OBVIOUS
      <4>4. a \in Nat /\ b \in Nat /\ w \in Nat /\ b = a + w /\ b <= c /\ l - a < w
        BY <4>2, <4>3
      <4>5. c \in Nat /\ l \in Nat /\ l >= c
        BY <1>1, <2>4, <2>8, <4>3
      <4> QED
        BY <4>4, <4>5
    <3>7. read[k] = Push(Ok(SubSeq(values, 1, m), from), e)
      <4>1. read[m][3] = from
        BY <3>1 DEF Ok
      <4> QED
        BY <2>3, <3>1, <4>1
    <3>8. rest >= Len(encode[v]) <=> left >= to(k)
      BY <1>1, <2>4
    <3>9. rest \in Int /\ to(k) \in Int
      BY <1>1, <2>4
    <3> HIDE DEF e, Torn, from, rest
    <3>10. CASE rest >= Len(encode[v])
      <4>1. e = Ok(v, from + Len(encode[v]))
        BY <3>5, <3>10 DEF Reads
      <4>2. read[k] = Ok(Append(SubSeq(values, 1, m), v), from + Len(encode[v]))
        BY <3>7, <4>1 DEF Push, Ok, IsOk
      <4>3. Append(SubSeq(values, 1, m), v) = SubSeq(values, 1, k)
        <5>1. /\ SubSeq(values, 1, m) \in Seq(V) /\ Len(SubSeq(values, 1, m)) = m
              /\ \A i \in 1 .. m : SubSeq(values, 1, m)[i] = values[i]
          BY <1>1, <2>1 DEF n
        <5>2. /\ SubSeq(values, 1, k) \in Seq(V) /\ Len(SubSeq(values, 1, k)) = k
              /\ \A i \in 1 .. k : SubSeq(values, 1, k)[i] = values[i]
          BY <1>1, <2>1 DEF n
        <5>3. /\ Append(SubSeq(values, 1, m), v) \in Seq(V)
              /\ Len(Append(SubSeq(values, 1, m), v)) = k
              /\ \A i \in 1 .. k : Append(SubSeq(values, 1, m), v)[i] = values[i]
          BY <2>0, <2>1, <2>4, <5>1
        <5> QED
          BY <5>2, <5>3, SameSequence
      <4>4. from + Len(encode[v]) = pos + to(k)
        BY <1>1, <2>4 DEF from
      <4>5. left >= to(k) /\ ~(left < to(k))
        BY <1>1, <3>8, <3>9, <3>10
      <4> QED
        BY <4>2, <4>3, <4>4, <4>5
    <3>11. CASE ~(rest >= Len(encode[v]))
      <4>1. rest < Len(encode[v]) /\ left < to(k) /\ ~(left >= to(k))
        <5>1. \A a \in Int, b \in Int : ~(a >= b) <=> a < b
          OBVIOUS
        <5> HIDE DEF v
        <5>2. left \in Int /\ Len(encode[v]) \in Int
          <6>1. left \in Int
            BY <1>1
          <6>2. Len(encode[v]) \in Int
            BY <2>4
          <6> QED
            BY <6>1, <6>2
        <5>3. ~(rest >= Len(encode[v])) /\ ~(left >= to(k))
          BY <3>8, <3>11
        <5> QED
          BY <3>9, <5>1, <5>2, <5>3
      <4>2. e = IF rest \in tears[v] THEN Err("InvalidFormat") ELSE Err("Incomplete")
        BY <3>5, <4>1 DEF Reads
      <4>3. Torn(k) <=> rest \in tears[v]
        BY <2>5, <3>6 DEF rest
      <4>4. ~IsOk(e)
        BY <4>2 DEF IsOk, Err
      <4>5. read[k] = e
        BY <3>7, <4>4 DEF Push, Ok, IsOk
      <4> QED
        BY <4>1, <4>2, <4>3, <4>5
    <3> QED
      BY <3>10, <3>11
  <2> HIDE DEF Right
  <2> QED
    BY <1>1, <2>4, <2>7, <2>8
<1> HIDE DEF Q, Right
<1>9. Nat \subseteq Q
  BY <1>7, <1>8, SetInduction
<1>10. Right(n)
  BY <1>1, <1>9 DEF Q
<1>11. SubSeq(values, 1, n) = values
  BY <1>1 DEF n
<1>12. \A at \in Nat : at = left =>
         (at \in {x \in Nat : \E i \in 1 .. n : x - to(i - 1) \in tears[values[i]]} <=> Torn(n))
  OBVIOUS
<1> DEFINE places == {x \in Nat : \E i \in 1 .. n : x - to(i - 1) \in tears[values[i]]}
<1>13. left \in places <=> Torn(n)
  BY <1>1, <1>12
<1> HIDE DEF places, Torn
<1>14. Reads(Elements(parse, n, pos), left, pos, word, places, values)
  BY <1>4, <1>6, <1>10, <1>11, <1>13 DEF Reads, Right
<1>15. TearsIn(encode, tears, values) = places
  BY DEF TearsIn, places, n, to
<1> QED
  BY <1>14, <1>15 DEF n, left, word
-----------------------------------------------------------------------------
(***************************************************************************)
(* Values by their depth.                                                  *)
(***************************************************************************)
\* Arrays of some values.
ArraysOf(V) == {"array"} \X {elements \in Seq(V) : Len(elements) \in Numbers}

\* The values of each depth up to n.
IsLevels(f, n) ==
    f = [d \in 0 .. n |-> IF d = 0 THEN Scalars ELSE Scalars \cup ArraysOf(f[d - 1])]

\* The values of each depth are what their recursive definition says: there is
\* such a function, by induction over the depth.
LEMMA LevelsExist ==
    ASSUME NEW depth \in Nat
    PROVE  \E f : IsLevels(f, depth)
<1> DEFINE Q == {n \in Nat : \E f : IsLevels(f, n)}
<1>1. 0 \in Q
  <2> DEFINE f == [d \in 0 .. 0 |-> Scalars]
  <2>1. IsLevels(f, 0)
    BY DEF IsLevels
  <2> HIDE DEF f
  <2> QED
    BY <2>1
<1>2. ASSUME NEW n \in Nat, n \in Q PROVE n + 1 \in Q
  <2>1. PICK g : IsLevels(g, n)
    BY <1>2
  <2> DEFINE f == [d \in 0 .. n + 1 |->
                     IF d = n + 1 THEN Scalars \cup ArraysOf(g[n]) ELSE g[d]]
             h == [d \in 0 .. n + 1 |->
                     IF d = 0 THEN Scalars ELSE Scalars \cup ArraysOf(f[d - 1])]
  <2>2. \A d \in 0 .. n : g[d] = IF d = 0 THEN Scalars ELSE Scalars \cup ArraysOf(g[d - 1])
    BY <2>1 DEF IsLevels
  <2>3. f[n + 1] = Scalars \cup ArraysOf(g[n]) /\ \A d \in 0 .. n : f[d] = g[d]
    OBVIOUS
  <2>4. \A d \in 0 .. n + 1 : h[d] = IF d = 0 THEN Scalars ELSE Scalars \cup ArraysOf(f[d - 1])
    OBVIOUS
  <2>5. ASSUME NEW d \in 0 .. n + 1 PROVE f[d] = h[d]
    <3> HIDE DEF f, h
    <3>1. CASE d = n + 1
      <4>1. d # 0 /\ d - 1 = n /\ n \in 0 .. n
        BY <3>1
      <4> QED
        BY <2>3, <2>4, <3>1, <4>1
    <3>2. CASE d # n + 1
      <4>1. d \in 0 .. n /\ (d # 0 => d - 1 \in 0 .. n)
        BY <3>2
      <4> QED
        BY <2>2, <2>3, <2>4, <4>1
    <3> QED
      BY <3>1, <3>2
  <2>6. f = h
    BY <2>5
  <2>7. IsLevels(f, n + 1)
    BY <2>6 DEF IsLevels
  <2> QED
    BY <2>7
<1> HIDE DEF Q
<1>3. Nat \subseteq Q
  BY <1>1, <1>2, SetInduction
<1> QED
  BY <1>3 DEF Q

\* The equation that defines ValuesTo holds of it.
LEMMA ValuesAre ==
    /\ ValuesTo[0] = Scalars
    /\ \A d \in 1 .. MaxDepth : ValuesTo[d] = Scalars \cup ArraysOf(ValuesTo[d - 1])
<1>1. MaxDepth \in Nat
  BY RespAssumption
<1>2. IsLevels(ValuesTo, MaxDepth)
  BY <1>1, LevelsExist DEF ValuesTo, IsLevels, ArraysOf
<1>3. PICK f : f = ValuesTo
  OBVIOUS
<1>4. \A d \in 0 .. MaxDepth : f[d] = IF d = 0 THEN Scalars ELSE Scalars \cup ArraysOf(f[d - 1])
  BY <1>2, <1>3 DEF IsLevels
<1>5. f[0] = Scalars
  <2>1. 0 \in 0 .. MaxDepth
    BY <1>1
  <2> QED
    BY <1>4, <2>1
<1>6. ASSUME NEW d \in 1 .. MaxDepth PROVE f[d] = Scalars \cup ArraysOf(f[d - 1])
  <2>1. d \in 0 .. MaxDepth /\ d # 0
    BY <1>1
  <2> QED
    BY <1>4, <2>1
<1> QED
  BY <1>3, <1>5, <1>6

\* What a value of some depth can be.
LEMMA ValueShape ==
    ASSUME NEW d \in 0 .. MaxDepth, NEW value \in ValuesTo[d]
    PROVE  /\ value = <<value[1], value[2]>>
           /\ \/ value[1] \in {"simple", "error"} /\ value[2] \in Lines
              \/ value[1] = "integer" /\ value[2] \in Numbers
              \/ value[1] = "bulk" /\ value[2] \in Datas \cup {None}
              \/ value[1] = "array" /\ value[2] = None
              \/ /\ value[1] = "array" /\ value[2] # None /\ d > 0 /\ d - 1 \in 0 .. MaxDepth
                 /\ value[2] \in Seq(ValuesTo[d - 1]) /\ Len(value[2]) \in Numbers
<1>1. MaxDepth \in Nat
  BY RespAssumption
<1>2. CASE value \in Scalars
  BY <1>2 DEF Scalars, Array
<1>3. CASE value \notin Scalars
  <2>1. d \in 1 .. MaxDepth
    BY <1>1, <1>3, ValuesAre
  <2>2. value \in ArraysOf(ValuesTo[d - 1]) /\ d - 1 \in 0 .. MaxDepth
    BY <1>1, <1>3, <2>1, ValuesAre
  <2>3. None \notin Seq(ValuesTo[d - 1])
    BY <2>2, NoneAssumption
  <2> QED
    BY <2>1, <2>2, <2>3 DEF ArraysOf
<1> QED
  BY <1>2, <1>3

\* The bytes of a value that is no array do not depend on those of others.
LEMMA ScalarEncoding ==
    ASSUME NEW value \in ValuesTo[0], NEW e, NEW f, NEW t, NEW u
    PROVE  Encoding(e, value) = Encoding(f, value) /\ Tears(e, t, value) = Tears(f, u, value)
<1>1. MaxDepth \in Nat /\ 0 \in 0 .. MaxDepth
  BY RespAssumption
<1>2. ~(value[1] = "array" /\ value[2] # None)
  <2>1. ~(0 > 0)
    OBVIOUS
  <2> QED
    BY <1>1, <2>1, ValueShape
<1>3. Encoding(e, value) = Encoding(f, value)
  BY <1>2 DEF Encoding
<1>4. Tears(e, t, value) = Tears(f, u, value)
  BY <1>2 DEF Tears
<1> QED
  BY <1>3, <1>4

\* The bytes of the values of each depth up to n.
AreEncoded(f, n) ==
    f = [d \in 0 .. n |-> [value \in ValuesTo[d] |-> Encoding(f[d - 1], value)]]

\* Likewise for the bytes of values.
LEMMA EncodedExist ==
    ASSUME NEW depth \in Nat
    PROVE  \E f : AreEncoded(f, depth)
<1> DEFINE Level(d, e) == [value \in ValuesTo[d] |-> Encoding(e, value)]
           Q == {n \in Nat : \E f : AreEncoded(f, n)}
<1>0. \A e, f : Level(0, e) = Level(0, f)
  BY ScalarEncoding
<1>1. 0 \in Q
  <2> DEFINE f == [d \in 0 .. 0 |-> Level(d, 0)]
             h == [d \in 0 .. 0 |-> Level(d, f[d - 1])]
  <2>1. f[0] = Level(0, 0) /\ h[0] = Level(0, f[0 - 1])
    OBVIOUS
  <2>2. f[0] = h[0]
    <3> HIDE DEF Level, f, h
    <3> QED
      BY <1>0, <2>1
  <2>3. f = h
    <3>1. \A d \in 0 .. 0 : d = 0
      OBVIOUS
    <3>2. \A d \in 0 .. 0 : f[d] = h[d]
      <4> HIDE DEF f, h
      <4> QED
        BY <2>2, <3>1
    <3> QED
      BY <3>2
  <2>4. AreEncoded(f, 0)
    BY <2>3 DEF AreEncoded
  <2> QED
    BY <2>4
<1>2. ASSUME NEW n \in Nat, n \in Q PROVE n + 1 \in Q
  <2>1. PICK g : AreEncoded(g, n)
    BY <1>2
  <2> DEFINE f == [d \in 0 .. n + 1 |-> IF d = n + 1 THEN Level(d, g[n]) ELSE g[d]]
             h == [d \in 0 .. n + 1 |-> Level(d, f[d - 1])]
  <2>2. \A d \in 0 .. n : g[d] = Level(d, g[d - 1])
    BY <2>1 DEF AreEncoded
  <2>3. f[n + 1] = Level(n + 1, g[n]) /\ \A d \in 0 .. n : f[d] = g[d]
    OBVIOUS
  <2>4. \A d \in 0 .. n + 1 : h[d] = Level(d, f[d - 1])
    OBVIOUS
  <2>5. ASSUME NEW d \in 0 .. n + 1 PROVE f[d] = h[d]
    <3> HIDE DEF f, h, Level
    <3>1. CASE d = n + 1
      <4>1. d - 1 = n /\ n \in 0 .. n
        BY <3>1
      <4> QED
        BY <2>3, <2>4, <3>1, <4>1
    <3>2. CASE d # n + 1 /\ d # 0
      <4>1. d \in 0 .. n /\ d - 1 \in 0 .. n
        BY <3>2
      <4> QED
        BY <2>2, <2>3, <2>4, <4>1
    <3>3. CASE d = 0
      <4>1. d \in 0 .. n /\ d \in 0 .. n + 1
        BY <3>3
      <4>2. f[d] = Level(0, g[d - 1]) /\ h[d] = Level(0, f[d - 1])
        BY <2>2, <2>3, <2>4, <3>3, <4>1
      <4> QED
        BY <1>0, <4>2
    <3> QED
      BY <3>1, <3>2, <3>3
  <2>6. f = h
    <3> HIDE DEF Level
    <3> QED
      BY <2>5
  <2>7. AreEncoded(f, n + 1)
    BY <2>6 DEF AreEncoded
  <2> QED
    BY <2>7
<1> HIDE DEF Q
<1>3. Nat \subseteq Q
  BY <1>1, <1>2, SetInduction
<1> QED
  BY <1>3 DEF Q

\* The bytes of a value of each depth.
LEMMA EncodedIs ==
    ASSUME NEW d \in 0 .. MaxDepth, NEW value \in ValuesTo[d]
    PROVE  Encoded[d][value] = Encoding(Encoded[d - 1], value)
<1>1. MaxDepth \in Nat
  BY RespAssumption
<1>2. AreEncoded(Encoded, MaxDepth)
  BY <1>1, EncodedExist DEF Encoded, AreEncoded
<1>3. PICK f : f = Encoded
  OBVIOUS
<1>4. f[d] = [v \in ValuesTo[d] |-> Encoding(f[d - 1], v)]
  BY <1>2, <1>3 DEF AreEncoded
<1>5. f[d][value] = Encoding(f[d - 1], value)
  BY <1>4
<1> QED
  BY <1>3, <1>5

\* Where reads tear the values of each depth up to n.
AreTears(f, n) ==
    f = [d \in 0 .. n |-> [value \in ValuesTo[d] |-> Tears(Encoded[d - 1], f[d - 1], value)]]

\* Likewise for the places where reads tear values.
LEMMA TearsExist ==
    ASSUME NEW depth \in Nat
    PROVE  \E f : AreTears(f, depth)
<1> DEFINE Level(d, t) == [value \in ValuesTo[d] |-> Tears(Encoded[d - 1], t, value)]
           Q == {n \in Nat : \E f : AreTears(f, n)}
<1>0. \A t, u : Level(0, t) = Level(0, u)
  BY ScalarEncoding
<1>1. 0 \in Q
  <2> DEFINE f == [d \in 0 .. 0 |-> Level(d, 0)]
             h == [d \in 0 .. 0 |-> Level(d, f[d - 1])]
  <2>1. f[0] = Level(0, 0) /\ h[0] = Level(0, f[0 - 1])
    OBVIOUS
  <2>2. f[0] = h[0]
    <3> HIDE DEF Level, f, h
    <3> QED
      BY <1>0, <2>1
  <2>3. f = h
    <3>1. \A d \in 0 .. 0 : d = 0
      OBVIOUS
    <3>2. \A d \in 0 .. 0 : f[d] = h[d]
      <4> HIDE DEF f, h
      <4> QED
        BY <2>2, <3>1
    <3> QED
      BY <3>2
  <2>4. AreTears(f, 0)
    BY <2>3 DEF AreTears
  <2> QED
    BY <2>4
<1>2. ASSUME NEW n \in Nat, n \in Q PROVE n + 1 \in Q
  <2>1. PICK g : AreTears(g, n)
    BY <1>2
  <2> DEFINE f == [d \in 0 .. n + 1 |-> IF d = n + 1 THEN Level(d, g[n]) ELSE g[d]]
             h == [d \in 0 .. n + 1 |-> Level(d, f[d - 1])]
  <2>2. \A d \in 0 .. n : g[d] = Level(d, g[d - 1])
    BY <2>1 DEF AreTears
  <2>3. f[n + 1] = Level(n + 1, g[n]) /\ \A d \in 0 .. n : f[d] = g[d]
    OBVIOUS
  <2>4. \A d \in 0 .. n + 1 : h[d] = Level(d, f[d - 1])
    OBVIOUS
  <2>5. ASSUME NEW d \in 0 .. n + 1 PROVE f[d] = h[d]
    <3> HIDE DEF f, h, Level
    <3>1. CASE d = n + 1
      <4>1. d - 1 = n /\ n \in 0 .. n
        BY <3>1
      <4> QED
        BY <2>3, <2>4, <3>1, <4>1
    <3>2. CASE d # n + 1 /\ d # 0
      <4>1. d \in 0 .. n /\ d - 1 \in 0 .. n
        BY <3>2
      <4> QED
        BY <2>2, <2>3, <2>4, <4>1
    <3>3. CASE d = 0
      <4>1. d \in 0 .. n /\ d \in 0 .. n + 1
        BY <3>3
      <4>2. f[d] = Level(0, g[d - 1]) /\ h[d] = Level(0, f[d - 1])
        BY <2>2, <2>3, <2>4, <3>3, <4>1
      <4> QED
        BY <1>0, <4>2
    <3> QED
      BY <3>1, <3>2, <3>3
  <2>6. f = h
    <3> HIDE DEF Level
    <3> QED
      BY <2>5
  <2>7. AreTears(f, n + 1)
    BY <2>6 DEF AreTears
  <2> QED
    BY <2>7
<1> HIDE DEF Q
<1>3. Nat \subseteq Q
  BY <1>1, <1>2, SetInduction
<1> QED
  BY <1>3 DEF Q

\* Where reads tear a value of each depth.
LEMMA TearsAre ==
    ASSUME NEW d \in 0 .. MaxDepth, NEW value \in ValuesTo[d]
    PROVE  TearsTo[d][value] = Tears(Encoded[d - 1], TearsTo[d - 1], value)
<1>1. MaxDepth \in Nat
  BY RespAssumption
<1>2. AreTears(TearsTo, MaxDepth)
  BY <1>1, TearsExist DEF TearsTo, AreTears
<1>3. PICK f : f = TearsTo
  OBVIOUS
<1>4. f[d] = [v \in ValuesTo[d] |-> Tears(Encoded[d - 1], f[d - 1], v)]
  BY <1>2, <1>3 DEF AreTears
<1>5. f[d][value] = Tears(Encoded[d - 1], f[d - 1], value)
  BY <1>4
<1> QED
  BY <1>3, <1>5

\* The first line of a value.
LEMMA HeaderIs ==
    ASSUME NEW d \in 0 .. MaxDepth, NEW value \in ValuesTo[d]
    PROVE  /\ FirstLine(value) \in Lines
           /\ HeaderLine(value) \in Seq(Tokens)
           /\ Len(HeaderLine(value)) = Len(FirstLine(value)) + 3
           /\ HeaderLine(value)[1] = TypeByte(value)
           /\ \A j \in 1 .. Len(FirstLine(value)) + 2 :
                HeaderLine(value)[1 + j] = (FirstLine(value) \o Crlf)[j]
           /\ value[1] = "integer" => value[2] \in Numbers /\ FirstLine(value) = Numeral(value[2])
           /\ value[1] \in {"bulk", "array"} =>
                IF value[2] = None THEN -1 \in Numbers /\ FirstLine(value) = Numeral(-1)
                ELSE /\ Len(value[2]) \in Nat /\ Len(value[2]) \in Numbers
                     /\ FirstLine(value) = Numeral(Len(value[2]))
<1> DEFINE type == value[1]
           content == value[2]
           text == FirstLine(value)
<1>1. /\ -1 \in Numbers
      /\ \A k \in 0 .. MaxValueSize : k \in Numbers
      /\ MaxDepth \in Nat /\ MaxValueSize \in Nat
  BY RespAssumption
<1>2. \A m \in Numbers : Numeral(m) \in Lines
  <2>1. \A m \in Numbers : Decimal[m] \in Tokens /\ Decimal[m] # "LF"
    BY DecimalAssumption
  <2>2. \A m \in Numbers : Numeral(m) \in Seq(Tokens) /\ Len(Numeral(m)) = 1
    BY <2>1 DEF Numeral
  <2>3. \A m \in Numbers : \A i \in DOMAIN Numeral(m) : Numeral(m)[i] # "LF"
    BY <2>1, <2>2 DEF Numeral
  <2> QED
    BY <2>2, <2>3 DEF Lines
<1>3. content \in Datas => Len(content) \in 0 .. MaxValueSize /\ content # None
  BY NoneAssumption, <1>1 DEF Datas
<1>4. type = "integer" => content \in Numbers /\ text = Numeral(content)
  BY ValueShape DEF FirstLine
<1>5. ASSUME type \in {"bulk", "array"}
      PROVE  IF content = None THEN -1 \in Numbers /\ text = Numeral(-1)
             ELSE Len(content) \in Nat /\ Len(content) \in Numbers /\ text = Numeral(Len(content))
  <2>1. text = Numeral(IF content = None THEN -1 ELSE Len(content))
    BY <1>5 DEF FirstLine
  <2>2. content # None => Len(content) \in Nat /\ Len(content) \in Numbers
    <3>1. ASSUME content # None
          PROVE  content \in Datas \/ \E V : content \in Seq(V) /\ Len(content) \in Numbers
      BY <1>5, <3>1, ValueShape
    <3>2. \A k \in 0 .. MaxValueSize : k \in Nat
      BY <1>1
    <3>3. \A V : content \in Seq(V) => Len(content) \in Nat
      OBVIOUS
    <3> HIDE DEF content
    <3> QED
      BY <1>1, <1>3, <3>1, <3>2, <3>3
  <2> QED
    BY <1>1, <2>1, <2>2
<1>6. type \in {"simple", "error"} => text \in Lines
  BY ValueShape DEF FirstLine
<1>7. /\ type \in {"simple", "error", "integer", "bulk", "array"}
      /\ TypeByte(value) \in Tokens
  <2>1. type \in {"simple", "error", "integer", "bulk", "array"}
    BY ValueShape
  <2> QED
    BY <2>1, TokenAssumption DEF TypeByte
<1>8. text \in Lines
  BY <1>2, <1>4, <1>5, <1>6, <1>7
<1> HIDE DEF text
<1>9. text \in Seq(Tokens) /\ Len(text) \in Nat
  BY <1>8 DEF Lines
<1>10. Crlf \in Seq(Tokens) /\ Len(Crlf) = 2
  BY TokenAssumption DEF Crlf
<1>11. /\ text \o Crlf \in Seq(Tokens) /\ Len(text \o Crlf) = Len(text) + 2
       /\ \A i \in 1 .. Len(text) : (text \o Crlf)[i] = text[i]
       /\ \A i \in 1 .. 2 : (text \o Crlf)[Len(text) + i] = Crlf[i]
  BY <1>9, WithCrlf
<1>12. HeaderLine(value) = (<<TypeByte(value)>> \o text) \o Crlf
  BY DEF HeaderLine, text
<1> DEFINE byte == TypeByte(value)
<1> HIDE DEF byte
<1>13. byte \in Tokens
  BY <1>7 DEF byte
<1>14. /\ <<byte>> \o text \in Seq(Tokens) /\ Len(<<byte>> \o text) = 1 + Len(text)
       /\ (<<byte>> \o text)[1] = byte
       /\ \A j \in 1 .. Len(text) : (<<byte>> \o text)[1 + j] = text[j]
  BY <1>9, <1>13
<1> DEFINE start == <<byte>> \o text
<1> HIDE DEF start
<1>15. /\ start \o Crlf \in Seq(Tokens) /\ Len(start \o Crlf) = Len(text) + 3
       /\ (start \o Crlf)[1] = byte
       /\ \A j \in 1 .. Len(text) + 2 : (start \o Crlf)[1 + j] = (text \o Crlf)[j]
  <2>1. start \in Seq(Tokens) /\ Len(start) = 1 + Len(text) /\ start[1] = byte
    BY <1>14 DEF start
  <2>0. /\ start \o Crlf \in Seq(Tokens) /\ Len(start \o Crlf) = Len(start) + 2
        /\ \A i \in 1 .. Len(start) : (start \o Crlf)[i] = start[i]
        /\ \A i \in 1 .. 2 : (start \o Crlf)[Len(start) + i] = Crlf[i]
    BY <2>1, WithCrlf
  <2>2. start \o Crlf \in Seq(Tokens) /\ Len(start \o Crlf) = Len(text) + 3
    BY <1>9, <2>0, <2>1
  <2>3. (start \o Crlf)[1] = byte
    BY <1>9, <2>0, <2>1
  <2>4. ASSUME NEW j \in 1 .. Len(text) + 2
        PROVE  (start \o Crlf)[1 + j] = (text \o Crlf)[j]
    <3>1. CASE j <= Len(text)
      <4>1. j \in 1 .. Len(text) /\ start[1 + j] = text[j]
        BY <1>9, <1>14, <3>1 DEF start
      <4>2. (start \o Crlf)[1 + j] = start[1 + j]
        BY <1>9, <2>0, <2>1, <3>1
      <4>3. (text \o Crlf)[j] = text[j]
        BY <1>11, <4>1
      <4> QED
        BY <4>1, <4>2, <4>3
    <3>2. CASE j > Len(text)
      <4> DEFINE i == j - Len(text)
      <4>1. i \in 1 .. 2 /\ j = Len(text) + i /\ 1 + j = (1 + Len(text)) + i
        BY <1>9, <3>2
      <4> HIDE DEF i
      <4>2. (start \o Crlf)[1 + j] = Crlf[i]
        BY <2>0, <2>1, <4>1
      <4>3. (text \o Crlf)[j] = Crlf[i]
        BY <1>11, <4>1
      <4> QED
        BY <4>2, <4>3
    <3>3. j \in Int /\ Len(text) \in Int
      BY <1>9
    <3>4. j <= Len(text) \/ j > Len(text)
      BY <3>3
    <3> QED
      BY <3>1, <3>2, <3>4
  <2> QED
    BY <2>2, <2>3, <2>4
<1>16. HeaderLine(value) = start \o Crlf
  BY <1>12 DEF start, byte
<1> QED
  BY <1>4, <1>5, <1>8, <1>15, <1>16 DEF text, byte
-----------------------------------------------------------------------------
(***************************************************************************)
(* A value is read from its bytes.                                         *)
(***************************************************************************)
\* What follows the first line of a value.
Rest(d, value) ==
    IF value[2] # None /\ value[1] = "bulk" THEN value[2] \o Crlf
    ELSE IF value[2] # None /\ value[1] = "array" THEN Concat(Encoded[d - 1], value[2])
    ELSE << >>

\* The bytes of a value are its first line and the rest.
LEMMA EncodedParts ==
    ASSUME NEW d \in 0 .. MaxDepth, NEW value \in ValuesTo[d],
           d > 0 => \A v \in ValuesTo[d - 1] : Encoded[d - 1][v] \in Seq(Tokens)
    PROVE  /\ Rest(d, value) \in Seq(Tokens)
           /\ Encoded[d][value] = HeaderLine(value) \o Rest(d, value)
           /\ Encoded[d][value] \in Seq(Tokens)
           /\ Len(Encoded[d][value]) = Len(HeaderLine(value)) + Len(Rest(d, value))
           /\ \A j \in 1 .. Len(HeaderLine(value)) : Encoded[d][value][j] = HeaderLine(value)[j]
           /\ \A j \in 1 .. Len(Rest(d, value)) :
                Encoded[d][value][Len(HeaderLine(value)) + j] = Rest(d, value)[j]
<1>1. value[1] = "bulk" /\ value[2] # None => value[2] \in Datas
  BY ValueShape
<1>2. value[1] = "array" /\ value[2] # None => d > 0 /\ value[2] \in Seq(ValuesTo[d - 1])
  BY ValueShape
<1>3. Rest(d, value) \in Seq(Tokens)
  <2>1. CASE value[1] = "bulk" /\ value[2] # None
    <3>1. value[2] \in Seq(Tokens)
      BY <1>1, <2>1 DEF Datas
    <3> QED
      BY <2>1, <3>1, WithCrlf DEF Rest
  <2>2. CASE value[1] = "array" /\ value[2] # None
    <3>1. Concat(Encoded[d - 1], value[2]) \in Seq(Tokens)
      BY <1>2, <2>2, ConcatIsBytes
    <3> QED
      BY <2>2, <3>1 DEF Rest
  <2>3. CASE ~(value[1] = "bulk" /\ value[2] # None) /\ ~(value[1] = "array" /\ value[2] # None)
    <3>1. Rest(d, value) = << >>
      BY <2>3 DEF Rest
    <3> QED
      BY <3>1
  <2> QED
    BY <2>1, <2>2, <2>3
<1>4. Encoded[d][value] = HeaderLine(value) \o Rest(d, value)
  <2>1. Encoding(Encoded[d - 1], value) = HeaderLine(value) \o Rest(d, value)
    <3>1. CASE value[1] = "bulk" /\ value[2] # None
      BY <3>1 DEF Encoding, Rest
    <3>2. CASE value[1] = "array" /\ value[2] # None
      BY <3>2 DEF Encoding, Rest
    <3>3. CASE ~(value[1] = "bulk" /\ value[2] # None) /\ ~(value[1] = "array" /\ value[2] # None)
      BY <3>3 DEF Encoding, Rest
    <3> QED
      BY <3>1, <3>2, <3>3
  <2> QED
    BY <2>1, EncodedIs
<1>5. HeaderLine(value) \in Seq(Tokens)
  BY HeaderIs
<1> QED
  BY <1>3, <1>4, <1>5, JoinOf

\* What the parser makes of the first line of a value, of h bytes, when left bytes
\* are there: it must be there as a whole.
FirstRead(bytes, pos, value, left, h) ==
    /\ left \in Nat /\ h \in Nat /\ h > 2
    /\ left \in {0, 1} => ParseAt(bytes)[pos] = Err("Incomplete")
    /\ left \in 2 .. h - 1 => ParseAt(bytes)[pos] = Err("InvalidFormat")
    /\ left >= h =>
         /\ pos <= Len(bytes) /\ bytes[pos] = TypeByte(value)
         /\ pos + h \in 1 .. Len(bytes) + 1
         /\ value[1] \in {"simple", "error"} =>
              ReadLine(bytes, pos + 1) = Ok(value[2], pos + h)
         /\ value[1] = "integer" => ReadNumber(bytes, pos + 1) = Ok(value[2], pos + h)
         /\ value[1] \in {"bulk", "array"} =>
              ReadNumber(bytes, pos + 1) =
                Ok(IF value[2] = None THEN -1 ELSE Len(value[2]), pos + h)

\* The first line of a value is read as that, or as torn or incomplete.
LEMMA FirstLineRead ==
    ASSUME NEW d \in 0 .. MaxDepth, NEW value \in ValuesTo[d],
           NEW bytes \in Seq(Tokens), NEW pos \in 1 .. Len(bytes) + 1,
           Carries(bytes, pos, HeaderLine(value)), NEW left, left = Left(bytes, pos),
           NEW h, h = Len(HeaderLine(value))
    PROVE  FirstRead(bytes, pos, value, left, h)
<1> DEFINE n == Len(bytes)
           text == FirstLine(value)
           l == Len(text)
           line == ReadLine(bytes, pos + 1)
           number == ReadNumber(bytes, pos + 1)
           parse == ParseAt(bytes)
           short == Left(bytes, pos + 1)
<1>1. /\ text \in Lines /\ text \in Seq(Tokens) /\ l \in Nat /\ h = l + 3
      /\ HeaderLine(value)[1] = TypeByte(value)
      /\ \A j \in 1 .. l + 2 : HeaderLine(value)[1 + j] = (text \o Crlf)[j]
  <2>1. text \in Lines
    BY HeaderIs
  <2>2. text \in Seq(Tokens) /\ l \in Nat
    BY <2>1 DEF Lines
  <2>3. Len(HeaderLine(value)) = l + 3 /\ HeaderLine(value)[1] = TypeByte(value)
    BY HeaderIs
  <2>4. \A j \in 1 .. l + 2 : HeaderLine(value)[1 + j] = (text \o Crlf)[j]
    BY HeaderIs
  <2> QED
    BY <2>1, <2>2, <2>3, <2>4
<1>2. /\ n \in Nat /\ left \in Nat /\ left = n + 1 - pos /\ short = left - 1
      /\ pos <= n <=> left > 0
  BY DEF Left
<1>3. parse[pos] = ValueAt(parse, bytes, pos)
  BY ParseAtIs
<1>4. CASE left = 0
  <2>1. pos > n
    BY <1>2, <1>4
  <2>2. parse[pos] = Err("Incomplete")
    BY <1>3, <2>1 DEF ValueAt
  <2> QED
    BY <1>1, <1>2, <1>4, <2>2 DEF FirstRead
<1>5. CASE left > 0
  <2>1. pos <= n /\ pos + 1 \in 1 .. n + 1
    BY <1>2, <1>5
  <2>2. bytes[pos] = TypeByte(value)
    <3>1. 1 \in 1 .. Len(HeaderLine(value)) /\ pos + 1 - 1 = pos
      BY <1>1
    <3> QED
      BY <1>1, <2>1, <3>1 DEF Carries
  <2>3. Carries(bytes, pos + 1, text \o Crlf)
    <3>1. /\ Len(text \o Crlf) = l + 2 /\ Len(text \o Crlf) \in Nat
          /\ 1 + Len(text \o Crlf) <= Len(HeaderLine(value)) /\ Len(HeaderLine(value)) \in Nat
      BY <1>1, WithCrlf
    <3>2. \A j \in 1 .. Len(text \o Crlf) : HeaderLine(value)[1 + j] = (text \o Crlf)[j]
      BY <1>1, <3>1
    <3> QED
      BY <3>1, <3>2, CarriesPart
  <2>4. /\ short = 0 => line = Err("Incomplete")
        /\ short \in 1 .. l + 1 => line = Err("InvalidFormat")
        /\ short >= l + 2 => line = Ok(text, (pos + 1) + l + 2)
    BY <1>1, <2>1, <2>3, LineRead
  <2>5. ASSUME NEW m \in Numbers, text = Numeral(m)
        PROVE  /\ l = 1
               /\ short = 0 => number = Err("Incomplete")
               /\ short \in 1 .. 2 => number = Err("InvalidFormat")
               /\ short >= 3 => number = Ok(m, (pos + 1) + 3)
    <3>1. l = 1
      BY <2>5 DEF Numeral
    <3>2. Carries(bytes, pos + 1, Numeral(m) \o Crlf)
      BY <2>3, <2>5
    <3> QED
      BY <2>1, <3>1, <3>2, NumberRead
  <2> DEFINE count == IF value[2] = None THEN -1 ELSE Len(value[2])
             meant == IF value[1] = "integer" THEN value[2] ELSE count
  <2>6. value[1] \in {"simple", "error", "integer", "bulk", "array"}
    BY ValueShape
  <2>7. value[1] \in {"integer", "bulk", "array"} => meant \in Numbers /\ text = Numeral(meant)
    BY HeaderIs
  <2>8. /\ value[1] \in {"simple", "error"} => text = value[2]
        /\ value[1] = "integer" => meant = value[2]
        /\ value[1] \in {"bulk", "array"} => meant = count
    BY DEF FirstLine
  <2> HIDE DEF text, meant, count, line, number, short, parse
  <2>9. value[1] \in {"integer", "bulk", "array"} =>
          /\ l = 1
          /\ short = 0 => number = Err("Incomplete")
          /\ short \in 1 .. 2 => number = Err("InvalidFormat")
          /\ short >= 3 => number = Ok(meant, (pos + 1) + 3)
    BY <2>5, <2>7
  <2>10. short \in Nat /\ (left >= h <=> short >= l + 2) /\ pos + h = (pos + 1) + l + 2
    BY <1>1, <1>2, <1>5
  <2>11. ASSUME left < h
         PROVE  parse[pos] = IF left = 1 THEN Err("Incomplete") ELSE Err("InvalidFormat")
    <3>1. short \in 0 .. l + 1 /\ (short = 0 <=> left = 1)
      BY <1>1, <1>2, <1>5, <2>11
    <3> DEFINE e == IF left = 1 THEN Err("Incomplete") ELSE Err("InvalidFormat")
    <3>2. line = e /\ (value[1] \in {"integer", "bulk", "array"} => number = e)
      <4>1. CASE short = 0
        BY <2>4, <2>9, <3>1, <4>1
      <4>2. CASE short # 0
        <5>1. short \in 1 .. l + 1 /\ left # 1
          BY <1>1, <3>1, <4>2
        <5>2. l = 1 => short \in 1 .. 2
          BY <5>1
        <5> QED
          BY <2>4, <2>9, <5>1, <5>2
      <4> QED
        BY <4>1, <4>2
    <3>3. ~IsOk(e)
      BY DEF IsOk, Err
    <3> HIDE DEF e
    <3>4. ~(pos > Len(bytes))
      BY <1>2, <2>1
    <3>5. CASE value[1] = "simple"
      <4>1. ValueAt(parse, bytes, pos) = Typed("simple", line)
        BY <2>2, <3>4, <3>5 DEF ValueAt, TypeByte, line
      <4> QED
        BY <1>3, <3>2, <3>3, <4>1 DEF Typed, parse, e
    <3>6. CASE value[1] = "error"
      <4>1. ValueAt(parse, bytes, pos) = Typed("error", line)
        BY <2>2, <3>4, <3>6 DEF ValueAt, TypeByte, line
      <4> QED
        BY <1>3, <3>2, <3>3, <4>1 DEF Typed, parse, e
    <3>7. CASE value[1] = "integer"
      <4>1. ValueAt(parse, bytes, pos) = Typed("integer", number)
        BY <2>2, <3>4, <3>7 DEF ValueAt, TypeByte, number
      <4> QED
        BY <1>3, <3>2, <3>3, <3>7, <4>1 DEF Typed, parse, e
    <3>8. CASE value[1] = "bulk"
      <4>1. ~IsOk(number) => ValueAt(parse, bytes, pos) = number
        BY <2>2, <3>4, <3>8 DEF ValueAt, TypeByte, number
      <4> QED
        BY <1>3, <3>2, <3>3, <3>8, <4>1 DEF parse, e
    <3>9. CASE value[1] = "array"
      <4>1. ~IsOk(number) => ValueAt(parse, bytes, pos) = number
        BY <2>2, <3>4, <3>9 DEF ValueAt, TypeByte, number
      <4> QED
        BY <1>3, <3>2, <3>3, <3>9, <4>1 DEF parse, e
    <3> QED
      BY <2>6, <3>5, <3>6, <3>7, <3>8, <3>9
  <2>12. ASSUME left >= h
         PROVE  /\ pos + h \in 1 .. n + 1
                /\ line = Ok(text, pos + h)
                /\ value[1] \in {"integer", "bulk", "array"} => number = Ok(meant, pos + h)
    <3>1. pos + h \in 1 .. n + 1
      BY <1>1, <1>2, <2>12
    <3>2. l = 1 => short >= 3 /\ (pos + 1) + 3 = pos + h
      BY <1>1, <2>10, <2>12
    <3> QED
      BY <2>4, <2>9, <2>10, <2>12, <3>1, <3>2
  <2>13. left \in {0, 1} => left = 1 /\ left < h
    BY <1>1, <1>5
  <2>14. left \in 2 .. h - 1 => left # 1 /\ left < h
    BY <1>1
  <2>15. h \in Nat /\ h > 2
    BY <1>1
  <2> QED
    BY <1>2, <2>1, <2>2, <2>8, <2>11, <2>12, <2>13, <2>14, <2>15
    DEF parse, line, number, count, FirstRead
<1> QED
  BY <1>2, <1>4, <1>5

\* A bulk string with a length of -1 is the null one.
LEMMA NullBulk ==
    ASSUME NEW bytes, NEW pos
    PROVE  BulkFrom(bytes, -1, pos) = Ok(BulkString(None), pos)
<1>1. MaxValueSize \in Nat
  BY RespAssumption
<1> QED
  BY <1>1 DEF BulkFrom

\* From the values of one depth to those of the next.
LEMMA ReadableNext ==
    ASSUME NEW bytes \in Seq(Tokens), NEW d \in 0 .. MaxDepth,
           d > 0 => Readable(ValuesTo[d - 1], Encoded[d - 1], TearsTo[d - 1], bytes, ParseAt(bytes))
    PROVE  Readable(ValuesTo[d], Encoded[d], TearsTo[d], bytes, ParseAt(bytes))
<1> DEFINE parse == ParseAt(bytes)
           n == Len(bytes)
<1> SUFFICES ASSUME NEW value \in ValuesTo[d]
             PROVE  /\ Encoded[d][value] \in Seq(Tokens) /\ Len(Encoded[d][value]) > 0
                    /\ \A t \in TearsTo[d][value] :
                         t \in Int /\ 0 < t /\ t < Len(Encoded[d][value])
                    /\ \A pos \in 1 .. Len(bytes) + 1 :
                         Carries(bytes, pos, Encoded[d][value])
                           => Reads(parse[pos], Left(bytes, pos), pos, Encoded[d][value],
                                    TearsTo[d][value], value)
  BY DEF Readable
<1> DEFINE word == Encoded[d][value]
           header == HeaderLine(value)
           rest == Rest(d, value)
           h == Len(header)
           r == Len(rest)
           nested == value[1] = "array" /\ value[2] # None
           count == Len(value[2])
           to(i) == BytesTo(Encoded[d - 1], value[2], i)
           tears == TearsTo[d][value]
           inner == {at \in Nat : \E i \in 1 .. count :
                       at - to(i - 1) \in TearsTo[d - 1][value[2][i]]}
<1>1. /\ rest \in Seq(Tokens) /\ word \in Seq(Tokens) /\ Len(word) = h + r
      /\ \A j \in 1 .. h : word[j] = header[j]
      /\ \A j \in 1 .. r : word[h + j] = rest[j]
  <2>1. d > 0 => \A v \in ValuesTo[d - 1] : Encoded[d - 1][v] \in Seq(Tokens)
    BY DEF Readable
  <2> QED
    BY <2>1, EncodedParts
<1>2. h \in Nat /\ h > 2 /\ r \in Nat /\ header \in Seq(Tokens)
  <2>1. FirstLine(value) \in Seq(Tokens)
    BY HeaderIs DEF Lines
  <2>2. Len(header) = Len(FirstLine(value)) + 3 /\ header \in Seq(Tokens)
    BY HeaderIs
  <2> HIDE DEF header
  <2> QED
    BY <1>1, <2>1, <2>2
<1>3. ASSUME nested
      PROVE  /\ Readable(ValuesTo[d - 1], Encoded[d - 1], TearsTo[d - 1], bytes, ParseAt(bytes))
             /\ value[2] \in Seq(ValuesTo[d - 1]) /\ count \in Nat
             /\ rest = Concat(Encoded[d - 1], value[2])
             /\ \A i \in 1 .. count : /\ to(i - 1) \in Nat /\ to(i) \in Nat /\ to(i) <= r
                                      /\ to(i) = to(i - 1) + Len(Encoded[d - 1][value[2][i]])
                                      /\ \A t \in TearsTo[d - 1][value[2][i]] :
                                           t \in Int /\ 0 < t /\ to(i - 1) + t < to(i)
  <2>1. d > 0 /\ value[2] \in Seq(ValuesTo[d - 1]) /\ count \in Nat
    BY <1>3, ValueShape
  <2>2. rest = Concat(Encoded[d - 1], value[2])
    BY <1>3 DEF Rest
  <2>3. \A v \in ValuesTo[d - 1] :
          /\ Encoded[d - 1][v] \in Seq(Tokens) /\ Len(Encoded[d - 1][v]) \in Nat \ {0}
          /\ \A t \in TearsTo[d - 1][v] : t \in Int /\ 0 < t /\ t < Len(Encoded[d - 1][v])
    BY <2>1 DEF Readable
  <2>4. Laid(rest, Encoded[d - 1], value[2])
    BY <2>1, <2>2, <2>3, ConcatLays
  <2>5. \A i \in 1 .. count : value[2][i] \in ValuesTo[d - 1]
    BY <2>1
  <2>6. \A k \in 0 .. count : \A i \in 0 .. k : to(i) \in Nat /\ to(i) <= to(k)
    <3>1. \A i \in 1 .. count : Len(Encoded[d - 1][value[2][i]]) \in Nat \ {0}
      BY <2>3, <2>5
    <3> QED
      BY <2>1, <2>4, <3>1, OffsetsGrow
  <2>7. to(count) = r
    BY <2>4 DEF Laid
  <2> HIDE DEF to, count
  <2>8. ASSUME NEW i \in 1 .. count
        PROVE  /\ to(i - 1) \in Nat /\ to(i) \in Nat /\ to(i) <= r
               /\ to(i) = to(i - 1) + Len(Encoded[d - 1][value[2][i]])
               /\ \A t \in TearsTo[d - 1][value[2][i]] :
                    t \in Int /\ 0 < t /\ to(i - 1) + t < to(i)
    <3>1. to(i - 1) \in Nat /\ to(i) \in Nat /\ to(i) = to(i - 1) + Len(Encoded[d - 1][value[2][i]])
      BY <2>4 DEF Laid, to, count
    <3>2. i \in 0 .. count /\ count \in 0 .. count
      BY <2>1
    <3>3. to(i) <= r
      BY <2>6, <2>7, <3>2
    <3>4. ASSUME NEW t \in TearsTo[d - 1][value[2][i]]
          PROVE  t \in Int /\ 0 < t /\ to(i - 1) + t < to(i)
      <4>1. t \in Int /\ 0 < t /\ t < Len(Encoded[d - 1][value[2][i]])
        BY <2>3, <2>5
      <4>2. Len(Encoded[d - 1][value[2][i]]) \in Nat
        BY <2>3, <2>5
      <4>3. PICK l, a, b : l = Len(Encoded[d - 1][value[2][i]]) /\ a = to(i - 1) /\ b = to(i)
        OBVIOUS
      <4>4. a \in Nat /\ b = a + l /\ l \in Nat /\ t \in Int /\ t < l
        BY <3>1, <4>1, <4>2, <4>3
      <4>5. a + t < b
        BY <4>4
      <4> QED
        BY <4>1, <4>3, <4>5
    <3> QED
      BY <3>1, <3>3, <3>4
  <2> QED
    BY <2>1, <2>2, <2>8 DEF to, count
<1>4. \A at \in Int : at \in tears <=> \/ at \in 2 .. h - 1
                                       \/ nested /\ at \in Nat /\ \E i \in 1 .. count :
                                            at - h - to(i - 1) \in TearsTo[d - 1][value[2][i]]
  <2>1. tears = Tears(Encoded[d - 1], TearsTo[d - 1], value)
    BY TearsAre
  <2>2. nested => DOMAIN value[2] = 1 .. count
    BY <1>3
  <2> HIDE DEF tears
  <2> QED
    BY <2>1, <2>2 DEF Tears
<1>5. \A at \in tears : at \in Int
  <2>1. tears = Tears(Encoded[d - 1], TearsTo[d - 1], value)
    BY TearsAre
  <2> HIDE DEF tears
  <2> QED
    BY <1>2, <2>1 DEF Tears
<1> HIDE DEF to, count, h, r, nested, tears, word, header, rest
<1>6. ASSUME NEW at \in Int, nested, NEW i \in 1 .. count,
             at - h - to(i - 1) \in TearsTo[d - 1][value[2][i]]
      PROVE  h < at /\ at < h + r
  <2> DEFINE t == at - h - to(i - 1)
  <2>1. /\ to(i - 1) \in Nat /\ to(i) \in Nat /\ to(i) <= r
        /\ t \in Int /\ 0 < t /\ to(i - 1) + t < to(i)
    BY <1>3, <1>6
  <2>2. to(i - 1) + t = at - h
    BY <1>2, <2>1
  <2> QED
    BY <1>2, <2>1, <2>2
<1>7. \A at \in tears : at \in Int /\ 0 < at /\ at < Len(word)
  <2> SUFFICES ASSUME NEW at \in tears PROVE 0 < at /\ at < h + r
    BY <1>1, <1>5 DEF word
  <2>1. at \in Int
    BY <1>5
  <2>2. CASE at \in 2 .. h - 1
    BY <1>2, <2>2
  <2>3. CASE at \notin 2 .. h - 1
    <3>1. PICK i \in 1 .. count : nested /\ at - h - to(i - 1) \in TearsTo[d - 1][value[2][i]]
      BY <1>4, <2>1, <2>3
    <3> QED
      BY <1>2, <1>6, <2>1, <3>1
  <2> QED
    BY <2>2, <2>3
<1>8. ASSUME NEW pos \in 1 .. Len(bytes) + 1, Carries(bytes, pos, word)
      PROVE  Reads(parse[pos], Left(bytes, pos), pos, word, tears, value)
  <2> DEFINE left == Left(bytes, pos)
             from == pos + h
  <2>1. Carries(bytes, pos, header)
    <3>1. \A j \in 1 .. Len(header) : word[0 + j] = header[j]
      BY <1>1 DEF h
    <3>2. 0 + Len(header) <= Len(word) /\ Len(header) \in Nat /\ Len(word) \in Nat
      BY <1>1, <1>2 DEF h
    <3>3. Carries(bytes, pos + 0, header)
      BY <1>8, <3>1, <3>2, CarriesPart
    <3> QED
      BY <3>3
  <2>2. /\ left \in Nat
        /\ left \in {0, 1} => parse[pos] = Err("Incomplete")
        /\ left \in 2 .. h - 1 => parse[pos] = Err("InvalidFormat")
        /\ left >= h =>
                /\ pos <= n /\ bytes[pos] = TypeByte(value)
                /\ from \in 1 .. n + 1
                /\ value[1] \in {"simple", "error"} =>
                     ReadLine(bytes, pos + 1) = Ok(value[2], from)
                /\ value[1] = "integer" => ReadNumber(bytes, pos + 1) = Ok(value[2], from)
                /\ value[1] \in {"bulk", "array"} =>
                     ReadNumber(bytes, pos + 1) =
                       Ok(IF value[2] = None THEN -1 ELSE Len(value[2]), from)
    <3>1. Carries(bytes, pos, HeaderLine(value)) /\ h = Len(HeaderLine(value))
      BY <2>1 DEF h, header
    <3>2. left = Left(bytes, pos)
      OBVIOUS
    <3>3. FirstRead(bytes, pos, value, Left(bytes, pos), Len(HeaderLine(value)))
      <4> HIDE DEF left, parse, n, from
      <4> QED
        BY <3>1, FirstLineRead
    <3> HIDE DEF left
    <3>4. FirstRead(bytes, pos, value, left, h)
      BY <3>1, <3>2, <3>3
    <3> QED
      BY <3>4 DEF FirstRead
  <2>3. parse[pos] = ValueAt(parse, bytes, pos)
    BY ParseAtIs
  <2>4. left = n + 1 - pos /\ n \in Nat /\ left - h = Left(bytes, from)
    BY <1>2 DEF Left
  <2> HIDE DEF left, from, parse
  <2>5. CASE left < h
    <3>1. left < Len(word)
      BY <1>1, <1>2, <2>2, <2>5
    <3>2. left \in tears <=> left \in 2 .. h - 1
      <4>1. ASSUME left \in tears, left \notin 2 .. h - 1 PROVE FALSE
        <5>1. PICK i \in 1 .. count : nested /\ left - h - to(i - 1) \in TearsTo[d - 1][value[2][i]]
          BY <1>4, <2>2, <4>1
        <5>2. h < left
          BY <1>6, <2>2, <5>1
        <5> QED
          BY <1>2, <2>2, <2>5, <5>2
      <4>2. left \in Int
        BY <2>2
      <4> QED
        BY <1>4, <4>1, <4>2
    <3>3. left \notin 2 .. h - 1 => left \in {0, 1}
      BY <1>2, <2>2, <2>5
    <3>4. ~(left >= Len(word))
      BY <1>1, <1>2, <2>2, <3>1
    <3> QED
      BY <2>2, <3>1, <3>2, <3>3, <3>4 DEF Reads, left
  <2>6. CASE left >= h
    <3>1. /\ pos <= n /\ bytes[pos] = TypeByte(value) /\ from \in 1 .. n + 1
          /\ ~(pos > Len(bytes)) /\ left \notin 2 .. h - 1
      BY <1>2, <2>2, <2>4, <2>6
    <3>2. Carries(bytes, from, rest)
      <4>1. Len(rest) \in Nat /\ Len(word) \in Nat /\ h + Len(rest) <= Len(word)
        BY <1>1, <1>2 DEF r
      <4>2. \A j \in 1 .. Len(rest) : word[h + j] = rest[j]
        BY <1>1 DEF r
      <4> QED
        BY <1>2, <1>8, <4>1, <4>2, CarriesPart DEF from
    <3>3. ASSUME rest = << >>, ~nested, parse[pos] = Ok(value, from)
          PROVE  Reads(parse[pos], left, pos, word, tears, value)
      <4>1. r = 0
        BY <3>3 DEF r
      <4>2. Len(word) = h
        BY <1>1, <1>2, <4>1
      <4>3. ~(left < Len(word))
        BY <1>2, <2>2, <2>6, <4>2
      <4> QED
        BY <3>3, <4>2, <4>3 DEF Reads, from
    <3>4. value = <<value[1], value[2]>>
      BY ValueShape
    <3>5. CASE value[1] = "simple"
      <4>1. rest = << >> /\ ~nested
        BY <3>5 DEF rest, Rest, nested
      <4>2. parse[pos] = Typed("simple", ReadLine(bytes, pos + 1))
        BY <2>3, <3>1, <3>5 DEF ValueAt, TypeByte
      <4>3. ReadLine(bytes, pos + 1) = Ok(value[2], from)
        BY <2>2, <2>6, <3>5
      <4>4. parse[pos] = Ok(<<"simple", value[2]>>, from)
        BY <4>2, <4>3, TypedOk
      <4>5. parse[pos] = Ok(value, from)
        BY <3>4, <3>5, <4>4
      <4> QED
        BY <3>3, <4>1, <4>5 DEF left
    <3>6. CASE value[1] = "error"
      <4>1. rest = << >> /\ ~nested
        BY <3>6 DEF rest, Rest, nested
      <4>2. parse[pos] = Typed("error", ReadLine(bytes, pos + 1))
        BY <2>3, <3>1, <3>6 DEF ValueAt, TypeByte
      <4>3. ReadLine(bytes, pos + 1) = Ok(value[2], from)
        BY <2>2, <2>6, <3>6
      <4>4. parse[pos] = Ok(<<"error", value[2]>>, from)
        BY <4>2, <4>3, TypedOk
      <4>5. parse[pos] = Ok(value, from)
        BY <3>4, <3>6, <4>4
      <4> QED
        BY <3>3, <4>1, <4>5 DEF left
    <3>7. CASE value[1] = "integer"
      <4>1. rest = << >> /\ ~nested
        BY <3>7 DEF rest, Rest, nested
      <4>2. parse[pos] = Typed("integer", ReadNumber(bytes, pos + 1))
        BY <2>3, <3>1, <3>7 DEF ValueAt, TypeByte
      <4>3. ReadNumber(bytes, pos + 1) = Ok(value[2], from)
        BY <2>2, <2>6, <3>7
      <4>4. parse[pos] = Ok(<<"integer", value[2]>>, from)
        BY <4>2, <4>3, TypedOk
      <4>5. parse[pos] = Ok(value, from)
        BY <3>4, <3>7, <4>4
      <4> QED
        BY <3>3, <4>1, <4>5 DEF left
    <3>8. CASE value[1] = "bulk"
      <4> DEFINE number == ReadNumber(bytes, pos + 1)
                 l == IF value[2] = None THEN -1 ELSE Len(value[2])
      <4>1. number = Ok(l, from)
        BY <2>2, <2>6, <3>8
      <4>2. parse[pos] = IF ~IsOk(number) THEN number ELSE BulkFrom(bytes, number[2], number[3])
        BY <2>3, <3>1, <3>8 DEF ValueAt, TypeByte
      <4> HIDE DEF number, l
      <4>3. parse[pos] = BulkFrom(bytes, l, from)
        BY <4>1, <4>2 DEF Ok, IsOk
      <4>4. ~nested
        BY <3>8 DEF nested
      <4>5. CASE value[2] = None
        <5>1. rest = << >>
          BY <4>5 DEF rest, Rest
        <5>2. parse[pos] = Ok(BulkString(None), from)
          <6>1. l = -1
            BY <4>5 DEF l
          <6>2. BulkFrom(bytes, -1, from) = Ok(BulkString(None), from)
            BY NullBulk
          <6> QED
            BY <4>3, <6>1, <6>2
        <5>3. value = BulkString(None)
          BY <3>4, <3>8, <4>5 DEF BulkString
        <5> QED
          BY <3>3, <4>4, <5>1, <5>2, <5>3 DEF left
      <4>6. CASE value[2] # None
        <5>1. value[2] \in Datas
          BY <3>8, <4>6, ValueShape
        <5>2. rest = value[2] \o Crlf
          BY <3>8, <4>6 DEF rest, Rest
        <5>3. r = Len(value[2]) + 2 /\ l = Len(value[2]) /\ Len(value[2]) \in Nat
          <6>1. value[2] \in Seq(Tokens)
            BY <5>1 DEF Datas
          <6> QED
            BY <4>6, <5>2, <6>1, WithCrlf DEF r, l
        <5>4. /\ Left(bytes, from) < r => parse[pos] = Err("Incomplete")
              /\ Left(bytes, from) >= r => parse[pos] = Ok(BulkString(value[2]), from + Len(value[2]) + 2)
          <6>1. Carries(bytes, from, value[2] \o Crlf)
            BY <3>2, <5>2
          <6> QED
            BY <3>1, <4>3, <5>1, <5>3, <6>1, BulkRead
        <5>5. value = BulkString(value[2])
          BY <3>4, <3>8 DEF BulkString
        <5>6. left \notin tears
          BY <1>4, <2>2, <3>1, <4>4
        <5>7. from + Len(value[2]) + 2 = pos + Len(word)
          <6>1. Len(word) = h + (Len(value[2]) + 2)
            BY <1>1, <5>3
          <6>2. \A k \in Nat : (pos + h) + k + 2 = pos + (h + (k + 2))
            BY <1>2
          <6> QED
            BY <5>3, <6>1, <6>2 DEF from
        <5>8. (left < Len(word) => Left(bytes, from) < r) /\ (left >= Len(word) => Left(bytes, from) >= r)
          BY <1>1, <1>2, <2>2, <2>4
        <5> QED
          BY <5>4, <5>5, <5>6, <5>7, <5>8 DEF Reads, left
      <4> QED
        BY <4>5, <4>6
    <3>9. CASE value[1] = "array"
      <4> DEFINE number == ReadNumber(bytes, pos + 1)
                 l == IF value[2] = None THEN -1 ELSE Len(value[2])
      <4>1. number = Ok(l, from)
        BY <2>2, <2>6, <3>9
      <4>2. parse[pos] = IF ~IsOk(number) THEN number ELSE ArrayFrom(parse, number[2], number[3])
        BY <2>3, <3>1, <3>9 DEF ValueAt, TypeByte
      <4> HIDE DEF number, l
      <4>3. parse[pos] = ArrayFrom(parse, l, from)
        BY <4>1, <4>2 DEF Ok, IsOk
      <4>4. CASE value[2] = None
        <5>1. rest = << >> /\ ~nested
          BY <4>4 DEF rest, Rest, nested
        <5>2. parse[pos] = Ok(Array(None), from)
          BY <4>3, <4>4 DEF ArrayFrom, l
        <5>3. value = Array(None)
          BY <3>4, <3>9, <4>4 DEF Array
        <5> QED
          BY <3>3, <5>1, <5>2, <5>3 DEF left
      <4>5. CASE value[2] # None
        <5>1. nested /\ l = count
          BY <3>9, <4>5 DEF nested, count, l
        <5>2. /\ Readable(ValuesTo[d - 1], Encoded[d - 1], TearsTo[d - 1], bytes, ParseAt(bytes))
              /\ value[2] \in Seq(ValuesTo[d - 1]) /\ count \in Nat
              /\ rest = Concat(Encoded[d - 1], value[2])
          BY <1>3, <5>1
        <5> DEFINE es == Elements(parse, count, from)
        <5>3. parse[pos] = Typed("array", es)
          BY <4>3, <5>1, <5>2 DEF ArrayFrom
        <5>4. Reads(es, Left(bytes, from), from, rest, inner, value[2])
          <6>1. Carries(bytes, from, Concat(Encoded[d - 1], value[2]))
            BY <3>2, <5>2
          <6>2. PICK V, encode, torn, values, at : 
                  /\ V = ValuesTo[d - 1] /\ encode = Encoded[d - 1] /\ torn = TearsTo[d - 1]
                  /\ values = value[2] /\ at = from
            OBVIOUS
          <6>3. /\ Readable(V, encode, torn, bytes, ParseAt(bytes)) /\ values \in Seq(V)
                /\ at \in 1 .. Len(bytes) + 1 /\ Carries(bytes, at, Concat(encode, values))
            BY <3>1, <5>2, <6>1, <6>2
          <6>4. Reads(Elements(ParseAt(bytes), Len(values), at), Left(bytes, at), at,
                      Concat(encode, values),
                      TearsIn(encode, torn, values),
                      values)
            BY <6>3, ElementsOf
          <6>5. TearsIn(Encoded[d - 1], TearsTo[d - 1], value[2]) = inner
            BY DEF TearsIn, inner, to, count
          <6> HIDE DEF inner
          <6> QED
            BY <5>2, <6>2, <6>4, <6>5 DEF parse, count
        <5> HIDE DEF es
        <5>5. left \in tears <=> left - h \in inner
          <6>1. left - h \in Nat
            BY <1>2, <2>2, <2>6
          <6>2. left \in tears <=> \E i \in 1 .. count :
                                     left - h - to(i - 1) \in TearsTo[d - 1][value[2][i]]
            BY <1>4, <2>2, <3>1, <5>1
          <6> QED
            BY <6>1, <6>2
        <5> HIDE DEF inner
        <5>6. value = <<"array", value[2]>>
          BY <3>4, <3>9
        <5>7. from + r = pos + Len(word)
          BY <1>1, <1>2 DEF from
        <5>8. (left < Len(word) => left - h < r) /\ (left >= Len(word) => left - h >= r)
          BY <1>1, <1>2, <2>2
        <5>9. /\ left - h >= r => es = Ok(value[2], from + r)
              /\ left - h < r /\ left - h \in inner => es = Err("InvalidFormat")
              /\ left - h < r /\ left - h \notin inner => es = Err("Incomplete")
          BY <2>4, <5>4 DEF Reads, r
        <5>10. ASSUME left >= Len(word) PROVE parse[pos] = Ok(value, pos + Len(word))
          <6>1. es = Ok(value[2], from + r)
            BY <5>8, <5>9, <5>10
          <6>2. parse[pos] = Ok(<<"array", value[2]>>, from + r)
            BY <5>3, <6>1 DEF Typed, Ok, IsOk
          <6> QED
            BY <5>6, <5>7, <6>2
        <5>11. ASSUME left < Len(word)
               PROVE  parse[pos] = IF left \in tears THEN Err("InvalidFormat") ELSE Err("Incomplete")
          <6>1. es = IF left \in tears THEN Err("InvalidFormat") ELSE Err("Incomplete")
            BY <5>5, <5>8, <5>9, <5>11
          <6>2. ~IsOk(es)
            BY <6>1 DEF IsOk, Err
          <6> QED
            BY <5>3, <6>1, <6>2 DEF Typed
        <5> QED
          BY <5>10, <5>11 DEF Reads, left
      <4> QED
        BY <4>4, <4>5
    <3> QED
      BY <3>5, <3>6, <3>7, <3>8, <3>9, ValueShape DEF left
  <2>7. left < h \/ left >= h
    BY <1>2, <2>2
  <2> QED
    BY <2>5, <2>6, <2>7 DEF left
<1>9. word \in Seq(Tokens) /\ Len(word) > 0
  BY <1>1, <1>2
<1> QED
  BY <1>7, <1>8, <1>9 DEF word, tears

\* parse_value reads every value from its bytes, and tells of a value that is
\* there in part whether a line is torn.
LEMMA AllReadable ==
    ASSUME NEW bytes \in Seq(Tokens), NEW d \in 0 .. MaxDepth
    PROVE  Readable(ValuesTo[d], Encoded[d], TearsTo[d], bytes, ParseAt(bytes))
<1> DEFINE Good(k) == Readable(ValuesTo[k], Encoded[k], TearsTo[k], bytes, ParseAt(bytes))
           Q == {k \in Nat : k <= MaxDepth => Good(k)}
<1>1. MaxDepth \in Nat
  BY RespAssumption
<1>2. ASSUME NEW k \in 0 .. MaxDepth, k > 0 => Good(k - 1) PROVE Good(k)
  BY <1>2, ReadableNext
<1> HIDE DEF Good
<1>3. 0 \in Q
  BY <1>1, <1>2
<1>4. ASSUME NEW k \in Nat, k \in Q PROVE k + 1 \in Q
  <2> SUFFICES ASSUME k + 1 <= MaxDepth PROVE Good(k + 1)
    OBVIOUS
  <2>1. k + 1 \in 0 .. MaxDepth /\ (k + 1) - 1 = k /\ k <= MaxDepth
    BY <1>1
  <2> QED
    BY <1>2, <1>4, <2>1
<1> HIDE DEF Q
<1>5. Nat \subseteq Q
  BY <1>3, <1>4, SetInduction
<1>6. d \in Nat /\ d <= MaxDepth
  BY <1>1
<1> QED
  BY <1>5, <1>6 DEF Q, Good
-----------------------------------------------------------------------------
(***************************************************************************)
(* What a client sends.                                                    *)
(***************************************************************************)
\* Where the k-th value of a stream ends.
At(s, k) == BytesTo(Encoded[MaxDepth], s[1], k)

\* The bytes of a value, and where they may not end.
Word(value) == Encoded[MaxDepth][value]
Torn(value) == TearsTo[MaxDepth][value]

\* A value has bytes.
LEMMA WordIs ==
    ASSUME NEW value \in Values
    PROVE  Word(value) \in Seq(Tokens) /\ Len(Word(value)) \in Nat \ {0}
<1>1. MaxDepth \in 0 .. MaxDepth /\ << >> \in Seq(Tokens)
  BY RespAssumption
<1>2. Readable(Values, Encoded[MaxDepth], TearsTo[MaxDepth], << >>, ParseAt(<< >>))
  BY <1>1, AllReadable DEF Values
<1>3. Word(value) \in Seq(Tokens) /\ Len(Word(value)) > 0
  BY <1>2 DEF Readable, Word
<1> QED
  BY <1>3

\* The bytes of values one behind the other, read from their beginning.
LEMMA SerializedIs ==
    ASSUME NEW values \in Seq(Values)
    PROVE  /\ Laid(SerializeAll(values), Encoded[MaxDepth], values)
           /\ Elements(ParseAt(SerializeAll(values)), Len(values), 1) =
                Ok(values, Len(SerializeAll(values)) + 1)
<1>1. PICK bytes : bytes = SerializeAll(values)
  OBVIOUS
<1>2. PICK encode, tears, parse : encode = Encoded[MaxDepth] /\ tears = TearsTo[MaxDepth]
                                  /\ parse = ParseAt(bytes)
  OBVIOUS
<1>3. \A v \in Values : encode[v] \in Seq(Tokens)
  BY <1>2, WordIs DEF Word
<1>4. bytes = Concat(encode, values)
  BY <1>1, <1>2 DEF SerializeAll
<1>5. Laid(bytes, encode, values)
  BY <1>3, <1>4, ConcatLays
<1>6. bytes \in Seq(Tokens) /\ Len(bytes) \in Nat
  BY <1>5 DEF Laid
<1>7. Readable(Values, encode, tears, bytes, parse)
  <2>1. MaxDepth \in 0 .. MaxDepth
    BY RespAssumption
  <2> QED
    BY <1>2, <1>6, <2>1, AllReadable DEF Values
<1>8. Carries(bytes, 1, Concat(encode, values)) /\ 1 \in 1 .. Len(bytes) + 1
      /\ Left(bytes, 1) = Len(bytes)
  BY <1>4, <1>6 DEF Carries, Left
<1>9. Reads(Elements(parse, Len(values), 1), Left(bytes, 1), 1, Concat(encode, values),
            TearsIn(encode, tears, values), values)
  BY <1>6, <1>7, <1>8, ElementsOf
<1>10. Elements(parse, Len(values), 1) = Ok(values, 1 + Len(bytes))
  BY <1>4, <1>6, <1>8, <1>9 DEF Reads
<1>11. 1 + Len(bytes) = Len(bytes) + 1
  BY <1>6
<1> QED
  BY <1>1, <1>2, <1>5, <1>10, <1>11

\* How the bytes of a stream lie.
LEMMA StreamLaid ==
    ASSUME NEW s \in Streams
    PROVE  /\ s[1] \in Seq(Values) /\ Len(s[1]) \in Nat
           /\ s[2] \in Seq(Tokens) /\ Len(s[2]) \in Nat
           /\ Wire(s) \in Seq(Tokens) /\ Len(Wire(s)) = At(s, Len(s[1])) + Len(s[2])
           /\ At(s, 0) = 0
           /\ \A k \in 0 .. Len(s[1]) :
                /\ At(s, k) \in Nat
                /\ \A i \in 0 .. k : At(s, i) <= At(s, k) /\ (i < k => At(s, i) < At(s, k))
           /\ \A k \in 1 .. Len(s[1]) :
                /\ At(s, k) = At(s, k - 1) + Len(Word(s[1][k]))
                /\ \A j \in 1 .. Len(Word(s[1][k])) :
                     Wire(s)[At(s, k - 1) + j] = Word(s[1][k])[j]
           /\ \A j \in 1 .. Len(s[2]) : Wire(s)[At(s, Len(s[1])) + j] = s[2][j]
<1>1. PICK values, tail : values = s[1] /\ tail = s[2]
  OBVIOUS
<1>2. values \in Seq(Values) /\ tail \in Seq(Tokens)
  <2>1. s \in Seq(Values) \X Seq(Tokens)
    BY StreamAssumption
  <2> QED
    BY <1>1, <2>1
<1>3. PICK encode, bytes, n :
        encode = Encoded[MaxDepth] /\ bytes = SerializeAll(values) /\ n = Len(values)
  OBVIOUS
<1>4. Laid(bytes, encode, values)
  BY <1>2, <1>3, SerializedIs
<1>5. n \in Nat /\ \A i \in 1 .. n : values[i] \in Values
  BY <1>2, <1>3
<1>6. \A i \in 1 .. n : Len(encode[values[i]]) \in Nat \ {0}
  BY <1>3, <1>5, WordIs DEF Word
<1>7. \A k \in 0 .. n : \A i \in 0 .. k :
        /\ BytesTo(encode, values, i) \in Nat
        /\ BytesTo(encode, values, i) <= BytesTo(encode, values, k)
        /\ i < k => BytesTo(encode, values, i) < BytesTo(encode, values, k)
  BY <1>3, <1>4, <1>5, <1>6, OffsetsGrow
<1>8. \A k : At(s, k) = BytesTo(encode, values, k)
  BY <1>1, <1>3 DEF At
<1>9. \A k \in 0 .. n : k \in 0 .. k
  BY <1>5
<1>10. /\ bytes \in Seq(Tokens) /\ Len(bytes) \in Nat /\ At(s, n) = Len(bytes) /\ At(s, 0) = 0
  BY <1>3, <1>4, <1>8 DEF Laid
<1>11. /\ Wire(s) = bytes \o tail /\ Wire(s) \in Seq(Tokens)
       /\ Len(tail) \in Nat /\ Len(Wire(s)) = Len(bytes) + Len(tail)
       /\ \A j \in 1 .. Len(bytes) : Wire(s)[j] = bytes[j]
       /\ \A j \in 1 .. Len(tail) : Wire(s)[Len(bytes) + j] = tail[j]
  <2>1. Wire(s) = bytes \o tail
    BY <1>1, <1>3 DEF Wire
  <2> QED
    BY <1>2, <1>10, <2>1, JoinOf
<1>12. ASSUME NEW k \in 1 .. n
       PROVE  /\ At(s, k) = At(s, k - 1) + Len(encode[values[k]])
              /\ \A j \in 1 .. Len(encode[values[k]]) :
                   Wire(s)[At(s, k - 1) + j] = encode[values[k]][j]
  <2>1. /\ At(s, k) = At(s, k - 1) + Len(encode[values[k]])
        /\ At(s, k - 1) \in Nat /\ At(s, k) \in Nat
        /\ \A j \in 1 .. Len(encode[values[k]]) :
             bytes[At(s, k - 1) + j] = encode[values[k]][j]
    BY <1>3, <1>4, <1>8 DEF Laid
  <2>2. At(s, k) <= Len(bytes) /\ Len(encode[values[k]]) \in Nat
    <3>1. n \in 0 .. n /\ k \in 0 .. n
      BY <1>5
    <3> QED
      BY <1>6, <1>7, <1>8, <1>10, <3>1
  <2>3. \A j \in 1 .. Len(encode[values[k]]) : At(s, k - 1) + j \in 1 .. Len(bytes)
    BY <1>10, <2>1, <2>2
  <2> QED
    BY <1>11, <2>1, <2>3
<1>13. \A k \in 0 .. n : /\ At(s, k) \in Nat
                          /\ \A i \in 0 .. k : At(s, i) <= At(s, k) /\ (i < k => At(s, i) < At(s, k))
  BY <1>7, <1>8, <1>9
<1>14. /\ s[1] = values /\ s[2] = tail /\ Len(s[1]) = n
       /\ \A k \in 1 .. n : Word(s[1][k]) = encode[values[k]]
  BY <1>1, <1>3 DEF Word
<1>15. \A k \in 1 .. n :
         /\ At(s, k) = At(s, k - 1) + Len(Word(s[1][k]))
         /\ \A j \in 1 .. Len(Word(s[1][k])) :
              Wire(s)[At(s, k - 1) + j] = Word(s[1][k])[j]
  BY <1>12, <1>14
<1>16. \A j \in 1 .. Len(tail) : Wire(s)[At(s, n) + j] = tail[j]
  BY <1>10, <1>11
<1>17. Len(Wire(s)) = At(s, n) + Len(tail)
  BY <1>10, <1>11
<1> QED
  BY <1>2, <1>5, <1>10, <1>11, <1>13, <1>14, <1>15, <1>16, <1>17

\* What the parser makes of the bytes of a stream from the end of its k-th value
\* on, as far as they have been read: the next value when all of it is there, a
\* value of its own in no part of the bytes after the last.
LEMMA StreamParsed ==
    ASSUME NEW s \in Streams, NEW k \in 0 .. Len(s[1]), NEW bytes \in Seq(Tokens),
           At(s, k) + Len(bytes) <= Len(Wire(s)),
           \A j \in 1 .. Len(bytes) : bytes[j] = Wire(s)[At(s, k) + j]
    PROVE  /\ k < Len(s[1]) =>
                /\ k + 1 \in 1 .. Len(s[1]) /\ s[1][k + 1] \in Values
                /\ Reads(ParseValue(bytes), Len(bytes), 1, Word(s[1][k + 1]),
                         Torn(s[1][k + 1]), s[1][k + 1])
           /\ k = Len(s[1]) /\ Len(bytes) > 0 => s[2] # << >> /\ ~IsOk(ParseValue(bytes))
<1>1. /\ s[1] \in Seq(Values) /\ Len(s[1]) \in Nat /\ s[2] \in Seq(Tokens) /\ Len(s[2]) \in Nat
      /\ At(s, k) \in Nat /\ Len(bytes) \in Nat
  BY StreamLaid
<1>2. ASSUME k < Len(s[1])
      PROVE  /\ k + 1 \in 1 .. Len(s[1]) /\ s[1][k + 1] \in Values
             /\ Reads(ParseValue(bytes), Len(bytes), 1, Word(s[1][k + 1]),
                      Torn(s[1][k + 1]), s[1][k + 1])
  <2>1. k + 1 \in 1 .. Len(s[1]) /\ (k + 1) - 1 = k /\ s[1][k + 1] \in Values
    BY <1>1, <1>2
  <2>2. PICK v : v = s[1][k + 1]
    OBVIOUS
  <2>3. PICK word : word = Word(v)
    OBVIOUS
  <2>4. word \in Seq(Tokens) /\ Len(word) \in Nat
    BY <2>1, <2>2, <2>3, WordIs
  <2>5. \A j \in 1 .. Len(word) : Wire(s)[At(s, k) + j] = word[j]
    BY <2>1, <2>2, <2>3, StreamLaid
  <2>6. Carries(bytes, 1, word)
    <3>1. \A i \in 1 .. Len(word) : 1 + i - 1 = i
      BY <2>4
    <3>2. \A i \in 1 .. Len(word) : i <= Len(bytes) => i \in 1 .. Len(bytes)
      BY <1>1, <2>4
    <3> QED
      BY <2>5, <3>1, <3>2 DEF Carries
  <2>7. Readable(Values, Encoded[MaxDepth], TearsTo[MaxDepth], bytes, ParseAt(bytes))
    <3>1. MaxDepth \in 0 .. MaxDepth
      BY RespAssumption
    <3> QED
      BY <3>1, AllReadable DEF Values
  <2>8. 1 \in 1 .. Len(bytes) + 1 /\ Left(bytes, 1) = Len(bytes)
    BY <1>1 DEF Left
  <2>9. Reads(ParseAt(bytes)[1], Left(bytes, 1), 1, word, Torn(v), v)
    BY <2>1, <2>2, <2>3, <2>6, <2>7, <2>8 DEF Readable, Word, Torn
  <2> QED
    BY <2>1, <2>2, <2>3, <2>8, <2>9 DEF ParseValue
<1>3. ASSUME k = Len(s[1]), Len(bytes) > 0
      PROVE  s[2] # << >> /\ ~IsOk(ParseValue(bytes))
  <2>1. Len(bytes) \in 1 .. Len(s[2])
    <3>1. Len(Wire(s)) = At(s, k) + Len(s[2])
      BY <1>3, StreamLaid
    <3> QED
      BY <1>1, <1>3, <3>1
  <2>2. PICK n : n = Len(bytes)
    OBVIOUS
  <2>3. \A j \in 1 .. n : bytes[j] = s[2][j]
    <3>1. \A j \in 1 .. n : j \in 1 .. Len(s[2])
      BY <1>1, <2>1, <2>2
    <3>2. \A j \in 1 .. Len(s[2]) : Wire(s)[At(s, k) + j] = s[2][j]
      BY <1>3, StreamLaid
    <3> QED
      BY <2>2, <3>1, <3>2
  <2>4. /\ SubSeq(s[2], 1, n) \in Seq(Tokens) /\ Len(SubSeq(s[2], 1, n)) = n
        /\ \A j \in 1 .. n : SubSeq(s[2], 1, n)[j] = s[2][j]
    <3>1. 1 \in 1 .. Len(s[2]) + 1 /\ n \in 1 - 1 .. Len(s[2]) /\ n - 1 + 1 = n
      BY <1>1, <2>1, <2>2
    <3>2. \A j \in 1 .. n : 1 + j - 1 = j
      BY <1>1, <2>2
    <3> QED
      BY <1>1, <3>1, <3>2, PartOf
  <2>5. bytes = SubSeq(s[2], 1, n)
    BY <2>2, <2>3, <2>4, SameSequence
  <2>6. ~IsOk(ParseValue(SubSeq(s[2], 1, n)))
    BY <2>1, <2>2, StreamAssumption
  <2>7. s[2] # << >>
    BY <1>1, <2>1
  <2> QED
    BY <2>5, <2>6, <2>7
<1> QED
  BY <1>2, <1>3
-----------------------------------------------------------------------------
(***************************************************************************)
(* What comes of a value: a command or an error, and a reply.              *)
(***************************************************************************)
\* The errors of from_resp, and the names of its commands.
Errors == {<<"InvalidArgument">>, <<"InvalidFormat">>, <<"WrongArgCount">>, <<"EmptyCommand">>}
            \cup {<<"UnknownCommand", name>> : name \in Seq(Tokens)}

Names == {"Ping", "Set", "Get", "Del", "Expire", "Ttl", "Info"}

\* A result is an error that can be told, or what was asked for.
Refuses(result) == \E error \in Errors : result = Refuse(error)
Accepts(result) == \E x : result = Accept(x)
AcceptsCommand(result) == \E command : result = Accept(command) /\ command[1] \in Names

\* Each part of from_resp accepts or refuses.
LEMMA NullOrFormatRefuses ==
    ASSUME NEW value
    PROVE  Refuses(NullOrFormat(value))
BY DEF NullOrFormat, Refuses, Errors

\* extract_bulk_string on each argument.
LEMMA ExtractingAnswers ==
    ASSUME NEW args, NEW command
    PROVE  \/ Extracting(args, command) = Accept(command)
           \/ Refuses(Extracting(args, command))
BY NullOrFormatRefuses DEF Extracting

\* extract_integer and the test behind it.
LEMMA SecondsAnswers ==
    ASSUME NEW value
    PROVE  Accepts(Seconds(value)) \/ Refuses(Seconds(value))
<1> DEFINE meant == {n \in Numbers : value \in {Integer(n), BulkString(Numeral(n))}}
<1>1. \/ Seconds(value) = NullOrFormat(value)
      \/ Seconds(value) = Refuse(<<"InvalidArgument">>)
      \/ Seconds(value) = Accept(CHOOSE n \in meant : TRUE)
  BY DEF Seconds
<1>2. Refuses(Refuse(<<"InvalidArgument">>))
  BY DEF Refuses, Errors
<1> QED
  BY <1>1, <1>2, NullOrFormatRefuses DEF Accepts

\* The loop of parse_set.
LEMMA SetOptionsAnswers ==
    ASSUME NEW args
    PROVE  Accepts(SetOptions(args)) \/ Refuses(SetOptions(args))
<1>1. Refuses(Refuse(<<"InvalidArgument">>)) /\ Refuses(Refuse(<<"WrongArgCount">>))
  BY DEF Refuses, Errors
<1>2. \A i : Accepts(SetOption(args, i)) \/ Refuses(SetOption(args, i))
  BY <1>1, NullOrFormatRefuses, SecondsAnswers DEF SetOption
<1>3. \/ SetOptions(args) = Accept(None)
      \/ \E i : SetOptions(args) = SetOption(args, i)
  BY DEF SetOptions
<1> QED
  BY <1>2, <1>3 DEF Accepts

\* from_resp on the arguments of a name.
LEMMA ArgsAnswered ==
    ASSUME NEW name \in Seq(Tokens), NEW args, Len(args) \in Nat
    PROVE  AcceptsCommand(ParseArgs(name, args)) \/ Refuses(ParseArgs(name, args))
<1> DEFINE Answers(result) == AcceptsCommand(result) \/ Refuses(result)
<1>1. /\ Refuses(Refuse(<<"InvalidArgument">>)) /\ Refuses(Refuse(<<"WrongArgCount">>))
      /\ Refuses(Refuse(<<"UnknownCommand", name>>))
  BY DEF Refuses, Errors
<1>2. \A command : command[1] \in Names => Answers(Accept(command))
  BY DEF AcceptsCommand
<1>3. \A some, command : command[1] \in Names => Answers(Extracting(some, command))
  BY <1>2, ExtractingAnswers
<1> HIDE DEF Answers
<1>4. \A result : Refuses(result) => Answers(result)
  BY DEF Answers
<1>5. /\ \A x : <<"Ping", x>>[1] \in Names /\ <<"Get", x>>[1] \in Names /\ <<"Del", x>>[1] \in Names
      /\ \A x : <<"Ttl", x>>[1] \in Names /\ <<"Info", x>>[1] \in Names
      /\ \A x, y : <<"Expire", x, y>>[1] \in Names
      /\ \A x, y, z : <<"Set", x, y, z>>[1] \in Names
  BY DEF Names
<1>6. Answers(ParsePing(args))
  <2>1. \/ ParsePing(args) = Accept(<<"Ping", None>>)
        \/ ParsePing(args) = Extracting(args, <<"Ping", Text(args[1])>>)
        \/ ParsePing(args) = Refuse(<<"WrongArgCount">>)
    <3>1. CASE Len(args) = 0
      BY <3>1 DEF ParsePing
    <3>2. CASE Len(args) = 1
      BY <3>2 DEF ParsePing
    <3>3. CASE Len(args) > 1
      BY <3>3 DEF ParsePing
    <3>4. Len(args) = 0 \/ Len(args) = 1 \/ Len(args) > 1
      OBVIOUS
    <3> QED
      BY <3>1, <3>2, <3>3, <3>4
  <2> QED
    BY <1>1, <1>2, <1>3, <1>4, <1>5, <2>1
<1>7. Answers(ParseSet(args))
  <2> DEFINE pair == Extracting(SubSeq(args, 1, 2), <<>>)
             ttl == SetOptions(args)
  <2>1. pair = Accept(<<>>) \/ Refuses(pair)
    BY ExtractingAnswers
  <2>2. Accepts(ttl) \/ Refuses(ttl)
    BY SetOptionsAnswers
  <2>3. \/ ParseSet(args) = Refuse(<<"WrongArgCount">>)
        \/ pair[1] = "Err" /\ ParseSet(args) = pair
        \/ ttl[1] = "Err" /\ ParseSet(args) = ttl
        \/ ParseSet(args) = Accept(<<"Set", Text(args[1]), Text(args[2]), ttl[2]>>)
    BY DEF ParseSet
  <2>4. (pair[1] = "Err" => Refuses(pair)) /\ (ttl[1] = "Err" => Refuses(ttl))
    BY <2>1, <2>2 DEF Accepts, Accept
  <2> HIDE DEF pair, ttl
  <2> QED
    BY <1>1, <1>2, <1>4, <1>5, <2>3, <2>4
<1>8. Answers(ParseKey("Get", args)) /\ Answers(ParseKey("Ttl", args))
  <2>1. \A kind : \/ ParseKey(kind, args) = Refuse(<<"WrongArgCount">>)
                  \/ ParseKey(kind, args) = Extracting(args, <<kind, Text(args[1])>>)
    BY DEF ParseKey
  <2> QED
    BY <1>1, <1>3, <1>4, <1>5, <2>1
<1>9. Answers(ParseDel(args))
  <2>1. \/ ParseDel(args) = Refuse(<<"WrongArgCount">>)
        \/ ParseDel(args) = Extracting(args, <<"Del", [i \in DOMAIN args |-> Text(args[i])]>>)
    BY DEF ParseDel
  <2> QED
    BY <1>1, <1>3, <1>4, <1>5, <2>1
<1>10. Answers(ParseExpire(args))
  <2> DEFINE key == Extracting(SubSeq(args, 1, 1), <<>>)
             seconds == Seconds(args[2])
  <2>1. key = Accept(<<>>) \/ Refuses(key)
    BY ExtractingAnswers
  <2>2. Accepts(seconds) \/ Refuses(seconds)
    BY SecondsAnswers
  <2>3. \/ ParseExpire(args) = Refuse(<<"WrongArgCount">>)
        \/ key[1] = "Err" /\ ParseExpire(args) = key
        \/ seconds[1] = "Err" /\ ParseExpire(args) = seconds
        \/ ParseExpire(args) = Accept(<<"Expire", Text(args[1]), seconds[2]>>)
    BY DEF ParseExpire
  <2>4. (key[1] = "Err" => Refuses(key)) /\ (seconds[1] = "Err" => Refuses(seconds))
    BY <2>1, <2>2 DEF Accepts, Accept
  <2> HIDE DEF key, seconds
  <2> QED
    BY <1>1, <1>2, <1>4, <1>5, <2>3, <2>4
<1>11. Answers(ParseInfo(args))
  <2>1. \/ ParseInfo(args) = Accept(<<"Info", None>>)
        \/ ParseInfo(args) = Extracting(SubSeq(args, 1, 1), <<"Info", Text(args[1])>>)
    BY DEF ParseInfo
  <2> QED
    BY <1>2, <1>3, <1>5, <2>1
<1>12. \/ ParseArgs(name, args) \in {ParsePing(args), ParseSet(args), ParseKey("Get", args),
             ParseDel(args), ParseExpire(args), ParseKey("Ttl", args), ParseInfo(args)}
       \/ ParseArgs(name, args) = Refuse(<<"UnknownCommand", name>>)
  BY DEF ParseArgs
<1>13. Answers(ParseArgs(name, args))
  BY <1>1, <1>4, <1>6, <1>7, <1>8, <1>9, <1>10, <1>11, <1>12
<1> QED
  BY <1>13 DEF Answers

\* Names in capitals are texts of tokens.
LEMMA UppercaseIs ==
    ASSUME NEW text \in Seq(Tokens)
    PROVE  ToUppercase(text) \in Seq(Tokens)
<1>1. ASSUME NEW w \in DOMAIN Uppercase PROVE Uppercase[w] \in Tokens
  <2>1. w \in {"ping", "set", "get", "del", "expire", "ttl", "info", "ex"}
    BY DEF Uppercase
  <2>2. Uppercase[w] \in {"PING", "SET", "GET", "DEL", "EXPIRE", "TTL", "INFO", "EX"}
    BY <2>1 DEF Uppercase
  <2> QED
    BY <2>2, WordAssumption
<1>2. /\ Len(text) \in Nat /\ DOMAIN text = 1 .. Len(text)
      /\ \A i \in 1 .. Len(text) : text[i] \in Tokens
  OBVIOUS
<1> DEFINE f == [i \in 1 .. Len(text) |->
                   IF text[i] \in DOMAIN Uppercase THEN Uppercase[text[i]] ELSE text[i]]
<1>3. f \in [1 .. Len(text) -> Tokens]
  BY <1>1, <1>2
<1>4. f \in Seq(Tokens)
  BY <1>2, <1>3
<1>5. ToUppercase(text) = f
  BY <1>2 DEF ToUppercase
<1> QED
  BY <1>4, <1>5

\* from_resp on a value.
LEMMA FromRespAnswers ==
    ASSUME NEW value \in Values
    PROVE  AcceptsCommand(FromResp(value)) \/ Refuses(FromResp(value))
<1>1. Refuses(Refuse(<<"InvalidFormat">>)) /\ Refuses(Refuse(<<"EmptyCommand">>))
  BY DEF Refuses, Errors
<1>2. CASE value[1] # "array" \/ value[2] \in {None, << >>} \/ ~IsBulk(Head(value[2]))
  <2>1. FromResp(value) \in {Refuse(<<"InvalidFormat">>), Refuse(<<"EmptyCommand">>)}
    BY <1>2 DEF FromResp
  <2> QED
    BY <1>1, <2>1
<1>3. CASE value[1] = "array" /\ value[2] \notin {None, << >>} /\ IsBulk(Head(value[2]))
  <2> DEFINE name == ToUppercase(Text(Head(value[2])))
             args == Tail(value[2])
  <2>1. MaxDepth \in 0 .. MaxDepth
    BY RespAssumption
  <2>2. MaxDepth - 1 \in 0 .. MaxDepth /\ value[2] \in Seq(ValuesTo[MaxDepth - 1])
    BY <1>3, <2>1, ValueShape DEF Values
  <2>3. Head(value[2]) \in ValuesTo[MaxDepth - 1] /\ Len(args) \in Nat
    BY <1>3, <2>2
  <2>4. Text(Head(value[2])) \in Datas
    BY <1>3, <2>2, <2>3, ValueShape DEF IsBulk, Text
  <2>5. name \in Seq(Tokens)
    BY <2>4, UppercaseIs DEF Datas
  <2>6. FromResp(value) = ParseArgs(name, args)
    BY <1>3 DEF FromResp
  <2> HIDE DEF name, args
  <2> QED
    BY <2>3, <2>5, <2>6, ArgsAnswered
<1> QED
  BY <1>2, <1>3

\* What is no array of values is a value of every depth.
LEMMA ScalarValues == Scalars \subseteq Values
<1>1. MaxDepth \in 0 .. MaxDepth
  BY RespAssumption
<1> QED
  BY <1>1, ValuesAre DEF Values

\* The reply to an error and the replies to a command are values.
LEMMA RefusalIs ==
    ASSUME NEW error \in Errors
    PROVE  Refusal(error) \in Values
<1>1. {"ERR", "InvalidArgument", "InvalidFormat", "WrongArgCount", "EmptyCommand",
       "UnknownCommand", "\\r", "\\n"} \subseteq Tokens \ {"LF"}
  BY WordAssumption
<1> DEFINE escaped == IF Len(error) = 2 THEN Escaped(error[2]) ELSE << >>
           text == <<"ERR", error[1]>> \o escaped
           T == Tokens \ {"LF"}
<1>2. error[1] \in T
  BY <1>1 DEF Errors
<1>3. ASSUME Len(error) = 2 PROVE Escaped(error[2]) \in Seq(T)
  <2>1. PICK name \in Seq(Tokens) : error = <<"UnknownCommand", name>>
    <3>1. \A e : Len(<<e>>) # 2
      OBVIOUS
    <3>2. error \notin {<<"InvalidArgument">>, <<"InvalidFormat">>, <<"WrongArgCount">>, <<"EmptyCommand">>}
      BY <1>3, <3>1
    <3>3. error \in {<<"UnknownCommand", name>> : name \in Seq(Tokens)}
      BY <3>2 DEF Errors
    <3> QED
      BY <3>3
  <2>2. /\ Len(name) \in Nat /\ DOMAIN name = 1 .. Len(name)
        /\ \A i \in 1 .. Len(name) : name[i] \in Tokens
    OBVIOUS
  <2> DEFINE f == [i \in 1 .. Len(name) |->
                     CASE name[i] = "CR" -> "\\r" [] name[i] = "LF" -> "\\n"
                       [] OTHER -> name[i]]
  <2>3. f \in [1 .. Len(name) -> T]
    <3> SUFFICES ASSUME NEW i \in 1 .. Len(name) PROVE f[i] \in T
      OBVIOUS
    <3>1. CASE name[i] = "CR"
      BY <1>1, <3>1
    <3>2. CASE name[i] = "LF"
      BY <1>1, <3>2
    <3>3. CASE name[i] \notin {"CR", "LF"}
      BY <2>2, <3>3
    <3> QED
      BY <3>1, <3>2, <3>3
  <2>4. f \in Seq(T)
    BY <2>2, <2>3
  <2>5. Escaped(error[2]) = f
    BY <2>1, <2>2 DEF Escaped
  <2> QED
    BY <2>4, <2>5
<1>4. escaped \in Seq(T)
  BY <1>3
<1> HIDE DEF escaped
<1>5. <<"ERR", error[1]>> \in Seq(T)
  BY <1>1, <1>2
<1>6. text \in Seq(T)
  BY <1>4, <1>5
<1> HIDE DEF text
<1>7. text \in Seq(Tokens) /\ \A i \in DOMAIN text : text[i] # "LF"
  BY <1>6
<1>8. text \in Lines
  BY <1>7 DEF Lines
<1>9. Error(text) \in Scalars
  BY <1>8 DEF Error, Scalars
<1>10. Refusal(error) = Error(text)
  BY DEF Refusal, text, escaped
<1> QED
  BY <1>9, <1>10, ScalarValues

\* What a shard answers can be serialised.
LEMMA ResponsesAre ==
    ASSUME NEW command, command[1] \in Names
    PROVE  ResponsesTo(command) \subseteq Values
<1>1. {<<"ERR", "text">>, <<"OK">>} \subseteq Lines
  <2>1. \A text \in Seq(Tokens) : text \in {<<"ERR", "text">>, <<"OK">>} => text \in Lines
    BY DEF Lines
  <2>2. <<"ERR", "text">> \in Seq(Tokens) /\ <<"OK">> \in Seq(Tokens)
    BY WordAssumption
  <2> QED
    BY <2>1, <2>2
<1>2. {<<"PONG">>, <<"a", "CR", "LF">>, <<"text", "CR", "LF">>} \subseteq Datas
  <2>1. {"PONG", "a", "text", "CR", "LF"} \subseteq Tokens
    BY WordAssumption, TokenAssumption
  <2>2. \A data \in Seq(Tokens) : Len(data) <= 3 => data \in Datas
    BY RespAssumption DEF Datas
  <2>3. /\ <<"PONG">> \in Seq(Tokens) /\ Len(<<"PONG">>) <= 3
        /\ <<"a", "CR", "LF">> \in Seq(Tokens) /\ Len(<<"a", "CR", "LF">>) <= 3
        /\ <<"text", "CR", "LF">> \in Seq(Tokens) /\ Len(<<"text", "CR", "LF">>) <= 3
    BY <2>1
  <2> QED
    BY <2>2, <2>3
<1>3. {-2, 0, 1} \subseteq Numbers
  BY RespAssumption
<1>4. /\ {BulkString(<<"PONG">>), BulkString(<<"a", "CR", "LF">>),
           BulkString(<<"text", "CR", "LF">>), BulkString(None)} \subseteq Scalars
      /\ {SimpleString(<<"OK">>), Error(<<"ERR", "text">>)} \subseteq Scalars
      /\ {Integer(0), Integer(1), Integer(-2)} \subseteq Scalars
  BY <1>1, <1>2, <1>3 DEF Scalars, BulkString, SimpleString, Error, Integer
<1>5. ResponsesTo(command) \subseteq
        {BulkString(<<"PONG">>), BulkString(<<"a", "CR", "LF">>),
         BulkString(<<"text", "CR", "LF">>), BulkString(None), SimpleString(<<"OK">>),
         Error(<<"ERR", "text">>), Integer(0), Integer(1), Integer(-2)}
  <2>1. CASE command[1] = "Ping"
    BY <2>1 DEF ResponsesTo
  <2>2. CASE command[1] = "Set"
    BY <2>2 DEF ResponsesTo
  <2>3. CASE command[1] = "Get"
    BY <2>3 DEF ResponsesTo
  <2>4. CASE command[1] \in {"Del", "Expire"}
    BY <2>4 DEF ResponsesTo
  <2>5. CASE command[1] = "Ttl"
    BY <2>5 DEF ResponsesTo
  <2>6. CASE command[1] = "Info"
    BY <2>6 DEF ResponsesTo
  <2> QED
    BY <2>1, <2>2, <2>3, <2>4, <2>5, <2>6 DEF Names
<1> QED
  BY <1>4, <1>5, ScalarValues
-----------------------------------------------------------------------------
(***************************************************************************)
(* The connection.  The invariant says where in the client's bytes the     *)
(* buffer and the cursor are: read counts the bytes that have been taken   *)
(* from the socket, the buffer holds the last of them, and the cursor is   *)
(* at the end of the last value parsed.                                    *)
(***************************************************************************)
Taken(s, left) == Len(Wire(s)) - Len(left)

Input(s, left) ==
    /\ s \in Streams /\ left \in Seq(Tokens) /\ Taken(s, left) \in Nat
    /\ \A i \in 1 .. Len(left) : left[i] = Wire(s)[Taken(s, left) + i]

Buffered(s, left, bytes) ==
    /\ bytes \in Seq(Tokens) /\ Taken(s, left) - Len(bytes) \in Nat
    /\ \A i \in 1 .. Len(bytes) : bytes[i] = Wire(s)[Taken(s, left) - Len(bytes) + i]

Found(s, left, bytes, at, values) ==
    /\ values \in Seq(Values) /\ Len(values) \in 0 .. Len(s[1])
    /\ \A i \in 1 .. Len(values) : values[i] = s[1][i]
    /\ at \in 0 .. Len(bytes)
    /\ Taken(s, left) - Len(bytes) + at = At(s, Len(values))

\* A read takes bytes from the socket to the end of the buffer.
Moved(left, bytes, n, less, more) ==
    /\ n \in 1 .. Len(left)
    /\ less = SubSeq(left, n + 1, Len(left)) /\ more = bytes \o SubSeq(left, 1, n)

\* The bytes a read appends lie behind those that were there: where the client's
\* bytes, the buffer and the cursor stand to one another does not change.
LEMMA ReadKeeps ==
    ASSUME NEW s, NEW left, NEW bytes, NEW at, NEW values, NEW n, NEW less, NEW more,
           Input(s, left), Buffered(s, left, bytes), Found(s, left, bytes, at, values),
           Moved(left, bytes, n, less, more)
    PROVE  Input(s, less) /\ Buffered(s, less, more) /\ Found(s, less, more, at, values)
<1>1. PICK wire : wire = Wire(s) /\ wire \in Seq(Tokens) /\ Len(wire) \in Nat
  BY StreamLaid DEF Input
<1>2. PICK read, last : read = Taken(s, left) /\ last = Len(left)
  OBVIOUS
<1>3. /\ left \in Seq(Tokens) /\ last \in Nat /\ n \in 1 .. last
      /\ read \in Nat /\ read = Len(wire) - last
      /\ \A i \in 1 .. last : left[i] = wire[read + i]
  BY <1>1, <1>2 DEF Input, Taken, Moved
<1>4. PICK held : held = Len(bytes)
  OBVIOUS
<1>5. /\ bytes \in Seq(Tokens) /\ held \in Nat /\ read - held \in Nat
      /\ \A i \in 1 .. held : bytes[i] = wire[read - held + i]
  BY <1>1, <1>2, <1>4 DEF Buffered
<1>6. /\ less \in Seq(Tokens) /\ Len(less) = last - n
      /\ \A i \in 1 .. last - n : less[i] = left[n + i]
  <2>1. /\ n + 1 \in 1 .. last + 1 /\ last \in (n + 1) - 1 .. last
        /\ last - (n + 1) + 1 = last - n
    BY <1>3
  <2>2. \A i \in 1 .. last - n : n + 1 + i - 1 = n + i
    BY <1>3
  <2> QED
    BY <1>2, <1>3, <2>1, <2>2, PartOf DEF Moved
<1>7. PICK piece : piece = SubSeq(left, 1, n)
  OBVIOUS
<1>8. /\ piece \in Seq(Tokens) /\ Len(piece) = n /\ \A i \in 1 .. n : piece[i] = left[i]
  <2>1. 1 \in 1 .. last + 1 /\ n \in 1 - 1 .. last /\ n - 1 + 1 = n
    BY <1>3
  <2>2. \A i \in 1 .. n : 1 + i - 1 = i
    BY <1>3
  <2> QED
    BY <1>2, <1>3, <1>7, <2>1, <2>2, PartOf
<1>9. /\ more \in Seq(Tokens) /\ Len(more) = held + n
      /\ \A i \in 1 .. held : more[i] = bytes[i]
      /\ \A i \in 1 .. n : more[held + i] = piece[i]
  <2>1. more = bytes \o piece
    BY <1>7 DEF Moved
  <2> QED
    BY <1>4, <1>5, <1>8, <2>1, JoinOf
<1>10. Taken(s, less) = read + n
  <2>1. PICK all : all = Len(wire) /\ all \in Nat
    BY <1>1
  <2>2. all - (last - n) = read + n
    BY <1>3, <2>1
  <2>3. Taken(s, less) = all - (last - n)
    BY <1>1, <1>6, <2>1 DEF Taken
  <2> QED
    BY <2>2, <2>3
<1>11. Input(s, less)
  <2>1. \A i \in 1 .. last - n : less[i] = wire[read + n + i]
    <3> SUFFICES ASSUME NEW i \in 1 .. last - n PROVE less[i] = wire[read + n + i]
      OBVIOUS
    <3>1. n + i \in 1 .. last /\ read + (n + i) = read + n + i
      BY <1>3
    <3> QED
      BY <1>3, <1>6, <3>1
  <2>2. s \in Streams /\ read + n \in Nat
    BY <1>3 DEF Input
  <2> QED
    BY <1>1, <1>6, <1>10, <2>1, <2>2 DEF Input
<1>12. (read + n) - (held + n) = read - held
  BY <1>3, <1>5
<1>15. Taken(s, less) - Len(more) = read - held
  <2>1. PICK a, b : a = Taken(s, less) /\ b = Len(more)
    OBVIOUS
  <2>2. a = read + n /\ b = held + n
    BY <1>9, <1>10, <2>1
  <2>3. a - b = read - held
    BY <1>12, <2>2
  <2> QED
    BY <2>1, <2>3
<1>13. Buffered(s, less, more)
  <2>1. \A i \in 1 .. held + n : more[i] = wire[read - held + i]
    <3> SUFFICES ASSUME NEW i \in 1 .. held + n PROVE more[i] = wire[read - held + i]
      OBVIOUS
    <3>1. CASE i <= held
      <4>1. i \in 1 .. held
        BY <1>5, <3>1
      <4> QED
        BY <1>5, <1>9, <4>1
    <3>2. CASE i > held
      <4>1. PICK j \in 1 .. n : i = held + j
        <5>1. i - held \in 1 .. n /\ i = held + (i - held)
          BY <1>3, <1>5, <3>2
        <5> QED
          BY <5>1
      <4>2. more[i] = wire[read + j] /\ j \in 1 .. last
        <5>1. j \in 1 .. last
          BY <1>3
        <5> QED
          BY <1>3, <1>8, <1>9, <4>1, <5>1
      <4>3. read - held + i = read + j
        BY <1>3, <1>5, <4>1
      <4> QED
        BY <4>2, <4>3
    <3>3. i <= held \/ i > held
      BY <1>3, <1>5
    <3> QED
      BY <3>1, <3>2, <3>3
  <2>2. Taken(s, less) - Len(more) = read - held
    BY <1>15
  <2> QED
    BY <1>1, <1>5, <1>9, <2>1, <2>2 DEF Buffered
<1>14. Found(s, less, more, at, values)
  <2>1. at \in 0 .. held + n
    BY <1>3, <1>4, <1>5 DEF Found
  <2>2. Taken(s, less) - Len(more) + at = Taken(s, left) - Len(bytes) + at
    <3>1. Taken(s, less) - Len(more) = Taken(s, left) - Len(bytes)
      BY <1>2, <1>4, <1>15
    <3> QED
      BY <3>1
  <2> QED
    BY <1>9, <2>1, <2>2 DEF Found
<1> QED
  BY <1>11, <1>13, <1>14

\* So many bytes, those behind the k-th value of a stream.
Behind(s, k, bytes, n) ==
    Len(bytes) = n /\ \A j \in 1 .. n : bytes[j] = Wire(s)[At(s, k) + j]

\* Compacting takes from the buffer what has been parsed.
LEMMA CompactKeeps ==
    ASSUME NEW s, NEW left, NEW bytes, NEW at, NEW values,
           Input(s, left), Buffered(s, left, bytes), Found(s, left, bytes, at, values),
           NEW fewer, fewer = SubSeq(bytes, at + 1, Len(bytes))
    PROVE  Buffered(s, left, fewer) /\ Found(s, left, fewer, 0, values)
           /\ Behind(s, Len(values), fewer, Len(bytes) - at)
<1>1. PICK wire, read, held, end :
        wire = Wire(s) /\ read = Taken(s, left) /\ held = Len(bytes) /\ end = At(s, Len(values))
  OBVIOUS
<1>2. /\ bytes \in Seq(Tokens) /\ held \in Nat /\ read \in Nat /\ read - held \in Nat
      /\ \A i \in 1 .. held : bytes[i] = wire[read - held + i]
      /\ at \in 0 .. held /\ read - held + at = end
  BY <1>1 DEF Input, Buffered, Found
<1>3. /\ fewer \in Seq(Tokens) /\ Len(fewer) = held - at
      /\ \A j \in 1 .. held - at : fewer[j] = bytes[at + j]
  <2>1. PICK from, more : from = at + 1 /\ more = held - at
    OBVIOUS
  <2>2. /\ from \in 1 .. held + 1 /\ held \in from - 1 .. held
        /\ held - from + 1 = more
        /\ \A j \in 1 .. more : from + j - 1 = at + j
    BY <1>2, <2>1
  <2>3. /\ SubSeq(bytes, from, held) \in Seq(Tokens)
        /\ Len(SubSeq(bytes, from, held)) = more
        /\ \A j \in 1 .. more : SubSeq(bytes, from, held)[j] = bytes[from + j - 1]
    <3>1. from \in 1 .. Len(bytes) + 1 /\ held \in from - 1 .. Len(bytes)
      BY <1>1, <2>2
    <3>2. /\ SubSeq(bytes, from, held) \in Seq(Tokens)
          /\ Len(SubSeq(bytes, from, held)) = held - from + 1
          /\ \A j \in 1 .. held - from + 1 : SubSeq(bytes, from, held)[j] = bytes[from + j - 1]
      BY <1>2, <3>1, PartOf
    <3> QED
      BY <2>2, <3>2
  <2>4. fewer = SubSeq(bytes, from, held)
    BY <1>1, <2>1
  <2> QED
    BY <2>1, <2>2, <2>3, <2>4
<1>4. ASSUME NEW j \in 1 .. held - at PROVE fewer[j] = wire[end + j]
  <2>1. at + j \in 1 .. held /\ read - held + (at + j) = end + j
    BY <1>2
  <2> QED
    BY <1>2, <1>3, <2>1
<1>5. read - (held - at) = end /\ end \in Nat /\ end + 0 = end /\ held - at \in Nat
  BY <1>2
<1>6. Buffered(s, left, fewer)
  BY <1>1, <1>3, <1>4, <1>5 DEF Buffered
<1>7. Found(s, left, fewer, 0, values)
  BY <1>1, <1>3, <1>5 DEF Found
<1> QED
  BY <1>1, <1>3, <1>4, <1>6, <1>7 DEF Behind

\* A value that is parsed is the next of those the client sent.
LEMMA ValueKeeps ==
    ASSUME NEW s, NEW left, NEW bytes, NEW at, NEW values,
           Input(s, left), Buffered(s, left, bytes), Found(s, left, bytes, at, values),
           Len(values) < Len(s[1]), NEW value, value = s[1][Len(values) + 1],
           at + Len(Word(value)) <= Len(bytes)
    PROVE  Found(s, left, bytes, at + Len(Word(value)), Append(values, value))
<1>1. PICK k, next : k = Len(values) /\ next = Append(values, value)
  OBVIOUS
<1>2. PICK word, held, read : word = Len(Word(value)) /\ held = Len(bytes) /\ read = Taken(s, left)
  OBVIOUS
<1>3. /\ s[1] \in Seq(Values) /\ Len(s[1]) \in Nat
      /\ \A n \in 1 .. Len(s[1]) : At(s, n) = At(s, n - 1) + Len(Word(s[1][n]))
  BY StreamLaid DEF Input
<1>4. /\ values \in Seq(Values) /\ k \in Nat /\ k < Len(s[1])
      /\ \A i \in 1 .. k : values[i] = s[1][i]
      /\ held \in Nat /\ read \in Nat /\ at \in 0 .. held
      /\ read - held + at = At(s, k) /\ at + word <= held
  BY <1>1, <1>2, <1>3 DEF Input, Buffered, Found
<1>5. k + 1 \in 1 .. Len(s[1]) /\ (k + 1) - 1 = k /\ value = s[1][k + 1] /\ value \in Values
  BY <1>1, <1>3, <1>4
<1>6. word \in Nat
  BY <1>2, <1>5, WordIs
<1>7. /\ next \in Seq(Values) /\ Len(next) = k + 1
      /\ \A i \in 1 .. k : next[i] = values[i]
      /\ next[k + 1] = value
  BY <1>1, <1>4, <1>5
<1>8. \A i \in 1 .. k + 1 : next[i] = s[1][i]
  <2>1. \A i \in 1 .. k + 1 : i \in 1 .. k \/ i = k + 1
    BY <1>4
  <2> QED
    BY <1>4, <1>5, <1>7, <2>1
<1>9. At(s, k + 1) = At(s, k) + word
  BY <1>2, <1>3, <1>5
<1>10. read - held + (at + word) = At(s, k + 1) /\ at + word \in 0 .. held
  BY <1>4, <1>6, <1>9
<1>11. k + 1 \in 0 .. Len(s[1])
  BY <1>3, <1>5
<1> QED
  BY <1>1, <1>2, <1>7, <1>8, <1>10, <1>11 DEF Found

\* Results and replies keep step with the values, and the replies have been
\* written.
Results == {FromResp(value) : value \in Values}

Answered ==
    /\ results \in Seq(Results) /\ Len(results) = Len(parsed)
    /\ \A i \in 1 .. Len(parsed) : results[i] = FromResp(parsed[i])
    /\ replies \in Seq(Values) /\ Len(replies) = Len(parsed)
    /\ outgoing = SerializeAll(replies)

ParsingInv ==
    /\ Input(stream, incoming)
    /\ Buffered(stream, incoming, buffer)
    /\ Found(stream, incoming, buffer, cursor, parsed)

ProtocolInv ==
    /\ ParsingInv
    /\ phase \in {"read", "parse", "end", "error"}
    /\ Answered
    /\ NothingWithheld
    /\ RejectedOnlyWhenTorn

\* What parse() makes of the bytes that are there behind the k values parsed.
LEMMA ParsingIs ==
    ASSUME ParsingInv, NEW k, k = Len(parsed), NEW left, left = Len(buffer) - cursor
    PROVE  /\ k \in 0 .. Len(sent) /\ Len(sent) \in Nat /\ left \in Nat
           /\ BytesRead = At(stream, k) + left
           /\ left = 0 => Parsing = Err("Incomplete")
           /\ left > 0 /\ k < Len(sent) =>
                Reads(Parsing, left, 1, Word(sent[k + 1]), Torn(sent[k + 1]), sent[k + 1])
           /\ left > 0 /\ k = Len(sent) => stream[2] # << >> /\ ~IsOk(Parsing)
           /\ k < Len(sent) =>
                /\ k + 1 \in 1 .. Len(sent) /\ sent[k + 1] \in Values
                /\ At(stream, k + 1) = At(stream, k) + Len(Word(sent[k + 1]))
                /\ Len(Word(sent[k + 1])) \in Nat \ {0}
<1>1. PICK s, gone, rest, held, at, all :
        /\ s = stream /\ gone = Taken(stream, incoming) /\ rest = SubSeq(buffer, cursor + 1, Len(buffer))
        /\ held = Len(buffer) /\ at = cursor /\ all = Len(Wire(stream))
  OBVIOUS
<1>2. /\ s \in Streams /\ gone \in Nat /\ held \in Nat /\ at \in 0 .. held
      /\ gone - held \in Nat /\ (gone - held) + at = At(s, k) /\ k \in 0 .. Len(s[1])
      /\ Len(incoming) \in Nat /\ gone = Len(Wire(s)) - Len(incoming) /\ buffer \in Seq(Tokens)
  BY <1>1 DEF ParsingInv, Input, Buffered, Found, Taken
<1>3. /\ Wire(s) \in Seq(Tokens) /\ all \in Nat /\ Len(s[1]) \in Nat /\ s[1] \in Seq(Values)
      /\ At(s, k) \in Nat
      /\ \A n \in 1 .. Len(s[1]) : At(s, n) = At(s, n - 1) + Len(Word(s[1][n]))
  <2>1. /\ Wire(s) \in Seq(Tokens) /\ Len(s[1]) \in Nat /\ s[1] \in Seq(Values)
        /\ \A n \in 1 .. Len(s[1]) : At(s, n) = At(s, n - 1) + Len(Word(s[1][n]))
    BY <1>2, StreamLaid
  <2>2. all = Len(Wire(s)) /\ all \in Nat
    BY <1>1, <2>1
  <2>3. At(s, k) \in Nat
    BY <1>2, StreamLaid
  <2> QED
    BY <2>1, <2>2, <2>3
<1>4. left \in Nat /\ left = held - at /\ gone = At(s, k) + left /\ gone <= all
  BY <1>1, <1>2, <1>3
<1>5. /\ Buffered(s, incoming, rest) /\ Len(rest) = left
      /\ \A j \in 1 .. Len(rest) : rest[j] = Wire(s)[At(s, k) + j]
  <2>1. /\ Input(stream, incoming) /\ Buffered(stream, incoming, buffer)
        /\ Found(stream, incoming, buffer, cursor, parsed)
    BY DEF ParsingInv
  <2>2. rest = SubSeq(buffer, cursor + 1, Len(buffer))
    BY <1>1
  <2>3. Buffered(stream, incoming, rest)
        /\ Behind(stream, Len(parsed), rest, Len(buffer) - cursor)
    BY <2>1, <2>2, CompactKeeps
  <2>4. Buffered(s, incoming, rest) /\ Behind(s, k, rest, left)
    BY <1>1, <2>3
  <2> QED
    BY <2>4 DEF Behind
<1>6. rest \in Seq(Tokens) /\ At(s, k) + Len(rest) <= Len(Wire(s))
  BY <1>1, <1>4, <1>5 DEF Buffered
<1>7. /\ k < Len(s[1]) =>
           /\ k + 1 \in 1 .. Len(s[1]) /\ s[1][k + 1] \in Values
           /\ Reads(ParseValue(rest), Len(rest), 1, Word(s[1][k + 1]), Torn(s[1][k + 1]), s[1][k + 1])
      /\ k = Len(s[1]) /\ Len(rest) > 0 => s[2] # << >> /\ ~IsOk(ParseValue(rest))
  BY <1>2, <1>5, <1>6, StreamParsed
<1>8. /\ left = 0 => Parsing = Err("Incomplete")
      /\ left > 0 => Parsing = ParseValue(rest)
  <2>0. at \in Int /\ held \in Int /\ at <= held /\ left = held - at
    <3>1. held \in Nat /\ at \in 0 .. held
      BY <1>2
    <3>2. left = held - at
      BY <1>4
    <3> QED
      BY <3>1, <3>2
  <2>1. left = 0 <=> at >= held
    BY <2>0
  <2>2. left > 0 <=> ~(at >= held)
    BY <2>0
  <2> QED
    BY <1>1, <2>1, <2>2 DEF Parsing
<1>9. BytesRead = gone
  BY <1>1 DEF BytesRead, Taken
<1>10. ASSUME k < Len(s[1])
       PROVE  /\ At(s, k + 1) = At(s, k) + Len(Word(s[1][k + 1]))
              /\ Len(Word(s[1][k + 1])) \in Nat \ {0}
  <2>1. k + 1 \in 1 .. Len(s[1]) /\ (k + 1) - 1 = k
    BY <1>2, <1>3, <1>10
  <2> QED
    BY <1>3, <1>7, <1>10, <2>1, WordIs
<1>11. sent = s[1] /\ stream[2] = s[2]
  BY <1>1 DEF sent
<1> QED
  BY <1>1, <1>2, <1>3, <1>4, <1>5, <1>7, <1>8, <1>9, <1>10, <1>11

\* What is between two offsets of a stream.
LEMMA NoneBehind ==
    ASSUME NEW s \in Streams, NEW k \in 0 .. Len(s[1]), NEW read,
           k < Len(s[1]) => read < At(s, k + 1), NEW n \in DOMAIN s[1],
           read >= At(s, n), read \in Nat
    PROVE  k >= n
<1>1. /\ s[1] \in Seq(Values) /\ Len(s[1]) \in Nat
      /\ \A m \in 0 .. Len(s[1]) :
           /\ At(s, m) \in Nat
           /\ \A i \in 0 .. m : At(s, i) <= At(s, m)
  BY StreamLaid
<1>2. n \in 1 .. Len(s[1])
  BY <1>1
<1>3. SUFFICES ASSUME k < n PROVE FALSE
  BY <1>1, <1>2
<1>4. k + 1 \in 0 .. n /\ n \in 0 .. Len(s[1]) /\ k < Len(s[1]) /\ k + 1 \in 0 .. Len(s[1])
  BY <1>1, <1>2, <1>3
<1>5. At(s, k + 1) <= At(s, n) /\ At(s, n) \in Nat /\ At(s, k + 1) \in Nat
  BY <1>1, <1>4
<1> QED
  BY <1>4, <1>5

\* A connection begins with nothing read.
LEMMA ProtocolInit == Init => ProtocolInv
<1> SUFFICES ASSUME Init PROVE ProtocolInv
  OBVIOUS
<1>1. /\ stream \in Streams /\ incoming = Wire(stream) /\ buffer = << >> /\ cursor = 0
      /\ phase = "read" /\ parsed = << >> /\ results = << >> /\ replies = << >> /\ outgoing = << >>
  BY DEF Init
<1>2. /\ Wire(stream) \in Seq(Tokens) /\ Len(Wire(stream)) \in Nat /\ Len(stream[1]) \in Nat
      /\ stream[1] \in Seq(Values) /\ At(stream, 0) = 0
  BY <1>1, StreamLaid
<1>3. Taken(stream, incoming) = 0 /\ BytesRead = 0
  BY <1>1, <1>2 DEF Taken, BytesRead
<1>4. Input(stream, incoming)
  BY <1>1, <1>2, <1>3 DEF Input
<1>5. Buffered(stream, incoming, buffer)
  BY <1>1, <1>3 DEF Buffered
<1>6. Found(stream, incoming, buffer, cursor, parsed)
  BY <1>1, <1>2, <1>3 DEF Found
<1>7. Answered
  <2>1. SerializeAll(<< >>) = << >>
    BY DEF SerializeAll, Concat, FlattenSeq
  <2> QED
    BY <1>1, <2>1 DEF Answered
<1>8. NothingWithheld
  <2>0. ParsingInv
    BY <1>4, <1>5, <1>6 DEF ParsingInv
  <2>1. /\ 0 \in 0 .. Len(sent)
        /\ 0 < Len(sent) => 0 < At(stream, 0 + 1)
    <3>1. Len(parsed) = 0 /\ Len(buffer) - cursor = 0
      BY <1>1
    <3>2. 0 < Len(sent) => At(stream, 0 + 1) = At(stream, 0) + Len(Word(sent[0 + 1]))
                           /\ Len(Word(sent[0 + 1])) \in Nat \ {0}
      BY <2>0, <3>1, ParsingIs
    <3> QED
      BY <1>2, <3>2 DEF sent
  <2>3. BytesRead = 0 /\ Len(parsed) = 0
    BY <1>1, <1>3
  <2>2. \A n \in DOMAIN sent : 0 >= At(stream, n) => 0 >= n
    BY <1>1, <2>1, NoneBehind DEF sent
  <2> QED
    BY <2>3, <2>2 DEF NothingWithheld, At, sent
<1>9. RejectedOnlyWhenTorn
  BY <1>1 DEF RejectedOnlyWhenTorn
<1> QED
  BY <1>1, <1>4, <1>5, <1>6, <1>7, <1>8, <1>9 DEF ProtocolInv, ParsingInv

\* parse() returns the next value once all its bytes are there, and nothing else.
LEMMA ParsedIsNext ==
    ASSUME ParsingInv, NEW k, k = Len(parsed), NEW left, left = Len(buffer) - cursor
    PROVE  /\ IsOk(Parsing) =>
                /\ k < Len(sent) /\ sent[k + 1] \in Values
                /\ Len(Word(sent[k + 1])) \in Nat /\ left >= Len(Word(sent[k + 1]))
                /\ Parsing = Ok(sent[k + 1], 1 + Len(Word(sent[k + 1])))
           /\ ~IsOk(Parsing) => (k < Len(sent) => BytesRead < At(stream, k + 1))
           /\ ~IsOk(Parsing) /\ Parsing # Err("Incomplete") /\ stream[2] = << >> =>
                k < Len(sent) /\ BytesRead - At(stream, k) \in Torn(sent[k + 1])
<1>1. /\ k \in 0 .. Len(sent) /\ Len(sent) \in Nat /\ left \in Nat
      /\ BytesRead = At(stream, k) + left
      /\ left = 0 => Parsing = Err("Incomplete")
      /\ left > 0 /\ k = Len(sent) => stream[2] # << >> /\ ~IsOk(Parsing)
  BY ParsingIs
<1>2. ~IsOk(Err("Incomplete")) /\ ~IsOk(Err("InvalidFormat"))
  BY DEF IsOk, Err
<1>3. At(stream, k) \in Nat
  BY <1>1, StreamLaid DEF ParsingInv, Input, sent
<1>4. CASE left = 0
  <2>1. k < Len(sent) => BytesRead < At(stream, k + 1)
    <3>1. k < Len(sent) => /\ At(stream, k + 1) = At(stream, k) + Len(Word(sent[k + 1]))
                           /\ Len(Word(sent[k + 1])) \in Nat \ {0}
      BY ParsingIs
    <3> QED
      BY <1>1, <1>3, <1>4, <3>1
  <2> QED
    BY <1>1, <1>2, <1>4, <2>1
<1>5. CASE left > 0 /\ k = Len(sent)
  BY <1>1, <1>5
<1>6. CASE left > 0 /\ k < Len(sent)
  <2>1. PICK v, word : v = sent[k + 1] /\ word = Word(v)
    OBVIOUS
  <2>2. /\ v \in Values /\ Len(word) \in Nat \ {0}
        /\ At(stream, k + 1) = At(stream, k) + Len(word)
    BY <1>6, <2>1, ParsingIs
  <2>3. Reads(Parsing, left, 1, word, Torn(v), v)
    BY <1>6, <2>1, ParsingIs
  <2>4. CASE left >= Len(word)
    <3>1. Parsing = Ok(v, 1 + Len(word)) /\ IsOk(Parsing)
      BY <2>3, <2>4 DEF Reads, IsOk, Ok
    <3> QED
      BY <1>6, <2>1, <2>2, <2>4, <3>1
  <2>5. CASE left < Len(word)
    <3>1. Parsing = IF left \in Torn(v) THEN Err("InvalidFormat") ELSE Err("Incomplete")
      BY <2>3, <2>5 DEF Reads
    <3>2. BytesRead < At(stream, k + 1) /\ BytesRead - At(stream, k) = left
      BY <1>1, <1>3, <2>2, <2>5
    <3> QED
      BY <1>2, <1>6, <2>1, <3>1, <3>2
  <2>6. left >= Len(word) \/ left < Len(word)
    BY <1>1, <2>2
  <2> QED
    BY <2>4, <2>5, <2>6
<1>7. left = 0 \/ (left > 0 /\ (k = Len(sent) \/ k < Len(sent)))
  BY <1>1
<1> QED
  BY <1>4, <1>5, <1>6, <1>7

\* Nothing is withheld where no whole value is behind those parsed.
LEMMA NoneWithheld ==
    ASSUME NEW s \in Streams, NEW k \in 0 .. Len(s[1]), NEW read \in Nat,
           k < Len(s[1]) => read < At(s, k + 1)
    PROVE  \A n \in DOMAIN s[1] : read >= BytesTo(Encoded[MaxDepth], s[1], n) => k >= n
BY NoneBehind DEF At

\* Every step of the loop keeps the invariant.
LEMMA ProtocolStep == ProtocolInv /\ [Next]_vars => ProtocolInv'
<1> SUFFICES ASSUME ProtocolInv, [Next]_vars PROVE ProtocolInv'
  OBVIOUS
<1>1. /\ ParsingInv /\ Answered /\ NothingWithheld /\ RejectedOnlyWhenTorn
      /\ Input(stream, incoming) /\ Buffered(stream, incoming, buffer)
      /\ Found(stream, incoming, buffer, cursor, parsed)
  BY DEF ProtocolInv, ParsingInv
<1>2. PICK s, k, left :
        /\ s = stream /\ k = Len(parsed) /\ left = Len(buffer) - cursor
  OBVIOUS
<1>3. /\ IsOk(Parsing) =>
           /\ k < Len(sent) /\ sent[k + 1] \in Values
           /\ Len(Word(sent[k + 1])) \in Nat /\ left >= Len(Word(sent[k + 1]))
           /\ Parsing = Ok(sent[k + 1], 1 + Len(Word(sent[k + 1])))
      /\ ~IsOk(Parsing) => (k < Len(sent) => BytesRead < At(stream, k + 1))
      /\ ~IsOk(Parsing) /\ Parsing # Err("Incomplete") /\ stream[2] = << >> =>
           k < Len(sent) /\ BytesRead - At(stream, k) \in Torn(sent[k + 1])
  BY <1>1, <1>2, ParsedIsNext
<1>4. CASE Read
  <2>1. PICK n \in 1 .. Len(incoming) :
          /\ buffer' = buffer \o SubSeq(incoming, 1, n)
          /\ incoming' = SubSeq(incoming, n + 1, Len(incoming))
    BY <1>4 DEF Read
  <2>2. phase' = "parse" /\ UNCHANGED <<stream, cursor, parsed, results, replies, outgoing>>
    BY <1>4 DEF Read
  <2>3. PICK less, more : less = incoming' /\ more = buffer'
    OBVIOUS
  <2>4. Input(stream, less) /\ Buffered(stream, less, more)
        /\ Found(stream, less, more, cursor, parsed)
    <3>1. Moved(incoming, buffer, n, less, more)
      BY <2>1, <2>3 DEF Moved
    <3> QED
      BY <1>1, <3>1, ReadKeeps
  <2>5. ParsingInv'
    BY <2>2, <2>3, <2>4 DEF ParsingInv
  <2>6. Answered'
    BY <1>1, <2>2 DEF Answered
  <2> QED
    BY <2>2, <2>5, <2>6 DEF ProtocolInv, NothingWithheld, RejectedOnlyWhenTorn
<1>5. CASE ReadEof
  <2>1. /\ phase = "read" /\ phase' = "end"
        /\ UNCHANGED <<stream, incoming, buffer, cursor, parsed, results, replies, outgoing>>
    BY <1>5 DEF ReadEof
  <2>2. ParsingInv'
    BY <1>1, <2>1 DEF ParsingInv
  <2>3. Answered'
    BY <1>1, <2>1 DEF Answered
  <2>4. NothingWithheld'
    BY <1>1, <2>1 DEF NothingWithheld, BytesRead, sent
  <2> QED
    BY <2>1, <2>2, <2>3, <2>4 DEF ProtocolInv, RejectedOnlyWhenTorn
<1>6. CASE ParseSome
  <2>1. /\ phase = "parse" /\ IsOk(Parsing)
        /\ cursor' = cursor + Parsing[3] - 1 /\ parsed' = Append(parsed, Parsing[2])
        /\ results' = Append(results, FromResp(Parsing[2]))
        /\ UNCHANGED <<stream, incoming, buffer, phase>>
    BY <1>6 DEF ParseSome
  <2>2. PICK v, word : v = sent[k + 1] /\ word = Len(Word(v))
    OBVIOUS
  <2>3. /\ k < Len(sent) /\ v \in Values /\ word \in Nat /\ left >= word
        /\ Parsing = Ok(v, 1 + word)
    BY <1>3, <2>1, <2>2
  <2>4. Parsing[2] = v /\ Parsing[3] = 1 + word
    BY <2>3 DEF Ok
  <2>5. cursor \in Nat /\ Len(buffer) \in Nat /\ parsed \in Seq(Values) /\ k \in Nat
    BY <1>1, <1>2 DEF Found, Buffered
  <2>6. cursor' = cursor + word /\ cursor + word <= Len(buffer)
    <3>1. cursor + (1 + word) - 1 = cursor + word
      BY <2>3, <2>5
    <3>2. cursor' = cursor + word
      BY <2>1, <2>4, <3>1
    <3>3. left = Len(buffer) - cursor /\ left >= word
      BY <1>2, <2>3
    <3> QED
      BY <2>3, <2>5, <3>2, <3>3
  <2>7. Found(stream, incoming, buffer, cursor + Len(Word(v)), Append(parsed, v))
    BY <1>1, <1>2, <2>2, <2>3, <2>6, ValueKeeps DEF sent
  <2>8. ParsingInv'
    BY <1>1, <2>1, <2>2, <2>4, <2>6, <2>7 DEF ParsingInv
  <2>9. PICK reply \in IF FromResp(v)[1] = "Ok" THEN ResponsesTo(FromResp(v)[2])
                       ELSE {Refusal(FromResp(v)[2])} :
          /\ replies' = Append(replies, reply)
          /\ outgoing' = outgoing \o Serialize(reply)
    BY <1>6, <2>4 DEF ParseSome
  <2>10. reply \in Values
    <3>1. CASE AcceptsCommand(FromResp(v))
      <4>1. PICK command : FromResp(v) = Accept(command) /\ command[1] \in Names
        BY <3>1 DEF AcceptsCommand
      <4>2. FromResp(v)[1] = "Ok" /\ FromResp(v)[2] = command
        BY <4>1 DEF Accept
      <4> QED
        BY <2>9, <4>1, <4>2, ResponsesAre
    <3>2. CASE Refuses(FromResp(v))
      <4>1. PICK error \in Errors : FromResp(v) = Refuse(error)
        BY <3>2 DEF Refuses
      <4>2. FromResp(v)[1] # "Ok" /\ FromResp(v)[2] = error
        BY <4>1 DEF Refuse
      <4> QED
        BY <2>9, <4>1, <4>2, RefusalIs
    <3> QED
      BY <2>3, <3>1, <3>2, FromRespAnswers
  <2>11. Answered'
    <3>1. /\ results \in Seq(Results) /\ Len(results) = k
          /\ replies \in Seq(Values) /\ Len(replies) = k
          /\ \A i \in 1 .. k : results[i] = FromResp(parsed[i])
          /\ outgoing = SerializeAll(replies)
      BY <1>1, <1>2 DEF Answered
    <3>2. /\ parsed' = Append(parsed, v) /\ results' = Append(results, FromResp(v))
          /\ FromResp(v) \in Results
      BY <2>1, <2>3, <2>4 DEF Results
    <3>3. /\ Len(parsed') = k + 1 /\ parsed'[k + 1] = v
          /\ \A i \in 1 .. k : parsed'[i] = parsed[i]
      BY <1>2, <2>5, <3>2
    <3>4. /\ results' \in Seq(Results) /\ Len(results') = k + 1 /\ results'[k + 1] = FromResp(v)
          /\ \A i \in 1 .. k : results'[i] = results[i]
      BY <3>1, <3>2
    <3>5. \A i \in 1 .. k + 1 : results'[i] = FromResp(parsed'[i])
      <4>1. \A i \in 1 .. k + 1 : i \in 1 .. k \/ i = k + 1
        BY <2>5
      <4> QED
        BY <3>1, <3>3, <3>4, <4>1
    <3>6. replies' \in Seq(Values) /\ Len(replies') = k + 1
      BY <2>9, <2>10, <3>1
    <3>7. outgoing' = SerializeAll(replies')
      <4>1. \A value \in Values : Encoded[MaxDepth][value] \in Seq(Tokens)
        BY WordIs DEF Word
      <4>2. Concat(Encoded[MaxDepth], Append(replies, reply)) =
              Concat(Encoded[MaxDepth], replies) \o Encoded[MaxDepth][reply]
        <5>1. PICK encode : encode = Encoded[MaxDepth]
          OBVIOUS
        <5>2. /\ \A value \in Values : encode[value] \in Seq(Tokens)
              /\ replies \in Seq(Values) /\ reply \in Values
          BY <2>10, <3>1, <4>1, <5>1
        <5>3. Concat(encode, Append(replies, reply)) = Concat(encode, replies) \o encode[reply]
          BY <5>2, ConcatAppend
        <5> QED
          BY <5>1, <5>3
      <4>3. outgoing = Concat(Encoded[MaxDepth], replies)
            /\ outgoing' = outgoing \o Encoded[MaxDepth][reply]
        <5>1. outgoing = SerializeAll(replies) /\ outgoing' = outgoing \o Serialize(reply)
          BY <2>9, <3>1
        <5>2. Serialize(reply) = Encoded[MaxDepth][reply]
          <6>1. reply \in ValuesTo[MaxDepth] /\ MaxDepth \in 0 .. MaxDepth
            BY <2>10, RespAssumption DEF Values
          <6>2. Encoded[MaxDepth][reply] = Encoding(Encoded[MaxDepth - 1], reply)
            BY <6>1, EncodedIs
          <6> QED
            BY <6>2 DEF Serialize
        <5>3. SerializeAll(replies) = Concat(Encoded[MaxDepth], replies)
          BY DEF SerializeAll
        <5> QED
          BY <5>1, <5>2, <5>3
      <4>4. outgoing' = Concat(Encoded[MaxDepth], Append(replies, reply))
        BY <4>2, <4>3
      <4> QED
        BY <2>9, <4>4 DEF SerializeAll
    <3> QED
      BY <3>3, <3>4, <3>5, <3>6, <3>7 DEF Answered
  <2> QED
    BY <2>1, <2>8, <2>11 DEF ProtocolInv, NothingWithheld, RejectedOnlyWhenTorn
<1>7. CASE ParseNone
  <2>1. /\ Parsing = Err("Incomplete") /\ phase' = "read" /\ cursor' = 0
        /\ buffer' = SubSeq(buffer, cursor + 1, Len(buffer))
        /\ UNCHANGED <<stream, incoming, parsed, results, replies, outgoing>>
    BY <1>7 DEF ParseNone, Compact
  <2>2. PICK fewer : fewer = SubSeq(buffer, cursor + 1, Len(buffer))
    OBVIOUS
  <2>3. Buffered(stream, incoming, fewer) /\ Found(stream, incoming, fewer, 0, parsed)
    BY <1>1, <2>2, CompactKeeps
  <2>4. ParsingInv'
    BY <1>1, <2>1, <2>2, <2>3 DEF ParsingInv
  <2>5. Answered'
    BY <1>1, <2>1 DEF Answered
  <2>6. \A n \in DOMAIN sent : BytesRead >= BytesTo(Encoded[MaxDepth], sent, n) => k >= n
    <3>1. k < Len(s[1]) => BytesRead < At(s, k + 1)
      BY <1>2, <1>3, <2>1 DEF sent, IsOk, Err
    <3>2. s \in Streams /\ k \in 0 .. Len(s[1]) /\ BytesRead \in Nat
      BY <1>1, <1>2 DEF Input, Found, BytesRead, Taken
    <3> QED
      BY <1>2, <3>1, <3>2, NoneWithheld DEF sent
  <2>7. NothingWithheld'
    BY <1>2, <2>1, <2>6 DEF NothingWithheld, BytesRead, sent
  <2> QED
    BY <2>1, <2>4, <2>5, <2>7 DEF ProtocolInv, RejectedOnlyWhenTorn
<1>8. CASE ParseFails
  <2>1. /\ ~IsOk(Parsing) /\ Parsing # Err("Incomplete") /\ phase' = "error"
        /\ UNCHANGED <<stream, incoming, buffer, cursor, parsed, results, replies, outgoing>>
    BY <1>8 DEF ParseFails
  <2>2. ParsingInv'
    BY <1>1, <2>1 DEF ParsingInv
  <2>3. Answered'
    BY <1>1, <2>1 DEF Answered
  <2>4. stream[2] = << >> =>
          /\ Len(parsed) < Len(sent)
          /\ BytesRead - BytesTo(Encoded[MaxDepth], sent, Len(parsed))
               \in TearsTo[MaxDepth][sent[Len(parsed) + 1]]
    BY <1>2, <1>3, <2>1 DEF At, Torn, sent
  <2>5. RejectedOnlyWhenTorn'
    BY <2>1, <2>4 DEF RejectedOnlyWhenTorn, BytesRead, sent
  <2> QED
    BY <2>1, <2>2, <2>3, <2>5 DEF ProtocolInv, NothingWithheld
<1>9. CASE UNCHANGED vars
  <2>1. UNCHANGED <<stream, incoming, buffer, cursor, phase, parsed, results, replies, outgoing>>
    BY <1>9 DEF vars
  <2>2. ParsingInv'
    BY <1>1, <2>1 DEF ParsingInv
  <2>3. Answered'
    BY <1>1, <2>1 DEF Answered
  <2>4. NothingWithheld'
    BY <1>1, <2>1 DEF NothingWithheld, BytesRead, sent
  <2>5. RejectedOnlyWhenTorn'
    BY <1>1, <2>1 DEF RejectedOnlyWhenTorn, BytesRead, sent
  <2> QED
    BY <2>1, <2>2, <2>3, <2>4, <2>5 DEF ProtocolInv
<1> QED
  BY <1>4, <1>5, <1>6, <1>7, <1>8, <1>9 DEF Next
-----------------------------------------------------------------------------
\* The parser is in one of its phases, its cursor within its buffer, and every
\* value it returned has had its result and its reply.
THEOREM ProtocolTypeCorrect == Spec => []TypeOK
<1>1. ProtocolInv => TypeOK
  <2> SUFFICES ASSUME ProtocolInv PROVE TypeOK
    OBVIOUS
  <2>1. /\ phase \in {"read", "parse", "end", "error"} /\ cursor \in 0 .. Len(buffer)
        /\ Len(results) = Len(parsed) /\ Len(replies) = Len(parsed)
    BY DEF ProtocolInv, ParsingInv, Found, Answered
  <2> QED
    BY <2>1 DEF TypeOK
<1> QED
  BY <1>1, ProtocolInit, ProtocolStep, PTL DEF Spec

\* RespParser, fed any bytes that are the serialised values of a client, returns
\* those values, in their order, each once: for every sequence of values of any
\* size and depth, every cut into reads, every moment of compaction.
THEOREM ProtocolParses == Spec => []ParsedAsSent
<1>1. ProtocolInv => ParsedAsSent
  <2> SUFFICES ASSUME ProtocolInv PROVE ParsedAsSent
    OBVIOUS
  <2>1. /\ parsed \in Seq(Values) /\ Len(parsed) \in 0 .. Len(sent)
        /\ \A i \in 1 .. Len(parsed) : parsed[i] = sent[i]
    BY DEF ProtocolInv, ParsingInv, Found, sent
  <2>2. sent \in Seq(Values) /\ Len(sent) \in Nat
    BY StreamLaid DEF ProtocolInv, ParsingInv, Input, sent
  <2>3. PICK k, values : k = Len(parsed) /\ values = sent
    OBVIOUS
  <2>4. /\ k \in Nat /\ 1 \in 1 .. Len(values) + 1 /\ k \in 1 - 1 .. Len(values) /\ k - 1 + 1 = k
        /\ 1 \in 1 .. Len(parsed) + 1 /\ k \in 1 - 1 .. Len(parsed)
        /\ \A i \in 1 .. k : 1 + i - 1 = i
    BY <2>1, <2>2, <2>3
  <2>5. /\ SubSeq(values, 1, k) \in Seq(Values) /\ Len(SubSeq(values, 1, k)) = k
        /\ \A i \in 1 .. k : SubSeq(values, 1, k)[i] = values[i]
    BY <2>2, <2>3, <2>4, PartOf
  <2>6. /\ SubSeq(parsed, 1, k) \in Seq(Values) /\ Len(SubSeq(parsed, 1, k)) = k
        /\ \A i \in 1 .. k : SubSeq(parsed, 1, k)[i] = parsed[i]
    BY <2>1, <2>4, PartOf
  <2>7. SubSeq(parsed, 1, k) = SubSeq(values, 1, k)
    BY <2>1, <2>3, <2>5, <2>6, SameSequence
  <2>8. Len(parsed) <= Len(sent)
    BY <2>1, <2>2
  <2> QED
    BY <2>3, <2>7, <2>8 DEF ParsedAsSent, IsPrefix
<1> QED
  BY <1>1, ProtocolInit, ProtocolStep, PTL DEF Spec

\* parse() never answers Ok(None) while a whole value is in its buffer.
THEOREM ProtocolPrompt == Spec => []NothingWithheld
<1>1. ProtocolInv => NothingWithheld
  BY DEF ProtocolInv
<1> QED
  BY <1>1, ProtocolInit, ProtocolStep, PTL DEF Spec

\* A client that sends values and nothing else is turned away by read_crlf_line
\* over an incomplete first line, and by nothing else in the parser.
THEOREM ProtocolRejects == Spec => []RejectedOnlyWhenTorn
<1>1. ProtocolInv => RejectedOnlyWhenTorn
  BY DEF ProtocolInv
<1> QED
  BY <1>1, ProtocolInit, ProtocolStep, PTL DEF Spec

\* What the serialiser has written is, byte for byte, the replies meant: no text
\* a client put into a command ends a reply early or begins one (the escaping
\* of the errors' texts in handler.rs, the length prefixes of serializer.rs).
THEOREM ProtocolReplies == Spec => []RepliesReadBack
<1>1. ProtocolInv => RepliesReadBack
  <2> SUFFICES ASSUME ProtocolInv PROVE RepliesReadBack
    OBVIOUS
  <2>1. replies \in Seq(Values) /\ outgoing = SerializeAll(replies)
    BY DEF ProtocolInv, Answered
  <2> QED
    BY <2>1, SerializedIs DEF RepliesReadBack
<1> QED
  BY <1>1, ProtocolInit, ProtocolStep, PTL DEF Spec
-----------------------------------------------------------------------------
(***************************************************************************)
(* Requests and commands.  What each part of from_resp accepts, said of    *)
(* the arguments behind the name.                                          *)
(***************************************************************************)
\* What is accepted says what it is, and no refusal is one.
LEMMA AcceptedOnce ==
    /\ \A x, y : Accept(x) = Accept(y) => x = y
    /\ \A x, result : Refuses(result) => result # Accept(x)
    /\ \A x, error : Refuse(error) # Accept(x)
    /\ \A x : Accept(x)[1] = "Ok" /\ Accept(x)[2] = x
    /\ \A error : Refuse(error)[1] = "Err"
BY DEF Accept, Refuse, Refuses

\* extract_integer and the test behind it accept a value that means a number.
LEMMA SecondsMean ==
    ASSUME NEW value, NEW x
    PROVE  Seconds(value) = Accept(x) <=> x \in Numbers /\ MeansNumber(value, x)
<1> DEFINE meant == {n \in Numbers : value \in {Integer(n), BulkString(Numeral(n))}}
<1>1. ASSUME Seconds(value) = Accept(x)
      PROVE  x \in Numbers /\ MeansNumber(value, x)
  <2>1. /\ NullOrFormat(value) # Accept(x) /\ Refuse(<<"InvalidArgument">>) # Accept(x)
    BY AcceptedOnce, NullOrFormatRefuses
  <2>2. /\ meant # {} /\ ~ \E n \in meant : n < 0
        /\ Seconds(value) = Accept(CHOOSE n \in meant : TRUE)
    BY <1>1, <2>1 DEF Seconds
  <2>3. x = CHOOSE n \in meant : TRUE
    BY <1>1, <2>2, AcceptedOnce
  <2>4. x \in meant
    BY <2>2, <2>3
  <2>5. x \in Numbers /\ value \in {Integer(x), BulkString(Numeral(x))} /\ ~(x < 0)
    BY <2>2, <2>4
  <2>6. x \in Int
    BY <2>5, RespAssumption
  <2> QED
    BY <2>5, <2>6 DEF MeansNumber
<1>2. ASSUME x \in Numbers, MeansNumber(value, x)
      PROVE  Seconds(value) = Accept(x)
  <2>1. x >= 0 /\ value \in {Integer(x), BulkString(Numeral(x))} /\ x \in Int
    BY <1>2, RespAssumption DEF MeansNumber
  <2>2. Numeral(x) # None
    <3>1. Numeral(x) \in Seq(Tokens)
      BY <1>2, DecimalAssumption DEF Numeral
    <3> QED
      BY <3>1, NoneAssumption
  <2>3. value[1] = "integer" \/ IsBulk(value)
    BY <2>1, <2>2 DEF Integer, BulkString, IsBulk
  <2>4. ASSUME NEW n \in meant PROVE n = x
    <3>1. n \in Numbers /\ value \in {Integer(n), BulkString(Numeral(n))}
      OBVIOUS
    <3>2. CASE value = Integer(x)
      BY <3>1, <3>2 DEF Integer, BulkString
    <3>3. CASE value = BulkString(Numeral(x))
      <4>1. Decimal[n] = Decimal[x]
        BY <3>1, <3>3 DEF Integer, BulkString, Numeral
      <4> QED
        BY <1>2, <3>1, <4>1, DecimalAssumption
    <3> QED
      BY <2>1, <3>2, <3>3
  <2>5. x \in meant
    BY <1>2, <2>1
  <2> HIDE DEF meant
  <2>6. meant # {} /\ ~(\E n \in meant : n < 0) /\ (CHOOSE n \in meant : TRUE) = x
    <3>1. ~(x < 0)
      BY <2>1
    <3> QED
      BY <2>4, <2>5, <3>1
  <2> QED
    BY <2>3, <2>6 DEF Seconds, meant
<1> QED
  BY <1>1, <1>2

\* extract_bulk_string on each argument accepts when all have a text.
LEMMA ExtractingMeans ==
    ASSUME NEW args, NEW command, NEW x
    PROVE  Extracting(args, command) = Accept(x)
             <=> x = command /\ \A i \in DOMAIN args : IsBulk(args[i])
<1> DEFINE useless == {i \in DOMAIN args : ~IsBulk(args[i])}
<1>1. useless = {} <=> \A i \in DOMAIN args : IsBulk(args[i])
  OBVIOUS
<1>2. Extracting(args, command) =
        IF useless = {} THEN Accept(command) ELSE NullOrFormat(args[Min(useless)])
  BY DEF Extracting
<1> HIDE DEF useless
<1>3. \A value : NullOrFormat(value) # Accept(x)
  BY AcceptedOnce, NullOrFormatRefuses
<1> QED
  BY <1>1, <1>2, <1>3, AcceptedOnce

\* The options of SET: in pairs, each an EX and a number, the last of which counts.
IsOption(args, i) ==
    /\ IsBulk(args[i]) /\ ToUppercase(Text(args[i])) = <<"EX">> /\ i # Len(args)
    /\ \E n \in Numbers : MeansNumber(args[i + 1], n)

OptionsMean(args, x) ==
    /\ Len(args) % 2 = 0
    /\ \A i \in 3 .. Len(args) : i % 2 = 1 => IsOption(args, i)
    /\ Len(args) = 2 => x = None
    /\ Len(args) > 2 => x \in Numbers /\ MeansNumber(args[Len(args)], x)

\* SetOption refuses exactly what is no option.
LEMMA OptionMeans ==
    ASSUME NEW args, NEW i
    PROVE  /\ IsOption(args, i) => SetOption(args, i) = Seconds(args[i + 1])
           /\ SetOption(args, i)[1] = "Err" <=> ~IsOption(args, i)
<1>1. Refuses(Refuse(<<"InvalidArgument">>)) /\ Refuses(Refuse(<<"WrongArgCount">>))
  BY DEF Refuses, Errors
<1>2. \A result : Refuses(result) => result[1] = "Err"
  BY DEF Refuses, Refuse
<1>3. CASE IsOption(args, i)
  <2>1. SetOption(args, i) = Seconds(args[i + 1])
    BY <1>3 DEF IsOption, SetOption
  <2>2. PICK n \in Numbers : Seconds(args[i + 1]) = Accept(n)
    BY <1>3, SecondsMean DEF IsOption
  <2>3. Accept(n)[1] # "Err"
    BY DEF Accept
  <2> QED
    BY <1>3, <2>1, <2>2, <2>3
<1>4. CASE ~IsOption(args, i)
  <2>1. CASE IsBulk(args[i]) /\ ToUppercase(Text(args[i])) = <<"EX">> /\ i # Len(args)
    <3>1. ~ \E n \in Numbers : MeansNumber(args[i + 1], n)
      BY <1>4, <2>1 DEF IsOption
    <3>2. Refuses(Seconds(args[i + 1]))
      BY <3>1, SecondsAnswers, SecondsMean DEF Accepts
    <3>3. SetOption(args, i) = Seconds(args[i + 1])
      BY <2>1 DEF SetOption
    <3> QED
      BY <1>2, <1>4, <3>2, <3>3
  <2>2. CASE ~(IsBulk(args[i]) /\ ToUppercase(Text(args[i])) = <<"EX">> /\ i # Len(args))
    <3>1. SetOption(args, i) \in {NullOrFormat(args[i]), Refuse(<<"InvalidArgument">>),
                                  Refuse(<<"WrongArgCount">>)}
      BY <2>2 DEF SetOption
    <3> QED
      BY <1>1, <1>2, <1>4, <3>1, NullOrFormatRefuses
  <2> QED
    BY <2>1, <2>2
<1> QED
  BY <1>3, <1>4

\* The loop of parse_set accepts what the options mean.
LEMMA OptionsAccept ==
    ASSUME NEW args, Len(args) \in Nat, Len(args) >= 2, NEW x
    PROVE  SetOptions(args) = Accept(x) <=> OptionsMean(args, x)
<1> DEFINE places == {i \in 3 .. Len(args) : i % 2 = 1}
           refused == {i \in places : SetOption(args, i)[1] = "Err"}
<1>1. SetOptions(args) = IF refused # {} THEN SetOption(args, Min(refused))
                         ELSE IF places = {} THEN Accept(None)
                         ELSE SetOption(args, Max(places))
  BY DEF SetOptions
<1>2. \A i \in places : i \in refused <=> ~IsOption(args, i)
  BY OptionMeans
<1>3. PICK n \in Nat : n = Len(args) /\ n >= 2
  OBVIOUS
<1>4. \A i : i \in places <=> i \in 3 .. n /\ i % 2 = 1
  BY <1>3
<1>5. places \in SUBSET Nat /\ refused \in SUBSET Nat /\ IsFiniteSet(places) /\ refused \subseteq places
  <2>1. IsFiniteSet(3 .. n) /\ places \subseteq 3 .. n
    BY <1>3, FS_Interval
  <2>2. IsFiniteSet(places)
    BY <2>1, FS_Subset
  <2> QED
    BY <1>3, <2>1, <2>2
<1> HIDE DEF places
<1>6. CASE refused # {}
  <2>1. Min(refused) \in refused
    BY <1>5, <1>6, MinIsLower
  <2>2. SetOptions(args)[1] = "Err"
    BY <1>1, <1>6, <2>1
  <2>3. SetOptions(args) # Accept(x)
    BY <2>2 DEF Accept
  <2>4. ~OptionsMean(args, x)
    BY <1>2, <1>3, <1>4, <1>5, <1>6 DEF OptionsMean
  <2> QED
    BY <2>3, <2>4
<1>7. CASE refused = {}
  <2>1. \A i \in 3 .. n : i % 2 = 1 => IsOption(args, i)
    BY <1>2, <1>4, <1>7
  <2>2. n % 2 = 0
    <3>1. CASE n % 2 = 1
      <4>1. n \in 3 .. n
        BY <1>3, <3>1
      <4>2. IsOption(args, n)
        BY <2>1, <3>1, <4>1
      <4> QED
        BY <1>3, <4>2 DEF IsOption
    <3>2. n % 2 = 0 \/ n % 2 = 1
      BY <1>3
    <3> QED
      BY <3>1, <3>2
  <2>3. CASE n = 2
    <3>1. places = {}
      BY <1>4, <2>3
    <3>2. SetOptions(args) = Accept(None)
      BY <1>1, <1>7, <3>1
    <3>3. OptionsMean(args, x) <=> x = None
      BY <1>3, <2>1, <2>2, <2>3 DEF OptionsMean
    <3> QED
      BY <3>2, <3>3, AcceptedOnce
  <2>4. CASE n > 2
    <3>1. n - 1 \in 3 .. n /\ (n - 1) % 2 = 1 /\ (n - 1) + 1 = n
      BY <1>3, <2>2, <2>4
    <3>2. n - 1 \in places
      BY <1>4, <3>1
    <3>3. places # {} /\ Max(places) \in places /\ \A i \in places : i <= Max(places)
      BY <1>5, <3>2, MaxIsUpper
    <3>4. Max(places) = n - 1
      <4>1. PICK m : m = Max(places)
        OBVIOUS
      <4>2. m \in 3 .. n /\ m % 2 = 1 /\ n - 1 <= m
        BY <1>4, <3>2, <3>3, <4>1
      <4>3. m # n
        BY <2>2, <4>2
      <4> QED
        BY <1>3, <4>1, <4>2, <4>3
    <3>5. IsOption(args, n - 1)
      BY <2>1, <3>1
    <3>6. SetOptions(args) = Seconds(args[n])
      <4>1. SetOptions(args) = SetOption(args, n - 1)
        BY <1>1, <1>7, <3>3, <3>4
      <4>2. SetOption(args, n - 1) = Seconds(args[(n - 1) + 1])
        BY <3>5, OptionMeans
      <4> QED
        BY <3>1, <4>1, <4>2
    <3>7. OptionsMean(args, x) <=> x \in Numbers /\ MeansNumber(args[n], x)
      BY <1>3, <2>1, <2>2, <2>4 DEF OptionsMean
    <3> QED
      BY <3>6, <3>7, SecondsMean
  <2> QED
    BY <1>3, <2>3, <2>4
<1> QED
  BY <1>6, <1>7

\* What a name and the arguments behind it ask for.
ArgsAsk(name, args, command) ==
    LET text(i) == Text(args[i])
        bulk(places) == \A i \in places : IsBulk(args[i])
        n == Len(args)
    IN  \/ name = <<"PING">> /\ n = 0 /\ command = <<"Ping", None>>
        \/ name = <<"PING">> /\ n = 1 /\ bulk({1}) /\ command = <<"Ping", text(1)>>
        \/ name = <<"GET">> /\ n = 1 /\ bulk({1}) /\ command = <<"Get", text(1)>>
        \/ name = <<"TTL">> /\ n = 1 /\ bulk({1}) /\ command = <<"Ttl", text(1)>>
        \/ name = <<"INFO">> /\ n = 0 /\ command = <<"Info", None>>
        \/ name = <<"INFO">> /\ n > 0 /\ bulk({1}) /\ command = <<"Info", text(1)>>
        \/ name = <<"DEL">> /\ n > 0 /\ bulk(1 .. n)
             /\ command = <<"Del", [i \in 1 .. n |-> text(i)]>>
        \/ name = <<"EXPIRE">> /\ n = 2 /\ bulk({1})
             /\ \E m \in Numbers : MeansNumber(args[2], m) /\ command = <<"Expire", text(1), m>>
        \/ name = <<"SET">> /\ n >= 2 /\ bulk({1, 2})
             /\ \E x : OptionsMean(args, x) /\ command = <<"Set", text(1), text(2), x>>

\* from_resp accepts just that.
LEMMA ArgsAccepted ==
    ASSUME NEW V, NEW args \in Seq(V), NEW name, NEW c
    PROVE  ParseArgs(name, args) = Accept(c) <=> ArgsAsk(name, args, c)
<1>1. PICK n \in Nat : n = Len(args) /\ DOMAIN args = 1 .. n
  OBVIOUS
<1>2. (args = << >> <=> n = 0) /\ (n = 0 \/ n = 1 \/ n > 1)
  BY <1>1
<1>3. n >= 1 => DOMAIN SubSeq(args, 1, 1) = {1} /\ SubSeq(args, 1, 1)[1] = args[1]
  <2> SUFFICES ASSUME n >= 1
               PROVE  DOMAIN SubSeq(args, 1, 1) = {1} /\ SubSeq(args, 1, 1)[1] = args[1]
    OBVIOUS
  <2>1. /\ SubSeq(args, 1, 1) \in Seq(V) /\ Len(SubSeq(args, 1, 1)) = 1
        /\ SubSeq(args, 1, 1)[1] = args[1]
    BY <1>1
  <2> QED
    BY <2>1
<1>4. n >= 2 => DOMAIN SubSeq(args, 1, 2) = {1, 2}
                /\ \A i \in {1, 2} : SubSeq(args, 1, 2)[i] = args[i]
  <2> SUFFICES ASSUME n >= 2
               PROVE  DOMAIN SubSeq(args, 1, 2) = {1, 2}
                      /\ \A i \in {1, 2} : SubSeq(args, 1, 2)[i] = args[i]
    OBVIOUS
  <2>1. /\ SubSeq(args, 1, 2) \in Seq(V) /\ Len(SubSeq(args, 1, 2)) = 2
        /\ SubSeq(args, 1, 2)[1] = args[1] /\ SubSeq(args, 1, 2)[2] = args[2]
    BY <1>1
  <2> QED
    BY <2>1
<1>5. ParsePing(args) = Accept(c) <=>
        \/ n = 0 /\ c = <<"Ping", None>>
        \/ n = 1 /\ IsBulk(args[1]) /\ c = <<"Ping", Text(args[1])>>
  <2>1. CASE n = 0
    <3>1. ParsePing(args) = Accept(<<"Ping", None>>)
      BY <1>1, <2>1 DEF ParsePing
    <3> QED
      BY <2>1, <3>1, AcceptedOnce
  <2>2. CASE n = 1
    <3>1. ParsePing(args) = Extracting(args, <<"Ping", Text(args[1])>>)
      BY <1>1, <2>2 DEF ParsePing
    <3> QED
      BY <1>1, <2>2, <3>1, ExtractingMeans
  <2>3. CASE n > 1
    <3>1. ParsePing(args) = Refuse(<<"WrongArgCount">>)
      BY <1>1, <2>3 DEF ParsePing
    <3> QED
      BY <2>3, <3>1, AcceptedOnce
  <2> QED
    BY <1>2, <2>1, <2>2, <2>3
<1>6. \A kind : ParseKey(kind, args) = Accept(c) <=>
                 n = 1 /\ IsBulk(args[1]) /\ c = <<kind, Text(args[1])>>
  <2> SUFFICES ASSUME NEW kind
               PROVE  ParseKey(kind, args) = Accept(c) <=>
                        n = 1 /\ IsBulk(args[1]) /\ c = <<kind, Text(args[1])>>
    OBVIOUS
  <2>1. CASE n = 1
    <3>1. ParseKey(kind, args) = Extracting(args, <<kind, Text(args[1])>>)
      BY <1>1, <2>1 DEF ParseKey
    <3> QED
      BY <1>1, <2>1, <3>1, ExtractingMeans
  <2>2. CASE n # 1
    <3>1. ParseKey(kind, args) = Refuse(<<"WrongArgCount">>)
      BY <1>1, <2>2 DEF ParseKey
    <3> QED
      BY <2>2, <3>1, AcceptedOnce
  <2> QED
    BY <2>1, <2>2
<1>7. ParseInfo(args) = Accept(c) <=>
        \/ n = 0 /\ c = <<"Info", None>>
        \/ n > 0 /\ IsBulk(args[1]) /\ c = <<"Info", Text(args[1])>>
  <2>1. CASE n = 0
    <3>1. ParseInfo(args) = Accept(<<"Info", None>>)
      BY <1>2, <2>1 DEF ParseInfo
    <3> QED
      BY <2>1, <3>1, AcceptedOnce
  <2>2. CASE n > 0
    <3>1. ParseInfo(args) = Extracting(SubSeq(args, 1, 1), <<"Info", Text(args[1])>>)
      BY <1>2, <2>2 DEF ParseInfo
    <3>2. n >= 1
      BY <2>2
    <3>3. (\A i \in DOMAIN SubSeq(args, 1, 1) : IsBulk(SubSeq(args, 1, 1)[i])) <=> IsBulk(args[1])
      BY <1>3, <3>2
    <3>4. Extracting(SubSeq(args, 1, 1), <<"Info", Text(args[1])>>) = Accept(c)
            <=> /\ c = <<"Info", Text(args[1])>>
                /\ \A i \in DOMAIN SubSeq(args, 1, 1) : IsBulk(SubSeq(args, 1, 1)[i])
      <4>1. PICK front, command : front = SubSeq(args, 1, 1) /\ command = <<"Info", Text(args[1])>>
        OBVIOUS
      <4>2. Extracting(front, command) = Accept(c)
              <=> c = command /\ \A i \in DOMAIN front : IsBulk(front[i])
        BY ExtractingMeans
      <4> QED
        BY <4>1, <4>2
    <3>5. n # 0
      BY <2>2
    <3> QED
      BY <2>2, <3>1, <3>3, <3>4, <3>5
  <2> QED
    BY <1>1, <2>1, <2>2
<1>8. PICK texts : texts = [i \in 1 .. n |-> Text(args[i])]
  OBVIOUS
<1>9. ParseDel(args) = Accept(c) <=>
        n > 0 /\ (\A i \in 1 .. n : IsBulk(args[i])) /\ c = <<"Del", texts>>
  <2>1. CASE n = 0
    <3>1. ParseDel(args) = Refuse(<<"WrongArgCount">>)
      BY <1>2, <2>1 DEF ParseDel
    <3> QED
      BY <2>1, <3>1, AcceptedOnce
  <2>2. CASE n > 0
    <3>1. [i \in DOMAIN args |-> Text(args[i])] = texts /\ args # << >>
      BY <1>1, <1>2, <1>8, <2>2
    <3>2. ParseDel(args) = Extracting(args, <<"Del", texts>>)
      BY <3>1 DEF ParseDel
    <3>3. Extracting(args, <<"Del", texts>>) = Accept(c)
            <=> c = <<"Del", texts>> /\ \A i \in DOMAIN args : IsBulk(args[i])
      BY ExtractingMeans
    <3> QED
      BY <1>1, <2>2, <3>2, <3>3
  <2> QED
    BY <1>1, <2>1, <2>2
<1>10. ParseExpire(args) = Accept(c) <=>
         /\ n = 2 /\ IsBulk(args[1])
         /\ \E m \in Numbers : MeansNumber(args[2], m) /\ c = <<"Expire", Text(args[1]), m>>
  <2>1. CASE n # 2
    <3>1. ParseExpire(args) = Refuse(<<"WrongArgCount">>)
      BY <1>1, <2>1 DEF ParseExpire
    <3> QED
      BY <2>1, <3>1, AcceptedOnce
  <2>2. CASE n = 2
    <3> DEFINE key == Extracting(SubSeq(args, 1, 1), <<>>)
               seconds == Seconds(args[2])
    <3>1. ParseExpire(args) = IF key[1] = "Err" THEN key ELSE IF seconds[1] = "Err" THEN seconds
                              ELSE Accept(<<"Expire", Text(args[1]), seconds[2]>>)
      BY <1>1, <2>2 DEF ParseExpire
    <3>2. (\A i \in DOMAIN SubSeq(args, 1, 1) : IsBulk(SubSeq(args, 1, 1)[i])) <=> IsBulk(args[1])
      BY <1>3, <2>2
    <3>3. key = Accept(<<>>) \/ Refuses(key)
      BY ExtractingAnswers
    <3>4. key = Accept(<<>>) <=> IsBulk(args[1])
      <4>1. Extracting(SubSeq(args, 1, 1), <<>>) = Accept(<<>>)
              <=> <<>> = <<>> /\ \A i \in DOMAIN SubSeq(args, 1, 1) : IsBulk(SubSeq(args, 1, 1)[i])
        BY ExtractingMeans
      <4> QED
        BY <3>2, <4>1
    <3>5. Accepts(seconds) \/ Refuses(seconds)
      BY SecondsAnswers
    <3>6. \A m : seconds = Accept(m) <=> m \in Numbers /\ MeansNumber(args[2], m)
      BY SecondsMean
    <3>7. \A result : Refuses(result) => result[1] = "Err"
      BY DEF Refuses, Refuse
    <3> HIDE DEF key, seconds
    <3>8. CASE ~IsBulk(args[1])
      <4>1. ParseExpire(args) = key /\ Refuses(key)
        BY <3>1, <3>3, <3>4, <3>7, <3>8
      <4> QED
        BY <3>8, <4>1, AcceptedOnce
    <3>9. CASE IsBulk(args[1]) /\ Refuses(seconds)
      <4>1. key[1] # "Err" /\ seconds[1] = "Err"
        BY <3>4, <3>7, <3>9 DEF Accept
      <4>2. ParseExpire(args) = seconds
        BY <3>1, <4>1
      <4> QED
        BY <3>6, <3>9, <4>2, AcceptedOnce
    <3>10. CASE IsBulk(args[1]) /\ Accepts(seconds)
      <4>1. PICK m : seconds = Accept(m)
        BY <3>10 DEF Accepts
      <4>2. key[1] # "Err" /\ seconds[1] # "Err" /\ seconds[2] = m
        BY <3>4, <3>10, <4>1 DEF Accept
      <4>3. ParseExpire(args) = Accept(<<"Expire", Text(args[1]), m>>)
        BY <3>1, <4>2
      <4>4. \A k : k \in Numbers /\ MeansNumber(args[2], k) <=> k = m
        BY <3>6, <4>1, AcceptedOnce
      <4>5. Accept(<<"Expire", Text(args[1]), m>>) = Accept(c) <=> c = <<"Expire", Text(args[1]), m>>
        BY AcceptedOnce
      <4> QED
        BY <2>2, <3>10, <4>3, <4>4, <4>5
    <3> QED
      BY <3>5, <3>8, <3>9, <3>10
  <2> QED
    BY <2>1, <2>2
<1>11. ParseSet(args) = Accept(c) <=>
         /\ n >= 2 /\ IsBulk(args[1]) /\ IsBulk(args[2])
         /\ \E x : OptionsMean(args, x) /\ c = <<"Set", Text(args[1]), Text(args[2]), x>>
  <2>1. CASE n < 2
    <3>1. ParseSet(args) = Refuse(<<"WrongArgCount">>)
      BY <1>1, <2>1 DEF ParseSet
    <3>2. ~(n >= 2)
      BY <2>1
    <3> QED
      BY <3>1, <3>2, AcceptedOnce
  <2>2. CASE n >= 2
    <3> DEFINE pair == Extracting(SubSeq(args, 1, 2), <<>>)
               ttl == SetOptions(args)
    <3>1. ParseSet(args) = IF pair[1] = "Err" THEN pair ELSE IF ttl[1] = "Err" THEN ttl
                           ELSE Accept(<<"Set", Text(args[1]), Text(args[2]), ttl[2]>>)
      <4>1. ~(Len(args) < 2)
        BY <1>1, <2>2
      <4> QED
        BY <4>1 DEF ParseSet
    <3>2. (\A i \in DOMAIN SubSeq(args, 1, 2) : IsBulk(SubSeq(args, 1, 2)[i]))
            <=> IsBulk(args[1]) /\ IsBulk(args[2])
      BY <1>4, <2>2
    <3>3. pair = Accept(<<>>) \/ Refuses(pair)
      BY ExtractingAnswers
    <3>4. pair = Accept(<<>>) <=> IsBulk(args[1]) /\ IsBulk(args[2])
      <4>1. Extracting(SubSeq(args, 1, 2), <<>>) = Accept(<<>>)
              <=> <<>> = <<>> /\ \A i \in DOMAIN SubSeq(args, 1, 2) : IsBulk(SubSeq(args, 1, 2)[i])
        BY ExtractingMeans
      <4> QED
        BY <3>2, <4>1
    <3>5. Accepts(ttl) \/ Refuses(ttl)
      BY SetOptionsAnswers
    <3>6. \A x : ttl = Accept(x) <=> OptionsMean(args, x)
      BY <1>1, <2>2, OptionsAccept
    <3>7. \A result : Refuses(result) => result[1] = "Err"
      BY DEF Refuses, Refuse
    <3> HIDE DEF pair, ttl
    <3>8. CASE ~(IsBulk(args[1]) /\ IsBulk(args[2]))
      <4>1. ParseSet(args) = pair /\ Refuses(pair)
        BY <3>1, <3>3, <3>4, <3>7, <3>8
      <4> QED
        BY <3>8, <4>1, AcceptedOnce
    <3>9. CASE IsBulk(args[1]) /\ IsBulk(args[2]) /\ Refuses(ttl)
      <4>1. pair[1] # "Err" /\ ttl[1] = "Err"
        BY <3>4, <3>7, <3>9 DEF Accept
      <4>2. ParseSet(args) = ttl
        BY <3>1, <4>1
      <4> QED
        BY <3>6, <3>9, <4>2, AcceptedOnce
    <3>10. CASE IsBulk(args[1]) /\ IsBulk(args[2]) /\ Accepts(ttl)
      <4>1. PICK m : ttl = Accept(m)
        BY <3>10 DEF Accepts
      <4>2. pair[1] # "Err" /\ ttl[1] # "Err" /\ ttl[2] = m
        BY <3>4, <3>10, <4>1 DEF Accept
      <4>3. ParseSet(args) = Accept(<<"Set", Text(args[1]), Text(args[2]), m>>)
        BY <3>1, <4>2
      <4>4. \A k : OptionsMean(args, k) <=> k = m
        BY <3>6, <4>1, AcceptedOnce
      <4>5. Accept(<<"Set", Text(args[1]), Text(args[2]), m>>) = Accept(c)
              <=> c = <<"Set", Text(args[1]), Text(args[2]), m>>
        BY AcceptedOnce
      <4> QED
        BY <2>2, <3>10, <4>3, <4>4, <4>5
    <3> QED
      BY <3>5, <3>8, <3>9, <3>10
  <2> QED
    BY <1>1, <2>1, <2>2
<1>12. n # 0 <=> n > 0
  BY <1>1
<1>13. CASE name = <<"PING">>
  BY <1>1, <1>5, <1>13 DEF ParseArgs, ArgsAsk
<1>14. CASE name = <<"SET">>
  BY <1>1, <1>11, <1>14 DEF ParseArgs, ArgsAsk
<1>15. CASE name = <<"GET">>
  BY <1>1, <1>6, <1>15 DEF ParseArgs, ArgsAsk
<1>16. CASE name = <<"DEL">>
  BY <1>1, <1>8, <1>9, <1>16 DEF ParseArgs, ArgsAsk
<1>17. CASE name = <<"EXPIRE">>
  BY <1>1, <1>10, <1>17 DEF ParseArgs, ArgsAsk
<1>18. CASE name = <<"TTL">>
  BY <1>1, <1>6, <1>18 DEF ParseArgs, ArgsAsk
<1>19. CASE name = <<"INFO">>
  BY <1>1, <1>7, <1>19 DEF ParseArgs, ArgsAsk
<1>20. CASE name \notin {<<"PING">>, <<"SET">>, <<"GET">>, <<"DEL">>, <<"EXPIRE">>, <<"TTL">>, <<"INFO">>}
  <2>1. ParseArgs(name, args) = Refuse(<<"UnknownCommand", name>>)
    BY <1>20 DEF ParseArgs
  <2>2. ~ArgsAsk(name, args, c)
    BY <1>20 DEF ArgsAsk
  <2> QED
    BY <2>1, <2>2, AcceptedOnce
<1> QED
  BY <1>13, <1>14, <1>15, <1>16, <1>17, <1>18, <1>19, <1>20

\* What from_resp is to accept of a request.
TakenFor(elements, c) == Asks(elements, c) \/ InfoWithMore(elements, c)

\* That, said of the request's name and its arguments.
LEMMA AsksIs ==
    ASSUME NEW V, NEW elements \in Seq(V), elements # << >>, NEW c, NEW args, NEW name,
           args = Tail(elements), name = ToUppercase(Text(elements[1]))
    PROVE  TakenFor(elements, c) <=> ArgsAsk(name, args, c)
<1>1. PICK n, last :
        /\ n \in Nat /\ last \in Nat /\ last = n + 1
        /\ n = Len(args) /\ last = Len(elements) /\ args \in Seq(V)
        /\ \A i \in 1 .. n : args[i] = elements[i + 1]
  <2>1. /\ Len(elements) \in Nat /\ Len(elements) > 0 /\ args \in Seq(V)
        /\ Len(args) = Len(elements) - 1
        /\ \A i \in 1 .. Len(args) : args[i] = elements[i + 1]
    OBVIOUS
  <2>2. Len(args) \in Nat /\ Len(elements) = Len(args) + 1
    BY <2>1
  <2> QED
    BY <2>1, <2>2
<1>2. /\ n >= 1 => args[1] = elements[2]
      /\ n >= 2 => args[2] = elements[3]
  <2>1. ASSUME n >= 1 PROVE args[1] = elements[2]
    <3>1. 1 \in 1 .. n /\ 1 + 1 = 2
      BY <1>1, <2>1
    <3>2. args[1] = elements[1 + 1]
      BY <1>1, <3>1
    <3> QED
      BY <3>1, <3>2
  <2>2. ASSUME n >= 2 PROVE args[2] = elements[3]
    <3>1. 2 \in 1 .. n /\ 2 + 1 = 3
      BY <1>1, <2>2
    <3>2. args[2] = elements[2 + 1]
      BY <1>1, <3>1
    <3> QED
      BY <3>1, <3>2
  <2> QED
    BY <2>1, <2>2
<1>3. /\ last = 1 <=> n = 0
      /\ last = 2 <=> n = 1
      /\ last = 3 <=> n = 2
      /\ last > 1 <=> n > 0
      /\ last > 2 <=> n >= 2
      /\ last - 1 = n
  BY <1>1
<1>4. PICK texts : texts = [i \in 1 .. n |-> Text(args[i])]
  OBVIOUS
<1>5. [i \in 1 .. last - 1 |-> Text(elements[i + 1])] = texts
  BY <1>1, <1>3, <1>4
<1>6. (\A i \in 2 .. last : IsBulk(elements[i])) <=> \A i \in 1 .. n : IsBulk(args[i])
  <2>1. ASSUME \A i \in 2 .. last : IsBulk(elements[i]), NEW i \in 1 .. n
        PROVE  IsBulk(args[i])
    <3>1. i + 1 \in 2 .. last
      BY <1>1
    <3> QED
      BY <1>1, <2>1, <3>1
  <2>2. ASSUME \A i \in 1 .. n : IsBulk(args[i]), NEW i \in 2 .. last
        PROVE  IsBulk(elements[i])
    <3>1. i - 1 \in 1 .. n /\ (i - 1) + 1 = i
      BY <1>1
    <3> QED
      BY <1>1, <2>2, <3>1
  <2> QED
    BY <2>1, <2>2
<1> DEFINE Pairs == \A i \in 4 .. last : i % 2 = 0 =>
                      /\ IsBulk(elements[i]) /\ ToUppercase(Text(elements[i])) = <<"EX">>
                      /\ \E m \in Numbers : MeansNumber(elements[i + 1], m)
           Told(x) == /\ x \in Numbers \cup {None}
                      /\ x = None <=> last = 3
                      /\ last > 3 => MeansNumber(elements[last], x)
<1>7. ASSUME n >= 2
      PROVE  last % 2 = 1 /\ Pairs <=>
               n % 2 = 0 /\ \A i \in 3 .. n : i % 2 = 1 => IsOption(args, i)
  <2>1. last % 2 = 1 <=> n % 2 = 0
    BY <1>1
  <2>2. ASSUME n % 2 = 0, Pairs, NEW i \in 3 .. n, i % 2 = 1
        PROVE  IsOption(args, i)
    <3>1. i + 1 \in 4 .. last /\ (i + 1) % 2 = 0 /\ i # n /\ i \in 1 .. n
      <4>1. i # n /\ i \in 3 .. n /\ i \in Nat
        BY <1>1, <2>2
      <4>2. (i + 1) % 2 = 0
        <5> HIDE DEF Pairs
        <5> QED
          BY <2>2, <4>1
      <4>3. i + 1 \in 4 .. last /\ i \in 1 .. n
        BY <1>1, <4>1
      <4> QED
        BY <4>1, <4>2, <4>3
    <3>2. i + 1 \in 1 .. n
      BY <1>1, <3>1
    <3>3. args[i] = elements[i + 1] /\ args[i + 1] = elements[(i + 1) + 1]
      BY <1>1, <3>1, <3>2
    <3>4. /\ IsBulk(elements[i + 1]) /\ ToUppercase(Text(elements[i + 1])) = <<"EX">>
          /\ \E m \in Numbers : MeansNumber(elements[(i + 1) + 1], m)
      BY <2>2, <3>1
    <3> QED
      BY <1>1, <3>1, <3>3, <3>4 DEF IsOption
  <2>3. ASSUME n % 2 = 0, \A i \in 3 .. n : i % 2 = 1 => IsOption(args, i),
               NEW i \in 4 .. last, i % 2 = 0
        PROVE  /\ IsBulk(elements[i]) /\ ToUppercase(Text(elements[i])) = <<"EX">>
               /\ \E m \in Numbers : MeansNumber(elements[i + 1], m)
    <3>1. PICK k \in 3 .. n : i = k + 1 /\ k % 2 = 1
      <4>1. i - 1 \in 3 .. n /\ i = (i - 1) + 1 /\ (i - 1) % 2 = 1
        BY <1>1, <2>3
      <4> QED
        BY <4>1
    <3>2. IsOption(args, k)
      BY <2>3, <3>1
    <3>3. k # n /\ k \in 1 .. n
      BY <1>1, <2>3, <3>1
    <3>4. k + 1 \in 1 .. n
      BY <1>1, <3>3
    <3>5. args[k] = elements[i] /\ args[k + 1] = elements[i + 1]
      BY <1>1, <3>1, <3>3, <3>4
    <3> QED
      BY <3>2, <3>5 DEF IsOption
  <2> QED
    BY <2>1, <2>2, <2>3
<1>8. ASSUME n >= 2, NEW x
      PROVE  Told(x) <=> /\ n = 2 => x = None
                         /\ n > 2 => x \in Numbers /\ MeansNumber(args[n], x)
  <2>1. None \notin Numbers
    BY NoneAssumption
  <2>2. args[n] = elements[last] /\ (last = 3 <=> n = 2) /\ (last > 3 <=> n > 2) /\ (n = 2 \/ n > 2)
    <3>1. n \in 1 .. n
      BY <1>1, <1>8
    <3> QED
      BY <1>1, <1>8, <3>1
  <2>3. CASE n = 2
    <3>1. last = 3 /\ ~(last > 3) /\ ~(n > 2)
      BY <2>2, <2>3
    <3> QED
      BY <2>3, <3>1
  <2>4. CASE n > 2
    <3>1. last # 3 /\ last > 3 /\ n # 2 /\ args[n] = elements[last]
      BY <1>1, <2>2, <2>4
    <3> QED
      BY <2>1, <2>4, <3>1
  <2> QED
    BY <2>2, <2>3, <2>4
<1> HIDE DEF Pairs, Told
<1>9. ASSUME n >= 2
      PROVE  (last % 2 = 1 /\ Pairs /\ \E x : Told(x) /\ c = <<"Set", Text(args[1]), Text(args[2]), x>>)
               <=> \E x : OptionsMean(args, x) /\ c = <<"Set", Text(args[1]), Text(args[2]), x>>
  <2>1. \A x : OptionsMean(args, x) <=> last % 2 = 1 /\ Pairs /\ Told(x)
    BY <1>1, <1>7, <1>8, <1>9 DEF OptionsMean
  <2> QED
    BY <2>1
<1> DEFINE Sets == \E x \in Numbers \cup {None} :
                     /\ x = None <=> last = 3
                     /\ last > 3 => MeansNumber(elements[last], x)
                     /\ c = <<"Set", Text(elements[2]), Text(elements[3]), x>>
<1>10. ASSUME n >= 2
       PROVE  Sets <=> \E x : Told(x) /\ c = <<"Set", Text(args[1]), Text(args[2]), x>>
  <2>1. args[1] = elements[2] /\ args[2] = elements[3]
    BY <1>1, <1>2, <1>10
  <2>2. Sets <=> \E x : Told(x) /\ c = <<"Set", Text(elements[2]), Text(elements[3]), x>>
    BY DEF Told
  <2> QED
    BY <2>1, <2>2
<1> HIDE DEF Sets
<1>11. ASSUME n >= 2
       PROVE  (last % 2 = 1 /\ Pairs /\ Sets)
                <=> \E x : OptionsMean(args, x) /\ c = <<"Set", Text(args[1]), Text(args[2]), x>>
  BY <1>9, <1>10, <1>11
<1>12. TakenFor(elements, c) <=>
         \/ name = <<"PING">> /\ last = 1 /\ c = <<"Ping", None>>
         \/ name = <<"PING">> /\ last = 2 /\ IsBulk(elements[2]) /\ c = <<"Ping", Text(elements[2])>>
         \/ name = <<"GET">> /\ last = 2 /\ IsBulk(elements[2]) /\ c = <<"Get", Text(elements[2])>>
         \/ name = <<"TTL">> /\ last = 2 /\ IsBulk(elements[2]) /\ c = <<"Ttl", Text(elements[2])>>
         \/ name = <<"INFO">> /\ last = 1 /\ c = <<"Info", None>>
         \/ name = <<"INFO">> /\ last > 1 /\ IsBulk(elements[2]) /\ c = <<"Info", Text(elements[2])>>
         \/ name = <<"DEL">> /\ last > 1 /\ (\A i \in 2 .. last : IsBulk(elements[i]))
              /\ c = <<"Del", texts>>
         \/ name = <<"EXPIRE">> /\ last = 3 /\ IsBulk(elements[2])
              /\ \E m \in Numbers :
                   MeansNumber(elements[3], m) /\ c = <<"Expire", Text(elements[2]), m>>
         \/ name = <<"SET">> /\ last > 2 /\ IsBulk(elements[2]) /\ IsBulk(elements[3])
              /\ last % 2 = 1 /\ Pairs /\ Sets
  <2> DEFINE word == ToUppercase(Text(elements[1]))
             end == Len(elements)
             all(places) == \A i \in places : IsBulk(elements[i])
             A == \/ word = <<"PING">> /\ end = 1 /\ c = <<"Ping", None>>
                  \/ word = <<"PING">> /\ end = 2 /\ all({2}) /\ c = <<"Ping", Text(elements[2])>>
                  \/ word = <<"GET">> /\ end = 2 /\ all({2}) /\ c = <<"Get", Text(elements[2])>>
                  \/ word = <<"TTL">> /\ end = 2 /\ all({2}) /\ c = <<"Ttl", Text(elements[2])>>
                  \/ word = <<"INFO">> /\ end = 1 /\ c = <<"Info", None>>
                  \/ word = <<"INFO">> /\ end = 2 /\ all({2}) /\ c = <<"Info", Text(elements[2])>>
             B == word = <<"DEL">> /\ end > 1 /\ all(2 .. end)
                    /\ c = <<"Del", [i \in 1 .. end - 1 |-> Text(elements[i + 1])]>>
             C == word = <<"EXPIRE">> /\ end = 3 /\ all({2})
                    /\ \E m \in Numbers :
                         MeansNumber(elements[3], m) /\ c = <<"Expire", Text(elements[2]), m>>
             D == word = <<"SET">> /\ end > 2 /\ end % 2 = 1 /\ all({2, 3})
                    /\ (\A i \in 4 .. end : i % 2 = 0 =>
                          /\ all({i}) /\ ToUppercase(Text(elements[i])) = <<"EX">>
                          /\ \E m \in Numbers : MeansNumber(elements[i + 1], m))
                    /\ \E x \in Numbers \cup {None} :
                          /\ x = None <=> end = 3
                          /\ end > 3 => MeansNumber(elements[end], x)
                          /\ c = <<"Set", Text(elements[2]), Text(elements[3]), x>>
             E == InfoWithMore(elements, c)
  <2>1. TakenFor(elements, c) <=> A \/ B \/ C \/ D \/ E
    BY DEF Asks, TakenFor
  <2>2. word = name /\ end = last
    BY <1>1
  <2>3. /\ all({2}) <=> IsBulk(elements[2])
        /\ all({2, 3}) <=> IsBulk(elements[2]) /\ IsBulk(elements[3])
        /\ \A i : all({i}) <=> IsBulk(elements[i])
        /\ all(2 .. end) <=> \A i \in 2 .. last : IsBulk(elements[i])
    BY <2>2
  <2> HIDE DEF all, word
  <2>4. A <=>
         \/ name = <<"PING">> /\ last = 1 /\ c = <<"Ping", None>>
         \/ name = <<"PING">> /\ last = 2 /\ IsBulk(elements[2]) /\ c = <<"Ping", Text(elements[2])>>
         \/ name = <<"GET">> /\ last = 2 /\ IsBulk(elements[2]) /\ c = <<"Get", Text(elements[2])>>
         \/ name = <<"TTL">> /\ last = 2 /\ IsBulk(elements[2]) /\ c = <<"Ttl", Text(elements[2])>>
         \/ name = <<"INFO">> /\ last = 1 /\ c = <<"Info", None>>
         \/ name = <<"INFO">> /\ last = 2 /\ IsBulk(elements[2]) /\ c = <<"Info", Text(elements[2])>>
    BY <2>2, <2>3
  <2>5. B <=> name = <<"DEL">> /\ last > 1 /\ (\A i \in 2 .. last : IsBulk(elements[i]))
                /\ c = <<"Del", texts>>
    <3>1. [i \in 1 .. end - 1 |-> Text(elements[i + 1])] = texts
      BY <1>1, <1>5
    <3> QED
      BY <2>2, <2>3, <3>1
  <2>6. C <=> name = <<"EXPIRE">> /\ last = 3 /\ IsBulk(elements[2])
                /\ \E m \in Numbers :
                     MeansNumber(elements[3], m) /\ c = <<"Expire", Text(elements[2]), m>>
    BY <2>2, <2>3
  <2>7. D <=> name = <<"SET">> /\ last > 2 /\ IsBulk(elements[2]) /\ IsBulk(elements[3])
                /\ last % 2 = 1 /\ Pairs /\ Sets
    <3>1. Pairs <=> \A i \in 4 .. end : i % 2 = 0 =>
                      /\ all({i}) /\ ToUppercase(Text(elements[i])) = <<"EX">>
                      /\ \E m \in Numbers : MeansNumber(elements[i + 1], m)
      BY <2>2, <2>3 DEF Pairs
    <3>2. Sets <=> \E x \in Numbers \cup {None} :
                     /\ x = None <=> end = 3
                     /\ end > 3 => MeansNumber(elements[end], x)
                     /\ c = <<"Set", Text(elements[2]), Text(elements[3]), x>>
      BY <2>2 DEF Sets
    <3> QED
      BY <2>2, <2>3, <3>1, <3>2
  <2>8. E <=> name = <<"INFO">> /\ last > 2 /\ IsBulk(elements[2])
                /\ c = <<"Info", Text(elements[2])>>
    BY <2>2 DEF InfoWithMore, word
  <2>9. last > 1 <=> last = 2 \/ last > 2
    <3> HIDE DEF A, B, C, D, E
    <3>1. last \in Nat
      BY <1>1
    <3> QED
      BY <3>1
  <2> HIDE DEF A, B, C, D, E
  <2> QED
    BY <2>1, <2>4, <2>5, <2>6, <2>7, <2>8, <2>9
<1>13. ArgsAsk(name, args, c) <=>
         \/ name = <<"PING">> /\ n = 0 /\ c = <<"Ping", None>>
         \/ name = <<"PING">> /\ n = 1 /\ IsBulk(args[1]) /\ c = <<"Ping", Text(args[1])>>
         \/ name = <<"GET">> /\ n = 1 /\ IsBulk(args[1]) /\ c = <<"Get", Text(args[1])>>
         \/ name = <<"TTL">> /\ n = 1 /\ IsBulk(args[1]) /\ c = <<"Ttl", Text(args[1])>>
         \/ name = <<"INFO">> /\ n = 0 /\ c = <<"Info", None>>
         \/ name = <<"INFO">> /\ n > 0 /\ IsBulk(args[1]) /\ c = <<"Info", Text(args[1])>>
         \/ name = <<"DEL">> /\ n > 0 /\ (\A i \in 1 .. n : IsBulk(args[i]))
              /\ c = <<"Del", texts>>
         \/ name = <<"EXPIRE">> /\ n = 2 /\ IsBulk(args[1])
              /\ \E m \in Numbers : MeansNumber(args[2], m) /\ c = <<"Expire", Text(args[1]), m>>
         \/ name = <<"SET">> /\ n >= 2 /\ IsBulk(args[1]) /\ IsBulk(args[2])
              /\ \E x : OptionsMean(args, x) /\ c = <<"Set", Text(args[1]), Text(args[2]), x>>
  BY <1>1, <1>4 DEF ArgsAsk
<1> QED
  BY <1>1, <1>2, <1>3, <1>6, <1>11, <1>12, <1>13

\* What is wanted of from_resp on one value.
AsAsked(value, result) ==
    LET elements == value[2]
        request == /\ value[1] = "array" /\ elements \notin {None, << >>}
                   /\ IsBulk(elements[1])
    IN  IF result[1] = "Ok" THEN request /\ TakenFor(elements, result[2])
        ELSE request => \A command : ~Asks(elements, command)

\* from_resp makes of every value that can be parsed what it asks for.
LEMMA FromRespAsAsked ==
    ASSUME NEW value \in Values
    PROVE  AsAsked(value, FromResp(value))
<1> DEFINE elements == value[2]
           name == ToUppercase(Text(elements[1]))
           args == Tail(elements)
           request == value[1] = "array" /\ elements \notin {None, << >>} /\ IsBulk(elements[1])
<1>1. CASE request
  <2>1. /\ MaxDepth \in 0 .. MaxDepth /\ value \in ValuesTo[MaxDepth]
        /\ "array" \notin {"simple", "error", "integer", "bulk"}
    BY RespAssumption DEF Values
  <2>2. PICK V : elements \in Seq(V)
    BY <1>1, <2>1, ValueShape
  <2>3. elements # << >> /\ Head(elements) = elements[1] /\ args \in Seq(V)
    BY <1>1, <2>2
  <2>4. FromResp(value) = ParseArgs(name, args)
    BY <1>1, <2>3 DEF FromResp
  <2>5. \A c : FromResp(value) = Accept(c) <=> TakenFor(elements, c)
    <3> SUFFICES ASSUME NEW c PROVE FromResp(value) = Accept(c) <=> TakenFor(elements, c)
      OBVIOUS
    <3>1. PICK word, rest : word = name /\ rest = args
      OBVIOUS
    <3>2. TakenFor(elements, c) <=> ArgsAsk(word, rest, c)
      BY <2>2, <2>3, <3>1, AsksIs
    <3>3. ParseArgs(word, rest) = Accept(c) <=> ArgsAsk(word, rest, c)
      BY <2>3, <3>1, ArgsAccepted
    <3> QED
      BY <2>4, <3>1, <3>2, <3>3
  <2>6. CASE AcceptsCommand(FromResp(value))
    <3>1. PICK c : FromResp(value) = Accept(c)
      BY <2>6 DEF AcceptsCommand
    <3>2. FromResp(value)[1] = "Ok" /\ FromResp(value)[2] = c
      BY <3>1, AcceptedOnce
    <3>3. TakenFor(elements, FromResp(value)[2])
      BY <2>5, <3>1, <3>2
    <3> QED
      BY <1>1, <3>2, <3>3 DEF AsAsked
  <2>7. CASE Refuses(FromResp(value))
    <3>1. FromResp(value)[1] = "Err"
      BY <2>7, AcceptedOnce DEF Refuses
    <3>2. \A c : ~Asks(elements, c)
      BY <2>5, <2>7, AcceptedOnce DEF TakenFor
    <3> QED
      BY <3>1, <3>2 DEF AsAsked
  <2> QED
    BY <2>6, <2>7, FromRespAnswers
<1>2. CASE ~request
  <2>1. FromResp(value) \in {Refuse(<<"InvalidFormat">>), Refuse(<<"EmptyCommand">>)}
    <3>1. CASE value[1] # "array" \/ elements \in {None, << >>}
      BY <3>1 DEF FromResp
    <3>2. CASE value[1] = "array" /\ elements \notin {None, << >>}
      <4>1. Head(elements) = elements[1]
        BY DEF Head
      <4>2. ~IsBulk(Head(elements))
        BY <1>2, <3>2, <4>1
      <4> QED
        BY <3>2, <4>2 DEF FromResp
    <3> QED
      BY <3>1, <3>2
  <2>2. FromResp(value)[1] = "Err"
    BY <2>1, AcceptedOnce
  <2> QED
    BY <1>2, <2>2 DEF AsAsked
<1> QED
  BY <1>1, <1>2

(***************************************************************************)
(* What from_resp makes of a value is what the value asks for: a command   *)
(* is accepted when and only when it is asked for, and it is that command; *)
(* an INFO with more than one argument, which asks for none, is accepted   *)
(* as if it had one.                                                       *)
(* command.rs: from_resp and the function of each command under it.        *)
(***************************************************************************)
THEOREM ProtocolCommands == Spec => []CommandsAsAsked
<1>1. ProtocolInv => CommandsAsAsked
  <2> SUFFICES ASSUME ProtocolInv PROVE CommandsAsAsked
    OBVIOUS
  <2>1. /\ parsed \in Seq(Values)
        /\ \A i \in 1 .. Len(parsed) : results[i] = FromResp(parsed[i])
    BY DEF ProtocolInv, ParsingInv, Found, Answered
  <2>2. ASSUME NEW i \in DOMAIN parsed PROVE AsAsked(parsed[i], results[i])
    <3>1. parsed[i] \in Values /\ results[i] = FromResp(parsed[i])
      BY <2>1, <2>2
    <3>2. AsAsked(parsed[i], FromResp(parsed[i]))
      BY <3>1, FromRespAsAsked
    <3> QED
      BY <3>1, <3>2
  <2> QED
    BY <2>2 DEF CommandsAsAsked, AsAsked, TakenFor
<1> QED
  BY <1>1, ProtocolInit, ProtocolStep, PTL DEF Spec
=============================================================================
