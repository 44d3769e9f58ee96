------------------------- MODULE SnapshotFormatProofs -------------------------
(***************************************************************************)
(* Saving and loading, for any keys and values, any number of entries in   *)
(* any order, any resolution of the clocks.                                *)
(***************************************************************************)
EXTENDS SnapshotFormat, DataLemmas, FiniteSetTheorems, SequenceTheorems, TLAPS

(***************************************************************************)
(* Time.                                                                   *)
(***************************************************************************)
\* A time of a that is counted in whole seconds.
LEMMA WholeSeconds ==
    ASSUME NEW a \in Nat
    PROVE  /\ Secs(a) \in Nat
           /\ Secs(a) * TicksPerSec <= a /\ a < Secs(a) * TicksPerSec + TicksPerSec
BY FormatAssumption DEF Secs

\* Products with a positive number keep their order.
LEMMA ProductOrder ==
    ASSUME NEW a \in Nat, NEW b \in Nat, NEW t \in Nat \ {0}
    PROVE  /\ a * t \in Nat
           /\ a < b => a * t + t <= b * t
           /\ a <= b => a * t <= b * t
           /\ a * t < b * t + t => a <= b
           /\ (b - a) * t = b * t - a * t
OBVIOUS

\* Seconds are counted in order.
LEMMA SecsOrder ==
    ASSUME NEW a \in Nat, NEW b \in Nat, a <= b
    PROVE  Secs(a) \in Nat /\ Secs(b) \in Nat /\ Secs(a) <= Secs(b)
<1> DEFINE T == TicksPerSec
           x == Secs(a)
           y == Secs(b)
<1>1. x \in Nat /\ y \in Nat /\ x * T <= a /\ b < y * T + T /\ T \in Nat \ {0}
  BY WholeSeconds, FormatAssumption
<1> HIDE DEF T, x, y
<1>2. x * T \in Nat /\ y * T \in Nat /\ (x * T < y * T + T => x <= y)
  BY <1>1, ProductOrder
<1> QED
  BY <1>1, <1>2 DEF x, y

-----------------------------------------------------------------------------
(***************************************************************************)
(* The header.                                                             *)
(***************************************************************************)
\* The name and the width of the i-th field.
Name(i) == Layout[i][1]
Width(i) == Layout[i][2]

\* The offsets of the fields.
Before == <<0, 4, 8, 10, 12, 20, 28, 36, 44>>

\* The fields, one by one.
LEMMA LayoutFacts ==
    /\ Len(Layout) = 9
    /\ Name(1) = "magic" /\ Name(2) = "version" /\ Name(3) = "shard_id"
    /\ Name(4) = "reserved1" /\ Name(5) = "key_count" /\ Name(6) = "timestamp"
    /\ Name(7) = "data_checksum" /\ Name(8) = "header_checksum" /\ Name(9) = "reserved2"
    /\ Width(1) = 4 /\ Width(2) = 4 /\ Width(3) = 2 /\ Width(4) = 2 /\ Width(5) = 8
    /\ Width(6) = 8 /\ Width(7) = 8 /\ Width(8) = 8 /\ Width(9) = 20
BY DEF Layout, Name, Width

\* The offsets continue one another and fill the header.
LEMMA BeforeFacts ==
    /\ Before[1] = 0
    /\ \A i \in 1 .. 8 : Before[i + 1] = Before[i] + Width(i)
    /\ \A i \in 1 .. 9 : Before[i] \in Nat /\ Width(i) \in Nat /\ Before[i] + Width(i) <= 64
    /\ Before[9] + Width(9) = 64
<1>1. Before[1] = 0 /\ Before[2] = 4 /\ Before[3] = 8 /\ Before[4] = 10 /\ Before[5] = 12
      /\ Before[6] = 20 /\ Before[7] = 28 /\ Before[8] = 36 /\ Before[9] = 44
  BY DEF Before
<1>2. \A i \in 1 .. 9 : i \in {1, 2, 3, 4, 5, 6, 7, 8, 9}
  OBVIOUS
<1>3. \A i \in 1 .. 8 : i \in {1, 2, 3, 4, 5, 6, 7, 8}
  OBVIOUS
<1> QED
  BY <1>1, <1>2, <1>3, LayoutFacts

\* A sum over one index more.
LEMMA SumOneMore ==
    ASSUME NEW n \in Nat, NEW f, \A i \in 1 .. n + 1 : f[i] \in Nat
    PROVE  SumFunctionOnSet(f, 1 .. n + 1) = f[n + 1] + SumFunctionOnSet(f, 1 .. n)
<1> DEFINE S == 1 .. n + 1
           x == n + 1
<1>1. IsFiniteSet(S) /\ x \in S /\ S \ {x} = 1 .. n
  BY FS_Interval
<1>2. \A i \in S : f[i] \in Nat
  OBVIOUS
<1> HIDE DEF S, x
<1>3. SumFunctionOnSet(f, S) = f[x] + SumFunctionOnSet(f, S \ {x})
  BY <1>1, <1>2, SumTakingOut
<1> QED
  BY <1>1, <1>3 DEF S, x

\* ReadField looks for a field where WriteHeader has put it.
LEMMA FieldOffset ==
    ASSUME NEW i \in 1 .. 9
    PROVE  SumFunction([j \in 1 .. i - 1 |-> Layout[j][2]]) = Before[i]
<1> DEFINE W == [j \in 1 .. 9 |-> Width(j)]
           s(n) == SumFunctionOnSet(W, 1 .. n)
<1>1. \A j \in 1 .. 9 : W[j] = Width(j) /\ W[j] \in Nat
  BY BeforeFacts
<1> HIDE DEF W
<1>2. s(0) = 0
  <2>1. 1 .. 0 = {}
    OBVIOUS
  <2> QED
    BY <2>1, SumOfNone
<1>3. ASSUME NEW n \in 0 .. 8 PROVE s(n + 1) = W[n + 1] + s(n)
  <2>1. n \in Nat /\ \A j \in 1 .. n + 1 : W[j] \in Nat
    BY <1>1
  <2> QED
    BY <2>1, SumOneMore
<1> HIDE DEF s
<1>4. /\ s(0) = 0 /\ s(1) = 4 /\ s(2) = 8 /\ s(3) = 10 /\ s(4) = 12 /\ s(5) = 20
      /\ s(6) = 28 /\ s(7) = 36 /\ s(8) = 44
  <2>1. /\ W[1] = 4 /\ W[2] = 4 /\ W[3] = 2 /\ W[4] = 2 /\ W[5] = 8 /\ W[6] = 8
        /\ W[7] = 8 /\ W[8] = 8
    BY <1>1, LayoutFacts
  <2>2. s(0 + 1) = W[0 + 1] + s(0) /\ s(1 + 1) = W[1 + 1] + s(1)
        /\ s(2 + 1) = W[2 + 1] + s(2) /\ s(3 + 1) = W[3 + 1] + s(3)
        /\ s(4 + 1) = W[4 + 1] + s(4) /\ s(5 + 1) = W[5 + 1] + s(5)
        /\ s(6 + 1) = W[6 + 1] + s(6) /\ s(7 + 1) = W[7 + 1] + s(7)
    BY <1>3
  <2> QED
    BY <1>2, <2>1, <2>2
<1>5. s(i - 1) = Before[i]
  <2>1. i \in {1, 2, 3, 4, 5, 6, 7, 8, 9}
    OBVIOUS
  <2> QED
    BY <1>4, <2>1 DEF Before
<1> DEFINE g == [j \in 1 .. i - 1 |-> Layout[j][2]]
<1>6. IsFiniteSet(1 .. i - 1) /\ \A j \in 1 .. i - 1 : g[j] = W[j]
  <2>1. IsFiniteSet(1 .. i - 1)
    BY FS_Interval
  <2>2. \A j \in 1 .. i - 1 : j \in 1 .. 9
    OBVIOUS
  <2> QED
    BY <1>1, <2>1, <2>2 DEF Width
<1>7. SumFunction(g) = SumFunctionOnSet(g, 1 .. i - 1)
  BY DEF SumFunction
<1> HIDE DEF g
<1>8. SumFunctionOnSet(g, 1 .. i - 1) = SumFunctionOnSet(W, 1 .. i - 1)
  BY <1>6, SumOfEqual
<1> QED
  BY <1>5, <1>7, <1>8 DEF g, s

\* What a field holds tells its bytes.
LEMMA BytesTell ==
    ASSUME NEW v, NEW u, NEW w \in Nat \ {0}, Bytes(v, w) = Bytes(u, w)
    PROVE  v = u
<1>1. Bytes(v, w)[1] = Bytes(u, w)[1] /\ 1 \in 1 .. w
  OBVIOUS
<1>2. (IF v = Zero THEN Zero ELSE <<v, 1>>) = (IF u = Zero THEN Zero ELSE <<u, 1>>)
  BY <1>1 DEF Bytes
<1>3. <<v, 1>> # << >> /\ <<u, 1>> # << >>
  OBVIOUS
<1> QED
  BY <1>2, <1>3 DEF Zero

\* The bytes of the i-th field of a header are those of v.
FieldHolds(h, i, v) ==
    \A j \in 1 .. Width(i) : h[Before[i] + j] = Bytes(v, Width(i))[j]

\* A field is read at its offset.
LEMMA FieldPlace ==
    ASSUME NEW h, NEW i \in 1 .. 9
    PROVE  ReadField(h, Name(i)) = SubSeq(h, Before[i] + 1, Before[i] + Width(i))
<1>1. (CHOOSE j \in 1 .. Len(Layout) : Layout[j][1] = Name(i)) = i
  <2>1. ASSUME NEW j \in 1 .. 9, Name(j) = Name(i) PROVE j = i
    <3>1. i \in {1, 2, 3, 4, 5, 6, 7, 8, 9} /\ j \in {1, 2, 3, 4, 5, 6, 7, 8, 9}
      OBVIOUS
    <3> QED
      BY <2>1, <3>1, LayoutFacts
  <2>2. Len(Layout) = 9
    BY LayoutFacts
  <2> QED
    BY <2>1, <2>2 DEF Name
<1>2. SumFunction([j \in 1 .. i - 1 |-> Layout[j][2]]) = Before[i]
  BY FieldOffset
<1> QED
  BY <1>1, <1>2 DEF ReadField, Width

\* A field reads as what its bytes say, and as nothing else.
LEMMA FieldRead ==
    ASSUME NEW h, NEW i \in 1 .. 9, NEW v, FieldHolds(h, i, v)
    PROVE  \A u : Is(h, Name(i), u) <=> u = v
<1> DEFINE w == Width(i)
           b == Before[i]
<1>1. w \in Nat \ {0} /\ b \in Nat
  <2>1. i \in {1, 2, 3, 4, 5, 6, 7, 8, 9}
    OBVIOUS
  <2> QED
    BY <2>1, LayoutFacts, BeforeFacts
<1>3. ReadField(h, Name(i)) = SubSeq(h, b + 1, b + w)
  BY FieldPlace
<1>4. SubSeq(h, b + 1, b + w) = Bytes(v, w)
  <2> DEFINE A == {Bytes(v, w)[j] : j \in 1 .. w}
             s == SubSeq(h, b + 1, b + w)
             t == Bytes(v, w)
  <2>1. \A j \in b + 1 .. b + w : h[j] \in A
    <3> TAKE j \in b + 1 .. b + w
    <3> DEFINE x == j - b
    <3>1. x \in 1 .. w /\ b + x = j
      <4> HIDE DEF b, w
      <4> QED
        BY <1>1
    <3>2. h[b + x] = Bytes(v, w)[x]
      BY <3>1 DEF FieldHolds
    <3> QED
      BY <3>1, <3>2
  <2>2. b + 1 \in Int /\ b + w \in Int /\ (b + w) - (b + 1) + 1 = w /\ b + 1 <= b + w
    BY <1>1
  <2>3. t \in Seq(A) /\ Len(t) = w
    BY <1>1 DEF Bytes
  <2> HIDE DEF A, b, w
  <2>4. s \in Seq(A) /\ Len(s) = w /\ \A j \in 1 .. w : s[j] = h[(b + 1) + j - 1]
    BY <2>1, <2>2, SubSeqProperties
  <2>5. \A j \in 1 .. w : s[j] = t[j]
    <3>1. \A j \in 1 .. w : h[b + j] = t[j]
      BY DEF b, w, FieldHolds
    <3>2. \A j \in 1 .. w : (b + 1) + j - 1 = b + j
      BY <1>1
    <3> QED
      BY <2>4, <3>1, <3>2
  <2> HIDE DEF s, t
  <2>6. s = t
    BY <2>3, <2>4, <2>5, SeqEqual
  <2> QED
    BY <2>6 DEF s, t
<1>5. Len(Bytes(v, w)) = w
  BY <1>1 DEF Bytes
<1> QED
  BY <1>1, <1>3, <1>4, <1>5, BytesTell DEF Is

\* What WriteHeader writes for the field of a name.
Held(fields, name) == IF name \in DOMAIN fields THEN fields[name] ELSE Zero

\* WriteHeader writes a header's 64 bytes, every field at its offset.
LEMMA HeaderWritten ==
    ASSUME NEW fields
    PROVE  /\ DOMAIN WriteHeader(fields) = 1 .. 64 /\ Len(WriteHeader(fields)) = 64
           /\ \A i \in 1 .. 9 : \A j \in 1 .. Width(i) :
                WriteHeader(fields)[Before[i] + j] = Bytes(Held(fields, Name(i)), Width(i))[j]
<1> DEFINE field(i) == Bytes(Held(fields, Name(i)), Width(i))
           seqs == [i \in 1 .. 9 |-> field(i)]
           S == UNION {{field(i)[j] : j \in 1 .. Width(i)} : i \in 1 .. 9}
           n == 9
<1>1. \A i \in 1 .. n : field(i) \in Seq(S) /\ Len(field(i)) = Width(i)
  <2> TAKE i \in 1 .. n
  <2>1. Width(i) \in Nat
    BY BeforeFacts
  <2>2. field(i) = [j \in 1 .. Width(i) |-> field(i)[j]]
    BY DEF Bytes
  <2>3. \A j \in 1 .. Width(i) : field(i)[j] \in S
    OBVIOUS
  <2> HIDE DEF field, S
  <2>4. [j \in 1 .. Width(i) |-> field(i)[j]] \in Seq(S)
    BY <2>1, <2>3
  <2> QED
    BY <2>1, <2>2, <2>4
<1>2. WriteHeader(fields) = FlattenSeq(seqs)
  BY LayoutFacts DEF WriteHeader, Held, Name, Width
<1>3. seqs \in [1 .. n -> Seq(S)] /\ n \in Nat
  BY <1>1
<1>4. \A i \in 1 .. n : seqs[i] = field(i)
  OBVIOUS
<1> HIDE DEF S, seqs, field, n
<1> DEFINE F == FlattenSeq(seqs)
<1>5. F \in Seq(S)
  BY <1>3, FlattenPieces
<1>6. PICK off \in [0 .. n -> Nat] : Pieces(F, seqs, off, n)
  BY <1>3, FlattenPieces
<1> HIDE DEF F
<1>7. \A i \in 1 .. 9 : off[i] = off[i - 1] + Width(i)
  <2>1. \A i \in 1 .. n : off[i] = off[i - 1] + Len(seqs[i])
    BY <1>6 DEF Pieces
  <2>2. \A i \in 1 .. n : Len(seqs[i]) = Width(i)
    BY <1>1, <1>4
  <2> QED
    BY <2>1, <2>2, Zenon DEF n
<1>8. \A i \in 1 .. 9 : off[i - 1] = Before[i]
  <2>1. /\ off[0 + 1] = off[0] + Width(1) /\ off[1 + 1] = off[1] + Width(2)
        /\ off[2 + 1] = off[2] + Width(3) /\ off[3 + 1] = off[3] + Width(4)
        /\ off[4 + 1] = off[4] + Width(5) /\ off[5 + 1] = off[5] + Width(6)
        /\ off[6 + 1] = off[6] + Width(7) /\ off[7 + 1] = off[7] + Width(8)
    BY <1>7
  <2>2. off[0] = 0
    BY <1>6 DEF Pieces
  <2>3. /\ off[1] = 4 /\ off[2] = 8 /\ off[3] = 10 /\ off[4] = 12 /\ off[5] = 20
        /\ off[6] = 28 /\ off[7] = 36 /\ off[8] = 44
    <3>1. off[1] = 4 /\ off[2] = 8 /\ off[3] = 10 /\ off[4] = 12
      BY <2>1, <2>2, LayoutFacts
    <3>2. off[5] = 20 /\ off[6] = 28 /\ off[7] = 36 /\ off[8] = 44
      BY <2>1, <3>1, LayoutFacts
    <3> QED
      BY <3>1, <3>2
  <2>4. \A i \in 1 .. 9 : i \in {1, 2, 3, 4, 5, 6, 7, 8, 9}
    OBVIOUS
  <2> QED
    BY <2>2, <2>3, <2>4 DEF Before
<1>9. Len(F) = 64
  <2>1. off[9] = off[8] + Width(9) /\ off[8] = Before[9]
    BY <1>7, <1>8
  <2> QED
    BY <1>6, <2>1, BeforeFacts DEF n, Pieces
<1>10. DOMAIN F = 1 .. 64
  BY <1>5, <1>9
<1>11. ASSUME NEW i \in 1 .. 9, NEW j \in 1 .. Width(i) PROVE F[Before[i] + j] = field(i)[j]
  <2>1. i \in 1 .. n
    BY DEF n
  <2>2. off[i - 1] = Before[i] /\ seqs[i] = field(i) /\ Len(seqs[i]) = Width(i)
    BY <1>1, <1>4, <1>8, <2>1
  <2>3. F[off[i - 1] + j] = seqs[i][j]
    BY <1>6, <2>1, <2>2 DEF Pieces
  <2> QED
    BY <2>2, <2>3
<1> QED
  BY <1>2, <1>9, <1>10, <1>11 DEF F, field

\* Sealing changes nothing before and behind the checksums, and no length.
LEMMA SealedKeeps ==
    ASSUME NEW h, NEW body, DOMAIN h = 1 .. 64, Len(h) = 64
    PROVE  /\ Len(Sealed(h, body)) = 64
           /\ \A i \in 1 .. 32 \cup 49 .. 64 : Sealed(h, body)[i] = h[i]
<1> DEFINE c == Bytes(DataCrc(body), 8)
           d == Bytes(HeaderCrc(SubSeq(h, 1, 56)), 8)
           g == Overwrite(h, 32, c)
<1>1. Len(c) = 8 /\ Len(d) = 8
  BY DEF Bytes
<1> HIDE DEF c, d
<1>2. /\ g = [i \in 1 .. 64 |-> IF i - 32 \in 1 .. 8 THEN c[i - 32] ELSE h[i]]
      /\ Len(g) = 64
  BY <1>1 DEF Overwrite
<1> HIDE DEF g
<1>3. /\ Overwrite(g, 40, d) = [i \in 1 .. 64 |-> IF i - 40 \in 1 .. 8 THEN d[i - 40] ELSE g[i]]
      /\ Len(Overwrite(g, 40, d)) = 64
  BY <1>1, <1>2 DEF Overwrite
<1>4. Sealed(h, body) = Overwrite(g, 40, d)
  BY DEF Sealed, g, c, d
<1>5. ASSUME NEW i \in 1 .. 32 \cup 49 .. 64 PROVE Sealed(h, body)[i] = h[i]
  <2>1. i \in 1 .. 64 /\ i - 32 \notin 1 .. 8 /\ i - 40 \notin 1 .. 8
    OBVIOUS
  <2>2. g[i] = h[i]
    BY <1>2, <2>1
  <2> QED
    BY <1>3, <1>4, <2>1, <2>2
<1> QED
  BY <1>3, <1>4, <1>5

-----------------------------------------------------------------------------
(***************************************************************************)
(* A deadline in the file and back.                                        *)
(***************************************************************************)
\* The later of a deadline and the time at which it was saved.
Later(d, w) == IF d > w THEN d ELSE w

\* saturating_duration_since.
LEMMA MaxWithZero ==
    ASSUME NEW x \in Int
    PROVE  Max({x, 0}) = IF x > 0 THEN x ELSE 0
<1> DEFINE m == IF x > 0 THEN x ELSE 0
<1>1. m \in {x, 0} /\ \A y \in {x, 0} : m >= y
  OBVIOUS
<1>2. ASSUME NEW z \in {x, 0}, \A y \in {x, 0} : z >= y PROVE z = m
  BY <1>2
<1> HIDE DEF m
<1>3. Max({x, 0}) = m
  BY <1>1, <1>2 DEF Max
<1> QED
  BY <1>3 DEF m

\* instant_to_unix_timestamp writes the second of the deadline, or this one.
LEMMA StampWritten ==
    ASSUME wall \in Nat, boot \in 0 .. wall, NEW x \in Nat
    PROVE  InstantToUnix(x) = Secs(Later(boot + x, wall))
<1>1. Max({x - Now, 0}) = IF x - Now > 0 THEN x - Now ELSE 0
  BY MaxWithZero DEF Now
<1>2. wall + Max({x - Now, 0}) = Later(boot + x, wall)
  BY <1>1 DEF Later, Now
<1> QED
  BY <1>2 DEF InstantToUnix

\* What unix_timestamp_to_instant makes of it, later and maybe on another
\* machine: less than a second is lost or won, unless the deadline has passed,
\* and it has not passed unless it comes out as now.
LEMMA StampRead ==
    ASSUME wall \in Nat, boot \in 0 .. wall,
           NEW w \in Nat, w <= wall, NEW d \in Nat,
           NEW n \in Nat, Secs(w) <= n, NEW s, s = Secs(Later(d, w)), s > n
    PROVE  LET x == UnixToInstant(s)
           IN  /\ x \in Nat
               /\ \/ boot + x - d \in 1 - TicksPerSec .. TicksPerSec - 1
                  \/ x <= Now /\ d <= wall
               /\ x <= Now \/ d > wall
<1> DEFINE T == TicksPerSec
           a == Secs(wall)
           x == UnixToInstant(s)
<1>1. T \in Nat \ {0} /\ Now \in Nat /\ boot + Now = wall /\ boot \in Nat
  BY FormatAssumption DEF Now
<1>2. a \in Nat /\ a * T <= wall /\ wall < a * T + T
  BY WholeSeconds
<1>3. Later(d, w) = d
  <2>1. CASE ~(d > w)
    BY <2>1, WholeSeconds DEF Later
  <2>2. CASE d > w
    BY <2>2 DEF Later
  <2> QED
    BY <2>1, <2>2
<1>4. s \in Nat /\ s * T <= d /\ d < s * T + T
  BY <1>3, WholeSeconds
<1> HIDE DEF a, T
<1>5. /\ s > a => a * T + T <= s * T /\ s - a \in Nat
      /\ s < a => s * T + T <= a * T
      /\ (s - a) * T = s * T - a * T /\ s * T \in Nat /\ a * T \in Nat
  BY <1>1, <1>2, <1>4, ProductOrder
<1>6. CASE s > a
  <2>1. x = Now + (s * T - a * T)
    BY <1>5, <1>6 DEF UnixToInstant, a, T
  <2>2. x \in Nat /\ boot + x = wall + s * T - a * T
    <3>1. PICK p, q : p = s * T /\ q = a * T
      OBVIOUS
    <3>2. p \in Nat /\ q \in Nat /\ q < p /\ x = Now + (p - q)
      BY <1>1, <1>5, <1>6, <2>1, <3>1
    <3>3. x \in Nat /\ boot + x = wall + p - q
      BY <1>1, <3>2
    <3> QED
      BY <3>1, <3>3
  <2>3. boot + x - d < T /\ d - (boot + x) < T /\ d > wall
    BY <1>1, <1>2, <1>4, <1>5, <1>6, <2>2
  <2>4. boot + x - d \in 1 - T .. T - 1
    BY <1>1, <2>2, <2>3
  <2> QED
    BY <2>2, <2>3, <2>4 DEF T
<1>7. CASE ~(s > a)
  <2>1. x = Now
    BY <1>7 DEF UnixToInstant, a
  <2>2. CASE s < a
    <3>1. s * T + T <= a * T /\ s * T \in Nat /\ a * T \in Nat
      BY <1>5, <2>2
    <3>2. d < wall
      BY <1>1, <1>2, <1>4, <3>1
    <3> QED
      BY <2>1, <3>2, <1>1
  <2>3. CASE s = a
    <3>1. boot + x - d \in 1 - T .. T - 1
      BY <1>1, <1>2, <1>4, <1>5, <2>1, <2>3
    <3> QED
      BY <1>1, <2>1, <3>1 DEF T
  <2> QED
    BY <1>2, <1>4, <1>7, <2>2, <2>3
<1> QED
  BY <1>6, <1>7

\* A deadline that is skipped comes within the second in which the load began.
LEMMA StampSkipped ==
    ASSUME NEW w \in Nat, NEW d \in Nat, NEW n \in Nat, Secs(w) <= n,
           Secs(Later(d, w)) <= n
    PROVE  d < (n + 1) * TicksPerSec
<1> DEFINE T == TicksPerSec
<1>1. T \in Nat \ {0}
  BY FormatAssumption
<1>2. \A v \in Nat : Secs(v) \in Nat /\ v < Secs(v) * T + T
  BY WholeSeconds
<1> HIDE DEF T
<1>3. \A v \in Nat : Secs(v) <= n => v < n * T + T
  <2> SUFFICES ASSUME NEW v \in Nat, Secs(v) <= n PROVE v < n * T + T
    OBVIOUS
  <2>1. Secs(v) * T <= n * T /\ Secs(v) * T \in Nat /\ n * T \in Nat
    BY <1>1, <1>2, ProductOrder
  <2> QED
    BY <1>1, <1>2, <2>1
<1>4. d <= Later(d, w) /\ Later(d, w) \in Nat
  BY DEF Later
<1>5. d < n * T + T
  <2>1. Later(d, w) < n * T + T
    BY <1>3, <1>4
  <2>2. n * T \in Nat
    BY <1>1, ProductOrder
  <2> QED
    BY <1>1, <1>4, <2>1, <2>2
<1>6. (n + 1) * T = n * T + T
  BY <1>1
<1> QED
  BY <1>5, <1>6 DEF T

-----------------------------------------------------------------------------
(***************************************************************************)
(* An entry in the file and back.                                          *)
(***************************************************************************)
\* The bytes of an entry: lengths, key, value, flag and time.
EntryBytes(k, v, t) ==
    <<Len(k)>> \o k \o <<Len(v)>> \o v \o IF t = None THEN <<0>> ELSE <<1, t>>

\* Where the parts of a concatenation are.
LEMMA ConcatIs ==
    ASSUME NEW s \in Seq(Nat), NEW t \in Seq(Nat)
    PROVE  /\ s \o t \in Seq(Nat) /\ Len(s \o t) = Len(s) + Len(t)
           /\ \A j \in 1 .. Len(s) : (s \o t)[j] = s[j]
           /\ \A j \in 1 .. Len(t) : (s \o t)[Len(s) + j] = t[j]
OBVIOUS

\* Where serialize_entry puts the lengths, the bytes, the flag and the time.
LEMMA EntryLaidOut ==
    ASSUME NEW k \in Seq(Nat), NEW v \in Seq(Nat), NEW t \in Nat \cup {None}
    PROVE  LET e == EntryBytes(k, v, t)
               K == Len(k)
               V == Len(v)
           IN  /\ e \in Seq(Nat) /\ Len(e) = IF t = None THEN K + V + 3 ELSE K + V + 4
               /\ e[1] = K /\ \A j \in 1 .. K : e[1 + j] = k[j]
               /\ e[K + 2] = V /\ \A j \in 1 .. V : e[K + 2 + j] = v[j]
               /\ e[K + V + 3] = IF t = None THEN 0 ELSE 1
               /\ t # None => e[K + V + 4] = t
<1> DEFINE K == Len(k)
           V == Len(v)
           a == <<K>> \o k
           b == a \o <<V>>
           c == b \o v
           f == IF t = None THEN <<0>> ELSE <<1, t>>
           e == c \o f
<1>1. K \in Nat /\ V \in Nat
  OBVIOUS
<1>2. EntryBytes(k, v, t) = e
  BY DEF EntryBytes
<1>3. /\ f \in Seq(Nat) /\ Len(f) = IF t = None THEN 1 ELSE 2
      /\ f[1] = IF t = None THEN 0 ELSE 1
      /\ t # None => f[2] = t
  <2>1. CASE t = None
    BY <2>1
  <2>2. CASE t # None
    BY <2>2
  <2> QED
    BY <2>1, <2>2
<1> HIDE DEF K, V, f
<1>4. /\ a \in Seq(Nat) /\ Len(a) = K + 1 /\ a[1] = K
      /\ \A j \in 1 .. K : a[1 + j] = k[j]
  BY <1>1 DEF K
<1> HIDE DEF a
<1>5. /\ b \in Seq(Nat) /\ Len(b) = K + 2 /\ b[K + 2] = V
      /\ \A j \in 1 .. K + 1 : b[j] = a[j]
  BY <1>1, <1>4
<1> HIDE DEF b
<1>6. /\ c \in Seq(Nat) /\ Len(c) = K + 2 + V
      /\ \A j \in 1 .. K + 2 : c[j] = b[j]
      /\ \A j \in 1 .. V : c[K + 2 + j] = v[j]
  <2>1. /\ c \in Seq(Nat) /\ Len(c) = Len(b) + Len(v)
        /\ \A j \in 1 .. Len(b) : c[j] = b[j]
        /\ \A j \in 1 .. Len(v) : c[Len(b) + j] = v[j]
    BY <1>5, ConcatIs
  <2> HIDE DEF c
  <2> QED
    BY <1>5, <2>1 DEF V
<1> HIDE DEF c
<1>7. /\ e \in Seq(Nat) /\ Len(e) = K + 2 + V + Len(f)
      /\ \A j \in 1 .. K + 2 + V : e[j] = c[j]
      /\ \A j \in 1 .. Len(f) : e[K + 2 + V + j] = f[j]
  <2>1. /\ e \in Seq(Nat) /\ Len(e) = Len(c) + Len(f)
        /\ \A j \in 1 .. Len(c) : e[j] = c[j]
        /\ \A j \in 1 .. Len(f) : e[Len(c) + j] = f[j]
    BY <1>3, <1>6, ConcatIs
  <2> HIDE DEF e
  <2> QED
    BY <1>6, <2>1
<1> HIDE DEF e
<1>8. e[1] = K /\ e[K + 2] = V
  <2>1. 1 \in 1 .. K + 1 /\ 1 \in 1 .. K + 2 /\ 1 \in 1 .. K + 2 + V
        /\ K + 2 \in 1 .. K + 2 /\ K + 2 \in 1 .. K + 2 + V
    BY <1>1
  <2>2. e[1] = c[1] /\ c[1] = b[1] /\ b[1] = a[1]
    BY <1>5, <1>6, <1>7, <2>1
  <2>3. e[K + 2] = c[K + 2] /\ c[K + 2] = b[K + 2]
    BY <1>6, <1>7, <2>1
  <2> QED
    BY <1>4, <1>5, <2>2, <2>3
<1>9. ASSUME NEW j \in 1 .. K PROVE e[1 + j] = k[j]
  <2>1. 1 + j \in 1 .. K + 1 /\ 1 + j \in 1 .. K + 2 /\ 1 + j \in 1 .. K + 2 + V
    BY <1>1
  <2> QED
    BY <1>4, <1>5, <1>6, <1>7, <2>1
<1>10. ASSUME NEW j \in 1 .. V PROVE e[K + 2 + j] = v[j]
  <2>1. K + 2 + j \in 1 .. K + 2 + V
    BY <1>1
  <2> QED
    BY <1>6, <1>7, <2>1
<1>11. e[K + V + 3] = f[1] /\ (t # None => e[K + V + 4] = f[2])
  <2>1. K + V + 3 = K + 2 + V + 1 /\ K + V + 4 = K + 2 + V + 2
    BY <1>1
  <2> QED
    BY <1>3, <1>7, <2>1
<1>12. Len(e) = IF t = None THEN K + V + 3 ELSE K + V + 4
  BY <1>1, <1>3, <1>7
<1> QED
  BY <1>2, <1>3, <1>7, <1>8, <1>9, <1>10, <1>11, <1>12 DEF K, V

\* A piece of a sequence.
LEMMA SubSeqIs ==
    ASSUME NEW s \in Seq(Nat), NEW p \in Nat, NEW x \in Seq(Nat),
           p + Len(x) <= Len(s), \A j \in 1 .. Len(x) : s[p + j] = x[j]
    PROVE  SubSeq(s, p + 1, p + Len(x)) = x
<1> DEFINE n == Len(x)
           y == SubSeq(s, p + 1, p + n)
<1>1. n \in Nat /\ Len(s) \in Nat /\ p + 1 \in Int /\ p + n \in Int
  OBVIOUS
<1> HIDE DEF n
<1>2. \A i \in p + 1 .. p + n : s[i] \in Nat
  <2>1. \A i \in p + 1 .. p + n : i \in 1 .. Len(s)
    BY <1>1 DEF n
  <2> QED
    BY <2>1
<1>3. /\ y \in Seq(Nat) /\ Len(y) = IF p + 1 <= p + n THEN (p + n) - (p + 1) + 1 ELSE 0
      /\ \A i \in 1 .. (p + n) - (p + 1) + 1 : y[i] = s[(p + 1) + i - 1]
  BY <1>1, <1>2, SubSeqProperties
<1> HIDE DEF y
<1>4. Len(y) = n /\ (p + n) - (p + 1) + 1 = n
  BY <1>1, <1>3
<1>5. \A i \in 1 .. n : y[i] = x[i]
  <2>1. \A i \in 1 .. n : (p + 1) + i - 1 = p + i
    BY <1>1
  <2>2. \A i \in 1 .. n : s[p + i] = x[i]
    BY DEF n
  <2> QED
    BY <1>3, <1>4, <2>1, <2>2
<1>6. y = x
  BY <1>3, <1>4, <1>5, SeqEqual DEF n
<1> QED
  BY <1>6 DEF y, n

\* deserialize_entry reads what serialize_entry wrote.
LEMMA EntryReadBack ==
    ASSUME NEW k \in Seq(Nat), NEW v \in Seq(Nat), NEW t \in Nat \cup {None},
           NEW body \in Seq(Nat), NEW p \in Nat,
           p + Len(EntryBytes(k, v, t)) <= Len(body),
           \A j \in 1 .. Len(EntryBytes(k, v, t)) : body[p + j] = EntryBytes(k, v, t)[j]
    PROVE  DecodeEntry(body, p + 1) =
             [key |-> k, value |-> v, timestamp |-> t,
              next |-> p + 1 + Len(EntryBytes(k, v, t))]
<1> DEFINE e == EntryBytes(k, v, t)
           K == Len(k)
           V == Len(v)
<1>1. K \in Nat /\ V \in Nat /\ Len(body) \in Nat
  OBVIOUS
<1>2. /\ e \in Seq(Nat) /\ Len(e) = IF t = None THEN K + V + 3 ELSE K + V + 4
      /\ e[1] = K /\ \A j \in 1 .. K : e[1 + j] = k[j]
      /\ e[K + 2] = V /\ \A j \in 1 .. V : e[K + 2 + j] = v[j]
      /\ e[K + V + 3] = IF t = None THEN 0 ELSE 1
      /\ t # None => e[K + V + 4] = t
  BY EntryLaidOut
<1>3. p + Len(e) <= Len(body) /\ \A j \in 1 .. Len(e) : body[p + j] = e[j]
  OBVIOUS
<1> DEFINE E == Len(e)
<1>0. /\ E \in Nat /\ E >= K + V + 3 /\ p + E <= Len(body)
      /\ t = None => E = K + V + 3
      /\ t # None => E = K + V + 4
  BY <1>1, <1>2, <1>3
<1> HIDE DEF e
<1>4. body[p + 1] = K /\ body[p + K + 2] = V
      /\ body[p + K + V + 3] = (IF t = None THEN 0 ELSE 1)
      /\ (t # None => body[p + K + V + 4] = t)
  <2>1. /\ 1 \in 1 .. Len(e) /\ K + 2 \in 1 .. Len(e) /\ K + V + 3 \in 1 .. Len(e)
        /\ t # None => K + V + 4 \in 1 .. Len(e)
    <3> HIDE DEF K, V, E
    <3> QED
      BY <1>0, <1>1 DEF E
  <2>2. body[p + (K + 2)] = V /\ body[p + (K + V + 3)] = (IF t = None THEN 0 ELSE 1)
        /\ (t # None => body[p + (K + V + 4)] = t) /\ body[p + 1] = K
    BY <1>2, <1>3, <2>1
  <2>3. /\ p + (K + 2) = p + K + 2 /\ p + (K + V + 3) = p + K + V + 3
        /\ p + (K + V + 4) = p + K + V + 4
    BY <1>1
  <2> QED
    BY <2>2, <2>3
<1>5. SubSeq(body, p + 2, p + K + 1) = k
  <2> DEFINE q == p + 1
  <2>1. q \in Nat /\ q + K <= Len(body)
    BY <1>0, <1>1
  <2>2. ASSUME NEW j \in 1 .. K PROVE body[q + j] = k[j]
    <3>1. 1 + j \in 1 .. Len(e) /\ q + j = p + (1 + j)
      <4> HIDE DEF K, V, E
      <4> QED
        BY <1>0, <1>1 DEF E
    <3> QED
      BY <1>2, <1>3, <3>1
  <2>3. q + 1 = p + 2 /\ q + K = p + K + 1
    BY <1>1
  <2> HIDE DEF q
  <2>4. SubSeq(body, q + 1, q + K) = k
    BY <2>1, <2>2, SubSeqIs
  <2> QED
    BY <2>3, <2>4
<1>6. SubSeq(body, p + K + 3, p + K + V + 2) = v
  <2> DEFINE q == p + K + 2
  <2>1. q \in Nat /\ q + V <= Len(body)
    <3> HIDE DEF K, V, E
    <3> QED
      BY <1>0, <1>1
  <2>2. ASSUME NEW j \in 1 .. V PROVE body[q + j] = v[j]
    <3>1. K + 2 + j \in 1 .. Len(e) /\ q + j = p + (K + 2 + j)
      <4> HIDE DEF K, V, E
      <4> QED
        BY <1>0, <1>1 DEF E
    <3> QED
      BY <1>2, <1>3, <3>1
  <2>3. q + 1 = p + K + 3 /\ q + V = p + K + V + 2
    BY <1>1
  <2> HIDE DEF q
  <2>4. SubSeq(body, q + 1, q + V) = v
    BY <2>1, <2>2, SubSeqIs
  <2> QED
    BY <2>3, <2>4
<1>7. DecodeEntry(body, p + 1) =
        [key |-> SubSeq(body, p + 2, p + K + 1),
         value |-> SubSeq(body, p + K + 3, p + K + V + 2),
         timestamp |-> t,
         next |-> p + 1 + Len(e)]
  <2> HIDE DEF K, V
  <2> DEFINE value == (p + 1) + 1 + body[p + 1]
             flag == value + 1 + body[value]
  <2>1. value = p + K + 2
    BY <1>1, <1>4
  <2>2. flag = p + K + V + 3
    <3>1. flag = value + 1 + body[value]
      OBVIOUS
    <3> HIDE DEF value, flag
    <3>2. body[value] = V
      BY <1>4, <2>1
    <3> QED
      BY <1>1, <2>1, <3>1, <3>2
  <2>3. (p + 1) + 1 = p + 2 /\ value - 1 = p + K + 1 /\ value + 1 = p + K + 3
        /\ flag - 1 = p + K + V + 2
    <3> HIDE DEF value, flag
    <3>1. value - 1 = p + K + 1 /\ value + 1 = p + K + 3
      BY <1>1, <2>1
    <3>2. (p + 1) + 1 = p + 2 /\ flag - 1 = p + K + V + 2
      BY <1>1, <2>2
    <3> QED
      BY <3>1, <3>2
  <2>4. flag + 1 = p + K + V + 4 /\ (body[flag] = 1 <=> t # None)
    <3> HIDE DEF value, flag
    <3>1. body[flag] = 1 <=> t # None
      BY <1>4, <2>2
    <3> QED
      BY <1>1, <2>2, <3>1
  <2>5. (IF body[flag] = 1 THEN body[flag + 1] ELSE None) = t
    BY <1>4, <2>4
  <2>6. (IF body[flag] = 1 THEN flag + 2 ELSE flag + 1) = p + 1 + Len(e)
    <3>0. E = Len(e)
      OBVIOUS
    <3> HIDE DEF value, flag, E
    <3>1. CASE t = None
      <4>1. flag + 1 = p + 1 + E
        BY <1>0, <1>1, <2>2, <3>1
      <4> QED
        BY <2>4, <3>0, <3>1, <4>1
    <3>2. CASE t # None
      <4>1. flag + 2 = p + 1 + E
        BY <1>0, <1>1, <2>2, <3>2
      <4> QED
        BY <2>4, <3>0, <3>2, <4>1
    <3> QED
      BY <3>1, <3>2
  <2>7. DecodeEntry(body, p + 1) =
          [key |-> SubSeq(body, (p + 1) + 1, value - 1),
           value |-> SubSeq(body, value + 1, flag - 1),
           timestamp |-> IF body[flag] = 1 THEN body[flag + 1] ELSE None,
           next |-> IF body[flag] = 1 THEN flag + 2 ELSE flag + 1]
    BY DEF DecodeEntry
  <2> HIDE DEF value, flag
  <2> QED
    BY <2>3, <2>5, <2>6, <2>7
<1> QED
  BY <1>5, <1>6, <1>7 DEF e

-----------------------------------------------------------------------------
(***************************************************************************)
(* The data section and back.                                              *)
(***************************************************************************)
\* The time written for an entry's deadline, by a server started at b and at
\* the time w.
StampOf(entry, b, w) ==
    IF entry.expiry = None THEN None ELSE Secs(Later(b + entry.expiry, w))

\* The n entries of d, in some order, are read one behind the other.
Written(body, d, b, w, order, off, n) ==
    /\ order \in [1 .. n -> Stored(d)]
    /\ \A i \in 1 .. n : \A j \in 1 .. n : order[i] = order[j] => i = j
    /\ \A k \in Stored(d) : \E i \in 1 .. n : order[i] = k
    /\ off \in [0 .. n -> 0 .. Len(body)] /\ off[0] = 0 /\ off[n] = Len(body)
    /\ \A i \in 1 .. n :
         DecodeEntry(body, off[i - 1] + 1) =
           [key |-> order[i], value |-> d[order[i]].value,
            timestamp |-> StampOf(d[order[i]], b, w), next |-> off[i] + 1]

\* The offsets of pieces do not pass the end.
LEMMA PiecesWithin ==
    ASSUME NEW s, NEW n \in Nat, NEW seqs, NEW off \in [0 .. n -> Nat], Pieces(s, seqs, off, n),
           \A i \in 1 .. n : Len(seqs[i]) \in Nat
    PROVE  \A i \in 0 .. n : off[i] <= off[n]
<1> DEFINE Q == {m \in Nat : m <= n => off[n - m] <= off[n]}
<1>1. 0 \in Q
  OBVIOUS
<1>2. ASSUME NEW m \in Nat, m \in Q PROVE m + 1 \in Q
  <2> SUFFICES ASSUME m + 1 <= n PROVE off[n - (m + 1)] <= off[n]
    OBVIOUS
  <2> DEFINE i == n - m
  <2>1. i \in 1 .. n /\ i - 1 = n - (m + 1) /\ i - 1 \in 0 .. n /\ i \in 0 .. n
    OBVIOUS
  <2>2. off[i] <= off[n]
    BY <1>2
  <2>3. off[i] = off[i - 1] + Len(seqs[i]) /\ Len(seqs[i]) \in Nat
    BY <2>1 DEF Pieces
  <2>4. off[n - (m + 1)] = off[i - 1] /\ n \in 0 .. n
    BY <2>1
  <2> HIDE DEF i
  <2>5. off[i - 1] \in Nat /\ off[i] \in Nat /\ off[n] \in Nat
    BY <2>1, <2>4
  <2>6. off[i - 1] <= off[n]
    BY <2>2, <2>3, <2>5
  <2> QED
    BY <2>4, <2>6
<1> HIDE DEF Q
<1>3. Nat \subseteq Q
  BY <1>1, <1>2, SetInduction
<1> SUFFICES ASSUME NEW i \in 0 .. n PROVE off[i] <= off[n]
  OBVIOUS
<1>4. n - i \in Nat /\ n - (n - i) = i /\ n - i <= n
  OBVIOUS
<1>5. n - i \in Q
  BY <1>3, <1>4
<1> QED
  BY <1>4, <1>5 DEF Q

\* serialize_shard writes the entries in some order, one behind the other.
LEMMA BodyWritten ==
    ASSUME wall \in Nat, boot \in 0 .. wall, data \in [Keys -> Entries \cup {None}],
           NEW body \in Bodies, NEW n, n = Cardinality(Stored(data))
    PROVE  /\ body \in Seq(Nat) /\ n \in Nat
           /\ \E order, off : Written(body, data, boot, wall, order, off, n)
<1> DEFINE S == Stored(data)
<1>1. IsFiniteSet(S) /\ n \in Nat
  <2>1. S \in SUBSET Keys
    BY DEF Stored
  <2> QED
    BY <2>1, FS_Subset, FS_CardinalityType, FormatAssumption
<1>2. PICK order \in SetToSeqs(S) :
        body = FlattenSeq([i \in 1 .. Len(order) |-> EncodeEntry(order[i], data[order[i]])])
  BY DEF Bodies
<1>3. /\ order \in [1 .. n -> S] /\ Len(order) = n
      /\ \A i \in 1 .. n : \A j \in 1 .. n : order[i] = order[j] => i = j
  <2>1. /\ order \in [1 .. n -> S]
        /\ \A i \in 1 .. n : \A j \in 1 .. n : order[i] = order[j] => i = j
    BY <1>2 DEF SetToSeqs
  <2> QED
    BY <1>1, <2>1
<1>4. \A k \in S : \E i \in 1 .. n : order[i] = k
  <2>1. order \in Injection(1 .. n, S)
    BY <1>3 DEF Injection, IsInjective
  <2>2. Cardinality(1 .. n) = n
    BY <1>1, FS_Interval
  <2>3. order \in Surjection(1 .. n, S)
    BY <1>1, <2>1, <2>2, FS_Injection
  <2> QED
    BY <2>3 DEF Surjection
<1> DEFINE t(i) == StampOf(data[order[i]], boot, wall)
           v(i) == data[order[i]].value
           e(i) == EntryBytes(order[i], v(i), t(i))
           seqs == [i \in 1 .. n |-> e(i)]
<1>5. ASSUME NEW i \in 1 .. n
      PROVE  /\ order[i] \in Seq(Nat) /\ v(i) \in Seq(Nat) /\ t(i) \in Nat \cup {None}
             /\ e(i) \in Seq(Nat)
             /\ EncodeEntry(order[i], data[order[i]]) = e(i)
  <2> DEFINE k == order[i]
  <2>1. k \in S /\ k \in Keys /\ data[k] \in Entries
    BY <1>3 DEF Stored
  <2>2. data[k].value \in Values /\ data[k].expiry \in Nat \cup {None}
    BY <2>1 DEF Entries
  <2>3. k \in Seq(Nat) /\ v(i) \in Seq(Nat)
    BY <2>1, <2>2, FormatAssumption
  <2>4. data[k].expiry # None => Later(boot + data[k].expiry, wall) \in Nat
    BY <2>2 DEF Later
  <2>5. t(i) \in Nat \cup {None}
    BY <2>4, WholeSeconds DEF StampOf
  <2>6. data[k].expiry # None => InstantToUnix(data[k].expiry) = t(i)
    BY <2>2, StampWritten DEF StampOf
  <2>7. t(i) = None <=> data[k].expiry = None
    BY <2>4, WholeSeconds, FormatAssumption DEF StampOf
  <2>8. EncodeEntry(k, data[k]) = e(i)
    BY <2>6, <2>7 DEF EncodeEntry, EntryBytes
  <2>9. e(i) \in Seq(Nat)
    BY <2>3, <2>5, EntryLaidOut
  <2> QED
    BY <2>3, <2>5, <2>8, <2>9
<1>6. body = FlattenSeq(seqs) /\ seqs \in [1 .. n -> Seq(Nat)]
  BY <1>2, <1>3, <1>5
<1>7. \A i \in 1 .. n : seqs[i] = e(i)
  OBVIOUS
<1> HIDE DEF e, t, v, seqs
<1>8. body \in Seq(Nat)
  BY <1>1, <1>6, FlattenPieces
<1>9. PICK off \in [0 .. n -> Nat] : Pieces(body, seqs, off, n)
  BY <1>1, <1>6, FlattenPieces
<1>10. \A i \in 0 .. n : off[i] <= Len(body)
  <2>1. \A i \in 1 .. n : Len(seqs[i]) \in Nat
    BY <1>6
  <2>2. \A i \in 0 .. n : off[i] <= off[n]
    BY <1>1, <1>9, <2>1, PiecesWithin
  <2> QED
    BY <1>9, <2>2 DEF Pieces
<1>11. off \in [0 .. n -> 0 .. Len(body)] /\ off[0] = 0 /\ off[n] = Len(body)
  BY <1>8, <1>9, <1>10 DEF Pieces
<1>12. ASSUME NEW i \in 1 .. n
       PROVE  DecodeEntry(body, off[i - 1] + 1) =
                [key |-> order[i], value |-> v(i), timestamp |-> t(i), next |-> off[i] + 1]
  <2> DEFINE p == off[i - 1]
  <2>1. i - 1 \in 0 .. n /\ i \in 0 .. n
    BY <1>1
  <2>2. p \in Nat /\ off[i] \in Nat /\ off[i] <= Len(body)
    BY <1>9, <1>10, <2>1
  <2>3. off[i] = p + Len(e(i)) /\ \A j \in 1 .. Len(e(i)) : body[p + j] = e(i)[j]
    BY <1>7, <1>9 DEF Pieces
  <2>4. Len(e(i)) \in Nat
    BY <1>5
  <2> DEFINE x == e(i)
             k == order[i]
             u == v(i)
             s == t(i)
  <2>5. x = EntryBytes(k, u, s) /\ k \in Seq(Nat) /\ u \in Seq(Nat) /\ s \in Nat \cup {None}
    BY <1>5 DEF e
  <2>a. /\ p + Len(EntryBytes(k, u, s)) <= Len(body)
        /\ \A j \in 1 .. Len(EntryBytes(k, u, s)) : body[p + j] = EntryBytes(k, u, s)[j]
    <3>1. p + Len(x) <= Len(body) /\ \A j \in 1 .. Len(x) : body[p + j] = x[j]
      BY <2>2, <2>3
    <3> HIDE DEF p, x, k, u, s
    <3> QED
      BY <2>5, <3>1
  <2> HIDE DEF p, x, k, u, s
  <2>b. DecodeEntry(body, p + 1) =
          [key |-> k, value |-> u, timestamp |-> s,
           next |-> p + 1 + Len(EntryBytes(k, u, s))]
    <3>1. k \in Seq(Nat) /\ u \in Seq(Nat) /\ s \in Nat \cup {None} /\ p \in Nat
      BY <2>2, <2>5
    <3> QED
      BY <1>8, <2>a, <3>1, EntryReadBack
  <2>6. p + 1 + Len(e(i)) = off[i] + 1
    BY <2>2, <2>3, <2>4
  <2> QED
    BY <2>5, <2>6, <2>b DEF p, x, k, u, s
<1>13. Written(body, data, boot, wall, order, off, n)
  BY <1>3, <1>4, <1>11, <1>12 DEF Written, t, v
<1> QED
  BY <1>1, <1>8, <1>13
-----------------------------------------------------------------------------
(***************************************************************************)
(* The invariant.                                                          *)
(***************************************************************************)
\* What has been loaded of a key is what LoadKeepsDeadlines asks for.
Faithful(k) ==
    /\ saved.data[k] # None /\ data[k].value = saved.data[k].value
    /\ data[k].expiry = None <=> saved.data[k].expiry = None
    /\ data[k].expiry # None =>
         \/ OnWall(data[k].expiry) - SavedDeadline(k) \in 1 - TicksPerSec .. TicksPerSec - 1
         \/ data[k].expiry <= Now /\ SavedDeadline(k) <= wall

\* A key that was left out had less than a second left.
Skipped(k) ==
    saved.data[k].expiry # None /\ SavedDeadline(k) < (now_unix + 1) * TicksPerSec

\* The loader stands behind the first n - left of the n entries: those it has
\* inserted or skipped, the others it has not touched.
Behind(order, off, n) ==
    /\ left \in 0 .. n /\ cursor = off[n - left] + 1
    /\ \A k \in Stored(data) : Faithful(k)
    /\ \A i \in 1 .. n - left : data[order[i]] = None => Skipped(order[i])
    /\ \A i \in n - left + 1 .. n : data[order[i]] = None

\* The data section was written at the time w, one entry behind the other.
WrittenAt(w, order, off, n) ==
    /\ Written(file.body, saved.data, saved.boot, w, order, off, n)
    /\ phase \in {"loading", "loaded"} => Secs(w) <= now_unix /\ Behind(order, off, n)

\* The header is the one that was sealed, and announces what is there.
HeaderInv ==
    LET n == Cardinality(Stored(saved.data))
    IN  /\ Len(file.header) = HeaderSize
        /\ HeaderFieldsKept
        /\ \A m \in 0 .. Cardinality(Keys) : Is(file.header, "key_count", Number(m)) <=> m = n

\* The file holds what the shard held when it was written.
FileInv ==
    LET n == Cardinality(Stored(saved.data))
    IN  /\ saved.data \in [Keys -> Entries \cup {None}] /\ saved.boot \in Nat
        /\ file.body \in Seq(Nat)
        /\ \E w \in 0 .. wall, order \in [1 .. n -> Stored(saved.data)],
              off \in [0 .. n -> 0 .. Len(file.body)] : WrittenAt(w, order, off, n)

\* What holds of a server that has not loaded, or had nothing to load.
Blank ==
    phase \in {"stopped", "rejected"} \/ (phase = "loaded" /\ file = None) =>
      data = Empty /\ ttl_queue = {} /\ key_count = 0

\* What the theorems rest on.
FormatInv ==
    /\ TypeOK
    /\ phase \in {"running", "stopped"} => cursor = 0 /\ left = 0
    /\ phase \in {"loading", "rejected"} => file # None
    /\ phase = "loaded" => left = 0
    /\ Blank
    /\ LoadQueuesDeadlines
    /\ file # None => HeaderInv /\ FileInv

\* The keys of a map are no more than there are.
LEMMA StoredSize ==
    ASSUME NEW d \in [Keys -> Entries \cup {None}]
    PROVE  /\ Stored(d) \subseteq Keys /\ IsFiniteSet(Stored(d))
           /\ Cardinality(Stored(d)) \in 0 .. Cardinality(Keys)
<1>1. Stored(d) \subseteq Keys
  BY DEF Stored
<1>2. /\ IsFiniteSet(Stored(d)) /\ Cardinality(Stored(d)) \in Nat /\ Cardinality(Keys) \in Nat
      /\ Cardinality(Stored(d)) <= Cardinality(Keys)
  BY <1>1, FS_Subset, FS_CardinalityType, FormatAssumption
<1> QED
  BY <1>1, <1>2

\* An empty map has no keys.
LEMMA EmptyStored == Stored(Empty) = {} /\ Empty \in [Keys -> Entries \cup {None}]
BY DEF Stored, Empty

\* The invariant holds of a server that has not saved.
LEMMA FormatInit == Init => FormatInv
<1> SUFFICES ASSUME Init PROVE FormatInv
  OBVIOUS
<1> USE DEF Init
<1>1. wall \in Nat /\ boot \in 0 .. wall
  BY FormatAssumption
<1>2. data \in [Keys -> Entries \cup {None}]
  BY <1>1, FormatAssumption DEF Entries
<1>3. /\ key_count \in 0 .. Cardinality(Keys) /\ Secs(wall) \in Nat /\ Cardinality(Keys) \in Nat
      /\ \A k \in Stored(data) : k \in Keys /\ data[k] \in Entries
  BY <1>1, <1>2, StoredSize, WholeSeconds, FS_CardinalityType, FormatAssumption DEF Stored
<1>4. ttl_queue \subseteq [key : Keys, expiry_time : Nat]
  BY <1>3 DEF Entries
<1>5. TypeOK
  BY <1>1, <1>2, <1>3, <1>4 DEF TypeOK
<1>6. LoadQueuesDeadlines
  BY <1>3 DEF LoadQueuesDeadlines
<1> QED
  BY <1>5, <1>6 DEF FormatInv, Blank

\* What was saved of a key, and when its deadline is.
LEMMA SavedFacts ==
    ASSUME FileInv, NEW k, saved.data[k] # None, k \in Keys
    PROVE  /\ saved.data[k] \in Entries /\ k \in Stored(saved.data)
           /\ saved.data[k].value \in Values
           /\ saved.data[k].expiry # None => SavedDeadline(k) \in Nat
<1>1. saved.data[k] \in Entries /\ k \in Stored(saved.data) /\ saved.boot \in Nat
  BY DEF FileInv, Stored
<1> QED
  BY <1>1 DEF Entries, SavedDeadline

\* The file stays what it is; where the loader is in it is for each step to say.
LEMMA FileStays ==
    ASSUME TypeOK, HeaderInv, FileInv, UNCHANGED <<file, saved>>,
           wall' \in Nat, wall <= wall',
           \A n, w, order, off :
             n = Cardinality(Stored(saved.data)) /\ w \in 0 .. wall
               /\ WrittenAt(w, order, off, n)
               /\ phase' \in {"loading", "loaded"}
               => Secs(w) <= now_unix' /\ Behind(order, off, n)'
    PROVE  HeaderInv' /\ FileInv'
<1>1. HeaderInv'
  BY DEF HeaderInv, HeaderFieldsKept
<1>2. PICK n : n = Cardinality(Stored(saved.data)) /\ n' = n
  OBVIOUS
<1>3. /\ saved.data \in [Keys -> Entries \cup {None}] /\ saved.boot \in Nat
      /\ file.body \in Seq(Nat)
  BY DEF FileInv
<1>4. PICK w \in 0 .. wall, order \in [1 .. n -> Stored(saved.data)],
           off \in [0 .. n -> 0 .. Len(file.body)] : WrittenAt(w, order, off, n)
  BY <1>2 DEF FileInv
<1>5. WrittenAt(w, order, off, n)'
  <2>1. Written(file.body, saved.data, saved.boot, w, order, off, n)
    BY <1>4 DEF WrittenAt
  <2>2. Written(file'.body, saved'.data, saved'.boot, w, order, off, n)
    BY <2>1
  <2>3. phase' \in {"loading", "loaded"} => Secs(w) <= now_unix' /\ Behind(order, off, n)'
    BY <1>2, <1>4
  <2> QED
    BY <1>2, <2>2, <2>3 DEF WrittenAt
<1>6. w \in 0 .. wall'
  BY DEF TypeOK
<1>7. /\ n = Cardinality(Stored(saved'.data)) /\ order \in [1 .. n -> Stored(saved'.data)]
      /\ off \in [0 .. n -> 0 .. Len(file'.body)]
  BY <1>2, <1>4
<1> QED
  BY <1>1, <1>3, <1>5, <1>6, <1>7 DEF FileInv

\* A key that is as it was remains faithful while time passes.
LEMMA FaithfulStays ==
    ASSUME TypeOK, FileInv, UNCHANGED <<saved, boot>>, wall' \in Nat, wall <= wall',
           NEW k \in Stored(data), data'[k] = data[k], Faithful(k)
    PROVE  Faithful(k)'
<1>1. k \in Keys /\ data[k] \in Entries /\ boot \in Nat /\ wall \in Nat
  BY DEF TypeOK, Stored
<1>2. saved.data[k].expiry # None => SavedDeadline(k) \in Nat
  BY <1>1, SavedFacts DEF Faithful
<1>3. SavedDeadline(k)' = SavedDeadline(k) /\ OnWall(data[k].expiry)' = OnWall(data[k].expiry)
  BY DEF SavedDeadline, OnWall
<1>4. ASSUME data[k].expiry # None, data[k].expiry <= Now, SavedDeadline(k) <= wall
      PROVE  data[k].expiry <= Now' /\ SavedDeadline(k) <= wall'
  <2>1. data[k].expiry \in Nat /\ SavedDeadline(k) \in Nat
    BY <1>1, <1>2, <1>4 DEF Entries, Faithful
  <2> QED
    BY <1>1, <1>4, <2>1 DEF Now
<1> QED
  BY <1>3, <1>4 DEF Faithful
-----------------------------------------------------------------------------
(***************************************************************************)
(* The steps.                                                              *)
(***************************************************************************)
\* Time passes.
LEMMA TickStep == FormatInv /\ Tick => FormatInv'
<1> SUFFICES ASSUME FormatInv, Tick PROVE FormatInv'
  OBVIOUS
<1> USE DEF FormatInv, Tick, shardVars, loaderVars
<1>1. wall' \in Nat /\ wall <= wall'
  BY DEF TypeOK
<1>2. TypeOK'
  <2>1. Secs(wall') \in Nat /\ Secs(wall) <= Secs(wall')
    BY <1>1, SecsOrder DEF TypeOK
  <2>2. now_unix' \in 0 .. Secs(wall)'
    <3>1. now_unix \in Nat /\ now_unix <= Secs(wall) /\ Secs(wall) \in Nat
      BY WholeSeconds DEF TypeOK
    <3>2. Secs(wall)' = Secs(wall')
      BY DEF Secs
    <3> QED
      BY <2>1, <3>1, <3>2
  <2>3. boot' \in 0 .. wall'
    BY <1>1 DEF TypeOK
  <2> QED
    BY <1>1, <2>2, <2>3 DEF TypeOK
<1>3. ASSUME file # None PROVE HeaderInv' /\ FileInv'
  <2> SUFFICES ASSUME NEW n, NEW w \in 0 .. wall, NEW order, NEW off,
                      n = Cardinality(Stored(saved.data)),
                      WrittenAt(w, order, off, n), phase' \in {"loading", "loaded"}
               PROVE  Secs(w) <= now_unix' /\ Behind(order, off, n)'
    BY <1>1, <1>3, FileStays
  <2>1. Secs(w) <= now_unix /\ Behind(order, off, n)
    BY DEF WrittenAt
  <2>2. \A k \in Stored(data) : Faithful(k)'
    BY <1>1, <1>3, <2>1, FaithfulStays DEF Behind
  <2>3. Stored(data') = Stored(data)
    OBVIOUS
  <2>4. \A k : Skipped(k)' <=> Skipped(k)
    BY DEF Skipped, SavedDeadline
  <2> QED
    BY <2>1, <2>2, <2>3, <2>4 DEF Behind
<1>4. LoadQueuesDeadlines' /\ Blank'
  BY DEF LoadQueuesDeadlines, Blank, Stored
<1> QED
  BY <1>2, <1>3, <1>4

\* The process ends.
LEMMA RestartStep == FormatInv /\ Restart => FormatInv'
<1> SUFFICES ASSUME FormatInv, Restart PROVE FormatInv'
  OBVIOUS
<1> USE DEF FormatInv, Restart, loaderVars
<1>1. data' = Empty /\ Stored(data') = {} /\ data' \in [Keys -> Entries \cup {None}]
  BY EmptyStored
<1>2. TypeOK'
  <2>1. boot' \in 0 .. wall'
    BY DEF TypeOK
  <2>2. key_count' \in 0 .. Cardinality(Keys)
    BY FS_CardinalityType, FormatAssumption
  <2>3. now_unix' \in 0 .. Secs(wall)'
    BY DEF TypeOK, Secs
  <2> QED
    BY <1>1, <2>1, <2>2, <2>3 DEF TypeOK
<1>3. ASSUME file # None PROVE HeaderInv' /\ FileInv'
  <2>1. wall' \in Nat /\ wall <= wall' /\ phase' \notin {"loading", "loaded"}
    BY DEF TypeOK
  <2> QED
    BY <1>3, <2>1, FileStays
<1>4. LoadQueuesDeadlines' /\ Blank'
  BY <1>1, EmptyStored DEF LoadQueuesDeadlines, Blank, Empty
<1> QED
  BY <1>2, <1>3, <1>4

\* There is nothing to load.
LEMMA LoadMissingStep == FormatInv /\ LoadMissing => FormatInv'
<1> SUFFICES ASSUME FormatInv, LoadMissing PROVE FormatInv'
  OBVIOUS
<1> USE DEF FormatInv, LoadMissing, clocks, shardVars, loaderVars
<1>1. data = Empty /\ Stored(data) = {} /\ key_count = 0 /\ ttl_queue = {}
  BY EmptyStored DEF Blank
<1>2. TypeOK'
  BY DEF TypeOK, Secs
<1>3. LoadQueuesDeadlines' /\ Blank'
  BY <1>1, FS_EmptySet DEF LoadQueuesDeadlines, Blank
<1> QED
  BY <1>2, <1>3

\* The number the header announces is the number of entries.
LEMMA AnnouncedCount ==
    ASSUME TypeOK, HeaderInv, FileInv
    PROVE  HeaderKeyCount = Cardinality(Stored(saved.data))
<1> DEFINE n == Cardinality(Stored(saved.data))
<1>1. n \in 0 .. Cardinality(Keys)
  BY StoredSize DEF FileInv
<1>2. \A m \in 0 .. Cardinality(Keys) : Is(file.header, "key_count", Number(m)) <=> m = n
  BY DEF HeaderInv
<1> HIDE DEF n
<1>3. HeaderKeyCount = n
  BY <1>1, <1>2 DEF HeaderKeyCount
<1> QED
  BY <1>3 DEF n

\* The checks before the loop.
LEMMA LoadBeginStep == FormatInv /\ LoadBegin => FormatInv'
<1> SUFFICES ASSUME FormatInv, LoadBegin PROVE FormatInv'
  OBVIOUS
<1> USE DEF FormatInv, LoadBegin, clocks, shardVars
<1>1. data = Empty /\ Stored(data) = {} /\ key_count = 0 /\ ttl_queue = {}
  BY EmptyStored DEF Blank
<1>2. left' = Cardinality(Stored(saved.data))
  BY AnnouncedCount
<1>3. left' \in 0 .. Cardinality(Keys)
  BY <1>2, StoredSize DEF FileInv
<1>4. phase' \in {"rejected", "loading"} /\ cursor' = 1
  OBVIOUS
<1>5. TypeOK'
  <2>1. now_unix' \in 0 .. Secs(wall)'
    <3>1. Secs(wall)' = Secs(wall)
      BY DEF Secs
    <3> QED
      BY <3>1, WholeSeconds DEF TypeOK
  <2>2. Len(file.body) \in Nat
    BY DEF FileInv
  <2>3. cursor' \in 0 .. Len(file'.body) + 1
    BY <1>4, <2>2
  <2> QED
    BY <1>3, <1>4, <2>1, <2>3 DEF TypeOK
<1>6. HeaderInv' /\ FileInv'
  <2>0. wall' \in Nat /\ wall <= wall'
    BY DEF TypeOK
  <2> SUFFICES ASSUME NEW n, NEW w \in 0 .. wall, NEW order, NEW off,
                      n = Cardinality(Stored(saved.data)),
                      WrittenAt(w, order, off, n), phase' \in {"loading", "loaded"}
               PROVE  Secs(w) <= now_unix' /\ Behind(order, off, n)'
    BY <2>0, FileStays
  <2>1. n \in Nat /\ left' = n
    BY <1>2, <1>3
  <2>2. Secs(w) <= now_unix'
    BY SecsOrder DEF TypeOK
  <2>3. off[0] = 0 /\ order \in [1 .. n -> Stored(saved.data)]
    BY DEF WrittenAt, Written
  <2>4. left' \in 0 .. n /\ cursor' = off[n - left'] + 1
    BY <1>4, <2>1, <2>3
  <2>5. Stored(data') = {} /\ data' = Empty /\ 1 .. n - left' = {}
    BY <1>1, <2>1
  <2>6. \A i \in 1 .. n : data'[order[i]] = None
    <3>1. \A i \in 1 .. n : order[i] \in Keys
      BY <2>3 DEF Stored, FileInv
    <3> QED
      BY <2>5, <3>1 DEF Empty
  <2>7. \A i \in n - left' + 1 .. n : i \in 1 .. n
    BY <2>1
  <2> QED
    BY <2>2, <2>4, <2>5, <2>6, <2>7 DEF Behind
<1>7. LoadQueuesDeadlines' /\ Blank'
  BY <1>1, <1>4 DEF LoadQueuesDeadlines, Blank
<1> QED
  BY <1>4, <1>5, <1>6, <1>7

\* The shard's count is the map's.
LEMMA LoadEndStep == FormatInv /\ LoadEnd => FormatInv'
<1> SUFFICES ASSUME FormatInv, LoadEnd PROVE FormatInv'
  OBVIOUS
<1> USE DEF FormatInv, LoadEnd, clocks, loaderVars
<1>1. TypeOK'
  <2>1. key_count' \in 0 .. Cardinality(Keys)
    BY StoredSize DEF TypeOK
  <2>2. now_unix' \in 0 .. Secs(wall)'
    BY DEF TypeOK, Secs
  <2> QED
    BY <2>1, <2>2 DEF TypeOK
<1>2. HeaderInv' /\ FileInv'
  <2>0. wall' \in Nat /\ wall <= wall'
    BY DEF TypeOK
  <2> SUFFICES ASSUME NEW n, NEW w \in 0 .. wall, NEW order, NEW off,
                      n = Cardinality(Stored(saved.data)),
                      WrittenAt(w, order, off, n), phase' \in {"loading", "loaded"}
               PROVE  Secs(w) <= now_unix' /\ Behind(order, off, n)'
    BY <2>0, FileStays
  <2>1. Secs(w) <= now_unix /\ Behind(order, off, n)
    BY DEF WrittenAt
  <2>2. \A k \in Stored(data) : Faithful(k)'
    BY <2>0, <2>1, FaithfulStays DEF Behind
  <2>3. \A k : Skipped(k)' <=> Skipped(k)
    BY DEF Skipped, SavedDeadline
  <2>4. Stored(data') = Stored(data)
    OBVIOUS
  <2> QED
    BY <2>1, <2>2, <2>3, <2>4 DEF Behind
<1>3. LoadQueuesDeadlines' /\ Blank'
  BY DEF LoadQueuesDeadlines, Blank, Stored
<1> QED
  BY <1>1, <1>2, <1>3
\* An entry that comes back in place of the one that was saved for k.
ComesBack(k, e) ==
    /\ e \in Entries /\ e.value = saved.data[k].value
    /\ e.expiry = None <=> saved.data[k].expiry = None
    /\ e.expiry # None =>
         /\ \/ OnWall(e.expiry) - SavedDeadline(k) \in 1 - TicksPerSec .. TicksPerSec - 1
            \/ e.expiry <= Now /\ SavedDeadline(k) <= wall
         /\ e.expiry <= Now \/ SavedDeadline(k) > wall

\* What a turn of the loop does with the entry of k.
Turn(k) ==
    \/ /\ data' = data /\ ttl_queue' = ttl_queue
       /\ Skipped(k)
    \/ \E e : ComesBack(k, e) /\ Insert(k, e.value, e.expiry)

\* A turn of the loop inserts or skips the entry that is next.
LEMMA EntryTurn ==
    ASSUME FormatInv, LoadEntry, NEW n, NEW w \in 0 .. wall, NEW order, NEW off,
           n = Cardinality(Stored(saved.data)), WrittenAt(w, order, off, n)
    PROVE  /\ n \in Nat /\ n - left + 1 \in 1 .. n /\ left' = left - 1
           /\ cursor' = off[n - left + 1] + 1
           /\ order[n - left + 1] \in Keys /\ data[order[n - left + 1]] = None
           /\ Turn(order[n - left + 1])
<1> DEFINE i == n - left + 1
           k == order[i]
           s == saved.data[k]
           t == StampOf(s, saved.boot, w)
           d == SavedDeadline(k)
<1>1. file # None /\ FileInv /\ TypeOK /\ phase = "loading" /\ left > 0
  BY DEF FormatInv, LoadEntry
<1>2. n \in Nat
  BY <1>1, StoredSize DEF FileInv
<1>3. Behind(order, off, n) /\ Secs(w) <= now_unix
      /\ Written(file.body, saved.data, saved.boot, w, order, off, n)
  BY <1>1 DEF WrittenAt
<1>4. left \in 0 .. n /\ i \in 1 .. n /\ i - 1 = n - left /\ i \in n - left + 1 .. n
  BY <1>1, <1>2, <1>3 DEF Behind
<1>5. k \in Stored(saved.data) /\ data[k] = None
  BY <1>3, <1>4 DEF Written, Behind
<1>6. k \in Keys /\ s # None /\ s \in Entries
  BY <1>1, <1>5 DEF FileInv, Stored
<1>7. /\ s.value \in Values /\ s.expiry \in Nat \cup {None}
      /\ s.expiry # None => d \in Nat /\ d = saved.boot + s.expiry
  BY <1>1, <1>6, SavedFacts DEF Entries, SavedDeadline
<1>8. cursor = off[i - 1] + 1
  BY <1>3, <1>4 DEF Behind
<1>9. DecodeEntry(file.body, cursor) =
        [key |-> k, value |-> s.value, timestamp |-> t, next |-> off[i] + 1]
  <2>1. DecodeEntry(file.body, off[i - 1] + 1) =
          [key |-> k, value |-> s.value, timestamp |-> t, next |-> off[i] + 1]
    BY <1>3, <1>4 DEF Written
  <2> QED
    BY <1>8, <2>1
<1>10. wall \in Nat /\ boot \in 0 .. wall /\ w \in Nat /\ w <= wall /\ now_unix \in Nat
  BY <1>1 DEF TypeOK
<1>11. /\ t = None <=> s.expiry = None
       /\ s.expiry # None => t \in Nat /\ t = Secs(Later(d, w))
  <2>1. s.expiry # None => Later(d, w) \in Nat
    BY <1>7, <1>10 DEF Later
  <2>2. s.expiry # None => t = Secs(Later(d, w))
    BY <1>7 DEF StampOf
  <2>3. s.expiry # None => t \in Nat
    BY <2>1, <2>2, WholeSeconds
  <2>4. s.expiry = None => t = None
    BY DEF StampOf
  <2> QED
    BY <2>2, <2>3, <2>4, FormatAssumption
<1> HIDE DEF i, s, t, d
<1>12. cursor' = off[i] + 1 /\ left' = left - 1
  BY <1>9 DEF LoadEntry
<1>13. \/ t = None /\ Insert(k, s.value, None)
       \/ t # None /\ t > now_unix /\ Insert(k, s.value, UnixToInstant(t))
       \/ t # None /\ t <= now_unix /\ data' = data /\ ttl_queue' = ttl_queue
  BY <1>9 DEF LoadEntry
<1> HIDE DEF k
<1>14. Turn(k)
  <2>1. CASE t = None /\ Insert(k, s.value, None)
    <3> DEFINE e == [value |-> s.value, expiry |-> None]
    <3>1. ComesBack(k, e)
      BY <1>7, <1>11, <2>1 DEF ComesBack, Entries, s
    <3>2. Insert(k, e.value, e.expiry)
      BY <2>1
    <3> QED
      BY <3>1, <3>2 DEF Turn
  <2>2. CASE t # None /\ t > now_unix /\ Insert(k, s.value, UnixToInstant(t))
    <3> DEFINE x == UnixToInstant(t)
               e == [value |-> s.value, expiry |-> x]
    <3>1. /\ x \in Nat
          /\ \/ boot + x - d \in 1 - TicksPerSec .. TicksPerSec - 1
             \/ x <= Now /\ d <= wall
          /\ x <= Now \/ d > wall
      BY <1>3, <1>7, <1>10, <1>11, <2>2, StampRead
    <3>2. x # None
      BY <3>1, FormatAssumption
    <3> HIDE DEF x
    <3>3. e \in Entries /\ e.value = s.value /\ e.expiry = x
      BY <1>7, <3>1 DEF Entries
    <3>4. s.expiry # None
      BY <1>11, <2>2
    <3> HIDE DEF e
    <3>5. OnWall(x) = boot + x
      BY DEF OnWall
    <3>6. ComesBack(k, e)
      <4>1. OnWall(x) - d \in 1 - TicksPerSec .. TicksPerSec - 1 \/ (x <= Now /\ d <= wall)
        <5>1. OnWall(x) - d = boot + x - d
          BY <1>7, <1>10, <3>1, <3>4, <3>5
        <5> QED
          BY <3>1, <5>1
      <4>2. x <= Now \/ d > wall
        BY <3>1
      <4> QED
        BY <3>2, <3>3, <3>4, <4>1, <4>2, Zenon DEF ComesBack, s, d
    <3> USE DEF e
    <3>7. Insert(k, e.value, e.expiry)
      BY <2>2 DEF x
    <3> QED
      BY <3>6, <3>7 DEF Turn
  <2>3. CASE t # None /\ t <= now_unix /\ data' = data /\ ttl_queue' = ttl_queue
    <3>1. d < (now_unix + 1) * TicksPerSec /\ s.expiry # None
      BY <1>3, <1>7, <1>10, <1>11, <2>3, StampSkipped
    <3> QED
      BY <2>3, <3>1 DEF Turn, Skipped, s, d
  <2> QED
    BY <1>13, <2>1, <2>2, <2>3
<1> QED
  BY <1>2, <1>4, <1>5, <1>6, <1>12, <1>14 DEF i, k

\* One turn of the loop.
LEMMA LoadEntryStep == FormatInv /\ LoadEntry => FormatInv'
<1> SUFFICES ASSUME FormatInv, LoadEntry PROVE FormatInv'
  OBVIOUS
<1>1. /\ file # None /\ FileInv /\ HeaderInv /\ TypeOK /\ LoadQueuesDeadlines
      /\ phase = "loading" /\ left > 0
      /\ UNCHANGED <<wall, boot, phase, key_count, file, saved, now_unix>>
  BY DEF FormatInv, LoadEntry, clocks
<1>2. PICK n : n = Cardinality(Stored(saved.data))
  OBVIOUS
<1>3. PICK v \in 0 .. wall, ord \in [1 .. n -> Stored(saved.data)],
           of \in [0 .. n -> 0 .. Len(file.body)] : WrittenAt(v, ord, of, n)
  BY <1>1, <1>2 DEF FileInv
<1>4. PICK i : i = n - left + 1
  OBVIOUS
<1>5. PICK k : k = ord[i]
  OBVIOUS
<1>6. /\ n \in Nat /\ i \in 1 .. n /\ left' = left - 1 /\ cursor' = of[i] + 1
      /\ k \in Keys /\ data[k] = None /\ Turn(k)
  BY <1>2, <1>3, <1>4, <1>5, EntryTurn
<1>7. /\ data' \in [Keys -> Entries \cup {None}]
      /\ ttl_queue' \subseteq [key : Keys, expiry_time : Nat]
      /\ \A m \in Keys : data'[m] # None =>
           \/ data'[m] = data[m]
           \/ /\ m = k
              /\ data'[k].expiry # None =>
                   [key |-> k, expiry_time |-> data'[k].expiry] \in ttl_queue'
      /\ ttl_queue \subseteq ttl_queue'
  <2>1. data \in [Keys -> Entries \cup {None}] /\ ttl_queue \subseteq [key : Keys, expiry_time : Nat]
    BY <1>1 DEF TypeOK
  <2>2. CASE data' = data /\ ttl_queue' = ttl_queue
    BY <2>1, <2>2
  <2>3. ASSUME NEW e, ComesBack(k, e), Insert(k, e.value, e.expiry)
        PROVE  /\ data' \in [Keys -> Entries \cup {None}]
               /\ ttl_queue' \subseteq [key : Keys, expiry_time : Nat]
               /\ \A m \in Keys : data'[m] # None =>
                    \/ data'[m] = data[m]
                    \/ /\ m = k
                       /\ data'[k].expiry # None =>
                            [key |-> k, expiry_time |-> data'[k].expiry] \in ttl_queue'
               /\ ttl_queue \subseteq ttl_queue'
    <3>1. e.value \in Values /\ e.expiry \in Nat \cup {None}
      BY <2>3 DEF ComesBack, Entries
    <3>2. data' = [data EXCEPT ![k] = [value |-> e.value, expiry |-> e.expiry]]
          /\ ttl_queue' = IF e.expiry = None THEN ttl_queue
                          ELSE ttl_queue \cup {[key |-> k, expiry_time |-> e.expiry]}
      BY <2>3 DEF Insert
    <3>3. [value |-> e.value, expiry |-> e.expiry] \in Entries
      BY <3>1 DEF Entries
    <3>4. data' \in [Keys -> Entries \cup {None}]
      BY <2>1, <3>2, <3>3
    <3>5. data'[k].expiry = e.expiry /\ \A m \in Keys : m # k => data'[m] = data[m]
      BY <1>6, <2>1, <3>2
    <3> QED
      BY <1>6, <2>1, <3>1, <3>2, <3>4, <3>5
  <2> QED
    BY <1>6, <2>2, <2>3 DEF Turn
<1>8. TypeOK'
  <2>1. left' \in 0 .. Cardinality(Keys)
    <3>1. left \in 0 .. Cardinality(Keys) /\ left > 0 /\ left' = left - 1
      BY <1>1, <1>6 DEF TypeOK
    <3>2. Cardinality(Keys) \in Nat
      BY FS_CardinalityType, FormatAssumption
    <3> QED
      BY <3>1, <3>2
  <2>2. of[i] \in 0 .. Len(file.body) /\ Len(file.body) \in Nat
    BY <1>1, <1>3, <1>6 DEF FileInv
  <2>3. cursor' \in 0 .. Len(file'.body) + 1
    BY <1>1, <1>6, <2>2
  <2>4. now_unix' \in 0 .. Secs(wall)'
    BY <1>1 DEF TypeOK, Secs
  <2>5. Len(file'.header) = HeaderSize
    BY <1>1 DEF HeaderInv
  <2> QED
    BY <1>1, <1>7, <2>1, <2>3, <2>4, <2>5 DEF TypeOK
<1>9. HeaderInv' /\ FileInv'
  <2>0. wall' \in Nat /\ wall <= wall'
    BY <1>1 DEF TypeOK
  <2> SUFFICES ASSUME NEW w \in 0 .. wall, NEW order, NEW off,
                      WrittenAt(w, order, off, n)
               PROVE  Secs(w) <= now_unix' /\ Behind(order, off, n)'
    BY <1>1, <1>2, <2>0, FileStays
  <2>1. PICK h : h = order[i]
    OBVIOUS
  <2>2. cursor' = off[i] + 1 /\ h \in Keys /\ data[h] = None /\ Turn(h)
    BY <1>2, <1>4, <2>1, EntryTurn
  <2>3. Secs(w) <= now_unix /\ Behind(order, off, n)
    BY <1>1 DEF WrittenAt
  <2>4. /\ order \in [1 .. n -> Stored(saved.data)]
        /\ \A x \in 1 .. n : \A y \in 1 .. n : order[x] = order[y] => x = y
        /\ \A x \in 1 .. n : order[x] \in Keys
    <3>1. /\ order \in [1 .. n -> Stored(saved.data)]
          /\ \A x \in 1 .. n : \A y \in 1 .. n : order[x] = order[y] => x = y
      BY DEF WrittenAt, Written
    <3>2. \A m \in Stored(saved.data) : m \in Keys
      BY <1>1 DEF Stored, FileInv
    <3> QED
      BY <3>1, <3>2
  <2>5. left' \in 0 .. n /\ n - left' = i /\ n - left = i - 1
    BY <1>1, <1>4, <1>6, <2>3 DEF Behind
  <2>6. \A m \in Keys : m # h => data'[m] = data[m]
    BY <1>1, <2>2 DEF Turn, Insert, TypeOK
  <2>7. \A m : Skipped(m)' <=> Skipped(m)
    BY <1>1 DEF Skipped, SavedDeadline
  <2>8. data'[h] = None => Skipped(h)
    <3> SUFFICES ASSUME NEW e, ComesBack(h, e), Insert(h, e.value, e.expiry)
                 PROVE  data'[h] # None
      BY <2>2 DEF Turn
    <3>1. data'[h] = [value |-> e.value, expiry |-> e.expiry]
      BY <1>1, <2>2 DEF Insert, TypeOK
    <3>2. data'[h] \in [value : Values, expiry : Nat \cup {None}]
      BY <3>1 DEF ComesBack, Entries
    <3> QED
      BY <3>2, FormatAssumption
  <2>9. ASSUME NEW m \in Stored(data') PROVE Faithful(m)'
    <3>0. m \in Keys /\ data'[m] # None
      BY <1>7 DEF Stored
    <3>1. CASE m # h
      <4>1. data'[m] = data[m] /\ m \in Stored(data)
        BY <1>1, <2>6, <3>0, <3>1 DEF Stored, TypeOK
      <4>2. Faithful(m)
        BY <2>3, <4>1 DEF Behind
      <4> QED
        BY <1>1, <2>0, <4>1, <4>2, FaithfulStays
    <3>2. CASE m = h
      <4>1. PICK e : ComesBack(h, e) /\ Insert(h, e.value, e.expiry)
        BY <2>2, <3>0, <3>2 DEF Turn
      <4>2. data'[h].value = e.value /\ data'[h].expiry = e.expiry
        BY <1>1, <2>2, <4>1 DEF Insert, TypeOK
      <4>3. saved.data[h] # None
        BY <1>6, <2>1, <2>4 DEF Stored
      <4>4. SavedDeadline(h)' = SavedDeadline(h)
        BY <1>1 DEF SavedDeadline
      <4> QED
        BY <1>1, <3>2, <4>1, <4>2, <4>3, <4>4 DEF Faithful, ComesBack, OnWall, Now
    <3> QED
      BY <3>1, <3>2
  <2>10. ASSUME NEW j \in 1 .. i, data'[order[j]] = None PROVE Skipped(order[j])
    <3>1. CASE j = i
      BY <2>1, <2>8, <2>10, <3>1
    <3>2. CASE j # i
      <4>1. j \in 1 .. n - left /\ j \in 1 .. n
        BY <1>6, <2>5, <3>2
      <4>2. order[j] # h /\ order[j] \in Keys
        BY <1>6, <2>1, <2>4, <3>2, <4>1
      <4>3. data[order[j]] = None
        BY <2>6, <2>10, <4>2
      <4> QED
        BY <2>3, <4>1, <4>3 DEF Behind
    <3> QED
      BY <3>1, <3>2
  <2>11. ASSUME NEW j \in i + 1 .. n PROVE data'[order[j]] = None
    <3>1. j \in 1 .. n /\ j # i /\ j \in n - left + 1 .. n
      BY <1>4, <1>6
    <3>2. order[j] # h /\ order[j] \in Keys
      BY <1>6, <2>1, <2>4, <3>1
    <3>3. data[order[j]] = None
      BY <2>3, <3>1 DEF Behind
    <3> QED
      BY <2>6, <3>2, <3>3
  <2> QED
    BY <1>1, <1>2, <2>2, <2>3, <2>5, <2>7, <2>9, <2>10, <2>11 DEF Behind
<1>10. LoadQueuesDeadlines'
  <2> SUFFICES ASSUME NEW m \in Stored(data'), data'[m].expiry # None
               PROVE  [key |-> m, expiry_time |-> data'[m].expiry] \in ttl_queue'
    BY DEF LoadQueuesDeadlines
  <2>1. m \in Keys /\ data'[m] # None
    BY <1>7 DEF Stored
  <2>2. CASE data'[m] = data[m]
    <3>1. m \in Stored(data)
      BY <1>1, <2>1, <2>2 DEF Stored, TypeOK
    <3> QED
      BY <1>1, <1>7, <2>2, <3>1 DEF LoadQueuesDeadlines
  <2> QED
    BY <1>7, <2>1, <2>2
<1> QED
  BY <1>1, <1>8, <1>9, <1>10 DEF FormatInv, Blank
\* The fields before the checksums read as what serialize_shard gave them.
LEMMA HeaderSealed ==
    ASSUME NEW fields, NEW body, NEW i \in 1 .. 6
    PROVE  \A u : Is(Sealed(WriteHeader(fields), body), Name(i), u)
                    <=> u = Held(fields, Name(i))
<1> DEFINE h == WriteHeader(fields)
           g == Sealed(h, body)
           v == Held(fields, Name(i))
<1>1. /\ DOMAIN h = 1 .. 64 /\ Len(h) = 64
      /\ \A j \in 1 .. Width(i) : h[Before[i] + j] = Bytes(v, Width(i))[j]
  BY HeaderWritten
<1> HIDE DEF h
<1>2. \A j \in 1 .. 28 : g[j] = h[j]
  <2>1. \A j \in 1 .. 28 : j \in 1 .. 32 \cup 49 .. 64
    OBVIOUS
  <2> QED
    BY <1>1, <2>1, SealedKeeps
<1> HIDE DEF g
<1>3. \A j \in 1 .. Width(i) : Before[i] + j \in 1 .. 28
  <2>0. i \in {1, 2, 3, 4, 5, 6}
    OBVIOUS
  <2>1. Before[i] \in Nat /\ Width(i) \in Nat /\ Before[i] + Width(i) <= 28
    BY <2>0, LayoutFacts DEF Before
  <2> QED
    BY <2>1
<1>4. \A j \in 1 .. Width(i) : g[Before[i] + j] = Bytes(v, Width(i))[j]
  BY <1>1, <1>2, <1>3
<1> HIDE DEF v
<1>5. FieldHolds(g, i, v)
  BY <1>4 DEF FieldHolds
<1>6. \A u : Is(g, Name(i), u) <=> u = v
  BY <1>5, FieldRead
<1> QED
  BY <1>6 DEF g, h, v

\* Of reserved2, what is behind the checksums is still zero.
LEMMA ReservedKept ==
    ASSUME NEW fields, NEW body, "reserved2" \notin DOMAIN fields
    PROVE  \A i \in 5 .. 20 :
             ReadField(Sealed(WriteHeader(fields), body), "reserved2")[i] = Zero
<1> DEFINE h == WriteHeader(fields)
           g == Sealed(h, body)
           s == SubSeq(g, 45, 64)
<1>1. Name(9) = "reserved2" /\ Width(9) = 20 /\ Before[9] = 44 /\ 9 \in 1 .. 9
  BY LayoutFacts DEF Before
<1>2. ReadField(g, "reserved2") = s
  <2> HIDE DEF g
  <2>1. ReadField(g, Name(9)) = SubSeq(g, Before[9] + 1, Before[9] + Width(9))
    BY <1>1, FieldPlace, Zenon
  <2>2. Before[9] + 1 = 45 /\ Before[9] + Width(9) = 64
    BY <1>1
  <2>3. ReadField(g, "reserved2") = SubSeq(g, 45, 64)
    BY <1>1, <2>1, <2>2, Zenon
  <2> QED
    BY <2>3
<1>3. /\ DOMAIN h = 1 .. 64 /\ Len(h) = 64
      /\ \A j \in 1 .. Width(9) : h[Before[9] + j] = Bytes(Held(fields, Name(9)), Width(9))[j]
  BY <1>1, HeaderWritten
<1> HIDE DEF h
<1>4. \A j \in 1 .. 20 : h[44 + j] = Zero
  <2>1. Held(fields, "reserved2") = Zero
    BY DEF Held
  <2>2. \A j \in 1 .. 20 : Bytes(Zero, 20)[j] = Zero
    BY DEF Bytes
  <2>3. \A j \in 1 .. 20 : h[44 + j] = Bytes(Zero, 20)[j]
    <3> TAKE j \in 1 .. 20
    <3>1. j \in 1 .. Width(9)
      BY <1>1
    <3>2. h[Before[9] + j] = Bytes(Held(fields, Name(9)), Width(9))[j]
      BY <1>3, <3>1
    <3> QED
      BY <1>1, <2>1, <3>2, Zenon
  <2> QED
    BY <2>2, <2>3, Zenon
<1>5. \A j \in 49 .. 64 : g[j] = Zero
  <2> TAKE j \in 49 .. 64
  <2>1. g[j] = h[j]
    BY <1>3, SealedKeeps
  <2>2. j - 44 \in 1 .. 20 /\ 44 + (j - 44) = j
    OBVIOUS
  <2> QED
    BY <1>4, <2>1, <2>2
<1> HIDE DEF g
<1>6. ASSUME NEW i \in 5 .. 20 PROVE s[i] = Zero
  <2>1. s[i] = g[45 + i - 1]
    <3>1. \A j \in 45 .. 64 : g[j] \in {g[k] : k \in 45 .. 64}
      OBVIOUS
    <3>2. \A j \in 1 .. 20 : s[j] = g[45 + j - 1]
      BY <3>1, SubSeqProperties
    <3> QED
      BY <3>2
  <2> QED
    BY <1>5, <2>1
<1> QED
  BY <1>2, <1>6 DEF g, h

\* Different numbers have different bytes.
LEMMA NumberTells ==
    ASSUME NEW m \in Nat, NEW n \in Nat, Number(m) = Number(n)
    PROVE  m = n
<1>1. <<"number", m>> # << >> /\ <<"number", n>> # << >>
  OBVIOUS
<1>2. <<"number", m>> = <<"number", n>> => m = n
  <2>1. <<"number", m>>[2] = m /\ <<"number", n>>[2] = n
    OBVIOUS
  <2> QED
    BY <2>1
<1> QED
  BY <1>1, <1>2 DEF Number, Zero

\* serialize_shard.
LEMMA SaveStep == FormatInv /\ Save => FormatInv'
<1> SUFFICES ASSUME FormatInv, Save PROVE FormatInv'
  OBVIOUS
<1>1. /\ TypeOK /\ Blank /\ LoadQueuesDeadlines /\ cursor = 0 /\ left = 0
      /\ phase = "running"
      /\ UNCHANGED <<wall, boot, phase, data, ttl_queue, key_count, cursor, left, now_unix>>
      /\ saved' = [data |-> data, boot |-> boot, fields |-> HeaderFields]
  BY DEF FormatInv, Save, clocks, shardVars, loaderVars
<1>2. PICK body \in Bodies :
        file' = [header |-> Sealed(WriteHeader(HeaderFields), body), body |-> body]
  BY DEF Save
<1>3. PICK n : n = Cardinality(Stored(data))
  OBVIOUS
<1>4. PICK order, off : Written(body, data, boot, wall, order, off, n)
  BY <1>1, <1>3, BodyWritten DEF TypeOK
<1>5. body \in Seq(Nat) /\ n \in 0 .. Cardinality(Keys) /\ n \in Nat
      /\ data \in [Keys -> Entries \cup {None}] /\ boot \in Nat /\ wall \in Nat
  BY <1>1, <1>3, BodyWritten, StoredSize DEF TypeOK
<1>6. saved'.data = data /\ saved'.boot = boot /\ saved'.fields = HeaderFields
      /\ file'.body = body /\ file'.header = Sealed(WriteHeader(HeaderFields), body)
  BY <1>1, <1>2
<1>7. Len(file'.header) = HeaderSize
  BY <1>6, HeaderWritten, SealedKeeps DEF HeaderSize
<1>8. HeaderFieldsKept'
  <2>1. DOMAIN HeaderFields = {"magic", "version", "shard_id", "key_count", "timestamp"}
    BY DEF HeaderFields
  <2>2. ASSUME NEW i \in 1 .. 6
        PROVE  Is(file'.header, Name(i), Held(HeaderFields, Name(i)))
    BY <1>6, HeaderSealed
  <2>3. \A name \in DOMAIN HeaderFields : \E i \in 1 .. 6 : name = Name(i)
    <3>1. 1 \in 1 .. 6 /\ 2 \in 1 .. 6 /\ 3 \in 1 .. 6 /\ 5 \in 1 .. 6 /\ 6 \in 1 .. 6
      OBVIOUS
    <3> QED
      BY <2>1, <3>1, LayoutFacts
  <2>4. \A name \in DOMAIN HeaderFields : Is(file'.header, name, HeaderFields[name])
    BY <2>2, <2>3 DEF Held
  <2>5. Is(file'.header, "reserved1", Zero)
    <3>1. 4 \in 1 .. 6 /\ Name(4) = "reserved1" /\ Held(HeaderFields, Name(4)) = Zero
      BY <2>1, LayoutFacts DEF Held
    <3> QED
      BY <2>2, <3>1
  <2>6. \A i \in 5 .. 20 : ReadField(file'.header, "reserved2")[i] = Zero
    <3>1. "reserved2" \notin DOMAIN HeaderFields
      BY <2>1
    <3> QED
      BY <1>6, <3>1, ReservedKept
  <2> QED
    BY <1>6, <2>4, <2>5, <2>6 DEF HeaderFieldsKept
<1>9. ASSUME NEW m \in 0 .. Cardinality(Keys)
      PROVE  Is(file'.header, "key_count", Number(m)) <=> m = n
  <2>1. 5 \in 1 .. 6 /\ Name(5) = "key_count" /\ Held(HeaderFields, "key_count") = Number(n)
    BY <1>3, LayoutFacts DEF Held, HeaderFields
  <2>2. Is(file'.header, "key_count", Number(m)) <=> Number(m) = Number(n)
    BY <1>6, <2>1, HeaderSealed
  <2>3. m \in Nat
    OBVIOUS
  <2> QED
    BY <1>5, <2>2, <2>3, NumberTells
<1>10. HeaderInv'
  BY <1>3, <1>6, <1>7, <1>8, <1>9 DEF HeaderInv
<1>11. FileInv'
  <2>1. WrittenAt(wall, order, off, n)'
    <3>1. phase' \notin {"loading", "loaded"}
      BY <1>1
    <3>2. Written(file'.body, saved'.data, saved'.boot, wall, order, off, n)
      BY <1>4, <1>6
    <3> QED
      BY <1>1, <3>1, <3>2 DEF WrittenAt
  <2>2. /\ order \in [1 .. n -> Stored(data)] /\ off \in [0 .. n -> 0 .. Len(body)]
        /\ wall \in 0 .. wall'
    BY <1>1, <1>4, <1>5 DEF Written
  <2>3. PICK w \in 0 .. wall' : w = wall /\ WrittenAt(w, order, off, n)'
    BY <1>1, <2>1, <2>2 DEF WrittenAt
  <2> QED
    BY <1>3, <1>5, <1>6, <2>2, <2>3 DEF FileInv
<1>12. TypeOK'
  BY <1>1, <1>6, <1>7 DEF TypeOK, Secs
<1>13. LoadQueuesDeadlines' /\ Blank'
  BY <1>1 DEF LoadQueuesDeadlines, Blank, Stored
<1> QED
  BY <1>1, <1>10, <1>11, <1>12, <1>13 DEF FormatInv
-----------------------------------------------------------------------------
(***************************************************************************)
(* The theorems.                                                           *)
(***************************************************************************)
\* Nothing happens.
LEMMA FormatStutter == FormatInv /\ UNCHANGED vars => FormatInv'
<1> SUFFICES ASSUME FormatInv, UNCHANGED vars PROVE FormatInv'
  OBVIOUS
<1> USE DEF vars, clocks, shardVars, loaderVars
<1>1. TypeOK'
  BY DEF FormatInv, TypeOK, Secs
<1>2. ASSUME file # None PROVE HeaderInv' /\ FileInv'
  <2>0. TypeOK /\ HeaderInv /\ FileInv
    BY <1>2 DEF FormatInv
  <2>1. wall' \in Nat /\ wall <= wall'
    BY <2>0 DEF TypeOK
  <2> SUFFICES ASSUME NEW n, NEW w \in 0 .. wall, NEW order, NEW off,
                      n = Cardinality(Stored(saved.data)),
                      WrittenAt(w, order, off, n), phase' \in {"loading", "loaded"}
               PROVE  Secs(w) <= now_unix' /\ Behind(order, off, n)'
    BY <2>0, <2>1, FileStays
  <2>2. Secs(w) <= now_unix /\ Behind(order, off, n)
    BY DEF WrittenAt
  <2>3. \A k \in Stored(data) : Faithful(k)'
    BY <2>0, <2>1, <2>2, FaithfulStays DEF Behind
  <2>4. \A k : Skipped(k)' <=> Skipped(k)
    BY DEF Skipped, SavedDeadline
  <2>5. Stored(data') = Stored(data)
    OBVIOUS
  <2> QED
    BY <2>2, <2>3, <2>4, <2>5 DEF Behind
<1>3. LoadQueuesDeadlines' /\ Blank'
  BY DEF FormatInv, LoadQueuesDeadlines, Blank, Stored
<1> QED
  BY <1>1, <1>2, <1>3 DEF FormatInv

\* Whatever the server does, the file stays true and the loader true to it.
LEMMA FormatAlways == Spec => []FormatInv
<1>1. FormatInv /\ [Next]_vars => FormatInv'
  BY TickStep, SaveStep, RestartStep, LoadMissingStep, LoadBeginStep, LoadEntryStep,
     LoadEndStep, FormatStutter DEF Next, Load
<1> QED
  BY FormatInit, <1>1, PTL DEF Spec

\* Every variable keeps its type: the loader never reads past the data section,
\* whatever was saved and in whatever order.
THEOREM FormatTypeCorrect == Spec => []TypeOK
<1>1. FormatInv => TypeOK
  BY DEF FormatInv
<1> QED
  BY <1>1, FormatAlways, PTL

\* The checksums that serialize.rs writes over the finished header leave the
\* fields before data_checksum, and reserved2 from its fifth byte on, as format.rs
\* wrote them.
THEOREM HeaderIsKept == Spec => []HeaderFieldsKept
<1>1. FormatInv => HeaderFieldsKept
  BY DEF FormatInv, HeaderInv, HeaderFieldsKept
<1> QED
  BY <1>1, FormatAlways, PTL

\* What deserialize_snapshot gives back is what serialize_shard was given, for
\* any keys and values and any resolution of the clocks: the same values, and
\* deadlines less than a second off or passed; what it leaves out had less than
\* a second left.
THEOREM DeadlinesAreKept == Spec => []LoadKeepsDeadlines
<1>1. FormatInv => LoadKeepsDeadlines
  <2> SUFFICES ASSUME FormatInv, phase \in {"loading", "loaded"} PROVE LoadKeepsDeadlines
    BY DEF LoadKeepsDeadlines
  <2>1. CASE file = None
    <3>1. data = Empty /\ phase = "loaded"
      BY <2>1 DEF FormatInv, Blank
    <3>2. Stored(data) = {}
      BY <3>1, EmptyStored
    <3> QED
      BY <2>1, <3>2 DEF LoadKeepsDeadlines
  <2>2. CASE file # None
    <3>1. FileInv
      BY <2>2 DEF FormatInv
    <3>2. PICK n : n = Cardinality(Stored(saved.data))
      OBVIOUS
    <3>3. PICK w, order, off : WrittenAt(w, order, off, n)
      BY <3>1, <3>2 DEF FileInv
    <3>4. /\ Behind(order, off, n)
          /\ \A k \in Stored(saved.data) : \E i \in 1 .. n : order[i] = k
      BY <3>3 DEF WrittenAt, Written
    <3>5. \A k \in Stored(data) : Faithful(k)
      BY <3>4 DEF Behind
    <3>6. ASSUME phase = "loaded", NEW k \in Stored(saved.data) \ Stored(data)
          PROVE  Skipped(k)
      <4>1. PICK i \in 1 .. n : order[i] = k
        BY <3>4
      <4>2. n \in Nat /\ left = 0
        BY <3>1, <3>2, <3>6, StoredSize DEF FileInv, FormatInv
      <4>3. i \in 1 .. n - left
        BY <4>2
      <4>4. k \in Keys /\ data \in [Keys -> Entries \cup {None}]
        BY <3>1 DEF FileInv, Stored, FormatInv, TypeOK
      <4>5. data[k] = None
        BY <3>6, <4>4 DEF Stored
      <4> QED
        BY <3>4, <4>1, <4>3, <4>5 DEF Behind
    <3> QED
      BY <3>5, <3>6 DEF LoadKeepsDeadlines, Faithful, Skipped
  <2> QED
    BY <2>1, <2>2
<1> QED
  BY <1>1, FormatAlways, PTL

\* The loader's loop ends behind the last byte of the data section, whatever the
\* entries are, in whatever order, and however many of them it skips.
THEOREM LoadedToTheEnd == Spec => []LoadReadsToTheEnd
<1>1. FormatInv => LoadReadsToTheEnd
  <2> SUFFICES ASSUME FormatInv, phase \in {"loading", "loaded"}, file # None, left = 0
               PROVE  cursor = Len(file.body) + 1
    BY DEF LoadReadsToTheEnd
  <2>1. FileInv
    BY DEF FormatInv
  <2>2. PICK n : n = Cardinality(Stored(saved.data))
    OBVIOUS
  <2>3. PICK w, order, off : WrittenAt(w, order, off, n)
    BY <2>1, <2>2 DEF FileInv
  <2>4. cursor = off[n - left] + 1 /\ off[n] = Len(file.body)
    BY <2>3 DEF WrittenAt, Written, Behind
  <2>5. n - left = n
    BY <2>1, <2>2, StoredSize DEF FileInv
  <2> QED
    BY <2>4, <2>5
<1> QED
  BY <1>1, FormatAlways, PTL

\* Every deadline that was loaded is in the heap, for the sweep to find.
THEOREM LoadedDeadlinesAreQueued == Spec => []LoadQueuesDeadlines
<1>1. FormatInv => LoadQueuesDeadlines
  BY DEF FormatInv
<1> QED
  BY <1>1, FormatAlways, PTL

\* No turn of the loader's loop inserts a key whose deadline has passed and
\* gives it time to live.
THEOREM ExpiredStaysAway == Spec => NothingComesBack
<1> DEFINE Revives(k) == phase = "loading" /\ data[k] = None /\ data'[k] # None
           Harmless(k) == \/ data'[k].expiry = None
                          \/ data'[k].expiry <= Now
                          \/ SavedDeadline(k) > wall
           Fine == \A k \in Keys : Revives(k) => Harmless(k)
<1>1. FormatInv /\ [Next]_vars => [Fine]_vars
  <2> SUFFICES ASSUME FormatInv, [Next]_vars, NEW k \in Keys, Revives(k) PROVE Harmless(k)
    OBVIOUS
  <2>1. phase = "loading" /\ data[k] = None /\ data'[k] # None
    OBVIOUS
  <2> HIDE DEF Revives, Harmless
  <2>2. LoadEntry
    <3>1. data' # data
      BY <2>1
    <3> QED
      BY <2>1, <3>1 DEF Next, Tick, Save, Restart, Load, LoadMissing, LoadBegin, LoadEnd,
                        vars, clocks, shardVars, loaderVars
  <2>3. FileInv /\ TypeOK
    BY <2>1 DEF FormatInv
  <2>4. PICK n : n = Cardinality(Stored(saved.data))
    OBVIOUS
  <2>5. PICK w \in 0 .. wall, order \in [1 .. n -> Stored(saved.data)],
             off \in [0 .. n -> 0 .. Len(file.body)] : WrittenAt(w, order, off, n)
    BY <2>3, <2>4 DEF FileInv
  <2>6. PICK h : h = order[n - left + 1]
    OBVIOUS
  <2>7. h \in Keys /\ Turn(h)
    BY <2>2, <2>4, <2>5, <2>6, EntryTurn
  <2>8. PICK e : ComesBack(h, e) /\ Insert(h, e.value, e.expiry)
    BY <2>1, <2>7 DEF Turn
  <2>9. h = k /\ data'[k].expiry = e.expiry
    BY <2>1, <2>3, <2>7, <2>8 DEF Insert, TypeOK
  <2>10. e.expiry = None \/ e.expiry <= Now \/ SavedDeadline(k) > wall
    BY <2>8, <2>9 DEF ComesBack
  <2> QED
    BY <2>9, <2>10 DEF Harmless
<1>2. Spec => [][Fine]_vars
  BY <1>1, FormatAlways, PTL DEF Spec
<1> QED
  BY <1>2 DEF NothingComesBack
=============================================================================
