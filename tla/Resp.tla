--------------------------------- MODULE Resp ---------------------------------
(***************************************************************************)
(* RESP values and their bytes: what the serialiser writes and the parser  *)
(* reads (src/src/protocol/resp.rs, serializer.rs, parser.rs).             *)
(*                                                                         *)
(* Bytes come in tokens: a type byte, CR, LF, a numeral, or a word of a    *)
(* text.  A read may end between any two of them.  A value is a pair of    *)
(* its type and its content.                                               *)
(*                                                                         *)
(* Values nest, and the parser follows them.  Recursion is written as      *)
(* functions: over the depth of a value in the serialiser, over the places *)
(* in the bytes in the parser.                                             *)
(***************************************************************************)
EXTENDS Integers, Sequences, SequencesExt, FiniteSetsExt, TLC

CONSTANTS
    Tokens,        \* what bytes come in
    Numbers,       \* the numbers that occur, for i64
    Decimal,       \* i64::to_string, as a token
    MaxValueSize,  \* MAX_VALUE_SIZE, in tokens
    MaxDepth,      \* bound: how deep arrays nest
    None           \* the content of a null bulk string and a null array

\* The longest reply of the model has three tokens.
ASSUME RespAssumption ==
    /\ -2 .. MaxValueSize \subseteq Numbers /\ Numbers \subseteq Int
    /\ MaxValueSize \in Nat /\ MaxValueSize >= 3
    /\ MaxDepth \in Nat

ASSUME TokenAssumption == {"+", "-", ":", "$", "*", "CR", "LF"} \subseteq Tokens

\* Numbers are told apart by their numerals, which are no line ends.
ASSUME DecimalAssumption ==
    /\ Decimal \in [Numbers -> Tokens \ {"CR", "LF"}]
    /\ \A m \in Numbers, n \in Numbers : Decimal[m] = Decimal[n] => m = n

Crlf == <<"CR", "LF">>

SimpleString(text) == <<"simple", text>>
Error(text) == <<"error", text>>
Integer(n) == <<"integer", n>>
BulkString(data) == <<"bulk", data>>
Array(elements) == <<"array", elements>>

Numeral(n) == <<Decimal[n]>>

\* A text without a line end, and the data of a bulk string.
Lines == {text \in Seq(Tokens) : \A i \in DOMAIN text : text[i] # "LF"}
Datas == {data \in Seq(Tokens) : Len(data) <= MaxValueSize}

Scalars ==
    {"simple", "error"} \X Lines \cup {"integer"} \X Numbers
      \cup {"bulk"} \X (Datas \cup {None}) \cup {Array(None)}

\* Arrays nest to a depth.
ValuesTo[depth \in 0 .. MaxDepth] ==
    IF depth = 0 THEN Scalars
    ELSE Scalars \cup
           {"array"} \X {elements \in Seq(ValuesTo[depth - 1]) : Len(elements) \in Numbers}

Values == ValuesTo[MaxDepth]

ASSUME NoneAssumption ==
    /\ None \notin Seq(Tokens) /\ None \notin Numbers
    /\ \A depth \in 0 .. MaxDepth : None \notin Seq(ValuesTo[depth])
-----------------------------------------------------------------------------
(***************************************************************************)
(* serialize_value.                                                        *)
(***************************************************************************)
TypeByte(value) ==
    CASE value[1] = "simple"  -> "+"
      [] value[1] = "error"   -> "-"
      [] value[1] = "integer" -> ":"
      [] value[1] = "bulk"    -> "$"
      [] value[1] = "array"   -> "*"

\* What is on the first line of a value: its text, its number or its length.
FirstLine(value) ==
    CASE value[1] \in {"simple", "error"} -> value[2]
      [] value[1] = "integer" -> Numeral(value[2])
      [] value[1] \in {"bulk", "array"} ->
           Numeral(IF value[2] = None THEN -1 ELSE Len(value[2]))

HeaderLine(value) == <<TypeByte(value)>> \o FirstLine(value) \o Crlf

Concat(encode, values) == FlattenSeq([i \in DOMAIN values |-> encode[values[i]]])

\* How many bytes the first n of some values have.
BytesTo(encode, values, n) == Len(Concat(encode, SubSeq(values, 1, n)))

\* A value's bytes, from those of the values in it.
Encoding(encode, value) ==
    HeaderLine(value) \o
      CASE value[1] = "bulk" /\ value[2] # None -> value[2] \o Crlf
        [] value[1] = "array" /\ value[2] # None -> Concat(encode, value[2])
        [] OTHER -> << >>

Encoded[depth \in 0 .. MaxDepth] ==
    [value \in ValuesTo[depth] |-> Encoding(Encoded[depth - 1], value)]

\* serialize_value writes any text as it is, one with a line end too.
Serialize(value) == Encoding(Encoded[MaxDepth - 1], value)

SerializeAll(values) == Concat(Encoded[MaxDepth], values)
-----------------------------------------------------------------------------
(***************************************************************************)
(* RespParser::parse_value and what it calls: a value and the place after  *)
(* it, or an error.                                                        *)
(***************************************************************************)
Ok(value, next) == <<"ok", value, next>>
Err(error) == <<error>>
IsOk(result) == result[1] = "ok"

\* read_crlf_line: read_until stops at an LF or at the end of the bytes, and
\* only when there are no bytes at all is the line incomplete.
ReadLine(bytes, pos) ==
    LET ends == {i \in pos .. Len(bytes) : bytes[i] = "LF"}
        last == Min(ends \cup {Len(bytes)})
    IN  IF pos > Len(bytes) THEN Err("Incomplete")
        ELSE IF SubSeq(bytes, Max({pos, last - 1}), last) # Crlf THEN Err("InvalidFormat")
        ELSE Ok(SubSeq(bytes, pos, last - 2), last + 1)

\* A line that is a number.
ReadNumber(bytes, pos) ==
    LET line == ReadLine(bytes, pos)
        meant == {n \in Numbers : IsOk(line) /\ line[2] = Numeral(n)}
    IN  IF ~IsOk(line) THEN line
        ELSE IF meant = {} THEN Err("InvalidInteger")
        ELSE Ok(CHOOSE n \in meant : TRUE, line[3])

Typed(type, result) ==
    IF IsOk(result) THEN Ok(<<type, result[2]>>, result[3]) ELSE result

\* Mutant: the line end after the data is looked for as soon as the data are there.
BulkFromHasty(bytes, count, pos) ==
    LET end == pos + count + 1
    IN  CASE count = -1 -> Ok(BulkString(None), pos)
          [] count < -1 \/ count > MaxValueSize -> Err("InvalidLength")
          [] count \in 0 .. MaxValueSize /\ end - 1 > Len(bytes) -> Err("Incomplete")
          [] count \in 0 .. MaxValueSize /\ end - 1 <= Len(bytes) ->
               IF SubSeq(bytes, end - 1, Min({end, Len(bytes)})) # Crlf THEN Err("InvalidFormat")
               ELSE Ok(BulkString(SubSeq(bytes, pos, pos + count - 1)), end + 1)

\* Mutant: one byte more than there is must have been read.
BulkFromWaiting(bytes, count, pos) ==
    LET end == pos + count + 1
    IN  CASE count = -1 -> Ok(BulkString(None), pos)
          [] count < -1 \/ count > MaxValueSize -> Err("InvalidLength")
          [] count \in 0 .. MaxValueSize /\ end >= Len(bytes) -> Err("Incomplete")
          [] count \in 0 .. MaxValueSize /\ end < Len(bytes) ->
               IF SubSeq(bytes, end - 1, end) # Crlf THEN Err("InvalidFormat")
               ELSE Ok(BulkString(SubSeq(bytes, pos, pos + count - 1)), end + 1)

\* parse_bulk_string after its first line: so many bytes and a line end.
BulkFrom(bytes, count, pos) ==
    LET end == pos + count + 1
    IN  CASE count = -1 -> Ok(BulkString(None), pos)
          [] count < -1 \/ count > MaxValueSize -> Err("InvalidLength")
          [] count \in 0 .. MaxValueSize /\ end > Len(bytes) -> Err("Incomplete")
          [] count \in 0 .. MaxValueSize /\ end <= Len(bytes) ->
               IF SubSeq(bytes, end - 1, end) # Crlf THEN Err("InvalidFormat")
               ELSE Ok(BulkString(SubSeq(bytes, pos, pos + count - 1)), end + 1)

\* One turn of the loop of parse_array.
Push(before, element) ==
    IF ~IsOk(before) THEN before
    ELSE IF ~IsOk(element) THEN element
    ELSE Ok(Append(before[2], element[2]), element[3])

\* All its turns: so many values, one behind the other.
Elements(parse, count, pos) ==
    LET read[k \in 0 .. count] ==
          IF k = 0 THEN Ok(<< >>, pos) ELSE Push(read[k - 1], parse[read[k - 1][3]])
    IN  read[count]

\* parse_array after its first line.
ArrayFrom(parse, count, pos) ==
    CASE count = -1 -> Ok(Array(None), pos)
      [] count < -1 -> Err("InvalidLength")
      [] count >= 0 -> Typed("array", Elements(parse, count, pos))

\* parse_value at a place; what it finds further on is given by parse.
ValueAt(parse, bytes, pos) ==
    IF pos > Len(bytes) THEN Err("Incomplete")
    ELSE LET number == ReadNumber(bytes, pos + 1)
         IN  CASE bytes[pos] = "+" -> Typed("simple", ReadLine(bytes, pos + 1))
               [] bytes[pos] = "-" -> Typed("error", ReadLine(bytes, pos + 1))
               [] bytes[pos] = ":" -> Typed("integer", number)
               [] bytes[pos] = "$" -> IF ~IsOk(number) THEN number
                                      ELSE BulkFrom(bytes, number[2], number[3])
               [] bytes[pos] = "*" -> IF ~IsOk(number) THEN number
                                      ELSE ArrayFrom(parse, number[2], number[3])
               [] OTHER -> Err("InvalidType")

\* The value at each place.
ParseAt(bytes) ==
    LET parse[pos \in 1 .. Len(bytes) + 1] == ValueAt(parse, bytes, pos) IN parse

ParseValue(bytes) == ParseAt(bytes)[1]
=============================================================================
