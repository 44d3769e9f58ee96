----------------------------- MODULE ShardProofs -----------------------------
(***************************************************************************)
(* What holds of a shard for every set of keys and values, every limit and *)
(* every clock.                                                            *)
(***************************************************************************)
EXTENDS ShardRefinement, DataLemmas, FiniteSetTheorems, TLAPS

USE DEF vars, metrics, delVars, sweepVars

-----------------------------------------------------------------------------
(***************************************************************************)
(* Facts about the helpers.                                                *)
(***************************************************************************)
\* The map never holds more keys than there are: its length is a number.
LEMMA DataLenIsNat ==
    ASSUME NEW d
    PROVE  IsFiniteSet(Stored(d)) /\ DataLen(d) \in Nat
<1>1. Stored(d) \subseteq Keys
  BY DEF Stored
<1>2. IsFiniteSet(Stored(d))
  BY <1>1, FS_Subset, InputAssumption
<1> QED
  BY <1>2, FS_CardinalityType DEF DataLen

\* usize arithmetic stays in usize.
LEMMA WrapsIntoRange ==
    ASSUME NEW n \in Int
    PROVE  n % Usize \in 0 .. Usize - 1
BY SizeAssumption

\* An entry has a size.
LEMMA EntrySizeIsNat ==
    ASSUME NEW k \in Keys, NEW v \in Values
    PROVE  EntrySizeBytes(k, v) \in Nat
BY SizeAssumption DEF EntrySizeBytes

\* A deadline that is not past the last Instant is an Instant.
LEMMA DeadlineIsInstant ==
    ASSUME TypeOK, NEW secs \in Ttls, ~DeadlineOverflows(secs)
    PROVE  Deadline(secs) \in Instants
<1>1. secs \in Nat /\ TicksPerSec \in Nat /\ now \in Nat /\ InstantMax \in Nat
  BY InputAssumption, ClockAssumption DEF TypeOK
<1>2. secs * TicksPerSec \in Nat
  BY <1>1
<1> QED
  BY <1>1, <1>2 DEF DeadlineOverflows, Deadline, Instants
-----------------------------------------------------------------------------
(***************************************************************************)
(* Type correctness.                                                       *)
(***************************************************************************)
LEMMA TypeInit == Init => TypeOK
<1> SUFFICES ASSUME Init PROVE TypeOK
  OBVIOUS
<1>1. now \in 0 .. MaxNow /\ sweep_now \in 0 .. MaxNow
  BY ClockAssumption DEF Init
<1>2. memory_bytes \in 0 .. Usize - 1 /\ expired_count \in 0 .. KeysPerCheck
  BY SizeAssumption, InputAssumption DEF Init
<1>3. reply \in Responses
  BY DEF Init, Responses
<1> QED
  BY <1>1, <1>2, <1>3 DEF Init, TypeOK, Phases

\* remove_key_update_metrics keeps the map and the counters well typed.
LEMMA RemoveTyped ==
    ASSUME TypeOK, NEW k \in Keys, data[k] # None, RemoveKeyUpdateMetrics(k)
    PROVE  /\ data' \in [Keys -> Entries \cup {None}]
           /\ memory_bytes' \in 0 .. Usize - 1
           /\ key_count' \in Nat
<1>1. data[k].value \in Values
  BY DEF TypeOK, Entries
<1>2. memory_bytes - EntrySizeBytes(k, data[k].value) \in Int
  BY <1>1, EntrySizeIsNat, SizeAssumption DEF TypeOK
<1>3. memory_bytes' \in 0 .. Usize - 1
  BY <1>2, WrapsIntoRange DEF RemoveKeyUpdateMetrics
<1>4. key_count' \in Nat
  BY DataLenIsNat DEF RemoveKeyUpdateMetrics
<1> QED
  BY <1>3, <1>4 DEF TypeOK, RemoveKeyUpdateMetrics

\* The memory after a SET, as check_memory_limit computes it, is a natural.
LEMMA ProjectedTyped ==
    ASSUME TypeOK, NEW k \in Keys, NEW v \in Values
    PROVE  Projected(k, v) \in 0 .. Usize - 1
<1>1. OldSize(k) \in Nat
  <2>1. CASE data[k] = None
    BY <2>1 DEF OldSize
  <2>2. CASE data[k] # None
    <3>1. data[k].value \in Values
      BY <2>2 DEF TypeOK, Entries
    <3> QED
      BY <2>2, <3>1, EntrySizeIsNat DEF OldSize
  <2> QED
    BY <2>1, <2>2
<1>2. memory_bytes + EntrySizeBytes(k, v) - OldSize(k) \in Int
  BY <1>1, EntrySizeIsNat, SizeAssumption DEF TypeOK
<1> QED
  BY <1>2, WrapsIntoRange DEF Projected

\* Queueing a deadline keeps the heap a bag of expiries.
LEMMA HeapPushTyped ==
    ASSUME NEW q \in [Expiries -> Nat], NEW t \in Instants, NEW k \in Keys
    PROVE  /\ MkExpiry(t, k) \in Expiries
           /\ HeapPush(q, MkExpiry(t, k)) \in [Expiries -> Nat]
<1>1. MkExpiry(t, k) \in Expiries
  BY DEF MkExpiry, Expiries
<1>2. ASSUME NEW x \in Expiries PROVE HeapPush(q, x) \in [Expiries -> Nat]
  BY DEF HeapPush
<1> QED
  BY <1>1, <1>2

\* Every response a command can give is one of the enum.
LEMMA PlainTyped ==
    /\ <<"Ok">> \in Responses
    /\ <<"Pong">> \in Responses
    /\ <<"Info", "server">> \in Responses
BY DEF Responses, InfoResponses

\* The errors of a shard are responses.
LEMMA ErrorTyped ==
    /\ <<"Error", "unknown section">> \in Responses
    /\ <<"Error", "OOM">> \in Responses
    /\ <<"Error", "key too large">> \in Responses
    /\ <<"Error", "value too large">> \in Responses
    /\ <<"Error", "shard full">> \in Responses
BY DEF Responses, InfoResponses

\* What GET finds is a response.
LEMMA ValueTyped ==
    ASSUME NEW v \in Values \cup {None}
    PROVE  <<"Value", v>> \in Responses
BY DEF Responses

\* So are numbers.
LEMMA IntegerTyped ==
    ASSUME NEW n \in Int
    PROVE  <<"Integer", n>> \in Responses
BY DEF Responses

\* So is what INFO tells.
LEMMA InfoTyped ==
    ASSUME NEW m \in Nat, NEW n \in Nat
    PROVE  /\ <<"Info", "stats", m, n>> \in Responses
           /\ <<"Info", "memory", m, n>> \in Responses
BY DEF Responses, InfoResponses

\* Commands that only answer: refusals, PING, INFO, EXPIRE of no key.
LEMMA AnswerTyped ==
    ASSUME TypeOK, NEW r \in Responses, Respond(r),
           UNCHANGED <<now, data, ttl_queue, memory_bytes, key_count,
                       keys_expired, worker, delVars, sweepVars>>
    PROVE  TypeOK'
BY DEF TypeOK, Respond

\* Every step keeps the types.
LEMMA TypeStep == TypeOK /\ [Next]_vars => TypeOK'
<1> SUFFICES ASSUME TypeOK, [Next]_vars PROVE TypeOK'
  OBVIOUS
<1>1. CASE CmdPing
  BY <1>1, AnswerTyped, PlainTyped DEF CmdPing
<1>2. ASSUME NEW s \in Sections, CmdInfo(s) PROVE TypeOK'
  <2>1. memory_bytes \in Nat
    BY SizeAssumption DEF TypeOK
  <2>2. PICK r \in Responses : Respond(r)
    <3>1. CASE s \in {"default", "server"}
      BY <1>2, <3>1, PlainTyped DEF CmdInfo
    <3>2. CASE s = "stats"
      BY <1>2, <3>2, InfoTyped DEF CmdInfo, TypeOK
    <3>3. CASE s = "memory"
      BY <1>2, <2>1, <3>3, InfoTyped DEF CmdInfo, TypeOK
    <3>4. CASE s = "unknown"
      BY <1>2, <3>4, ErrorTyped DEF CmdInfo
    <3> QED
      BY <3>1, <3>2, <3>3, <3>4 DEF Sections
  <2> QED
    BY <1>2, <2>2, AnswerTyped DEF CmdInfo
<1>3. ASSUME NEW k \in Keys, NEW v \in Values, NEW ttl \in Ttls \cup {None},
             CmdSet(k, v, ttl)
      PROVE  TypeOK'
  <2>1. CASE SetRefused(k, v)
    <3>1. <<"Error", SetRefusal(k, v)>> \in Responses
      BY <2>1, ErrorTyped DEF SetRefused, SetRefusal
    <3> QED
      BY <2>1, <3>1, AnswerTyped DEF SetRefused
  <2>2. CASE SetPanics(k, v, ttl)
    BY <2>2 DEF SetPanics, Panic, TypeOK, Phases
  <2>3. CASE SetOOM(k, v, ttl)
    BY <2>3, AnswerTyped, ErrorTyped DEF SetOOM
  <2>4. CASE SetInserts(k, v, ttl)
    <3> DEFINE e == IF ttl = None THEN None ELSE Deadline(ttl)
    <3>1. e \in Instants \cup {None}
      BY <2>4, DeadlineIsInstant DEF SetInserts, SetChecked
    <3>2. data' = [data EXCEPT ![k] = [value |-> v, expiry |-> e]]
      BY <2>4 DEF SetInserts
    <3>3. ttl_queue' = IF e = None THEN ttl_queue
                       ELSE HeapPush(ttl_queue, MkExpiry(e, k))
      BY <2>4 DEF SetInserts
    <3> HIDE DEF e
    <3>4. data' \in [Keys -> Entries \cup {None}]
      BY <3>1, <3>2 DEF TypeOK, Entries
    <3>5. ttl_queue' \in [Expiries -> Nat]
      BY <3>1, <3>3, HeapPushTyped DEF TypeOK
    <3>6. memory_bytes' \in 0 .. Usize - 1 /\ key_count' \in Nat
      BY <2>4, ProjectedTyped, DataLenIsNat DEF SetInserts
    <3>7. reply' \in Responses /\ commands_processed' \in Nat
      BY <2>4, PlainTyped DEF SetInserts, Respond, TypeOK
    <3>8. UNCHANGED <<now, keys_expired, worker, delVars, sweepVars>>
      BY <2>4 DEF SetInserts
    <3> QED
      BY <3>4, <3>5, <3>6, <3>7, <3>8 DEF TypeOK
  <2> QED
    BY <1>3, <2>1, <2>2, <2>3, <2>4 DEF CmdSet
<1>4. ASSUME NEW k \in Keys, CmdGet(k) PROVE TypeOK'
  <2>1. CASE data[k] # None /\ IsExpired(data[k])
    <3>1. RemoveKeyUpdateMetrics(k)
      BY <1>4, <2>1 DEF CmdGet, LazyExpire
    <3>2. reply' \in Responses
      BY <1>4, <2>1, ValueTyped DEF CmdGet, Respond
    <3>3. keys_expired' \in Nat
      BY <1>4, <2>1 DEF CmdGet, LazyExpire, TypeOK
    <3>4. commands_processed' \in Nat
      BY <1>4, <2>1 DEF CmdGet, Respond, TypeOK, IsExpired
    <3>5. UNCHANGED <<now, ttl_queue, worker, delVars, sweepVars>>
      BY <1>4 DEF CmdGet
    <3> QED
      BY <2>1, <3>1, <3>2, <3>3, <3>4, <3>5, RemoveTyped DEF TypeOK
  <2>2. CASE data[k] = None \/ ~IsExpired(data[k])
    <3>1. PICK r \in Responses : Respond(r)
      BY <1>4, <2>2, ValueTyped DEF CmdGet, TypeOK, Entries
    <3>2. UNCHANGED <<data, memory_bytes, key_count, keys_expired>>
      BY <1>4, <2>2 DEF CmdGet
    <3> QED
      BY <1>4, <3>1, <3>2, AnswerTyped DEF CmdGet
  <2> QED
    BY <2>1, <2>2
<1>5. ASSUME NEW k \in Keys, CmdTtl(k) PROVE TypeOK'
  <2>1. CASE data[k] # None /\ IsExpired(data[k])
    <3>1. RemoveKeyUpdateMetrics(k)
      BY <1>5, <2>1 DEF CmdTtl, LazyExpire, IsExpired
    <3>2. reply' \in Responses
      BY <1>5, <2>1, IntegerTyped DEF CmdTtl, Respond, IsExpired
    <3>3. keys_expired' \in Nat
      BY <1>5, <2>1 DEF CmdTtl, LazyExpire, TypeOK, IsExpired
    <3>4. commands_processed' \in Nat
      BY <1>5, <2>1 DEF CmdTtl, Respond, TypeOK, IsExpired
    <3>5. UNCHANGED <<now, ttl_queue, worker, delVars, sweepVars>>
      BY <1>5 DEF CmdTtl
    <3> QED
      BY <2>1, <3>1, <3>2, <3>3, <3>4, <3>5, RemoveTyped DEF TypeOK
  <2>2. CASE data[k] = None \/ ~IsExpired(data[k])
    <3>1. ASSUME data[k] # None, data[k].expiry # None
          PROVE  RemainingSecs(data[k]) \in Int
      BY <3>1, ClockAssumption DEF RemainingSecs, TypeOK, Entries, Instants
    <3>2. PICK r \in Responses : Respond(r)
      BY <1>5, <2>2, <3>1, IntegerTyped DEF CmdTtl
    <3>3. UNCHANGED <<data, memory_bytes, key_count, keys_expired>>
      BY <1>5, <2>2 DEF CmdTtl
    <3> QED
      BY <1>5, <3>2, <3>3, AnswerTyped DEF CmdTtl
  <2> QED
    BY <2>1, <2>2
<1>6. ASSUME NEW k \in Keys, NEW secs \in Ttls, CmdExpire(k, secs)
      PROVE  TypeOK'
  <2>1. CASE ExpireMissing(k)
    BY <2>1, AnswerTyped, IntegerTyped DEF ExpireMissing
  <2>2. CASE ExpirePanics(k, secs)
    BY <2>2 DEF ExpirePanics, Panic, TypeOK, Phases
  <2>3. CASE ExpireSets(k, secs)
    <3>1. Deadline(secs) \in Instants
      BY <2>3, DeadlineIsInstant DEF ExpireSets
    <3>2. data' \in [Keys -> Entries \cup {None}]
      BY <2>3, <3>1 DEF ExpireSets, TypeOK, Entries
    <3>3. ttl_queue' \in [Expiries -> Nat]
      BY <2>3, <3>1, HeapPushTyped DEF ExpireSets, TypeOK
    <3>4. reply' \in Responses
      BY <2>3, IntegerTyped DEF ExpireSets, Respond
    <3> QED
      BY <2>3, <3>2, <3>3, <3>4 DEF ExpireSets, Respond, TypeOK
  <2> QED
    BY <1>6, <2>1, <2>2, <2>3 DEF CmdExpire
<1>7. ASSUME NEW keys \in DelArgs, DelBegin(keys) PROVE TypeOK'
  BY <1>7, InputAssumption DEF DelBegin, TypeOK, Phases
<1>8. CASE DelKey
  <2>1. Head(del_keys) \in Keys /\ Tail(del_keys) \in Seq(Keys)
    BY <1>8 DEF DelKey, TypeOK
  <2>2. /\ data' \in [Keys -> Entries \cup {None}]
        /\ memory_bytes' \in 0 .. Usize - 1
        /\ key_count' \in Nat
        /\ deleted' \in Nat
    <3>1. CASE data[Head(del_keys)] # None
      <4>1. RemoveKeyUpdateMetrics(Head(del_keys)) /\ deleted' = deleted + 1
        BY <1>8, <3>1 DEF DelKey
      <4> QED
        BY <2>1, <3>1, <4>1, RemoveTyped DEF TypeOK
    <3>2. CASE data[Head(del_keys)] = None
      BY <1>8, <3>2 DEF DelKey, TypeOK
    <3> QED
      BY <3>1, <3>2
  <2> QED
    BY <1>8, <2>1, <2>2 DEF DelKey, TypeOK
<1>9. CASE DelEnd
  <2>1. reply' \in Responses
    BY <1>9, IntegerTyped DEF DelEnd, Respond, TypeOK
  <2> QED
    BY <1>9, <2>1 DEF DelEnd, Respond, TypeOK, Phases
<1>10. CASE SweepBegin
  BY <1>10, InputAssumption DEF SweepBegin, TypeOK, Phases
<1>11. ASSUME NEW x \in Expiries, SweepPop(x) PROVE TypeOK'
  <2>1. ttl_queue' \in [Expiries -> Nat]
    BY <1>11 DEF SweepPop, IsHeapTop, HeapPop, TypeOK
  <2>2. /\ data' \in [Keys -> Entries \cup {None}]
        /\ expired_count' \in 0 .. KeysPerCheck
    BY <1>11, InputAssumption DEF SweepPop, TypeOK
  <2> QED
    BY <1>11, <2>1, <2>2 DEF SweepPop, TypeOK
<1>12. CASE SweepEnd
  BY <1>12, DataLenIsNat, ClockAssumption, InputAssumption
  DEF SweepEnd, TypeOK, Phases
<1>13. CASE SerializePanics
  BY <1>13 DEF SerializePanics, Panic, TypeOK, Phases
<1>14. CASE Tick
  BY <1>14, ClockAssumption DEF Tick, TypeOK
<1>15. CASE UNCHANGED vars
  BY <1>15 DEF TypeOK
<1> QED
  BY <1>1, <1>2, <1>3, <1>4, <1>5, <1>6, <1>7, <1>8, <1>9, <1>10, <1>11,
     <1>12, <1>13, <1>14, <1>15
  DEF Next, Execute, DelLoop, SweepLoop

\* Whatever clients send and whenever the tickers fire, every variable keeps
\* its type: in particular every stored or queued deadline is a representable
\* Instant, and the usize counters stay in range.
THEOREM TypeCorrect == Spec => []TypeOK
BY TypeInit, TypeStep, PTL DEF Spec
-----------------------------------------------------------------------------
(***************************************************************************)
(* The heap.                                                               *)
(***************************************************************************)
LEMMA MkExpiryParts ==
    ASSUME NEW t, NEW k
    PROVE  MkExpiry(t, k).expiry_time = t /\ MkExpiry(t, k).key = k
BY DEF MkExpiry

\* A step that removes keys, or nothing, and leaves the heap alone.
LEMMA RemovalKeepsHeap ==
    ASSUME HeapCoversExpiry, UNCHANGED ttl_queue,
           \A k \in Keys : data'[k] \in {None, data[k]}
    PROVE  HeapCoversExpiry'
BY DEF HeapCoversExpiry

\* A step that gives one key a new entry and queues its deadline, if any.
LEMMA InsertKeepsHeap ==
    ASSUME TypeOK, HeapCoversExpiry, NEW k \in Keys,
           NEW e \in [value : Values, expiry : Instants \cup {None}],
           data' = [data EXCEPT ![k] = e],
           ttl_queue' = IF e.expiry = None THEN ttl_queue
                        ELSE HeapPush(ttl_queue, MkExpiry(e.expiry, k))
    PROVE  HeapCoversExpiry'
<1> SUFFICES ASSUME NEW j \in Keys, data'[j] # None, data'[j].expiry # None
             PROVE  ttl_queue'[MkExpiry(data'[j].expiry, j)] > 0
  BY DEF HeapCoversExpiry
<1>1. \A x \in Expiries :
        ttl_queue'[x] \in Nat /\ ttl_queue'[x] >= ttl_queue[x]
  <2>1. CASE e.expiry = None
    BY <2>1 DEF TypeOK
  <2>2. CASE e.expiry # None
    <3>1. MkExpiry(e.expiry, k) \in Expiries
      BY <2>2, HeapPushTyped DEF TypeOK
    <3> QED
      BY <2>2, <3>1 DEF TypeOK, HeapPush
  <2> QED
    BY <2>1, <2>2
<1>2. CASE j = k
  <2>1. data'[j] = e /\ e.expiry # None /\ MkExpiry(e.expiry, k) \in Expiries
    BY <1>2, HeapPushTyped DEF TypeOK
  <2> QED
    BY <1>2, <2>1 DEF HeapPush, TypeOK
<1>3. CASE j # k
  <2>1. data'[j] = data[j]
    BY <1>3 DEF TypeOK
  <2>2. MkExpiry(data[j].expiry, j) \in Expiries
    <3>1. data[j].expiry \in Instants
      BY <2>1 DEF TypeOK, Entries
    <3> QED
      BY <3>1, HeapPushTyped DEF TypeOK
  <2>3. ttl_queue[MkExpiry(data[j].expiry, j)] > 0
    BY <2>1 DEF HeapCoversExpiry
  <2> QED
    BY <1>1, <2>1, <2>2, <2>3 DEF TypeOK
<1> QED
  BY <1>2, <1>3

\* No step takes a deadline that is needed out of the heap.
LEMMA HeapStep ==
    TypeOK /\ HeapCoversExpiry /\ [Next]_vars => HeapCoversExpiry'
<1> SUFFICES ASSUME TypeOK, HeapCoversExpiry, [Next]_vars
             PROVE  HeapCoversExpiry'
  OBVIOUS
<1>1. ASSUME UNCHANGED <<data, ttl_queue>> PROVE HeapCoversExpiry'
  BY <1>1 DEF HeapCoversExpiry
<1>2. ASSUME NEW k \in Keys, NEW v \in Values, NEW ttl \in Ttls \cup {None},
             SetInserts(k, v, ttl)
      PROVE  HeapCoversExpiry'
  <2> DEFINE x == IF ttl = None THEN None ELSE Deadline(ttl)
             e == [value |-> v, expiry |-> x]
  <2>1. x \in Instants \cup {None}
    BY <1>2, DeadlineIsInstant DEF SetInserts, SetChecked
  <2>2. /\ data' = [data EXCEPT ![k] = e]
        /\ ttl_queue' = IF x = None THEN ttl_queue
                        ELSE HeapPush(ttl_queue, MkExpiry(x, k))
    BY <1>2 DEF SetInserts
  <2> HIDE DEF x
  <2>3. e \in [value : Values, expiry : Instants \cup {None}] /\ e.expiry = x
    BY <2>1
  <2> QED
    BY <2>2, <2>3, InsertKeepsHeap
<1>3. ASSUME NEW k \in Keys, CmdGet(k) \/ CmdTtl(k) PROVE HeapCoversExpiry'
  <2>1. UNCHANGED ttl_queue
    BY <1>3 DEF CmdGet, CmdTtl
  <2>2. UNCHANGED data \/ data' = [data EXCEPT ![k] = None]
    BY <1>3 DEF CmdGet, CmdTtl, LazyExpire, RemoveKeyUpdateMetrics
  <2> QED
    BY <2>1, <2>2, RemovalKeepsHeap DEF TypeOK
<1>4. ASSUME NEW k \in Keys, NEW secs \in Ttls, ExpireSets(k, secs)
      PROVE  HeapCoversExpiry'
  <2> DEFINE x == Deadline(secs)
             e == [value |-> data[k].value, expiry |-> x]
  <2>1. x \in Instants
    BY <1>4, DeadlineIsInstant DEF ExpireSets
  <2>2. x # None
    BY <2>1, NoneAssumption, ClockAssumption DEF Instants
  <2>3. data[k] \in Entries
    BY <1>4 DEF ExpireSets, TypeOK
  <2>4. data' = [data EXCEPT ![k] = e]
    <3>1. [data[k] EXCEPT !.expiry = x] = e
      BY <2>3 DEF Entries
    <3>2. data' = [data EXCEPT ![k] = [data[k] EXCEPT !.expiry = x]]
      BY <1>4 DEF ExpireSets
    <3> QED
      BY <3>1, <3>2
  <2>5. ttl_queue' = HeapPush(ttl_queue, MkExpiry(x, k))
    BY <1>4 DEF ExpireSets
  <2> HIDE DEF x
  <2>6. e \in [value : Values, expiry : Instants \cup {None}] /\ e.expiry = x
    BY <2>1, <2>3 DEF Entries
  <2> QED
    BY <2>2, <2>4, <2>5, <2>6, InsertKeepsHeap
<1>5. CASE DelKey
  <2>1. Head(del_keys) \in Keys
    BY <1>5 DEF DelKey, TypeOK
  <2>2. UNCHANGED data \/ data' = [data EXCEPT ![Head(del_keys)] = None]
    BY <1>5 DEF DelKey, RemoveKeyUpdateMetrics
  <2> QED
    BY <1>5, <2>1, <2>2, RemovalKeepsHeap DEF DelKey, TypeOK
<1>6. ASSUME NEW x \in Expiries, SweepPop(x) PROVE HeapCoversExpiry'
  <2> SUFFICES ASSUME NEW k \in Keys, data'[k] # None, data'[k].expiry # None
               PROVE  ttl_queue'[MkExpiry(data'[k].expiry, k)] > 0
    BY DEF HeapCoversExpiry
  <2> DEFINE y == MkExpiry(data'[k].expiry, k)
  <2>1. data'[k] = data[k]
    BY <1>6 DEF SweepPop, TypeOK, Expiries
  <2>2. y \in Expiries
    <3>1. data[k].expiry \in Instants
      BY <2>1 DEF TypeOK, Entries
    <3> QED
      BY <2>1, <3>1, HeapPushTyped DEF TypeOK
  <2>3. y # x
    <3> SUFFICES ASSUME y = x PROVE FALSE
      OBVIOUS
    <3>1. x.key = k /\ x.expiry_time = data[k].expiry
      BY <2>1, MkExpiryParts
    <3>2. StillCurrent(x)
      BY <2>1, <3>1 DEF StillCurrent
    <3>3. data' = [data EXCEPT ![k] = None]
      BY <1>6, <3>1, <3>2 DEF SweepPop
    <3> QED
      BY <3>3 DEF TypeOK
  <2>4. ttl_queue'[y] = ttl_queue[y]
    BY <1>6, <2>2, <2>3 DEF SweepPop, HeapPop, TypeOK
  <2> QED
    BY <2>1, <2>4 DEF HeapCoversExpiry
<1>7. CASE UNCHANGED vars
  BY <1>1, <1>7
<1> QED
  <2>1. CASE \E k \in Keys, v \in Values, ttl \in Ttls \cup {None} :
               SetRefused(k, v) \/ SetPanics(k, v, ttl) \/ SetOOM(k, v, ttl)
    BY <1>1, <2>1 DEF SetRefused, SetPanics, SetOOM, Panic
  <2>2. CASE \E k \in Keys, secs \in Ttls :
               ExpireMissing(k) \/ ExpirePanics(k, secs)
    BY <1>1, <2>2 DEF ExpireMissing, ExpirePanics, Panic
  <2>3. CASE CmdPing \/ (\E s \in Sections : CmdInfo(s))
               \/ (\E keys \in DelArgs : DelBegin(keys))
    BY <1>1, <2>3 DEF CmdPing, CmdInfo, DelBegin
  <2>4. CASE DelEnd \/ SweepBegin \/ SweepEnd \/ SerializePanics \/ Tick
    BY <1>1, <2>4 DEF DelEnd, SweepBegin, SweepEnd, SerializePanics, Panic, Tick
  <2> QED
    BY <1>2, <1>3, <1>4, <1>5, <1>6, <1>7, <2>1, <2>2, <2>3, <2>4
    DEF Next, Execute, DelLoop, SweepLoop, CmdSet, CmdExpire

\* Every stored deadline has its heap element, so that the sweep cannot miss
\* an entry: for any number of keys and any mix of SET, EXPIRE, DEL and sweeps.
THEOREM HeapComplete == Spec => []HeapCoversExpiry
<1>1. Init => HeapCoversExpiry
  BY DEF Init, HeapCoversExpiry
<1> QED
  BY <1>1, HeapStep, TypeCorrect, PTL DEF Spec
-----------------------------------------------------------------------------
(***************************************************************************)
(* Expiry is never premature.                                              *)
(***************************************************************************)
\* A sweep works with a time that has passed.
SweepInThePast == worker = "sweep" => sweep_now <= now

\* The time a sweep works with has passed, whatever happens next.
LEMMA SweepTimeStep ==
    TypeOK /\ SweepInThePast /\ [Next]_vars => SweepInThePast'
<1> SUFFICES ASSUME TypeOK, SweepInThePast, [Next]_vars PROVE SweepInThePast'
  OBVIOUS
<1> USE DEF SweepInThePast
<1>1. ASSUME UNCHANGED <<now, sweep_now>>, worker' = worker
      PROVE  SweepInThePast'
  BY <1>1
<1>2. ASSUME worker' # "sweep" PROVE SweepInThePast'
  BY <1>2
<1>3. CASE CmdPing \/ (\E s \in Sections : CmdInfo(s))
  BY <1>1, <1>3 DEF CmdPing, CmdInfo
<1>4. ASSUME NEW k \in Keys, NEW v \in Values, NEW ttl \in Ttls \cup {None},
             CmdSet(k, v, ttl)
      PROVE  SweepInThePast'
  BY <1>1, <1>2, <1>4
  DEF CmdSet, SetRefused, SetPanics, SetOOM, SetInserts, Panic
<1>5. ASSUME NEW k \in Keys, CmdGet(k) \/ CmdTtl(k) PROVE SweepInThePast'
  BY <1>1, <1>5 DEF CmdGet, CmdTtl
<1>6. ASSUME NEW k \in Keys, NEW secs \in Ttls, CmdExpire(k, secs)
      PROVE  SweepInThePast'
  BY <1>1, <1>2, <1>6 DEF CmdExpire, ExpireMissing, ExpirePanics, ExpireSets, Panic
<1>7. CASE \E keys \in DelArgs : DelBegin(keys)
  BY <1>2, <1>7 DEF DelBegin
<1>8. CASE DelKey
  BY <1>1, <1>8 DEF DelKey
<1>9. CASE DelEnd \/ SweepEnd \/ SerializePanics
  BY <1>2, <1>9 DEF DelEnd, SweepEnd, SerializePanics, Panic
<1>10. CASE SweepBegin
  BY <1>10 DEF SweepBegin, TypeOK
<1>11. CASE \E x \in Expiries : SweepPop(x)
  BY <1>1, <1>11 DEF SweepPop
<1>12. CASE Tick
  BY <1>12, ClockAssumption DEF Tick, TypeOK
<1>13. CASE UNCHANGED vars
  BY <1>1, <1>13
<1> QED
  BY <1>3, <1>4, <1>5, <1>6, <1>7, <1>8, <1>9, <1>10, <1>11, <1>12, <1>13
  DEF Next, Execute, DelLoop, SweepLoop

\* The body of NoPrematureExpiry.
OnlyExpiredVanish ==
    \A k \in Keys :
      data[k] # None /\ data'[k] = None => worker = "del" \/ IsExpired(data[k])

\* A key that vanishes has expired.
LEMMA VanishStep == TypeOK /\ SweepInThePast /\ [Next]_vars => OnlyExpiredVanish
<1> SUFFICES ASSUME TypeOK, SweepInThePast, [Next]_vars,
                    NEW k \in Keys, data[k] # None, data'[k] = None,
                    worker # "del"
             PROVE  IsExpired(data[k])
  BY DEF OnlyExpiredVanish
<1>1. ~UNCHANGED data
  OBVIOUS
<1>2. ASSUME NEW j \in Keys, NEW v \in Values, NEW ttl \in Ttls \cup {None},
             CmdSet(j, v, ttl)
      PROVE  FALSE
  <2>1. SetInserts(j, v, ttl)
    BY <1>1, <1>2 DEF CmdSet, SetRefused, SetPanics, SetOOM, Panic
  <2> DEFINE e == [value |-> v,
                   expiry |-> IF ttl = None THEN None ELSE Deadline(ttl)]
  <2>2. e \in Entries
    BY <2>1, DeadlineIsInstant DEF SetInserts, SetChecked, Entries
  <2>3. data' = [data EXCEPT ![j] = e]
    BY <2>1 DEF SetInserts
  <2> HIDE DEF e
  <2> QED
    BY <2>2, <2>3, NoneAssumption DEF TypeOK
<1>3. ASSUME NEW j \in Keys, CmdGet(j) \/ CmdTtl(j)
      PROVE  IsExpired(data[k])
  <2>1. IsExpired(data[j]) /\ data' = [data EXCEPT ![j] = None]
    BY <1>1, <1>3 DEF CmdGet, CmdTtl, LazyExpire, RemoveKeyUpdateMetrics
  <2>2. j = k
    BY <2>1 DEF TypeOK
  <2> QED
    BY <2>1, <2>2
<1>4. ASSUME NEW j \in Keys, NEW secs \in Ttls, CmdExpire(j, secs)
      PROVE  FALSE
  <2>1. ExpireSets(j, secs)
    BY <1>1, <1>4 DEF CmdExpire, ExpireMissing, ExpirePanics, Panic
  <2>2. Deadline(secs) \in Instants /\ data[j] \in Entries
    BY <2>1, DeadlineIsInstant DEF ExpireSets, TypeOK
  <2>3. [data[j] EXCEPT !.expiry = Deadline(secs)] \in Entries
    BY <2>2 DEF Entries
  <2>4. data' = [data EXCEPT ![j] = [data[j] EXCEPT !.expiry = Deadline(secs)]]
    BY <2>1 DEF ExpireSets
  <2> QED
    BY <2>3, <2>4, NoneAssumption DEF TypeOK
<1>5. ASSUME NEW x \in Expiries, SweepPop(x) PROVE IsExpired(data[k])
  <2>1. StillCurrent(x) /\ data' = [data EXCEPT ![x.key] = None]
    BY <1>1, <1>5 DEF SweepPop
  <2>2. x.key = k
    BY <2>1 DEF TypeOK, Expiries
  <2>3. data[k].expiry = x.expiry_time /\ x.expiry_time \in Instants
    BY <2>1, <2>2 DEF StillCurrent, Expiries
  <2>4. x.expiry_time <= sweep_now /\ sweep_now <= now
    BY <1>5 DEF SweepPop, IsDue, SweepInThePast
  <2>5. x.expiry_time # None
    BY <2>3, NoneAssumption, ClockAssumption DEF Instants
  <2>6. x.expiry_time <= now
    BY <2>3, <2>4, ClockAssumption DEF Instants, TypeOK
  <2> QED
    BY <2>3, <2>5, <2>6 DEF IsExpired
<1> QED
  <2>1. ~DelLoop
    BY DEF DelLoop, DelKey, DelEnd
  <2>2. ~(\/ CmdPing \/ (\E s \in Sections : CmdInfo(s))
          \/ (\E keys \in DelArgs : DelBegin(keys)))
    BY <1>1 DEF CmdPing, CmdInfo, DelBegin
  <2>3. ~(SweepBegin \/ SweepEnd \/ SerializePanics \/ Tick)
    BY <1>1 DEF SweepBegin, SweepEnd, SerializePanics, Panic, Tick
  <2>4. ~UNCHANGED vars
    BY <1>1
  <2> QED
    BY <1>2, <1>3, <1>4, <1>5, <2>1, <2>2, <2>3, <2>4
    DEF Next, Execute, SweepLoop

\* No stale heap element, late sweep or lazy expiry ever removes a key whose
\* current deadline has not passed.
THEOREM ExpiryNotPremature == Spec => NoPrematureExpiry
<1>1. Init => SweepInThePast
  BY DEF Init, SweepInThePast
<1>2. Spec => []SweepInThePast
  BY <1>1, SweepTimeStep, TypeCorrect, PTL DEF Spec
<1>3. Spec => [][OnlyExpiredVanish]_vars
  BY <1>2, VanishStep, TypeCorrect, PTL DEF Spec
<1> QED
  BY <1>3 DEF NoPrematureExpiry, OnlyExpiredVanish
-----------------------------------------------------------------------------
(***************************************************************************)
(* key_count.                                                              *)
(***************************************************************************)
\* Removing a key that is there shortens the map by one.
LEMMA RemovalShortens ==
    ASSUME NEW d \in [Keys -> Entries \cup {None}], NEW k \in Keys, d[k] # None
    PROVE  DataLen([d EXCEPT ![k] = None]) = DataLen(d) - 1
<1> DEFINE e == [d EXCEPT ![k] = None]
<1>1. Stored(e) = Stored(d) \ {k}
  BY DEF Stored
<1>2. k \in Stored(d) /\ IsFiniteSet(Stored(d))
  BY DataLenIsNat DEF Stored
<1>3. Cardinality(Stored(d) \ {k}) = Cardinality(Stored(d)) - 1
  BY <1>2, FS_RemoveElement
<1> QED
  BY <1>1, <1>3 DEF DataLen

\* A step that ends with `key_count.store(data.len())`, outside a sweep.
LEMMA StoredCountExact ==
    ASSUME TypeOK, KeyCountExact, worker # "sweep", worker' # "sweep",
           UNCHANGED expired_count, key_count' = DataLen(data')
    PROVE  KeyCountExact'
BY DataLenIsNat DEF KeyCountExact, TypeOK

\* Every step keeps the count of keys.
LEMMA KeyCountStep ==
    TypeOK /\ KeyCountExact /\ [Next]_vars => KeyCountExact'
<1> SUFFICES ASSUME TypeOK, KeyCountExact, [Next]_vars PROVE KeyCountExact'
  OBVIOUS
<1>1. ASSUME UNCHANGED <<data, key_count, expired_count>>,
             worker' = worker \/ worker # "sweep"
      PROVE  KeyCountExact'
  BY <1>1 DEF KeyCountExact, DataLen, Stored
<1>2. ASSUME NEW k \in Keys, NEW v \in Values, NEW ttl \in Ttls \cup {None},
             CmdSet(k, v, ttl)
      PROVE  KeyCountExact'
  <2>1. CASE SetInserts(k, v, ttl)
    BY <2>1, StoredCountExact DEF SetInserts, SetChecked, Receive
  <2>2. CASE SetRefused(k, v) \/ SetPanics(k, v, ttl) \/ SetOOM(k, v, ttl)
    BY <1>1, <2>2
    DEF SetRefused, SetPanics, SetOOM, SetChecked, Panic, Receive
  <2> QED
    BY <1>2, <2>1, <2>2 DEF CmdSet
<1>3. ASSUME NEW k \in Keys, CmdGet(k) \/ CmdTtl(k) PROVE KeyCountExact'
  <2>1. CASE LazyExpire(k)
    BY <1>3, <2>1, StoredCountExact
    DEF CmdGet, CmdTtl, LazyExpire, RemoveKeyUpdateMetrics, Receive
  <2>2. CASE UNCHANGED <<data, memory_bytes, key_count, keys_expired>>
    BY <1>1, <1>3, <2>2 DEF CmdGet, CmdTtl
  <2> QED
    BY <1>3, <2>1, <2>2 DEF CmdGet, CmdTtl
<1>4. ASSUME NEW k \in Keys, NEW secs \in Ttls, CmdExpire(k, secs)
      PROVE  KeyCountExact'
  <2>1. CASE ExpireSets(k, secs)
    <3> DEFINE e == [data[k] EXCEPT !.expiry = Deadline(secs)]
    <3>1. Deadline(secs) \in Instants /\ data[k] \in Entries
      BY <2>1, DeadlineIsInstant DEF ExpireSets, TypeOK
    <3>2. e \in Entries
      BY <3>1 DEF Entries
    <3>3. data' = [data EXCEPT ![k] = e]
      BY <2>1 DEF ExpireSets
    <3> HIDE DEF e
    <3>4. Stored(data') = Stored(data)
      BY <2>1, <3>2, <3>3, NoneAssumption DEF Stored, TypeOK, ExpireSets
    <3> QED
      BY <2>1, <3>4 DEF ExpireSets, Receive, KeyCountExact, DataLen
  <2>2. CASE ExpireMissing(k) \/ ExpirePanics(k, secs)
    BY <1>1, <2>2 DEF ExpireMissing, ExpirePanics, Panic, Receive
  <2> QED
    BY <1>4, <2>1, <2>2 DEF CmdExpire
<1>5. CASE CmdPing \/ (\E s \in Sections : CmdInfo(s))
             \/ (\E keys \in DelArgs : DelBegin(keys))
  BY <1>1, <1>5 DEF CmdPing, CmdInfo, DelBegin, Receive
<1>6. CASE DelKey
  <2>1. CASE RemoveKeyUpdateMetrics(Head(del_keys))
    BY <1>6, <2>1, StoredCountExact DEF DelKey, RemoveKeyUpdateMetrics
  <2>2. CASE UNCHANGED <<data, memory_bytes, key_count, deleted>>
    BY <1>1, <1>6, <2>2 DEF DelKey
  <2> QED
    BY <1>6, <2>1, <2>2 DEF DelKey
<1>7. CASE DelEnd \/ SerializePanics \/ Tick \/ UNCHANGED vars
  BY <1>1, <1>7 DEF DelEnd, SerializePanics, Panic, Tick
<1>8. CASE SweepBegin
  BY <1>8 DEF SweepBegin, KeyCountExact, DataLen, Stored
<1>9. ASSUME NEW x \in Expiries, SweepPop(x) PROVE KeyCountExact'
  <2>1. CASE StillCurrent(x)
    <3>1. x.key \in Keys /\ data[x.key] # None
      BY <2>1 DEF StillCurrent, Expiries
    <3>2. /\ data' = [data EXCEPT ![x.key] = None]
          /\ expired_count' = expired_count + 1
          /\ UNCHANGED key_count
          /\ worker' = "sweep"
      BY <1>9, <2>1 DEF SweepPop
    <3>3. DataLen(data') = DataLen(data) - 1
      BY <3>1, <3>2, RemovalShortens DEF TypeOK
    <3>4. DataLen(data) \in Nat /\ expired_count \in Nat
      BY DataLenIsNat, InputAssumption DEF TypeOK
    <3> QED
      BY <3>2, <3>3, <3>4 DEF KeyCountExact
  <2>2. CASE ~StillCurrent(x)
    BY <1>1, <1>9, <2>2 DEF SweepPop
  <2> QED
    BY <2>1, <2>2
<1>10. CASE SweepEnd
  <2>1. DataLen(data') = DataLen(data) /\ DataLen(data) \in Nat
    BY <1>10, DataLenIsNat DEF SweepEnd
  <2>2. expired_count \in Nat
    BY InputAssumption DEF TypeOK
  <2> QED
    BY <1>10, <2>1, <2>2 DEF SweepEnd, KeyCountExact, TypeOK
<1> QED
  BY <1>2, <1>3, <1>4, <1>5, <1>6, <1>7, <1>8, <1>9, <1>10
  DEF Next, Execute, DelLoop, SweepLoop

\* The gauge the metrics and INFO report is the length of the map whenever
\* the worker is between events, for any limit on the keys per sweep.
THEOREM KeyCountCorrect == Spec => []KeyCountExact
<1>1. Init => KeyCountExact
  <2> SUFFICES ASSUME Init PROVE KeyCountExact
    OBVIOUS
  <2>1. Stored(data) = {}
    BY DEF Init, Stored
  <2>2. DataLen(data) = 0
    BY <2>1, FS_EmptySet DEF DataLen
  <2>3. key_count = 0 /\ expired_count = 0
    BY DEF Init
  <2> QED
    BY <2>2, <2>3 DEF KeyCountExact
<1> QED
  BY <1>1, KeyCountStep, TypeCorrect, PTL DEF Spec
-----------------------------------------------------------------------------
(***************************************************************************)
(* keys_expired.                                                           *)
(***************************************************************************)
Lost == Stored(data) \ Stored(data')

\* What is counted as expired is what the map has lost.
CountedOnce ==
    worker # "del" =>
      keys_expired' + expired_count' = keys_expired + expired_count + Cardinality(Lost)

\* A step that removes no key, and counts nothing.
LEMMA NothingLost ==
    ASSUME TypeOK, UNCHANGED <<keys_expired, expired_count>>,
           \A k \in Keys : data[k] # None => data'[k] # None
    PROVE  CountedOnce
<1>1. Lost = {}
  BY DEF Lost, Stored
<1>2. keys_expired + expired_count \in Nat
  BY InputAssumption DEF TypeOK
<1>3. Cardinality(Lost) = 0
  BY <1>1, FS_EmptySet
<1> QED
  BY <1>2, <1>3 DEF CountedOnce

\* A step that removes a key, and counts one.
LEMMA OneLost ==
    ASSUME TypeOK, NEW k \in Keys, data[k] # None, data' = [data EXCEPT ![k] = None],
           keys_expired' + expired_count' = keys_expired + expired_count + 1
    PROVE  CountedOnce
<1>1. Lost = {k}
  BY DEF Lost, Stored, TypeOK
<1>2. Cardinality(Lost) = 1
  BY <1>1, FS_Singleton
<1> QED
  BY <1>2 DEF CountedOnce

\* Every step outside DEL counts what it expires.
LEMMA CountStep ==
    TypeOK /\ KeyCountExact /\ [Next]_vars => CountedOnce
<1> SUFFICES ASSUME TypeOK, KeyCountExact, [Next]_vars PROVE CountedOnce
  OBVIOUS
<1>1. keys_expired \in Nat /\ expired_count \in Nat
  BY InputAssumption DEF TypeOK
<1>2. ASSUME NEW k \in Keys, NEW v \in Values, NEW ttl \in Ttls \cup {None},
             CmdSet(k, v, ttl)
      PROVE  CountedOnce
  <2>1. CASE SetInserts(k, v, ttl)
    <3>1. PICK e : data' = [data EXCEPT ![k] = [value |-> v, expiry |-> e]]
                   /\ e \in Instants \cup {None}
      <4>1. ttl # None => Deadline(ttl) \in Instants
        BY <2>1, DeadlineIsInstant DEF SetInserts, SetChecked
      <4> QED
        BY <2>1, <4>1 DEF SetInserts
    <3>2. [value |-> v, expiry |-> e] \in Entries
      BY <3>1 DEF Entries
    <3>3. \A j \in Keys : data[j] # None => data'[j] # None
      BY <3>1, <3>2, NoneAssumption DEF TypeOK
    <3> QED
      BY <2>1, <3>3, NothingLost DEF SetInserts
  <2>2. CASE SetRefused(k, v) \/ SetPanics(k, v, ttl) \/ SetOOM(k, v, ttl)
    BY <2>2, NothingLost DEF SetRefused, SetPanics, SetOOM, Panic
  <2> QED
    BY <1>2, <2>1, <2>2 DEF CmdSet
<1>3. ASSUME NEW k \in Keys, CmdGet(k) \/ CmdTtl(k) PROVE CountedOnce
  <2>1. CASE LazyExpire(k) /\ data[k] # None
    <3>1. expired_count' = expired_count
      BY <1>3 DEF CmdGet, CmdTtl
    <3>2. keys_expired' = keys_expired + 1 /\ data' = [data EXCEPT ![k] = None]
      BY <2>1 DEF LazyExpire, RemoveKeyUpdateMetrics
    <3>3. keys_expired' + expired_count' = keys_expired + expired_count + 1
      BY <1>1, <3>1, <3>2
    <3> QED
      BY <2>1, <3>2, <3>3, OneLost
  <2>2. CASE UNCHANGED <<data, memory_bytes, key_count, keys_expired>>
    BY <1>3, <2>2, NothingLost DEF CmdGet, CmdTtl
  <2> QED
    BY <1>3, <2>1, <2>2 DEF CmdGet, CmdTtl
<1>4. ASSUME NEW k \in Keys, NEW secs \in Ttls, CmdExpire(k, secs) PROVE CountedOnce
  <2>1. CASE ExpireSets(k, secs)
    <3> DEFINE e == [data[k] EXCEPT !.expiry = Deadline(secs)]
    <3>1. Deadline(secs) \in Instants /\ data[k] \in Entries
      BY <2>1, DeadlineIsInstant DEF ExpireSets, TypeOK
    <3>2. e \in Entries
      BY <3>1 DEF Entries
    <3>3. data' = [data EXCEPT ![k] = e]
      BY <2>1 DEF ExpireSets
    <3> HIDE DEF e
    <3>4. \A j \in Keys : data[j] # None => data'[j] # None
      BY <3>2, <3>3, NoneAssumption DEF TypeOK
    <3> QED
      BY <2>1, <3>4, NothingLost DEF ExpireSets
  <2>2. CASE ExpireMissing(k) \/ ExpirePanics(k, secs)
    BY <2>2, NothingLost DEF ExpireMissing, ExpirePanics, Panic
  <2> QED
    BY <1>4, <2>1, <2>2 DEF CmdExpire
<1>5. CASE \/ CmdPing \/ (\E s \in Sections : CmdInfo(s))
           \/ (\E keys \in DelArgs : DelBegin(keys))
           \/ SerializePanics \/ Tick \/ UNCHANGED vars
  BY <1>5, NothingLost DEF CmdPing, CmdInfo, DelBegin, SerializePanics, Panic, Tick
<1>6. CASE DelKey \/ DelEnd
  BY <1>6 DEF DelKey, DelEnd, CountedOnce
<1>7. CASE SweepBegin \/ SweepEnd
  <2>1. Cardinality(Lost) = 0
    <3>1. Lost = {}
      BY <1>7 DEF Lost, SweepBegin, SweepEnd
    <3> QED
      BY <3>1, FS_EmptySet
  <2>2. worker # "sweep" => expired_count = 0
    BY DEF KeyCountExact
  <2> QED
    BY <1>1, <1>7, <2>1, <2>2 DEF SweepBegin, SweepEnd, CountedOnce
<1>8. ASSUME NEW x \in Expiries, SweepPop(x) PROVE CountedOnce
  <2>1. CASE StillCurrent(x)
    <3>1. x.key \in Keys /\ data[x.key] # None
      BY <2>1 DEF StillCurrent, Expiries
    <3> QED
      BY <1>1, <1>8, <2>1, <3>1, OneLost DEF SweepPop
  <2>2. CASE ~StillCurrent(x)
    BY <1>8, <2>2, NothingLost DEF SweepPop
  <2> QED
    BY <2>1, <2>2
<1> QED
  BY <1>2, <1>3, <1>4, <1>5, <1>6, <1>7, <1>8
  DEF Next, Execute, DelLoop, SweepLoop

\* Each key that expires is counted in keys_expired once, whether GET, TTL or
\* expire_keys meets it first, and nothing else is.
THEOREM ExpiriesCounted == Spec => ExpiryCounted
<1>1. Spec => [][CountedOnce]_vars
  BY CountStep, TypeCorrect, KeyCountCorrect, PTL DEF Spec
<1> QED
  BY <1>1 DEF ExpiryCounted, CountedOnce, Lost
-----------------------------------------------------------------------------
(***************************************************************************)
(* Memory and the other limits.                                            *)
(***************************************************************************)
\* What the entries of a map take, all together, and what one takes.
Sizes(d) == [k \in Stored(d) |-> EntrySizeBytes(k, d[k].value)]
Bytes(d) == SumFunctionOnSet(Sizes(d), Stored(d))
Size(k, e) == IF e = None THEN 0 ELSE EntrySizeBytes(k, e.value)

\* DataBytes is the sum of the sizes of the stored entries.
LEMMA DataBytesSums == DataBytes = Bytes(data) /\ DataBytes' = Bytes(data')
BY DEF DataBytes, Bytes, Sizes, SumFunction

\* The size of an entry is a natural.
LEMMA SizeIsNat ==
    ASSUME NEW k \in Keys, NEW e \in Entries \cup {None}
    PROVE  Size(k, e) \in Nat
BY EntrySizeIsNat DEF Size, Entries

\* The sum of the sizes is a natural.
LEMMA BytesIsNat ==
    ASSUME NEW d \in [Keys -> Entries \cup {None}]
    PROVE  Bytes(d) \in Nat
<1>1. \A j \in Stored(d) : Sizes(d)[j] \in Nat
  BY EntrySizeIsNat DEF Sizes, Stored, Entries
<1> QED
  BY <1>1, DataLenIsNat, SumIsNat DEF Bytes

\* The sum is that of the other entries and of this one, if it is there.
LEMMA BytesOfOthers ==
    ASSUME NEW d \in [Keys -> Entries \cup {None}], NEW k \in Keys
    PROVE  /\ SumFunctionOnSet(Sizes(d), Stored(d) \ {k}) \in Nat
           /\ Bytes(d) = Size(k, d[k]) + SumFunctionOnSet(Sizes(d), Stored(d) \ {k})
<1>1. IsFiniteSet(Stored(d)) /\ IsFiniteSet(Stored(d) \ {k})
  BY DataLenIsNat, FS_RemoveElement
<1>2. \A j \in Stored(d) : Sizes(d)[j] \in Nat
  BY EntrySizeIsNat DEF Sizes, Stored, Entries
<1>3. SumFunctionOnSet(Sizes(d), Stored(d) \ {k}) \in Nat
  BY <1>1, <1>2, SumIsNat
<1>4. CASE k \in Stored(d)
  <2>1. Bytes(d) = Sizes(d)[k] + SumFunctionOnSet(Sizes(d), Stored(d) \ {k})
    BY <1>1, <1>2, <1>4, SumTakingOut DEF Bytes
  <2>2. Sizes(d)[k] = Size(k, d[k])
    BY <1>4 DEF Sizes, Size, Stored
  <2> QED
    BY <1>3, <2>1, <2>2
<1>5. CASE k \notin Stored(d)
  <2>1. Stored(d) \ {k} = Stored(d)
    BY <1>5
  <2>2. Size(k, d[k]) = 0
    BY <1>5 DEF Size, Stored
  <2> QED
    BY <1>3, <2>1, <2>2 DEF Bytes
<1> QED
  BY <1>3, <1>4, <1>5

\* Writing or removing one entry changes the sum by the two sizes.
LEMMA BytesChange ==
    ASSUME NEW d \in [Keys -> Entries \cup {None}], NEW k \in Keys,
           NEW c \in [Keys -> Entries \cup {None}],
           \A j \in Keys \ {k} : c[j] = d[j]
    PROVE  /\ Bytes(d) \in Nat
           /\ Size(k, d[k]) \in Nat /\ Size(k, d[k]) <= Bytes(d)
           /\ Bytes(c) = Bytes(d) - Size(k, d[k]) + Size(k, c[k])
<1> DEFINE R == Stored(d) \ {k}
           others == SumFunctionOnSet(Sizes(d), R)
<1>1. Stored(c) \ {k} = R
  BY DEF Stored
<1>2. \A j \in R : Sizes(d)[j] = Sizes(c)[j]
  BY DEF Sizes, Stored
<1>3. IsFiniteSet(R)
  BY DataLenIsNat, FS_RemoveElement
<1>4. others \in Nat /\ Bytes(d) = Size(k, d[k]) + others
  BY BytesOfOthers
<1>5. Bytes(c) = Size(k, c[k]) + SumFunctionOnSet(Sizes(c), R)
  BY <1>1, BytesOfOthers
<1>6. others = SumFunctionOnSet(Sizes(c), R)
  <2> HIDE DEF R
  <2> QED
    BY <1>2, <1>3, SumOfEqual
<1> HIDE DEF others, R
<1>7. Size(k, d[k]) \in Nat /\ Size(k, c[k]) \in Nat
  BY SizeIsNat
<1> QED
  BY <1>4, <1>5, <1>6, <1>7

\* The limits on the number of keys and on sizes, for a map.
WithinLimits(d) ==
    /\ DataLen(d) <= MaxKeys
    /\ \A k \in Stored(d) :
         KeyLen[k] <= MaxKeySize /\ ValLen[d[k].value] <= MaxValueSize

\* The account covers the entries, and nothing is beyond its limit.
MemoryInv ==
    /\ Bytes(data) <= memory_bytes
    /\ memory_bytes <= MaxMemory
    /\ WithinLimits(data)

\* A step changes the account by what it changes in the map.
AccountedFor == memory_bytes' - Bytes(data') = memory_bytes - Bytes(data)

\* What fits a usize is not changed by its arithmetic.
LEMMA NoWrap ==
    ASSUME NEW n \in 0 .. Usize - 1
    PROVE  n % Usize = n
BY SizeAssumption

\* A SET that is not refused keeps to the limits.
LEMMA RefusalMeans ==
    ASSUME NEW k \in Keys, NEW v \in Values, SetRefusal(k, v) = None
    PROVE  /\ KeyLen[k] <= MaxKeySize /\ ValLen[v] <= MaxValueSize
           /\ data[k] = None => DataLen(data) < MaxKeys
<1>1. ~(KeyLen[k] > MaxKeySize)
  BY RefusalAssumption, Zenon DEF SetRefusal
<1>2. ~(ValLen[v] > MaxValueSize)
  BY <1>1, RefusalAssumption, Zenon DEF SetRefusal
<1>3. ~(data[k] = None /\ DataLen(data) >= MaxKeys)
  BY <1>1, <1>2, RefusalAssumption, Zenon DEF SetRefusal
<1> QED
  BY <1>1, <1>2, <1>3, DataLenIsNat, SizeAssumption

\* An entry that passed every check of cmd_set is written.
LEMMA EntryWritten ==
    ASSUME TypeOK, MemoryInv, NEW k \in Keys, NEW v \in Values,
           NEW expiry \in Instants \cup {None},
           SetRefusal(k, v) = None, Projected(k, v) <= MaxMemory,
           data' = [data EXCEPT ![k] = [value |-> v, expiry |-> expiry]],
           memory_bytes' = Projected(k, v)
    PROVE  MemoryInv' /\ AccountedFor
<1> DEFINE e == [value |-> v, expiry |-> expiry]
<1>1. e \in Entries /\ e # None /\ e.value = v
  BY NoneAssumption DEF Entries
<1>2. data' = [data EXCEPT ![k] = e] /\ data \in [Keys -> Entries \cup {None}]
  BY DEF TypeOK
<1> HIDE DEF e
<1>3. /\ Bytes(data) \in Nat
      /\ Size(k, data[k]) \in Nat /\ Size(k, data[k]) <= Bytes(data)
      /\ Bytes(data') = Bytes(data) - Size(k, data[k]) + Size(k, e)
  <2>1. /\ data' \in [Keys -> Entries \cup {None}] /\ data'[k] = e
        /\ \A j \in Keys \ {k} : data'[j] = data[j]
    BY <1>1, <1>2
  <2>2. PICK c, d : c = data' /\ d = data
    OBVIOUS
  <2>3. /\ d \in [Keys -> Entries \cup {None}] /\ c \in [Keys -> Entries \cup {None}]
        /\ c[k] = e /\ \A j \in Keys \ {k} : c[j] = d[j]
    BY <1>2, <2>1, <2>2
  <2>4. /\ Bytes(d) \in Nat
        /\ Size(k, d[k]) \in Nat /\ Size(k, d[k]) <= Bytes(d)
        /\ Bytes(c) = Bytes(d) - Size(k, d[k]) + Size(k, c[k])
    BY <2>3, BytesChange
  <2> QED
    BY <2>2, <2>3, <2>4
<1>4. Size(k, e) = EntrySizeBytes(k, v) /\ Size(k, data[k]) = OldSize(k)
  BY <1>1 DEF Size, OldSize
<1>5. KeyLen[k] <= MaxKeySize /\ ValLen[v] <= MaxValueSize
  BY SizeAssumption, RefusalMeans
<1>6. /\ KeyLen[k] \in Nat /\ ValLen[v] \in Nat /\ EntryOverhead \in Nat
      /\ MaxKeySize \in Nat /\ MaxValueSize \in Nat /\ MaxMemory \in Nat /\ Usize \in Nat
  BY SizeAssumption
<1>7. memory_bytes \in Nat
  BY <1>6 DEF TypeOK
<1>8. EntrySizeBytes(k, v) = KeyLen[k] + ValLen[v] + EntryOverhead
  BY DEF EntrySizeBytes
<1>9. memory_bytes + EntrySizeBytes(k, v) - OldSize(k) \in 0 .. Usize - 1
  BY <1>3, <1>4, <1>5, <1>6, <1>7, <1>8, WidthAssumption DEF MemoryInv
<1>10. memory_bytes' = memory_bytes + EntrySizeBytes(k, v) - OldSize(k)
  BY <1>9, NoWrap DEF Projected
<1>11. Bytes(data') <= memory_bytes' /\ memory_bytes' <= MaxMemory /\ AccountedFor
  BY <1>3, <1>4, <1>6, <1>7, <1>8, <1>10 DEF MemoryInv, AccountedFor
<1>12. WithinLimits(data')
  <2>1. Stored(data') = Stored(data) \cup {k}
    BY <1>1, <1>2 DEF Stored
  <2>2. IsFiniteSet(Stored(data)) /\ DataLen(data) \in Nat
    BY DataLenIsNat
  <2>3. DataLen(data') = IF k \in Stored(data) THEN DataLen(data) ELSE DataLen(data) + 1
    BY <2>1, <2>2, FS_AddElement DEF DataLen
  <2>4. k \notin Stored(data) => DataLen(data) < MaxKeys
    BY <2>2, RefusalMeans DEF Stored
  <2>5. DataLen(data') <= MaxKeys
    BY <2>2, <2>3, <2>4, SizeAssumption DEF MemoryInv, WithinLimits
  <2>6. \A j \in Stored(data') :
          KeyLen[j] <= MaxKeySize /\ ValLen[data'[j].value] <= MaxValueSize
    BY <1>1, <1>2, <1>5, <2>1 DEF MemoryInv, WithinLimits
  <2> QED
    BY <2>5, <2>6 DEF WithinLimits
<1> QED
  BY <1>11, <1>12 DEF MemoryInv

\* Fewer entries are within the limits if more were.
LEMMA RemovalWithinLimits ==
    ASSUME NEW d \in [Keys -> Entries \cup {None}], NEW k \in Keys, WithinLimits(d)
    PROVE  WithinLimits([d EXCEPT ![k] = None])
<1> DEFINE c == [d EXCEPT ![k] = None]
<1>1. Stored(c) \in SUBSET Stored(d)
  BY DEF Stored
<1>2. DataLen(c) <= DataLen(d) /\ DataLen(c) \in Nat /\ DataLen(d) \in Nat
  BY <1>1, DataLenIsNat, FS_Subset DEF DataLen
<1>3. \A j \in Stored(c) : d[j] = c[j]
  BY DEF Stored
<1> HIDE DEF c
<1>4. DataLen(c) <= MaxKeys
  BY <1>2, SizeAssumption DEF WithinLimits
<1>5. WithinLimits(c)
  BY <1>1, <1>3, <1>4 DEF WithinLimits
<1> QED
  BY <1>5 DEF c

\* remove_key_update_metrics takes exactly the entry's size off the account.
LEMMA EntryRemoved ==
    ASSUME TypeOK, MemoryInv, NEW k \in Keys, data[k] # None,
           RemoveKeyUpdateMetrics(k)
    PROVE  MemoryInv' /\ AccountedFor
<1>1. data' = [data EXCEPT ![k] = None] /\ data \in [Keys -> Entries \cup {None}]
  BY DEF TypeOK, RemoveKeyUpdateMetrics
<1>2. Size(k, None) = 0 /\ Size(k, data[k]) = EntrySizeBytes(k, data[k].value)
  BY DEF Size
<1>3. /\ Bytes(data) \in Nat
      /\ Size(k, data[k]) \in Nat /\ Size(k, data[k]) <= Bytes(data)
      /\ Bytes(data') = Bytes(data) - Size(k, data[k]) + Size(k, None)
  <2>1. /\ data' \in [Keys -> Entries \cup {None}] /\ data'[k] = None
        /\ \A j \in Keys \ {k} : data'[j] = data[j]
    BY <1>1
  <2>2. PICK c, d : c = data' /\ d = data
    OBVIOUS
  <2>3. /\ d \in [Keys -> Entries \cup {None}] /\ c \in [Keys -> Entries \cup {None}]
        /\ c[k] = None /\ \A j \in Keys \ {k} : c[j] = d[j]
    BY <1>1, <2>1, <2>2
  <2>4. /\ Bytes(d) \in Nat
        /\ Size(k, d[k]) \in Nat /\ Size(k, d[k]) <= Bytes(d)
        /\ Bytes(c) = Bytes(d) - Size(k, d[k]) + Size(k, c[k])
    BY <2>3, BytesChange
  <2> QED
    BY <2>2, <2>3, <2>4
<1>4. memory_bytes \in 0 .. Usize - 1 /\ Usize \in Nat /\ MaxMemory \in Nat
  BY SizeAssumption DEF TypeOK
<1>5. memory_bytes - EntrySizeBytes(k, data[k].value) \in 0 .. Usize - 1
  BY <1>2, <1>3, <1>4 DEF MemoryInv
<1>6. memory_bytes' = memory_bytes - EntrySizeBytes(k, data[k].value)
  BY <1>5, NoWrap DEF RemoveKeyUpdateMetrics
<1>7. WithinLimits(data')
  BY <1>1, RemovalWithinLimits DEF MemoryInv
<1> QED
  BY <1>2, <1>3, <1>4, <1>6, <1>7 DEF MemoryInv, AccountedFor

\* Nothing changes, or no more than the deadline of an entry.
LEMMA SizesUnchanged ==
    ASSUME TypeOK, MemoryInv, UNCHANGED memory_bytes,
           Stored(data') = Stored(data),
           \A k \in Stored(data) : data'[k].value = data[k].value
    PROVE  MemoryInv' /\ AccountedFor
<1>1. Sizes(data') = Sizes(data)
  BY DEF Sizes
<1>2. Bytes(data') = Bytes(data)
  BY <1>1 DEF Bytes
<1>3. WithinLimits(data')
  BY DEF MemoryInv, WithinLimits, DataLen
<1> QED
  BY <1>2, <1>3 DEF MemoryInv, AccountedFor

\* Every step keeps the account of the memory.
LEMMA MemoryStep ==
    TypeOK /\ MemoryInv /\ [Next]_vars => MemoryInv' /\ (worker # "sweep" => AccountedFor)
<1> SUFFICES ASSUME TypeOK, MemoryInv, [Next]_vars
             PROVE  MemoryInv' /\ (worker # "sweep" => AccountedFor)
  OBVIOUS
<1>1. ASSUME UNCHANGED <<data, memory_bytes>> PROVE MemoryInv' /\ AccountedFor
  BY <1>1, SizesUnchanged DEF Stored
<1>2. ASSUME NEW k \in Keys, NEW v \in Values, NEW ttl \in Ttls \cup {None},
             CmdSet(k, v, ttl)
      PROVE  MemoryInv' /\ AccountedFor
  <2>1. CASE SetInserts(k, v, ttl)
    <3>1. ttl # None => Deadline(ttl) \in Instants
      BY <2>1, DeadlineIsInstant DEF SetInserts, SetChecked
    <3>2. \E expiry \in Instants \cup {None} :
            data' = [data EXCEPT ![k] = [value |-> v, expiry |-> expiry]]
      BY <2>1, <3>1 DEF SetInserts
    <3>3. /\ SetRefusal(k, v) = None /\ Projected(k, v) <= MaxMemory
          /\ memory_bytes' = Projected(k, v)
      BY <2>1 DEF SetInserts, SetChecked
    <3> QED
      BY <3>2, <3>3, EntryWritten
  <2>2. CASE SetRefused(k, v) \/ SetPanics(k, v, ttl) \/ SetOOM(k, v, ttl)
    BY <1>1, <2>2 DEF SetRefused, SetPanics, SetOOM, Panic
  <2> QED
    BY <1>2, <2>1, <2>2 DEF CmdSet
<1>3. ASSUME NEW k \in Keys, CmdGet(k) \/ CmdTtl(k) PROVE MemoryInv' /\ AccountedFor
  <2>1. CASE LazyExpire(k) /\ data[k] # None
    BY <2>1, EntryRemoved DEF LazyExpire
  <2>2. CASE UNCHANGED <<data, memory_bytes, key_count, keys_expired>>
    BY <1>1, <2>2
  <2> QED
    BY <1>3, <2>1, <2>2 DEF CmdGet, CmdTtl
<1>4. ASSUME NEW k \in Keys, NEW secs \in Ttls, CmdExpire(k, secs)
      PROVE  MemoryInv' /\ AccountedFor
  <2>1. CASE ExpireSets(k, secs)
    <3> DEFINE e == [data[k] EXCEPT !.expiry = Deadline(secs)]
    <3>1. Deadline(secs) \in Instants /\ data[k] \in Entries
      BY <2>1, DeadlineIsInstant DEF ExpireSets, TypeOK
    <3>2. e \in Entries /\ e.value = data[k].value
      BY <3>1 DEF Entries
    <3>3. data' = [data EXCEPT ![k] = e]
      BY <2>1 DEF ExpireSets
    <3> HIDE DEF e
    <3>4. Stored(data') = Stored(data)
      BY <2>1, <3>2, <3>3, NoneAssumption DEF Stored, TypeOK, ExpireSets
    <3>5. \A j \in Stored(data) : data'[j].value = data[j].value
      BY <3>2, <3>3 DEF Stored, TypeOK
    <3> QED
      BY <2>1, <3>4, <3>5, SizesUnchanged DEF ExpireSets
  <2>2. CASE ExpireMissing(k) \/ ExpirePanics(k, secs)
    BY <1>1, <2>2 DEF ExpireMissing, ExpirePanics, Panic
  <2> QED
    BY <1>4, <2>1, <2>2 DEF CmdExpire
<1>5. CASE \/ CmdPing \/ (\E s \in Sections : CmdInfo(s))
           \/ (\E keys \in DelArgs : DelBegin(keys))
           \/ DelEnd \/ SweepBegin \/ SweepEnd
           \/ SerializePanics \/ Tick \/ UNCHANGED vars
  BY <1>1, <1>5
  DEF CmdPing, CmdInfo, DelBegin, DelEnd, SweepBegin, SweepEnd, SerializePanics, Panic, Tick
<1>6. CASE DelKey
  <2>1. Head(del_keys) \in Keys
    BY <1>6 DEF DelKey, TypeOK
  <2>2. CASE data[Head(del_keys)] # None /\ RemoveKeyUpdateMetrics(Head(del_keys))
    BY <2>1, <2>2, EntryRemoved
  <2>3. CASE UNCHANGED <<data, memory_bytes, key_count, deleted>>
    BY <1>1, <2>3
  <2> QED
    BY <1>6, <2>2, <2>3 DEF DelKey
<1>7. ASSUME NEW x \in Expiries, SweepPop(x)
      PROVE  MemoryInv' /\ (worker # "sweep" => AccountedFor)
  <2>1. worker = "sweep" /\ UNCHANGED memory_bytes
    BY <1>7 DEF SweepPop
  <2>2. CASE StillCurrent(x)
    <3> DEFINE k == x.key
    <3>1. k \in Keys
      BY DEF Expiries
    <3>2. data' = [data EXCEPT ![k] = None] /\ data \in [Keys -> Entries \cup {None}]
      BY <1>7, <2>2 DEF SweepPop, TypeOK
    <3> HIDE DEF k
    <3>3. /\ data' \in [Keys -> Entries \cup {None}] /\ data'[k] = None
          /\ \A j \in Keys \ {k} : data'[j] = data[j]
      BY <3>1, <3>2
    <3>4. /\ Bytes(data) \in Nat
          /\ Size(k, data[k]) \in Nat /\ Size(k, data[k]) <= Bytes(data)
          /\ Bytes(data') = Bytes(data) - Size(k, data[k]) + Size(k, data'[k])
      BY <3>1, <3>2, <3>3, BytesChange
    <3>5. Size(k, data'[k]) = 0
      BY <3>3 DEF Size
    <3>6. WithinLimits(data')
      BY <3>1, <3>2, RemovalWithinLimits DEF MemoryInv
    <3>7. memory_bytes \in Nat
      BY SizeAssumption DEF TypeOK
    <3> QED
      BY <2>1, <3>4, <3>5, <3>6, <3>7 DEF MemoryInv
  <2>3. CASE ~StillCurrent(x)
    BY <1>1, <1>7, <2>3 DEF SweepPop
  <2> QED
    BY <2>2, <2>3
<1> QED
  BY <1>2, <1>3, <1>4, <1>5, <1>6, <1>7
  DEF Next, Execute, DelLoop, SweepLoop

\* The account is right at the start.
LEMMA MemoryInit == Init => MemoryInv
<1> SUFFICES ASSUME Init PROVE MemoryInv
  OBVIOUS
<1>1. Stored(data) = {}
  BY DEF Init, Stored
<1>2. Bytes(data) = 0
  BY <1>1, SumOfNone DEF Bytes
<1>3. DataLen(data) = 0
  BY <1>1, FS_EmptySet DEF DataLen
<1> QED
  BY <1>1, <1>2, <1>3, SizeAssumption DEF Init, MemoryInv, WithinLimits

\* memory_bytes is never less than the entries take, although usize wraps:
\* no subtraction of an entry's size goes below zero.
THEOREM MemoryCovers == Spec => []MemoryCoversData
<1>1. MemoryInv => MemoryCoversData
  BY DataBytesSums DEF MemoryInv, MemoryCoversData
<1> QED
  BY <1>1, MemoryInit, MemoryStep, TypeCorrect, PTL DEF Spec

\* The limits cmd_set enforces hold of the entries themselves: the account
\* it checks never says less than they take.
THEOREM LimitsKept == Spec => []LimitsHold
<1>1. TypeOK /\ MemoryInv => LimitsHold
  <2> SUFFICES ASSUME TypeOK, MemoryInv PROVE LimitsHold
    OBVIOUS
  <2>1. Bytes(data) \in Nat
    BY BytesIsNat DEF TypeOK
  <2>2. DataBytes <= MaxMemory
    BY <2>1, DataBytesSums, SizeAssumption DEF MemoryInv, TypeOK
  <2> QED
    BY <2>2 DEF MemoryInv, WithinLimits, LimitsHold
<1> QED
  BY <1>1, MemoryInit, MemoryStep, TypeCorrect, PTL DEF Spec

\* Inserting, overwriting, deleting and expiring on access move memory_bytes
\* by exactly what the entries change by; only a sweep does not.
THEOREM AccountIsKept == Spec => AccountKept
<1>1. (worker # "sweep" => AccountedFor)
        => (worker # "sweep" => memory_bytes' - DataBytes' = memory_bytes - DataBytes)
  BY DataBytesSums DEF AccountedFor
<1> QED
  BY <1>1, MemoryInit, MemoryStep, TypeCorrect, PTL DEF Spec, AccountKept
-----------------------------------------------------------------------------
(***************************************************************************)
(* A shard implements the abstract store of TtlStore, for every set of     *)
(* keys and values, every limit and every clock: each step of its worker   *)
(* is a step of the store, or one clients cannot see.                      *)
(***************************************************************************)
\* Except in the loop of cmd_del the store is the map, and the last answer the
\* last response.
LEMMA OutsideDel ==
    ASSUME TypeOK, worker # "del"
    PROVE  AbstractData = data /\ AbstractReply = reply
BY DEF AbstractData, AbstractReply, TypeOK

LEMMA OutsideDelNext ==
    ASSUME TypeOK', worker' # "del"
    PROVE  AbstractData' = data' /\ AbstractReply' = reply'
BY DEF AbstractData, AbstractReply, TypeOK

\* A step that leaves the map alone and gives an answer.
LEMMA Answers ==
    ASSUME TypeOK, TypeOK', Receive, NEW r, Respond(r),
           UNCHANGED <<now, worker>>
    PROVE  /\ AbstractData = data /\ AbstractData' = data'
           /\ Store!Answer(r)
<1>1. worker = "select" /\ worker' = "select"
  BY DEF Receive
<1>2. AbstractData = data /\ AbstractData' = data'
  BY <1>1, OutsideDel, OutsideDelNext
<1>3. AbstractReply' = r
  BY <1>1, OutsideDelNext DEF Respond
<1> QED
  BY <1>1, <1>2, <1>3 DEF Store!Answer

\* A step that ends in a panic.
LEMMA Panics ==
    ASSUME TypeOK, TypeOK', worker = "select", Panic
    PROVE  Store!Die
<1>1. AbstractData' = AbstractData /\ AbstractReply' = AbstractReply
  BY OutsideDel, OutsideDelNext DEF Panic
<1> QED
  BY <1>1 DEF Store!Die, Panic

LEMMA InformStep ==
    ASSUME TypeOK, TypeOK', CmdPing \/ \E s \in Sections : CmdInfo(s)
    PROVE  Store!Inform
<1>1. PICK r \in InfoResponses : Respond(r)
  <2>1. CASE CmdPing
    BY <2>1 DEF CmdPing, InfoResponses
  <2>2. ASSUME NEW s \in Sections, CmdInfo(s) PROVE \E r \in InfoResponses : Respond(r)
    <3>1. commands_processed \in Nat /\ keys_expired \in Nat /\ memory_bytes \in Nat /\ key_count \in Nat
      BY SizeAssumption DEF TypeOK
    <3>2. CASE s \in {"default", "server"}
      BY <2>2, <3>2 DEF CmdInfo, InfoResponses
    <3>3. CASE s = "stats"
      BY <2>2, <3>1, <3>3 DEF CmdInfo, InfoResponses
    <3>4. CASE s = "memory"
      BY <2>2, <3>1, <3>4 DEF CmdInfo, InfoResponses
    <3>5. CASE s = "unknown"
      BY <2>2, <3>5 DEF CmdInfo, InfoResponses
    <3> QED
      BY <3>2, <3>3, <3>4, <3>5 DEF Sections
  <2> QED
    BY <2>1, <2>2
<1>2. Receive /\ UNCHANGED <<now, worker, data>>
  BY DEF CmdPing, CmdInfo
<1>3. Store!Answer(r) /\ AbstractData' = AbstractData
  BY <1>1, <1>2, Answers
<1> QED
  BY <1>1, <1>3 DEF Store!Answer, Store!Inform

LEMMA SetStep ==
    ASSUME TypeOK, TypeOK', NEW k \in Keys, NEW v \in Values, NEW ttl \in Ttls \cup {None},
           CmdSet(k, v, ttl)
    PROVE  Store!Set(k, v, ttl) \/ Store!Die
<1>1. CASE SetRefused(k, v) \/ SetOOM(k, v, ttl)
  <2>1. PICK e \in Store!Refusals : Respond(<<"Error", e>>)
    <3>1. CASE SetRefused(k, v)
      BY <3>1 DEF SetRefused, SetRefusal, Store!Refusals
    <3>2. CASE SetOOM(k, v, ttl)
      BY <3>2 DEF SetOOM, Store!Refusals
    <3> QED
      BY <1>1, <3>1, <3>2
  <2>2. Receive /\ UNCHANGED <<now, worker, data>>
    BY <1>1 DEF SetRefused, SetOOM, SetChecked
  <2>3. Store!Answer(<<"Error", e>>) /\ AbstractData' = AbstractData
    BY <2>1, <2>2, Answers
  <2> QED
    BY <2>3 DEF Store!Set
<1>2. CASE SetPanics(k, v, ttl)
  BY <1>2, Panics DEF SetPanics, Receive
<1>3. CASE SetInserts(k, v, ttl)
  <2> DEFINE expiry == IF ttl = None THEN None ELSE Deadline(ttl)
  <2>1. /\ Receive /\ UNCHANGED <<now, worker>> /\ Respond(<<"Ok">>)
        /\ data' = [data EXCEPT ![k] = [value |-> v, expiry |-> expiry]]
    BY <1>3 DEF SetInserts, SetChecked
  <2>2. Store!Answer(<<"Ok">>) /\ AbstractData = data /\ AbstractData' = data'
    BY <2>1, Answers
  <2>3. expiry \in Store!Deadlines \cup {None}
    <3>1. CASE ttl = None
      BY <3>1
    <3>2. CASE ttl # None
      BY <1>3, <3>2, DeadlineIsInstant DEF SetInserts, SetChecked, Instants, Store!Deadlines
    <3> QED
      BY <3>1, <3>2
  <2> QED
    BY <2>1, <2>2, <2>3 DEF Store!Set, Store!DeadlineIn, Deadline
<1> QED
  BY <1>1, <1>2, <1>3 DEF CmdSet

LEMMA GetStep ==
    ASSUME TypeOK, TypeOK', NEW k \in Keys, CmdGet(k)
    PROVE  Store!Get(k)
<1>1. Receive /\ UNCHANGED <<now, worker>> /\ AbstractData = data /\ AbstractData' = data'
  BY OutsideDel, OutsideDelNext DEF CmdGet, Receive
<1>2. \A r : Respond(r) => Store!Answer(r)
  BY <1>1, Answers
<1>3. Store!Alive(k) <=> data[k] # None /\ ~IsExpired(data[k])
  BY <1>1 DEF Store!Alive, Store!Lapsed, IsExpired
<1>4. CASE data[k] = None \/ IsExpired(data[k])
  <2>1. Respond(<<"Value", None>>) /\ data' = [data EXCEPT ![k] = None]
    BY <1>4 DEF CmdGet, LazyExpire, RemoveKeyUpdateMetrics, TypeOK
  <2> QED
    BY <1>1, <1>2, <1>3, <1>4, <2>1 DEF Store!Get
<1>5. CASE data[k] # None /\ ~IsExpired(data[k])
  BY <1>1, <1>2, <1>3, <1>5 DEF CmdGet, Store!Get
<1> QED
  BY <1>4, <1>5

LEMMA TtlStep ==
    ASSUME TypeOK, TypeOK', NEW k \in Keys, CmdTtl(k)
    PROVE  Store!Ttl(k)
<1>1. Receive /\ UNCHANGED <<now, worker>> /\ AbstractData = data /\ AbstractData' = data'
  BY OutsideDel, OutsideDelNext DEF CmdTtl, Receive
<1>2. \A r : Respond(r) => Store!Answer(r)
  BY <1>1, Answers
<1>3. Store!Alive(k) <=> data[k] # None /\ ~IsExpired(data[k])
  BY <1>1 DEF Store!Alive, Store!Lapsed, IsExpired
<1>4. CASE data[k] = None \/ IsExpired(data[k])
  <2>1. Respond(<<"Integer", -2>>) /\ data' = [data EXCEPT ![k] = None]
    BY <1>4 DEF CmdTtl, LazyExpire, RemoveKeyUpdateMetrics, TypeOK, IsExpired
  <2> QED
    BY <1>1, <1>2, <1>3, <1>4, <2>1 DEF Store!Ttl
<1>5. CASE data[k] # None /\ ~IsExpired(data[k]) /\ data[k].expiry = None
  <2>1. Respond(<<"Integer", -1>>) /\ data' = data
    BY <1>5 DEF CmdTtl
  <2> QED
    BY <1>1, <1>2, <1>3, <1>5, <2>1 DEF Store!Ttl
<1>6. CASE data[k] # None /\ ~IsExpired(data[k]) /\ data[k].expiry # None
  <2>1. Respond(<<"Integer", (data[k].expiry - now) \div TicksPerSec>>) /\ data' = data
    BY <1>6 DEF CmdTtl, RemainingSecs
  <2> QED
    BY <1>1, <1>2, <1>3, <1>6, <2>1 DEF Store!Ttl
<1> QED
  BY <1>4, <1>5, <1>6

LEMMA ExpireStep ==
    ASSUME TypeOK, TypeOK', NEW k \in Keys, NEW secs \in Ttls, CmdExpire(k, secs)
    PROVE  Store!Expire(k, secs) \/ Store!Die
<1>1. CASE ExpireMissing(k)
  <2>1. Store!Answer(<<"Integer", 0>>) /\ AbstractData = data /\ AbstractData' = data'
    BY <1>1, Answers DEF ExpireMissing
  <2> QED
    BY <1>1, <2>1 DEF ExpireMissing, Store!Expire
<1>2. CASE ExpirePanics(k, secs)
  BY <1>2, Panics DEF ExpirePanics, Receive
<1>3. CASE ExpireSets(k, secs)
  <2>1. Store!Answer(<<"Integer", 1>>) /\ AbstractData = data /\ AbstractData' = data'
    BY <1>3, Answers DEF ExpireSets
  <2>2. Deadline(secs) \in Store!Deadlines
    BY <1>3, DeadlineIsInstant DEF ExpireSets, Instants, Store!Deadlines
  <2> QED
    BY <1>3, <2>1, <2>2 DEF ExpireSets, Store!Expire, Store!DeadlineIn, Deadline
<1> QED
  BY <1>1, <1>2, <1>3 DEF CmdExpire
-----------------------------------------------------------------------------
(***************************************************************************)
(* The loop of cmd_del: it takes effect when it begins.                    *)
(***************************************************************************)
LEMMA PendingIsFinite ==
    ASSUME TypeOK
    PROVE  /\ Pending \subseteq Keys /\ IsFiniteSet(Pending)
           /\ Cardinality({k \in Pending : data[k] # None}) \in Nat
<1>1. Pending \subseteq Keys
  BY DEF Pending, TypeOK
<1>2. IsFiniteSet(Pending) /\ IsFiniteSet({k \in Pending : data[k] # None})
  BY <1>1, FS_Subset, InputAssumption
<1> QED
  BY <1>1, <1>2, FS_CardinalityType

\* The store counts as everybody does.
LEMMA SameCardinality ==
    ASSUME NEW S
    PROVE  Store!Cardinality(S) = Cardinality(S)
BY DEF Store!Cardinality, Cardinality

LEMMA DelBegins ==
    ASSUME TypeOK, TypeOK', NEW keys \in DelArgs, DelBegin(keys)
    PROVE  \E K \in SUBSET Keys : Store!Del(K)
<1>1. /\ worker = "select" /\ worker' = "del" /\ del_keys' = keys /\ deleted' = 0
      /\ data' = data /\ now' = now
  BY DEF DelBegin, Receive
<1>2. Pending' \in SUBSET Keys
  <2>1. PICK z : z = del_keys'
    OBVIOUS
  <2>2. z \in Seq(Keys)
    BY <2>1 DEF TypeOK
  <2>3. \A i \in 1 .. Len(z) : z[i] \in Keys
    BY <2>2
  <2> QED
    BY <2>1, <2>3 DEF Pending
<1>3. AbstractData = data
  BY <1>1, OutsideDel
<1>4. AbstractData' = [k \in Keys |-> IF k \in Pending' THEN None ELSE data[k]]
  BY <1>1 DEF AbstractData
<1>5. AbstractReply' = <<"Integer", Cardinality({k \in Pending' : data[k] # None})>>
  <2>1. Cardinality({k \in Pending' : data[k] # None}) \in Nat
    <3>1. IsFiniteSet(Pending') /\ IsFiniteSet({k \in Pending' : data[k] # None})
      BY <1>2, FS_Subset, InputAssumption
    <3> QED
      BY <3>1, FS_CardinalityType
  <2>2. AbstractReply' = <<"Integer", 0 + Cardinality({k \in Pending' : data[k] # None})>>
    BY <1>1 DEF AbstractReply
  <2> QED
    BY <2>1, <2>2
<1>6. Store!Del(Pending')
  <2>1. PICK K \in SUBSET Keys : K = Pending'
    BY <1>2
  <2>2. AbstractReply' = <<"Integer", Cardinality({k \in K : AbstractData[k] # None})>>
    BY <1>3, <1>5, <2>1
  <2>3. AbstractData' = [k \in Keys |-> IF k \in K THEN None ELSE AbstractData[k]]
    BY <1>3, <1>4, <2>1
  <2>4. Store!Del(K)
    <3>1. Store!Answer(<<"Integer", Cardinality({k \in K : AbstractData[k] # None})>>)
      BY <1>1, <2>2 DEF Store!Answer
    <3> QED
      BY <2>3, <3>1, SameCardinality DEF Store!Del
  <2> QED
    BY <2>1, <2>4
<1> QED
  BY <1>2, <1>6

\* The key a DEL removes next is gone from the store already, and counted.
LEMMA DelGoesOn ==
    ASSUME TypeOK, TypeOK', DelKey
    PROVE  AbstractData' = AbstractData /\ AbstractReply' = AbstractReply
<1> DEFINE k == Head(del_keys)
           Left == {j \in Pending : data[j] # None}
           LeftNext == {j \in Pending' : data'[j] # None}
<1>1. /\ worker = "del" /\ worker' = "del" /\ del_keys \in Seq(Keys) /\ del_keys # << >>
      /\ del_keys' = Tail(del_keys) /\ k \in Keys /\ deleted \in Nat
  BY DEF DelKey, TypeOK
<1>2. Pending = {k} \cup Pending'
  <2>1. ASSUME NEW i \in 1 .. Len(del_keys) PROVE del_keys[i] \in {k} \cup Pending'
    <3>1. CASE i = 1
      BY <1>1, <3>1
    <3>2. CASE i # 1
      <4>1. i - 1 \in 1 .. Len(del_keys') /\ del_keys'[i - 1] = del_keys[i]
        BY <1>1, <3>2
      <4> QED
        BY <4>1 DEF Pending
    <3> QED
      BY <3>1, <3>2
  <2>2. k \in Pending
    BY <1>1 DEF Pending
  <2>3. ASSUME NEW i \in 1 .. Len(del_keys') PROVE del_keys'[i] \in Pending
    <3>1. i + 1 \in 1 .. Len(del_keys) /\ del_keys'[i] = del_keys[i + 1]
      BY <1>1
    <3> QED
      BY <3>1 DEF Pending
  <2>4. Pending \subseteq {k} \cup Pending'
    BY <2>1 DEF Pending
  <2>5. Pending' \subseteq Pending
    BY <2>3 DEF Pending
  <2> QED
    BY <2>2, <2>4, <2>5
<1> HIDE DEF k
<1>3. data'[k] = None /\ \A j \in Keys : j # k => data'[j] = data[j]
  BY <1>1 DEF DelKey, RemoveKeyUpdateMetrics, TypeOK, k
<1>4. AbstractData' = AbstractData
  <2>1. AbstractData = [j \in Keys |-> IF j \in Pending THEN None ELSE data[j]]
    BY <1>1 DEF AbstractData
  <2>2. AbstractData' = [j \in Keys |-> IF j \in Pending' THEN None ELSE data'[j]]
    BY <1>1 DEF AbstractData
  <2>3. \A j \in Keys : (IF j \in Pending' THEN None ELSE data'[j])
                          = (IF j \in Pending THEN None ELSE data[j])
    BY <1>2, <1>3
  <2> QED
    BY <2>1, <2>2, <2>3
<1>5. LeftNext = Left \ {k} /\ (k \in Left <=> data[k] # None)
  BY <1>2, <1>3, PendingIsFinite
<1>6. IsFiniteSet(Left) /\ Cardinality(Left) \in Nat
  BY PendingIsFinite, FS_Subset
<1>7. AbstractReply' = <<"Integer", deleted' + Cardinality(LeftNext)>>
  BY <1>1 DEF AbstractReply
<1>8. AbstractReply = <<"Integer", deleted + Cardinality(Left)>>
  BY <1>1 DEF AbstractReply
<1> HIDE DEF Left, LeftNext
<1>9. Cardinality(LeftNext) = IF data[k] # None THEN Cardinality(Left) - 1 ELSE Cardinality(Left)
  BY <1>5, <1>6, FS_RemoveElement
<1>10. deleted' = IF data[k] # None THEN deleted + 1 ELSE deleted
  BY DEF DelKey, k
<1> QED
  BY <1>1, <1>4, <1>6, <1>7, <1>8, <1>9, <1>10

LEMMA DelEnds ==
    ASSUME TypeOK, TypeOK', DelEnd
    PROVE  AbstractData' = AbstractData /\ AbstractReply' = AbstractReply
<1>1. /\ worker = "del" /\ worker' = "select" /\ del_keys = << >> /\ data' = data
      /\ reply' = <<"Integer", deleted>> /\ deleted \in Nat
  BY DEF DelEnd, Respond, TypeOK
<1>2. Pending = {}
  BY <1>1 DEF Pending
<1>3. AbstractData = data
  BY <1>1, <1>2 DEF AbstractData, TypeOK
<1>4. AbstractReply = <<"Integer", deleted>>
  <2>1. {k \in Pending : data[k] # None} = {}
    BY <1>2
  <2> QED
    BY <1>1, <2>1, FS_EmptySet DEF AbstractReply
<1> QED
  BY <1>1, <1>3, <1>4, OutsideDelNext
-----------------------------------------------------------------------------
(***************************************************************************)
(* The sweep, and the other steps nobody asked for.                        *)
(***************************************************************************)
\* A sweep removes only what is in limbo, for its time has passed.
LEMMA SweepStep ==
    ASSUME TypeOK, TypeOK', SweepInThePast, NEW x \in Expiries, SweepPop(x)
    PROVE  (\E k \in Keys : Store!Forget(k)) \/ UNCHANGED <<now, AbstractData, worker, AbstractReply>>
<1>1. worker = "sweep" /\ worker' = "sweep" /\ now' = now /\ reply' = reply
  BY DEF SweepPop
<1>2. /\ AbstractData = data /\ AbstractData' = data'
      /\ AbstractReply = reply /\ AbstractReply' = reply'
  BY <1>1, OutsideDel, OutsideDelNext
<1>3. x.key \in Keys /\ x.expiry_time \in Nat
  BY ClockAssumption DEF Expiries, Instants
<1>4. CASE StillCurrent(x)
  <2>1. data' = [data EXCEPT ![x.key] = None]
    BY <1>4 DEF SweepPop
  <2>2. /\ data[x.key] # None /\ data[x.key].expiry = x.expiry_time
        /\ x.expiry_time <= sweep_now /\ sweep_now <= now
    BY <1>1, <1>4 DEF SweepPop, StillCurrent, IsDue, SweepInThePast
  <2>3. data[x.key].expiry # None /\ data[x.key].expiry <= now
    <3>1. x.expiry_time # None
      BY <1>3, NoneAssumption
    <3>2. now \in Int /\ sweep_now \in Int
      BY ClockAssumption DEF TypeOK
    <3>3. x.expiry_time <= now
      BY <1>3, <2>2, <3>2
    <3> QED
      BY <2>2, <3>1, <3>3
  <2>4. Store!Forget(x.key)
    BY <1>1, <1>2, <2>1, <2>2, <2>3 DEF Store!Forget, Store!Lapsed
  <2> QED
    BY <1>3, <2>4
<1>5. CASE ~StillCurrent(x)
  BY <1>1, <1>2, <1>5 DEF SweepPop
<1> QED
  BY <1>4, <1>5

LEMMA TickStep ==
    ASSUME TypeOK, Tick
    PROVE  Store!Pass
<1>1. UNCHANGED <<data, worker, del_keys, deleted, reply>> /\ now' = now + 1
  BY DEF Tick
<1>2. AbstractData' = AbstractData /\ AbstractReply' = AbstractReply
  BY <1>1 DEF AbstractData, AbstractReply, Pending
<1> QED
  BY <1>1, <1>2 DEF Store!Pass

\* Clients see each step of the shard as a step of the store, or not at all.
LEMMA StoreStep ==
    ASSUME TypeOK, TypeOK', SweepInThePast, [Next]_vars
    PROVE  [Store!StoreNext]_(Store!storeVars)
<1> USE DEF Store!storeVars
<1>1. CASE CmdPing \/ \E s \in Sections : CmdInfo(s)
  BY <1>1, InformStep DEF Store!StoreNext
<1>2. ASSUME NEW k \in Keys, NEW v \in Values, NEW ttl \in Ttls \cup {None}, CmdSet(k, v, ttl)
      PROVE  Store!StoreNext
  BY <1>2, SetStep DEF Store!StoreNext
<1>3. ASSUME NEW k \in Keys, CmdGet(k) PROVE Store!StoreNext
  BY <1>3, GetStep DEF Store!StoreNext
<1>4. ASSUME NEW k \in Keys, CmdTtl(k) PROVE Store!StoreNext
  BY <1>4, TtlStep DEF Store!StoreNext
<1>5. ASSUME NEW k \in Keys, NEW secs \in Ttls, CmdExpire(k, secs) PROVE Store!StoreNext
  BY <1>5, ExpireStep DEF Store!StoreNext
<1>6. ASSUME NEW keys \in DelArgs, DelBegin(keys) PROVE Store!StoreNext
  BY <1>6, DelBegins DEF Store!StoreNext
<1>7. CASE DelKey
  <2>1. now' = now /\ worker' = worker
    BY <1>7 DEF DelKey
  <2> QED
    BY <1>7, <2>1, DelGoesOn
<1>8. CASE DelEnd
  <2>1. now' = now /\ worker = "del" /\ worker' = "select"
    BY <1>8 DEF DelEnd
  <2> QED
    BY <1>8, <2>1, DelEnds
<1>9. CASE SweepBegin \/ SweepEnd
  <2>1. /\ now' = now /\ data' = data /\ reply' = reply
        /\ worker \in {"select", "sweep"} /\ worker' \in {"select", "sweep"}
    BY <1>9 DEF SweepBegin, SweepEnd
  <2>2. AbstractData' = AbstractData /\ AbstractReply' = AbstractReply
    BY <2>1, OutsideDel, OutsideDelNext
  <2> QED
    BY <2>1, <2>2
<1>10. ASSUME NEW x \in Expiries, SweepPop(x) PROVE [Store!StoreNext]_(Store!storeVars)
  BY <1>10, SweepStep DEF Store!StoreNext
<1>11. CASE SerializePanics
  BY <1>11, Panics DEF SerializePanics, Store!StoreNext
<1>12. CASE Tick
  BY <1>12, TickStep DEF Store!StoreNext
<1>13. CASE UNCHANGED vars
  BY <1>13 DEF AbstractData, AbstractReply, Pending
<1> QED
  BY <1>1, <1>2, <1>3, <1>4, <1>5, <1>6, <1>7, <1>8, <1>9, <1>10, <1>11, <1>12, <1>13
  DEF Next, Execute, DelLoop, SweepLoop

\* Clients of a shard cannot tell it, with its heap of stale deadlines, its two
\* ways to find an expired key and its loops, from a map with deadlines: what
\* Shard::execute answers is what such a map answers.
THEOREM ShardImplementsStore == Spec => ImplementsStore
<1>1. Init => Store!StoreInit
  <2> SUFFICES ASSUME Init PROVE Store!StoreInit
    OBVIOUS
  <2>1. AbstractData = [k \in Keys |-> None] /\ AbstractReply = <<"Ok">>
    BY DEF Init, AbstractData, AbstractReply
  <2> QED
    BY <2>1 DEF Init, Store!StoreInit
<1>2. Init => SweepInThePast
  BY DEF Init, SweepInThePast
<1>3. Spec => []SweepInThePast
  BY <1>2, TypeCorrect, SweepTimeStep, PTL DEF Spec
<1> QED
  BY <1>1, <1>3, TypeCorrect, StoreStep, PTL DEF Spec, ImplementsStore, Store!StoreSpec
=============================================================================
