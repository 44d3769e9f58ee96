-------------------------------- MODULE Shard --------------------------------
(***************************************************************************)
(* One shard of the store: the hash map of entries, the min-heap of expiry *)
(* times, the metrics the limits are enforced with, and the worker task    *)
(* that owns them (src/src/shard/shard.rs, expiration.rs, expiry.rs,       *)
(* entry.rs and the select! loop of worker.rs).                            *)
(*                                                                         *)
(* The worker is the only task that touches a shard, so a command is one   *)
(* step, except the two loops: DEL removes one key per step, and the TTL   *)
(* sweep pops one heap element per step.  The clock may advance between    *)
(* any two steps, in particular in the middle of a sweep, which keeps the  *)
(* `now` it read when it began.                                            *)
(***************************************************************************)
EXTENDS Integers, Sequences, FiniteSets, Functions

CONSTANTS
    Keys,          \* the keys routed to this shard
    Values,        \* the values clients write
    KeyLen,        \* key.len(), per key
    ValLen,        \* value.size_bytes(), per value
    EntryOverhead, \* size_of::<Entry>()
    MaxKeySize,    \* MAX_KEY_SIZE
    MaxValueSize,  \* MAX_VALUE_SIZE
    MaxKeys,       \* max_keys of the shard
    MaxMemory,     \* max_memory_bytes of the shard
    Usize,         \* 2^64: usize counters wrap at this modulus
    Ttls,          \* the seconds clients ask for in SET EX and EXPIRE
    DelArgs,       \* the argument lists clients pass to DEL
    TicksPerSec,   \* clock ticks in a second
    InstantMax,    \* the last representable Instant
    BootTime,      \* the wall clock's reading when the monotonic one reads 0
    KeysPerCheck,  \* TTL_KEYS_PER_CHECK
    MaxNow,        \* bound: the clock stops here
    MaxCommands,   \* bound: commands executed
    None           \* Option::None, and an absent key

Instants == 0 .. InstantMax
Entries == [value : Values, expiry : Instants \cup {None}]
Expiries == [expiry_time : Instants, key : Keys]

ASSUME SizeAssumption ==
    /\ KeyLen \in [Keys -> Nat]
    /\ ValLen \in [Values -> Nat]
    /\ EntryOverhead \in Nat \ {0}
    /\ Usize \in Nat \ {0}
    /\ MaxKeySize \in Nat
    /\ MaxValueSize \in Nat
    /\ MaxKeys \in Nat
    /\ MaxMemory \in Nat

\* The limits of constants.rs are far from the width of usize: 20 GB, 512 MB
\* and 512 bytes against 2^64.
ASSUME WidthAssumption ==
    MaxMemory + MaxKeySize + MaxValueSize + EntryOverhead < Usize

ASSUME ClockAssumption ==
    /\ TicksPerSec \in Nat \ {0}
    /\ InstantMax \in Nat
    /\ BootTime \in Nat
    /\ MaxNow \in Nat
    /\ MaxNow <= InstantMax

ASSUME InputAssumption ==
    /\ IsFiniteSet(Keys)
    /\ Ttls \subseteq Nat
    /\ DelArgs \subseteq Seq(Keys)
    /\ KeysPerCheck \in Nat \ {0}
    /\ MaxCommands \in Nat

ASSUME NoneAssumption ==
    /\ None \notin Values
    /\ None \notin Entries
    /\ None \notin Nat

ASSUME RefusalAssumption ==
    None \notin {"key too large", "value too large", "shard full"}

VARIABLES
    now,                \* Instant::now()
    data,               \* HashMap<Key, Entry>: None where the key is absent
    ttl_queue,          \* BinaryHeap<Expiry>, as the number of copies of each
    memory_bytes,       \* metrics.memory_bytes
    key_count,          \* metrics.key_count
    keys_expired,       \* metrics.keys_expired
    commands_processed, \* metrics.commands_processed
    worker,             \* where the worker task is
    del_keys,           \* cmd_del: the keys still to be removed
    deleted,            \* cmd_del: the keys removed so far
    sweep_now,          \* expire_keys: `now`
    expired_count,      \* expire_keys: `expired_count`
    reply               \* the last Response sent on a reply_tx

metrics == <<memory_bytes, key_count, keys_expired, commands_processed>>
delVars == <<del_keys, deleted>>
sweepVars == <<sweep_now, expired_count>>
vars == <<now, data, ttl_queue, metrics, worker, delVars, sweepVars, reply>>

Phases == {"select", "del", "sweep", "panicked"}
Sections == {"default", "server", "stats", "memory", "unknown"}

\* The Response enum.  The text INFO answers is reduced to the numbers it
\* prints, and PING's echo to the fact that it was answered.
InfoResponses ==
    {<<"Pong">>, <<"Info", "server">>, <<"Error", "unknown section">>}
      \cup ({"Info"} \X {"stats", "memory"} \X Nat \X Nat)
Responses ==
    InfoResponses
      \cup {<<"Ok">>}
      \cup ({"Value"} \X (Values \cup {None}))
      \cup ({"Integer"} \X Int)
      \cup ({"Error"} \X {"key too large", "value too large", "shard full",
                         "OOM"})
-----------------------------------------------------------------------------
(***************************************************************************)
(* Helpers.                                                                *)
(***************************************************************************)
\* The keys of the HashMap, and its len().
Stored(d) == {k \in Keys : d[k] # None}
DataLen(d) == Cardinality(Stored(d))

\* Shard::entry_size_bytes
EntrySizeBytes(k, v) == KeyLen[k] + ValLen[v] + EntryOverhead

\* Mutant: an entry is still readable at its deadline.
IsExpiredLate(e) == e.expiry # None /\ e.expiry < now

\* Entry::is_expired: the deadline itself counts as expired.
IsExpired(e) == e.expiry # None /\ e.expiry <= now

\* Instant::now() + Duration::from_secs(secs): panics past the last Instant.
Deadline(secs) == now + secs * TicksPerSec

\* Mutant: an unchecked addition.
DeadlineUnchecked(secs) == FALSE

DeadlineOverflows(secs) == Deadline(secs) > InstantMax

MkExpiry(t, k) == [expiry_time |-> t, key |-> k]
HeapPush(q, x) == [q EXCEPT ![x] = @ + 1]
HeapPop(q, x) == [q EXCEPT ![x] = @ - 1]

\* Mutant: the natural order of times makes BinaryHeap a max-heap.
HeapBeforeReversed(x, y) == x.expiry_time >= y.expiry_time

\* Ord for Expiry, reversed: x is not after y on the heap.
HeapBefore(x, y) == x.expiry_time <= y.expiry_time

\* peek(): which of the elements with the least time is on top is the
\* heap's own business.
IsHeapTop(x) ==
    /\ ttl_queue[x] > 0
    /\ \A y \in Expiries : ttl_queue[y] > 0 => HeapBefore(x, y)

OldSize(k) ==
    IF data[k] = None THEN 0 ELSE EntrySizeBytes(k, data[k].value)

\* Mutant: the entry being written is left out of the account.
ProjectedWithoutNew(k, v) == (memory_bytes - OldSize(k)) % Usize

\* The memory a SET would leave in use, as the limit check computes it.
Projected(k, v) ==
    (memory_bytes + EntrySizeBytes(k, v) - OldSize(k)) % Usize

Init ==
    /\ now = 0
    /\ data = [k \in Keys |-> None]
    /\ ttl_queue = [x \in Expiries |-> 0]
    /\ memory_bytes = 0
    /\ key_count = 0
    /\ keys_expired = 0
    /\ commands_processed = 0
    /\ worker = "select"
    /\ del_keys = << >>
    /\ deleted = 0
    /\ sweep_now = 0
    /\ expired_count = 0
    /\ reply = <<"Ok">>
-----------------------------------------------------------------------------
(***************************************************************************)
(* Commands: the command_rx branch of the select! loop, Shard::execute.    *)
(***************************************************************************)
\* The select! loop takes the next command off the channel.
Receive ==
    /\ worker = "select"
    /\ commands_processed < MaxCommands

\* record_command, then reply_tx.send: how every command ends.
Respond(r) ==
    /\ commands_processed' = commands_processed + 1
    /\ reply' = r

\* A panic ends the worker task.  The shard is dropped with it; its last
\* state stays in the variables, and nothing reads them again.
Panic ==
    /\ worker' = "panicked"
    /\ UNCHANGED <<now, data, ttl_queue, metrics, delVars, sweepVars, reply>>

\* Mutant: only the value of the entry is taken off the account.
RemoveKeyCountingValue(k) ==
    /\ data' = [data EXCEPT ![k] = None]
    /\ memory_bytes' = (memory_bytes - ValLen[data[k].value]) % Usize
    /\ key_count' = DataLen(data')

\* remove_key_update_metrics on a key that is present.
RemoveKeyUpdateMetrics(k) ==
    /\ data' = [data EXCEPT ![k] = None]
    /\ memory_bytes' =
         (memory_bytes - EntrySizeBytes(k, data[k].value)) % Usize
    /\ key_count' = DataLen(data')

\* Mutant: the expiry is not counted.
LazyExpireUncounted(k) ==
    /\ RemoveKeyUpdateMetrics(k)
    /\ UNCHANGED keys_expired

\* What GET and TTL do on meeting an expired entry.
LazyExpire(k) ==
    /\ RemoveKeyUpdateMetrics(k)
    /\ keys_expired' = keys_expired + 1

CmdPing ==
    /\ Receive
    /\ Respond(<<"Pong">>)
    /\ UNCHANGED <<now, data, ttl_queue, memory_bytes, key_count,
                   keys_expired, worker, delVars, sweepVars>>

CmdInfo(section) ==
    /\ Receive
    /\ Respond(
         CASE section \in {"default", "server"} -> <<"Info", "server">>
           [] section = "stats" ->
                <<"Info", "stats", commands_processed, keys_expired>>
           [] section = "memory" ->
                <<"Info", "memory", memory_bytes, key_count>>
           [] section = "unknown" -> <<"Error", "unknown section">>)
    /\ UNCHANGED <<now, data, ttl_queue, memory_bytes, key_count,
                   keys_expired, worker, delVars, sweepVars>>

\* Mutant: the key limit is off by one.
SetRefusalOffByOne(k, v) ==
    IF KeyLen[k] > MaxKeySize THEN "key too large"
    ELSE IF ValLen[v] > MaxValueSize THEN "value too large"
    ELSE IF data[k] = None /\ DataLen(data) > MaxKeys THEN "shard full"
    ELSE None

\* The checks cmd_set makes before it computes the expiry, in order.
SetRefusal(k, v) ==
    IF KeyLen[k] > MaxKeySize THEN "key too large"
    ELSE IF ValLen[v] > MaxValueSize THEN "value too large"
    ELSE IF data[k] = None /\ DataLen(data) >= MaxKeys THEN "shard full"
    ELSE None

SetRefused(k, v) ==
    /\ Receive
    /\ SetRefusal(k, v) # None
    /\ Respond(<<"Error", SetRefusal(k, v)>>)
    /\ UNCHANGED <<now, data, ttl_queue, memory_bytes, key_count,
                   keys_expired, worker, delVars, sweepVars>>

SetPanics(k, v, ttl) ==
    /\ Receive
    /\ SetRefusal(k, v) = None
    /\ ttl # None /\ DeadlineOverflows(ttl)
    /\ Panic

\* The SET reaches the memory check.
SetChecked(k, v, ttl) ==
    /\ Receive
    /\ SetRefusal(k, v) = None
    /\ ttl # None => ~DeadlineOverflows(ttl)

SetOOM(k, v, ttl) ==
    /\ SetChecked(k, v, ttl)
    /\ Projected(k, v) > MaxMemory
    /\ Respond(<<"Error", "OOM">>)
    /\ UNCHANGED <<now, data, ttl_queue, memory_bytes, key_count,
                   keys_expired, worker, delVars, sweepVars>>

\* An overwrite drops the old expiry with the old entry; its heap element
\* stays behind as a stale one.
SetInserts(k, v, ttl) ==
    LET expiry == IF ttl = None THEN None ELSE Deadline(ttl)
    IN  /\ SetChecked(k, v, ttl)
        /\ Projected(k, v) <= MaxMemory
        /\ data' = [data EXCEPT ![k] = [value |-> v, expiry |-> expiry]]
        /\ ttl_queue' = IF expiry = None THEN ttl_queue
                        ELSE HeapPush(ttl_queue, MkExpiry(expiry, k))
        /\ memory_bytes' = Projected(k, v)
        /\ key_count' = DataLen(data')
        /\ Respond(<<"Ok">>)
        /\ UNCHANGED <<now, keys_expired, worker, delVars, sweepVars>>

CmdSet(k, v, ttl) ==
    \/ SetRefused(k, v)
    \/ SetPanics(k, v, ttl)
    \/ SetOOM(k, v, ttl)
    \/ SetInserts(k, v, ttl)

CmdGet(k) ==
    /\ Receive
    /\ \/ /\ data[k] = None
          /\ Respond(<<"Value", None>>)
          /\ UNCHANGED <<data, memory_bytes, key_count, keys_expired>>
       \/ /\ data[k] # None /\ IsExpired(data[k])
          /\ LazyExpire(k)
          /\ Respond(<<"Value", None>>)
       \/ /\ data[k] # None /\ ~IsExpired(data[k])
          /\ Respond(<<"Value", data[k].value>>)
          /\ UNCHANGED <<data, memory_bytes, key_count, keys_expired>>
    /\ UNCHANGED <<now, ttl_queue, worker, delVars, sweepVars>>

\* remaining.as_secs(): whole seconds, rounded down.
RemainingSecs(e) == (e.expiry - now) \div TicksPerSec

CmdTtl(k) ==
    /\ Receive
    /\ \/ /\ data[k] = None
          /\ Respond(<<"Integer", -2>>)
          /\ UNCHANGED <<data, memory_bytes, key_count, keys_expired>>
       \/ /\ data[k] # None /\ data[k].expiry = None
          /\ Respond(<<"Integer", -1>>)
          /\ UNCHANGED <<data, memory_bytes, key_count, keys_expired>>
       \/ /\ data[k] # None /\ IsExpired(data[k])
          /\ LazyExpire(k)
          /\ Respond(<<"Integer", -2>>)
       \/ /\ data[k] # None /\ data[k].expiry # None /\ ~IsExpired(data[k])
          /\ Respond(<<"Integer", RemainingSecs(data[k])>>)
          /\ UNCHANGED <<data, memory_bytes, key_count, keys_expired>>
    /\ UNCHANGED <<now, ttl_queue, worker, delVars, sweepVars>>

\* cmd_expire looks the key up without asking whether it has expired.
ExpireMissing(k) ==
    /\ Receive
    /\ data[k] = None
    /\ Respond(<<"Integer", 0>>)
    /\ UNCHANGED <<now, data, ttl_queue, memory_bytes, key_count,
                   keys_expired, worker, delVars, sweepVars>>

ExpirePanics(k, secs) ==
    /\ Receive
    /\ data[k] # None /\ DeadlineOverflows(secs)
    /\ Panic

\* Mutant: EXPIRE forgets to queue the new deadline.
ExpireSetsUnqueued(k, secs) ==
    /\ Receive
    /\ data[k] # None /\ ~DeadlineOverflows(secs)
    /\ data' = [data EXCEPT ![k].expiry = Deadline(secs)]
    /\ Respond(<<"Integer", 1>>)
    /\ UNCHANGED <<now, ttl_queue, memory_bytes, key_count, keys_expired,
                   worker, delVars, sweepVars>>

ExpireSets(k, secs) ==
    /\ Receive
    /\ data[k] # None /\ ~DeadlineOverflows(secs)
    /\ data' = [data EXCEPT ![k].expiry = Deadline(secs)]
    /\ ttl_queue' = HeapPush(ttl_queue, MkExpiry(Deadline(secs), k))
    /\ Respond(<<"Integer", 1>>)
    /\ UNCHANGED <<now, memory_bytes, key_count, keys_expired, worker,
                   delVars, sweepVars>>

CmdExpire(k, secs) ==
    \/ ExpireMissing(k)
    \/ ExpirePanics(k, secs)
    \/ ExpireSets(k, secs)

\* cmd_del, the loop over its arguments: begin, one key, answer.
DelBegin(keys) ==
    /\ Receive
    /\ worker' = "del"
    /\ del_keys' = keys
    /\ deleted' = 0
    /\ UNCHANGED <<now, data, ttl_queue, metrics, sweepVars, reply>>

DelKey ==
    /\ worker = "del" /\ del_keys # << >>
    /\ LET k == Head(del_keys)
       IN  \/ /\ data[k] # None
              /\ RemoveKeyUpdateMetrics(k)
              /\ deleted' = deleted + 1
           \/ /\ data[k] = None
              /\ UNCHANGED <<data, memory_bytes, key_count, deleted>>
    /\ del_keys' = Tail(del_keys)
    /\ UNCHANGED <<now, ttl_queue, keys_expired, commands_processed, worker,
                   sweepVars, reply>>

DelEnd ==
    /\ worker = "del" /\ del_keys = << >>
    /\ Respond(<<"Integer", deleted>>)
    /\ worker' = "select"
    /\ deleted' = 0
    /\ UNCHANGED <<now, data, ttl_queue, memory_bytes, key_count,
                   keys_expired, del_keys, sweepVars>>
-----------------------------------------------------------------------------
(***************************************************************************)
(* The ttl_ticker branch: Shard::expire_keys.                              *)
(***************************************************************************)
SweepBegin ==
    /\ worker = "select"
    /\ worker' = "sweep"
    /\ sweep_now' = now
    /\ expired_count' = 0
    /\ UNCHANGED <<now, data, ttl_queue, metrics, delVars, reply>>

\* Mutant: the sweep trusts any heap element of a key that exists.
StillPresent(x) == data[x.key] # None

\* The heap element still speaks for the entry of its key.
StillCurrent(x) ==
    data[x.key] # None /\ data[x.key].expiry = x.expiry_time

IsDue(x) == x.expiry_time <= sweep_now

SweepPop(x) ==
    /\ worker = "sweep"
    /\ expired_count < KeysPerCheck
    /\ IsHeapTop(x) /\ IsDue(x)
    /\ ttl_queue' = HeapPop(ttl_queue, x)
    /\ \/ /\ StillCurrent(x)
          /\ data' = [data EXCEPT ![x.key] = None]
          /\ expired_count' = expired_count + 1
       \/ /\ ~StillCurrent(x)
          /\ UNCHANGED <<data, expired_count>>
    /\ UNCHANGED <<now, metrics, worker, delVars, sweep_now, reply>>

SweepOver ==
    \/ expired_count >= KeysPerCheck
    \/ ~\E x \in Expiries : IsHeapTop(x) /\ IsDue(x)

\* Mutant: the sweep does not store the new length of the map.
SweepEndWithoutStore ==
    /\ worker = "sweep" /\ SweepOver
    /\ worker' = "select"
    /\ keys_expired' = keys_expired + expired_count
    /\ sweep_now' = 0 /\ expired_count' = 0
    /\ UNCHANGED <<now, data, ttl_queue, memory_bytes, key_count,
                   commands_processed, delVars, reply>>

\* The loop ends: heap empty, top not due, or enough keys deleted.  The
\* map shrank, but memory_bytes is not touched.
SweepEnd ==
    /\ worker = "sweep" /\ SweepOver
    /\ worker' = "select"
    /\ keys_expired' = keys_expired + expired_count
    /\ key_count' = IF expired_count > 0 THEN DataLen(data) ELSE key_count
    /\ sweep_now' = 0 /\ expired_count' = 0
    /\ UNCHANGED <<now, data, ttl_queue, memory_bytes, commands_processed,
                   delVars, reply>>
-----------------------------------------------------------------------------
(***************************************************************************)
(* The snapshot_ticker branch, as far as the shard is concerned:           *)
(* serialize_shard reads every entry, and turns each expiry into a wall    *)
(* clock time, which panics when that is past the last SystemTime.  What   *)
(* becomes of the bytes is in module Persistence.                          *)
(***************************************************************************)
WallClockOverflows(e) == e.expiry # None /\ BootTime + e.expiry > InstantMax

SerializePanics ==
    /\ worker = "select"
    /\ \E k \in Stored(data) :
         ~IsExpired(data[k]) /\ WallClockOverflows(data[k])
    /\ Panic
-----------------------------------------------------------------------------
\* Time passes.
Tick ==
    /\ now < MaxNow
    /\ now' = now + 1
    /\ UNCHANGED <<data, ttl_queue, metrics, worker, delVars, sweepVars,
                   reply>>

Execute ==
    \/ CmdPing
    \/ \E s \in Sections : CmdInfo(s)
    \/ \E k \in Keys :
         \/ \E v \in Values, ttl \in Ttls \cup {None} : CmdSet(k, v, ttl)
         \/ CmdGet(k)
         \/ CmdTtl(k)
         \/ \E secs \in Ttls : CmdExpire(k, secs)
    \/ \E keys \in DelArgs : DelBegin(keys)

DelLoop == DelKey \/ DelEnd

SweepLoop == SweepEnd \/ \E x \in Expiries : SweepPop(x)

Next == Execute \/ DelLoop \/ SweepBegin \/ SweepLoop \/ SerializePanics \/ Tick

\* The worker keeps running the code it is in, and select! picks a ready
\* branch at random: the ticker cannot be passed over for ever.
Fairness ==
    /\ WF_vars(DelLoop)
    /\ WF_vars(SweepLoop)
    /\ SF_vars(SweepBegin)

Spec == Init /\ [][Next]_vars

FairSpec == Spec /\ Fairness
-----------------------------------------------------------------------------
(***************************************************************************)
(* Properties.                                                             *)
(***************************************************************************)
\* The memory the stored entries really take.
DataBytes ==
    SumFunction([k \in Stored(data) |-> EntrySizeBytes(k, data[k].value)])

\* Type invariant.  In particular no deadline past the last Instant is ever
\* stored or queued, and no counter leaves the range of its Rust type.
TypeOK ==
    /\ now \in 0 .. MaxNow
    /\ data \in [Keys -> Entries \cup {None}]
    /\ ttl_queue \in [Expiries -> Nat]
    /\ memory_bytes \in 0 .. Usize - 1
    /\ key_count \in Nat
    /\ keys_expired \in Nat
    /\ commands_processed \in Nat
    /\ worker \in Phases
    /\ del_keys \in Seq(Keys)
    /\ deleted \in Nat
    /\ sweep_now \in 0 .. MaxNow
    /\ expired_count \in 0 .. KeysPerCheck
    /\ reply \in Responses

\* Every entry that has a deadline has a heap element for exactly that
\* deadline, whatever SETs, EXPIREs, DELs and sweeps came before: without it
\* the sweep of expire_keys would never meet the entry, and a key nobody
\* reads again would stay for ever.
HeapCoversExpiry ==
    \A k \in Keys :
      data[k] # None /\ data[k].expiry # None
        => ttl_queue[MkExpiry(data[k].expiry, k)] > 0

\* Outside a sweep key_count, which only some of the paths that change the
\* map store, is the length of the map; inside, it lags by exactly the keys
\* the sweep has removed and will report when it ends.
KeyCountExact ==
    /\ key_count = DataLen(data) + expired_count
    /\ worker # "sweep" => expired_count = 0

\* memory_bytes never under-reports: it is at least what the entries take.
\* fetch_sub in SET, GET, TTL and DEL therefore never wraps below zero.
MemoryCoversData == DataBytes <= memory_bytes

\* How far memory_bytes is off changes in a sweep only, which leaves it alone
\* when it removes entries: inserting, overwriting, deleting and expiring an
\* entry on access account for its exact size.
AccountKept ==
    [][worker # "sweep"
         => memory_bytes' - DataBytes' = memory_bytes - DataBytes]_vars

\* Whatever was accepted, the entries stay within the limits cmd_set
\* enforces: memory, number of keys, size of a key, size of a value.
LimitsHold ==
    /\ DataBytes <= MaxMemory
    /\ DataLen(data) <= MaxKeys
    /\ \A k \in Stored(data) :
         KeyLen[k] <= MaxKeySize /\ ValLen[data[k].value] <= MaxValueSize

\* A key disappears only because DEL named it or because the deadline its
\* entry carries at that moment has passed: a heap element left over from
\* an earlier deadline never takes a renewed, persisted or rewritten key.
NoPrematureExpiry ==
    [][\A k \in Keys :
         data[k] # None /\ data'[k] = None
           => worker = "del" \/ IsExpired(data[k])]_vars

\* Each key that expires is counted in keys_expired exactly once, whether
\* GET, TTL or a sweep finds it (a sweep reports its count when it ends).
ExpiryCounted ==
    [][worker # "del" =>
         keys_expired' + expired_count' = keys_expired + expired_count
           + Cardinality(Stored(data) \ Stored(data'))]_vars

\* An expired key that no client touches is removed in the end, although a
\* sweep deletes a bounded number of keys and stale heap elements are in
\* its way.  (EXPIRE or SET may renew it, and the worker may have died.)
ExpiredEventuallyRemoved ==
    \A k \in Keys :
      (data[k] # None /\ IsExpired(data[k]))
        ~> (data[k] = None \/ ~IsExpired(data[k]) \/ worker = "panicked")
=============================================================================
