---------------------------- MODULE SnapshotFormat ----------------------------
(***************************************************************************)
(* What a snapshot file says and what loading it gives back                *)
(* (src/src/shard/persistence/format.rs, shard/snapshot/serialize.rs,      *)
(* deserialize.rs and loader.rs, common/time.rs).                          *)
(*                                                                         *)
(* The header is modelled byte by byte, because the code addresses it by   *)
(* offsets, and the data section as the sequence of its lengths, bytes,    *)
(* flags and times.  Time is counted in ticks, TicksPerSec to the second;  *)
(* files hold whole seconds of wall clock time, a shard Instants, and the  *)
(* two clocks move together while their distance changes at a restart.     *)
(*                                                                         *)
(* Two byte strings have the same checksum only when they are equal; that  *)
(* of zeros is zero, as CRC-64/ECMA-182 has it.                            *)
(***************************************************************************)
EXTENDS Integers, Sequences, FiniteSets, SequencesExt, FiniteSetsExt

CONSTANTS
    Keys,         \* keys, as byte strings
    Values,       \* values, as byte strings
    ShardId,      \* the shard's number
    TicksPerSec,  \* resolution of the clocks
    Starts,       \* wall clock times at which the server runs first
    MaxWall,      \* bound: the last wall clock time
    CheckHeader,  \* FALSE: look at the loop over the entries on its own
    None          \* no entry, no deadline, no file

ASSUME FormatAssumption ==
    /\ Keys \subseteq Seq(Nat) /\ IsFiniteSet(Keys) /\ Values \subseteq Seq(Nat)
    /\ ShardId \in Nat
    /\ TicksPerSec \in Nat \ {0} /\ MaxWall \in Nat
    /\ Starts \subseteq Nat
    /\ CheckHeader \in BOOLEAN
    /\ None \notin Nat \cup [value : Values, expiry : Nat \cup {None}]

VARIABLES
    wall,       \* SystemTime::now()
    boot,       \* when Instant::now() was 0
    phase,      \* "running", "stopped", "loading", "loaded" or "rejected"
    data,       \* Shard.data: an entry for each key, or None
    ttl_queue,  \* Shard.ttl_queue: the expiries in it
    key_count,  \* ShardMetrics.key_count
    file,       \* shard{N}.snap
    saved,      \* history: what the shard held when the file was written
    cursor,     \* the place of the loader in the data section
    left,       \* entries it has yet to read
    now_unix    \* the time it compares them with

clocks == <<wall, boot>>
shardVars == <<data, ttl_queue, key_count>>
loaderVars == <<cursor, left, now_unix>>
vars == <<clocks, phase, shardVars, file, saved, loaderVars>>

Now == wall - boot       \* Instant::now()
Secs(ticks) == ticks \div TicksPerSec
Stored(d) == {k \in DOMAIN d : d[k] # None}
-----------------------------------------------------------------------------
(***************************************************************************)
(* Time on its way to disk and back.                                       *)
(***************************************************************************)
\* Mutant: seconds are rounded up.
InstantToUnixRoundedUp(instant) ==
    Secs(wall + Max({instant - Now, 0}) + TicksPerSec - 1)

\* instant_to_unix_timestamp: a deadline that has passed becomes this second.
InstantToUnix(instant) == Secs(wall + Max({instant - Now, 0}))

\* Mutant: the time that is left is counted from the start of the load.
UnixToInstantFromStart(timestamp) ==
    IF timestamp > now_unix THEN Now + (timestamp - now_unix) * TicksPerSec ELSE Now

\* unix_timestamp_to_instant, which reads the clocks again.
UnixToInstant(timestamp) ==
    IF timestamp > Secs(wall) THEN Now + (timestamp - Secs(wall)) * TicksPerSec
                              ELSE Now
-----------------------------------------------------------------------------
(***************************************************************************)
(* The header.                                                             *)
(***************************************************************************)
\* Mutant: the reserved bytes do not fill the header.
LayoutTooShort ==
    << <<"magic", 4>>, <<"version", 4>>, <<"shard_id", 2>>, <<"reserved1", 2>>,
       <<"key_count", 8>>, <<"timestamp", 8>>, <<"data_checksum", 8>>,
       <<"header_checksum", 8>>, <<"reserved2", 16>> >>

\* SnapshotHeader::write and read: the fields in order, with their widths.
Layout ==
    << <<"magic", 4>>, <<"version", 4>>, <<"shard_id", 2>>, <<"reserved1", 2>>,
       <<"key_count", 8>>, <<"timestamp", 8>>, <<"data_checksum", 8>>,
       <<"header_checksum", 8>>, <<"reserved2", 20>> >>

HeaderSize == 64

\* What a field holds: zero, or a value the code can tell apart.
Zero == << >>
Number(n) == IF n = 0 THEN Zero ELSE <<"number", n>>
Magic == <<"magic">>
DataCrc(bytes) == IF Range(bytes) \subseteq {0} THEN Zero ELSE <<"crc", bytes>>
HeaderCrc(bytes) == <<"crc", bytes>>

\* The bytes of a value: zero, or told apart by the value and their place.
Bytes(value, width) ==
    [i \in 1 .. width |-> IF value = Zero THEN Zero ELSE <<value, i>>]

WriteHeader(fields) ==
    FlattenSeq([i \in 1 .. Len(Layout) |->
        Bytes(IF Layout[i][1] \in DOMAIN fields THEN fields[Layout[i][1]] ELSE Zero,
              Layout[i][2])])

\* The bytes read for a field.
ReadField(header, name) ==
    LET i == CHOOSE i \in 1 .. Len(Layout) : Layout[i][1] = name
        offset == SumFunction([j \in 1 .. i - 1 |-> Layout[j][2]])
    IN  SubSeq(header, offset + 1, offset + Layout[i][2])

Is(header, name, value) == ReadField(header, name) = Bytes(value, Len(ReadField(header, name)))

\* cursor.set_position(offset) and a write over what is there.
Overwrite(header, offset, bytes) ==
    [i \in 1 .. Len(header) |->
        IF i - offset \in 1 .. Len(bytes) THEN bytes[i - offset] ELSE header[i]]

\* SnapshotHeader::new: the checksums and the reserved fields are zero.
HeaderFields ==
    [magic |-> Magic, version |-> Number(1), shard_id |-> Number(ShardId),
     key_count |-> Number(Cardinality(Stored(data))),
     timestamp |-> Number(Secs(wall))]

\* Mutant: the checksums are written one field early.
SealedEarly(header, body) ==
    Overwrite(Overwrite(header, 20, Bytes(DataCrc(body), 8)),
              28, Bytes(HeaderCrc(SubSeq(header, 1, 56)), 8))

\* The checksums are computed, the second over 56 bytes of the header with both
\* still zero, and written one after the other from offset 32.
Sealed(header, body) ==
    Overwrite(Overwrite(header, 32, Bytes(DataCrc(body), 8)),
              40, Bytes(HeaderCrc(SubSeq(header, 1, 56)), 8))

\* What deserialize_snapshot verifies before it reads the entries.
HeaderAccepted(header, body) ==
    /\ Len(header) >= HeaderSize
    /\ Is(header, "magic", Magic)
    /\ Is(header, "version", Number(1))
    /\ Is(header, "header_checksum", HeaderCrc(SubSeq(header, 1, 56)))
    /\ Is(header, "data_checksum", DataCrc(body))
-----------------------------------------------------------------------------
(***************************************************************************)
(* The data section.                                                       *)
(***************************************************************************)
EncodeEntry(k, entry) ==
    <<Len(k)>> \o k \o <<Len(entry.value)>> \o entry.value
      \o IF entry.expiry = None THEN <<0>> ELSE <<1, InstantToUnix(entry.expiry)>>

\* The entries, in an order the map chooses.
Bodies ==
    {FlattenSeq([i \in 1 .. Len(order) |-> EncodeEntry(order[i], data[order[i]])]) :
        order \in SetToSeqs(Stored(data))}

\* Mutant: the next entry is looked for right behind the flag.
DecodeEntryShort(body, pos) ==
    LET value == pos + 1 + body[pos]
        flag == value + 1 + body[value]
    IN  [key |-> SubSeq(body, pos + 1, value - 1),
         value |-> SubSeq(body, value + 1, flag - 1),
         timestamp |-> IF body[flag] = 1 THEN body[flag + 1] ELSE None,
         next |-> flag + 1]

\* The entry that is read from a place in the data section.
DecodeEntry(body, pos) ==
    LET value == pos + 1 + body[pos]
        flag == value + 1 + body[value]
        timed == body[flag] = 1
    IN  [key |-> SubSeq(body, pos + 1, value - 1),
         value |-> SubSeq(body, value + 1, flag - 1),
         timestamp |-> IF timed THEN body[flag + 1] ELSE None,
         next |-> IF timed THEN flag + 2 ELSE flag + 1]
-----------------------------------------------------------------------------
(***************************************************************************)
(* The server that saves, and the one that loads.                          *)
(***************************************************************************)
Entries == [value : Values, expiry : Nat \cup {None}]
Empty == [k \in Keys |-> None]

\* A server that has run for a while: deadlines may be near, far, or past and
\* not swept yet.
Init ==
    /\ wall \in Starts /\ boot \in {0, wall}
    /\ phase = "running"
    /\ data \in [Keys -> {None} \cup [value : Values, expiry : {None} \cup 0 .. MaxWall - boot]]
    /\ ttl_queue = {[key |-> k, expiry_time |-> data[k].expiry] :
                      k \in {k \in Stored(data) : data[k].expiry # None}}
    /\ key_count = Cardinality(Stored(data))
    /\ file = None /\ saved = None
    /\ cursor = 0 /\ left = 0 /\ now_unix = 0

Tick ==
    /\ phase \notin {"loaded", "rejected"} /\ wall < MaxWall
    /\ wall' = wall + 1
    /\ UNCHANGED <<boot, phase, shardVars, file, saved, loaderVars>>

\* serialize_shard, and the file it ends up in (module Persistence).  All is
\* stamped with one time, while the code reads the clocks for the header and for
\* each entry: a deadline to come has the same stamp at either reading, and one
\* that passes in between is skipped by a loader that starts later.
Save ==
    /\ phase = "running" /\ file = None
    /\ \E body \in Bodies :
         file' = [header |-> Sealed(WriteHeader(HeaderFields), body), body |-> body]
    /\ saved' = [data |-> data, boot |-> boot, fields |-> HeaderFields]
    /\ UNCHANGED <<clocks, phase, shardVars, loaderVars>>

\* The process ends; the next one runs on the same machine, or on one that
\* has just been started.
Restart ==
    /\ phase = "running"
    /\ phase' = "stopped"
    /\ boot' \in {boot, wall}
    /\ data' = Empty /\ ttl_queue' = {} /\ key_count' = 0
    /\ UNCHANGED <<wall, file, saved, loaderVars>>

\* load_snapshot finds no file.
LoadMissing ==
    /\ phase = "stopped" /\ file = None
    /\ phase' = "loaded"
    /\ UNCHANGED <<clocks, shardVars, file, saved, loaderVars>>

\* The header's key_count, as a number.
HeaderKeyCount == CHOOSE n \in 0 .. Cardinality(Keys) : Is(file.header, "key_count", Number(n))

\* deserialize_snapshot up to the loop; when a check fails, an error.
LoadBegin ==
    /\ phase = "stopped" /\ file # None
    /\ phase' = IF CheckHeader /\ ~HeaderAccepted(file.header, file.body)
                THEN "rejected" ELSE "loading"
    /\ now_unix' = Secs(wall)
    /\ cursor' = 1 /\ left' = HeaderKeyCount
    /\ UNCHANGED <<clocks, shardVars, file, saved>>

\* Mutant: a deadline that has come while the file was read is not queued.
InsertQueueingLater(key, value, expiry) ==
    /\ data' = [data EXCEPT ![key] = [value |-> value, expiry |-> expiry]]
    /\ ttl_queue' = IF expiry = None \/ expiry = Now THEN ttl_queue
                    ELSE ttl_queue \cup {[key |-> key, expiry_time |-> expiry]}

\* Inserts an entry into the map, and its deadline into the heap.
Insert(key, value, expiry) ==
    /\ data' = [data EXCEPT ![key] = [value |-> value, expiry |-> expiry]]
    /\ ttl_queue' = IF expiry = None THEN ttl_queue
                    ELSE ttl_queue \cup {[key |-> key, expiry_time |-> expiry]}

\* One turn of the loop: an entry that has expired is skipped.
LoadEntry ==
    /\ phase = "loading" /\ left > 0
    /\ LET entry == DecodeEntry(file.body, cursor) IN
         /\ \/ /\ entry.timestamp = None
               /\ Insert(entry.key, entry.value, None)
            \/ /\ entry.timestamp # None /\ entry.timestamp > now_unix
               /\ Insert(entry.key, entry.value, UnixToInstant(entry.timestamp))
            \/ /\ entry.timestamp # None /\ entry.timestamp <= now_unix
               /\ UNCHANGED <<data, ttl_queue>>
         /\ cursor' = entry.next
    /\ left' = left - 1
    /\ UNCHANGED <<clocks, phase, key_count, file, saved, now_unix>>

LoadEnd ==
    /\ phase = "loading" /\ left = 0
    /\ phase' = "loaded"
    /\ key_count' = Cardinality(Stored(data))
    /\ UNCHANGED <<clocks, data, ttl_queue, file, saved, loaderVars>>

Load == LoadMissing \/ LoadBegin \/ LoadEntry \/ LoadEnd

Next == Tick \/ Save \/ Restart \/ Load

Spec == Init /\ [][Next]_vars
-----------------------------------------------------------------------------
(***************************************************************************)
(* Properties.                                                             *)
(***************************************************************************)
TypeOK ==
    /\ wall \in Nat /\ boot \in 0 .. wall
    /\ phase \in {"running", "stopped", "loading", "loaded", "rejected"}
    /\ data \in [Keys -> Entries \cup {None}]
    /\ ttl_queue \subseteq [key : Keys, expiry_time : Nat]
    /\ key_count \in 0 .. Cardinality(Keys) /\ now_unix \in 0 .. Secs(wall)
    /\ file # None =>
         Len(file.header) = HeaderSize /\ cursor \in 0 .. Len(file.body) + 1
    /\ left \in 0 .. Cardinality(Keys)

\* The checksums, which serialize_shard writes over bytes 32 to 47 of the finished
\* header, spoil half of data_checksum, header_checksum and the first four bytes of
\* reserved2, and nothing else: format.rs reads every other field, and the rest of
\* reserved2, as they were written.
HeaderFieldsKept ==
    file # None =>
      /\ \A name \in DOMAIN saved.fields : Is(file.header, name, saved.fields[name])
      /\ Is(file.header, "reserved1", Zero)
      /\ \A i \in 5 .. 20 : ReadField(file.header, "reserved2")[i] = Zero

\* A deadline as wall clock time, and one the shard held when it was saved.
OnWall(instant) == boot + instant
SavedDeadline(k) == saved.boot + saved.data[k].expiry

\* Loading gives back what was saved: the same values, no deadline where there
\* was none, the others less than a second off or passed already; and a key is
\* left out only when less than a second was left to it.
LoadKeepsDeadlines ==
    phase \in {"loading", "loaded"} =>
      /\ \A k \in Stored(data) :
           /\ saved.data[k] # None /\ data[k].value = saved.data[k].value
           /\ data[k].expiry = None <=> saved.data[k].expiry = None
           /\ data[k].expiry # None =>
                \/ OnWall(data[k].expiry) - SavedDeadline(k)
                      \in 1 - TicksPerSec .. TicksPerSec - 1
                \/ data[k].expiry <= Now /\ SavedDeadline(k) <= wall
      /\ phase = "loaded" /\ file # None =>
           \A k \in Stored(saved.data) \ Stored(data) :
             /\ saved.data[k].expiry # None
             /\ SavedDeadline(k) < (now_unix + 1) * TicksPerSec

\* A key that has expired when the loader comes to it does not come back to
\* life, although deadlines are rounded on their way and time passes while
\* the loader is at work.
NothingComesBack ==
    [][\A k \in Keys :
         phase = "loading" /\ data[k] = None /\ data'[k] # None
           => \/ data'[k].expiry = None
              \/ data'[k].expiry <= Now
              \/ SavedDeadline(k) > wall]_vars

\* Nothing marks where an entry begins.  The loop ends behind the last byte of
\* the data section all the same: the header's key_count is the number of entries
\* that follow, and an entry that is skipped has been read to its end.
LoadReadsToTheEnd ==
    phase \in {"loading", "loaded"} /\ file # None /\ left = 0 =>
      cursor = Len(file.body) + 1

\* A loaded shard satisfies what the shard's own invariants ask of the map and
\* the heap: the sweep will meet every deadline.
LoadQueuesDeadlines ==
    \A k \in Stored(data) :
      data[k].expiry # None =>
        [key |-> k, expiry_time |-> data[k].expiry] \in ttl_queue

(***************************************************************************)
(* What the repository's documents say and the code does not do.           *)
(***************************************************************************)
\* A file that serialize_shard wrote passes the checks of
\* deserialize_snapshot.
SnapshotLoads == phase # "rejected"
=============================================================================
