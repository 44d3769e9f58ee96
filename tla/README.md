# TLA+ specifications of RsDragonflyDB

RsDragonflyDB is a Redis-like in-memory store in Rust: 64 shards, each a map
owned by one tokio task, connections that send commands to the shards over
bounded channels, and a snapshot file per shard. This directory holds TLA+
models of it, TLC configurations that check them on small instances, and
proofs that TLAPS checks for every value of the constants.

Run everything from this directory:

    tlc -workers 2 -config MCShard.cfg MCShard
    tlapm ShardProofs.tla

Source paths below are relative to the repository; the crate is under `src/`.

## 1. The system

| Part | State | Operations | Talks to |
|---|---|---|---|
| Shard (`shard/shard.rs`, `expiration.rs`, `expiry.rs`, `entry.rs`) | `data` map, `ttl_queue` heap of expiries, `ShardMetrics` counters, limits | SET, GET, DEL, EXPIRE, TTL, INFO, PING; `expire_keys` sweep | owned by its worker |
| Shard worker (`shard/worker.rs`) | the shard, two tickers | `select!` over command channel, TTL ticker, snapshot ticker; final snapshot on exit | command channel in, oneshot replies out, snapshot channel out |
| Snapshot writer (`shard/persistence/writer.rs`) | the request in hand; `shard{N}.snap.tmp`, `shard{N}.snap` | create, write, fsync, rename; clean-up at start | snapshot channel of capacity 1 |
| Snapshot format (`shard/persistence/format.rs`, `shard/snapshot/*`, `common/time.rs`) | header, entries, checksums | serialise, deserialise, load (never called) | worker, disk |
| Connection (`frontend/handler.rs: handle_connection`) | parser buffer, response channel | reader task, writer task | socket, dispatch |
| Dispatch (`frontend/handler.rs: process_command ...`, `frontend/router.rs`, `protocol/channels.rs`) | one command in progress per connection, one oneshot per part | route, send with timeout, await reply with timeout, combine a DEL's parts | command channels of capacity 1024 |
| RESP (`protocol/parser.rs`, `command.rs`, `serializer.rs`) | bytes not yet parsed | feed, parse, compact; command validation | connection |
| Server (`server.rs`, `main.rs`) | senders, metrics objects | start, run, shutdown | all of the above |
| Observability (`observability/*`) | metrics objects of its own | aggregate, export over HTTP | server |

What makes each part correct, and what makes it hard:

- **Shard.** Two structures describe a deadline, the entry and the heap, and
  the heap is never cleaned when an entry changes: it is full of *stale*
  elements. Expiry is found in three places (GET, TTL, the sweep) that keep the
  counters in three different ways. Right means: no live key is removed, no
  deadline is forgotten, the limits hold for what is really stored, and clients
  cannot tell the heap is there. The clock moves between any two steps, also in
  the middle of a sweep.
- **Snapshot pipeline.** A full channel drops the *newer* snapshot; file
  operations fail; the process or the machine stops at any point. Right means:
  the file is always complete, never goes back in time while the server runs,
  and writes reach it in the end.
- **Dispatch.** A timeout gives up waiting and leaves the command in the queue.
  Right means: an answer belongs to its command, a refused command never runs,
  one connection's commands run in order on a shard, everyone gets an answer
  even when shards hang or panic.
- **Connection.** Two tasks joined by a bounded channel, ends of input and write
  errors at any time. Right means: one response per command, in order; the
  tasks end when the connection does.
- **RESP and format.** Input arrives cut at any byte; what is written is what
  is read back.
- **Server.** Shutdown must close every channel, and wait for the last
  snapshots.

`PROJECT.json` lists the places where this can go wrong, line by line, with the
properties that watch them ("hazards").

## 2. The modules

| Module | What it is |
|---|---|
| `Shard` | one shard and its worker loop |
| `TtlStore` | the abstract store: a map with deadlines, one atomic step per command |
| `ShardRefinement` | the refinement mapping: `Shard` implements `TtlStore` |
| `Persistence` | worker, snapshot channel, writer and disk of one shard, over several runs of the server |
| `Server` | the life of the process around that pipeline: connections, Ctrl-C, shutdown, end of the runtime; EXTENDS `Persistence` |
| `Dispatch` | connections, command channels, replies, timeouts, DEL over several shards |
| `Connection` | reader and writer task of one connection, the channel between them, client and network |
| `Resp`, `Command`, `Protocol` | values and their bytes; from a value to a command and from a response to a value; a connection's parser fed by reads that end anywhere |
| `SnapshotFormat` | the contents of a snapshot file, and what loading it gives back |
| `MCShard`, `MCServer`, `MCDispatch`, `MCConnection`, `MCProtocol`, `MCSnapshotFormat` | instances for TLC; the `.cfg` files give the bounds |
| `ShardProofs`, `PersistenceProofs`, `ServerProofs`, `DispatchProofs`, `ConnectionProofs`, `ProtocolProofs`, `SnapshotFormatProofs` | theorems and their proofs |
| `DataLemmas` | induction over data, sums, greatest elements and concatenations, for the proofs |

How they compose:

- `Server` takes the variables and actions of `Persistence` and adds its own;
  every step of it is a step of the pipeline or leaves it alone, which is a
  theorem, so that what holds of the pipeline holds of the server.
- `Shard` implements `TtlStore` through a refinement mapping. On the strength of
  that, `Dispatch` reduces a shard to its set of keys, and `Persistence` to the
  number of writes it has seen: `serialize_shard` runs between commands and
  therefore sees all of the shard at one moment.
- `Connection` takes the processing of a command as one step that always ends
  with a response, which is what `Dispatch` shows (`EveryCommandAnswered`), and
  from `Protocol` what the parser makes of an item that a read has cut in two.
  `Server` takes from `Connection` that a connection's task may stay for ever.

### Shard

Variables carry the names of the fields. `data` maps every key to an entry or
`None`; `ttl_queue` is the heap as a bag (how many copies of each expiry),
because only "an element with the least time" matters. The counters
`memory_bytes`, `key_count`, `keys_expired`, `commands_processed` are those of
`ShardMetrics`; `memory_bytes` wraps at `Usize` as `usize` does. `worker` is
where the task is: in `select!`, in the loop of `cmd_del`, in the loop of
`expire_keys`, or dead.

- A command is one step: the worker is the only task that touches the shard.
  SET's outcomes are tried in the order of the code's checks; `CmdGet` and
  `CmdTtl` include the lazy removal and its counters.
- DEL takes one step per key and the sweep one step per heap element popped,
  with `sweep_now` the `now` it read first. The clock (`Tick`) may advance
  between any two of these.
- `now + Duration` panics past the last `Instant` (`InstantMax`), and
  `serialize_shard` panics on a deadline past the last `SystemTime`
  (`BootTime` is the distance between the two clocks). A panic ends the task.
- Left out: latency, entry metadata (nothing reads it), the text of replies.
  PING answers, counts as a command and changes nothing; INFO answers with the
  counters of the section asked for.

### Persistence and Server

A snapshot is `[run, writes]`: which run of the server took it and how much of
that run it holds. The worker offers it with `try_send` (`Enqueue`); the writer
takes `create`, `write`, `sync` and `rename` as four steps, each of which may
fail (`WriterFails`) and is then logged and forgotten. A file is `partial`,
`written` or `synced`. `Crash` ends the process between any two steps and keeps
the disk. `PowerLoss` also undoes what the disk had not made durable: data
written but not synced may be torn, and a rename may be undone, because the
directory is not synced (`committed` is the file the name is known to reach on
stable storage; `Commit` is the file system catching up). `Restart` is
`Server::new`: an empty shard, temporary files removed unless that fails, and a
snapshot ticker whose first tick is immediate. The worker may panic, over a
command (`CommandPanics`) or, once something is stored, over a snapshot
(`SerializePanics`): these are the panics `Shard` derives from the deadlines.
tokio catches them, so the shard is lost without a final snapshot while the
process, its connections and the writer go on.

`Server` says where commands come from and when the worker's channel closes.
Connections send commands (`ConnectionSends`); `waiting` counts those in the
channel, each of which changes the shard or does not when the worker receives it
(`ExecuteCommand`). The channel closes with the last of its `Senders`, which are
the `Server` itself until `shutdown` drops them, the `ConnectionHandler` until
`run` returns, and every connection task. What waits in it is received all the
same before `recv` returns None (`RecvEnds`), and is dropped when the worker
panics (`WorkerPanics`). `main` goes
from `serving` through the two sleeps of `shutdown` (`draining`, `closing`) to
`returned` and `dropped`. Then the runtime ends: tasks are dropped where they
wait (`TasksDropped`), while a file operation that has begun on a blocking
thread is completed (`Exit` waits for it). All 64 shards are alike and share
nothing but the process, so one is modelled.

### Dispatch

`current[c]` is the command of connection `c`; `part[c][s]` how far its part on
shard `s` is: sending, awaiting, or its outcome. A single-key command has one
part, a DEL one per shard that owns a key of it, and these proceed
independently, as under `join_all`. `oneshot` is the reply channel of each
request and shard, either half of which may be dropped. `SendTimeout` is
possible only while the channel is full, counting the places promised to senders
ahead, because `timeout` polls the send first; `ReplyTimeout` is possible at any
moment before the reply is there. Time itself is not modelled: a timeout may
happen whenever the code could see one. `WorkerPanics` closes a channel and
drops the messages in it. `issued`, `answers`, `executed` and `result` record
what happened and are read by the properties only.

### Connection

What the client sends is a sequence of items, known by their number: commands,
values that are no command, and bytes the parser rejects. `Read` takes any
number of whole items and maybe a part of the next; a part that ends inside a
line is an item of its own to the parser (`Torn`). `reader` and `writer` are the
places of the two tasks in their loops. What the code does on each error differs
and is kept apart: a parse error or a failed read returns at once and leaves the
writer to itself (`ParseFails`, `ReadFails`); the end of input waits for the
writer (`Join`) with `response_tx` still alive; a response that cannot be sent
ends the inner loop after a command and nothing after another value
(`SendFails`). `eof` says that the end of input is behind `input`. Once it has
arrived, a read that finds nothing before it returns 0, also when a reset came
after it (or when the error of the reset has gone to a failing write), and the
reader goes to `join`; a reset without it makes the read fail. `Stuck` is the
state in which the two tasks wait for each other. Client and network are external: the client sends, reads, shuts
down its sending side, or the connection is reset, and then what was on its way
may be lost.

### Resp, Command, Protocol

Bytes come in tokens (a type byte, CR, LF, a numeral, a word), and a read may
end between any two of them. `Decimal` gives the numeral of a number; that a
numeral in several bytes can be torn as well is the same case as a read that
ends before its CR. `ParseValue` follows `parse_value` and its helpers,
including what `read_until` does at the end of the buffer; `Serialize` follows
`serialize_value`; `FromResp` follows `Command::from_resp` with every command
and every error in the order the code finds them. `Protocol` puts `feed`,
`parse` and `compact` with their buffer and cursor into the loop of
`handle_connection`. `Asks` says what a request means without regard to how
`from_resp` reads it, as the documents have it, and `CommandsAsAsked` compares the
two; the one difference it allows has a definition of its own (`InfoWithMore`,
section 3).

Both the parser and the serialiser are recursive in the code. Here the recursion
is that of functions: `ValuesTo` and `Encoded` over the depth to which arrays nest
(at most `MaxDepth`), `ParseAt` over the places in the bytes, each of which is
parsed with what is found at the places behind it, and the loop of `parse_array`
over the number of elements read. `Tears` says where a read may not end if the
parser is to wait for more.

### SnapshotFormat

The header is modelled byte by byte, since the code addresses it by offsets and
by the order of its fields; a byte is told apart by the value it belongs to and
its place in it. Checksums are functions that differ where their arguments do,
and that of zeros is zero, as CRC-64 has it. The data section is the sequence
of lengths, bytes, flags and times. `wall` counts ticks of the wall clock,
`boot` is the distance of `Instant`s from it: a restart on the same machine keeps
it and a reboot does not. A deadline is turned into whole seconds and back by
`InstantToUnix` and `UnixToInstant`, each of which reads the clocks, and the
loader's loop takes one entry per step while they move on. `Save` stamps all
entries at one time, where `serialize_shard` reads the clocks for each; the
properties bound each entry by itself, so none of them depends on it. The header
keeps the code's mistake: `header_checksum` goes to bytes 40..47, the last four of
which belong to `reserved2`.

Nothing calls the loader, and no file passes the checks of its header
(`SnapshotLoads`). So that the loop behind them is looked at all the same, the
constant `CheckHeader` is FALSE in the passing run: that run shows what the loop
does to what `serialize_shard` wrote, and the other that it is never reached.

## 3. What TLC checks

| Configuration | Properties | Shows |
|---|---|---|
| `MCShard.cfg` | `HeapCoversExpiry`, `KeyCountExact`, `NoPrematureExpiry`, `ExpiryCounted`, `ImplementsStore`, `ExpiredEventuallyRemoved` | deadlines set, renewed, overwritten and swept in every order; clients cannot tell the heap is there; an expired key nobody reads goes |
| `MCShardLimits.cfg` | `TypeOK`, `MemoryCoversData`, `LimitsHold`, `AccountKept` | sizes and limits, half-second ticks, deadlines that overflow; every step but the sweep keeps the byte count exact |
| `MCServer.cfg` | `TypeOK`, `ServerTypeOK`, `SnapIntact`, `PipelineOrdered`, `SnapshotAdvances`, `ExitLeavesNoTemp`, `EventuallySaved`, `ShutdownCompletes` | shutdowns with and without connections, commands that wait, panics of the worker, crashes, power losses, restarts, failing file operations |
| `MCDispatch.cfg` | `TypeOK`, `SessionOrder`, `RefusedNeverExecuted`, `AnswerIsOwn`, `EveryCommandAnswered` | timeouts, full channels, panics, partial DELs; an answer whatever the shards do |
| `MCConnection.cfg` | `TypeOK`, `ResponsesInOrder`, `BoundedAhead`, `EveryResponseDelivered`, `ResetEndsConnection` | pipelining, slow clients, half-closed connections, resets before and after the end of input, malformed input |
| `MCProtocol.cfg` | `TypeOK`, `ParsedAsSent`, `NothingWithheld`, `RejectedOnlyWhenTorn`, `RepliesReadBack`, `CommandsAsAsked` | every command and every refusal, alone and in pairs, cut into reads in every way |
| `MCSnapshotFormat.cfg` | `TypeOK`, `HeaderFieldsKept`, `LoadKeepsDeadlines`, `LoadReadsToTheEnd`, `LoadQueuesDeadlines`, `NothingComesBack` | saving and loading at any time, on the same machine or after a reboot; the loader takes every entry and stops at the end of the file |

Every property has a mutant, an operator with a plausible bug next to the one it
replaces (marked `Mutant` in the modules): TLC finds the property violated when
the one is put in the place of the other. `PROJECT.json` pairs them.

**Bounds**, and why they are enough:

- `MCShard`: two keys and one value, time 0 to 3, deadlines 0, 1 or 2 seconds
  away with `InstantMax` 4 so that the last ones overflow, four commands, a sweep
  that deletes one key. Two keys are enough for a sweep to stop at its limit with
  work left. Four commands are what it takes to set a key, renew or rewrite it so
  that a stale element stays behind, and act on it and on another key again.
- `MCShardLimits`: four keys and three values, one of each over its limit, memory
  for two small entries and not for two large ones, half seconds.
- `MCServer`: a channel of two, so that the order of two waiting snapshots matters
  (the code's capacity is 1; the proofs are for any), two runs of the server with
  two writes in each, one failing file operation, one connection, which is enough
  to keep the channel open, and one command waiting, which is enough for one to
  wait while the last sender is dropped or the worker panics.
- `MCDispatch`: two shards with channels of two, two connections, one with two
  commands, so that a message it gave up on waits in front of the next, and both
  connections together fill a channel.
- `MCConnection`: a channel and a network of one response each, and five items:
  one more than channel, network and the two tasks hold, so that the reader stops.
- `MCProtocol`: every command and refusal once, each pair of one with a command,
  and malformed or unfinished tails, with every way to cut them into reads; arrays
  in arrays, as no command has them any deeper; the limit on a bulk string is four
  tokens.
- `MCSnapshotFormat`: two keys and two values, empty or not, two ticks to the
  second so that rounding shows, starts on an even and an odd tick, and five ticks,
  so that deadlines lie before, during and after the load.

Deadlock is not checked where the bounded system really stops: a worker that
has panicked, a server that has used its runs, connections that have issued
their commands or ended, a shard that is loaded.

**Fairness.** `Shard`: the worker keeps running the loop it is in, which is one
synchronous function; and `select!` picks among ready branches at random, so a
ticker that is ready again and again is taken (strong fairness of `SweepBegin`).
`Server`: weak fairness of the snapshot tick, of the worker's receiving what
waits (`ExecuteCommand`) and ending then (`RecvEnds`), of the writer's next step and of the way through `shutdown`, whose sleeps end. A tick is
possible whenever the worker runs; one that meets a full channel does nothing, but
once the writer has made room there is room until a tick uses it. Nothing is
assumed of clients, of Ctrl-C, of crashes or of failing file operations.
`Dispatch`: connection tasks run and their timers fire. Nothing is assumed of the
shards, and that is the point of the property. `Connection`: the two tasks run,
and the client reads what it is sent; a client that does not read holds up its
own connection and nothing else.

### What the code does otherwise than its documents say

Each has a run in which TLC violates the documents' claim. `findings` in
`PROJECT.json` quotes the lines.

| Configuration | Claim | What happens |
|---|---|---|
| `MCIncompleteWaits.cfg` | `IncompleteWaits` | a read that ends inside a line makes the parser reject it (`parser.rs:162`), and the connection is closed. `RejectedOnlyWhenTorn` says that it happens there and nowhere else. |
| `MCConnectionEnds.cfg` | `ConnectionEnds` | at the end of input the reader awaits the writer while it holds the writer's channel open (`handler.rs:106`): both tasks stay, unless the connection is reset while a response is still being written. In the trace the client ends its input and nothing happens any more |
| `MCServerShutdown.cfg` | `ShutdownSaves` | no worker sees its channel close before `run` has returned, for the handler's senders (`server.rs:131`), nor while a connection lives, for its own (`handler.rs:35`). In the trace a connection is open throughout, and its write is in no file when `run` returns, with nothing failed and nothing on its way; `main` returns next and the runtime drops the worker (`server.rs:157`) |
| `MCServerRestart.cfg` | `SavedDataKept` | snapshots are never loaded, and the first tick after a restart overwrites the file (`worker.rs:15`) |
| `MCSnapshotLoads.cfg` | `SnapshotLoads` | checksums are written at offsets 32 and 40 and read from 28 and 36, and the header's is verified over itself (`serialize.rs:47`): no file can be loaded |

Other behaviour met while modelling. It is in the modules, and the properties
hold with it:

- A sweep does not take the size of what it removes off `memory_bytes`
  (`expiration.rs:23`, against `design/diagrams.md:616`), which grows with every
  swept key until SETs are refused. `MemoryCoversData` says that the count errs on
  that side only, `AccountKept` that no other step makes it err.
- Stale elements do not count against `TTL_KEYS_PER_CHECK` (`expiration.rs:24`;
  `issues_detail.md:622` asks for a bound on the pops).
- EXPIRE renews an entry that has expired and was not yet swept (`shard.rs:153`);
  `TtlStore` has this limbo, so that `ImplementsStore` says exactly when.
- A very large TTL overflows `Instant` and panics in the worker (`shard.rs:74`),
  or, a little smaller, in the next snapshot (`time.rs:8`); the shard is lost and
  its connections live on. `Shard` says when; `Persistence`, `Server` and `Dispatch`
  let a worker panic at any such step.
- The final snapshot is offered with `try_send` and dropped when the channel is
  full (`worker.rs:62`).
- A client that sends malformed input gets no error, its connection is closed
  (`handler.rs:100`).
- A value that is no command is answered with an error, and the connection goes on
  (`handler.rs:94-97`), also when it is no array, where `code_review_issues.md:42`
  wants the connection closed. `Connection` has it as a "bad" item.
- INFO with more than one argument is taken for INFO with the first
  (`command.rs:132`), where `issues_detail.md:212-214` and `code_review_issues.md:94`
  want it refused. `Asks` has it refused; `CommandsAsAsked` allows this exception and
  no other.
- A reset that comes after the end of input leaves the reader at `handler.rs:106`
  when no response is left to write: nothing fails any more. It is the exception
  in `ResetEndsConnection`.

## 4. What is proved

The proofs assume only the named `ASSUME`s of the modules: sizes are natural
numbers, `None` is none of the values, sets of keys are finite, the limits of a shard
together fit a `usize` (`WidthAssumption`), different numbers have different
numerals, in which there is no line end (`DecimalAssumption`), and what follows the
last value a client sends has no beginning that is a value (`StreamAssumption`).
There is no bound on keys, values, commands, clients, items, runs, failures, the
depth of arrays, the capacity of any channel or the resolution of the clocks.

**`DataLemmas`.** `memory_bytes`, the answer to a DEL and the offsets in a header
are sums, which the models take from the community modules as folds, and a fold is
a recursive function over the subsets of a set. The library's induction theorems
take an operator, which the provers do not instantiate; `SetInduction` takes
the set of the numbers a statement holds of, and is proved from the order of the
naturals being well founded (a least counterexample). With it `SumsExist` shows
that the function a fold chooses exists, and `SumsAnyOrder` that it does not matter
which element is taken out first, which the definition leaves to CHOOSE.
`SumTakingOut` and `SumOfEqual` are what the other modules cite; `MaxIsUpper` does
the same for the greatest element of a set, and `FlattenPieces` says where in a
concatenation each piece is.

**`ShardProofs`.** `TypeCorrect` (`TypeOK`) is inductive as it stands: every
deadline that is stored was compared with `InstantMax` first, and the subtractions
are taken modulo `Usize`. `HeapComplete` (`HeapCoversExpiry`) is inductive
given types. Two helper lemmas carry it: removing keys never hurts, and a step
that gives one key a new entry queues its deadline. The case that needs thought is
`SweepPop`: the element popped may be the one that covers an entry, but then
the entry has that very deadline, the element is current, and the entry goes too.
`ExpiryNotPremature` (`NoPrematureExpiry`) needs the invariant that a sweep
works with a time that has passed (`SweepInThePast`: `sweep_now <= now`): an
element is due with respect to the former and the entry must have expired with
respect to the latter. `KeyCountCorrect` (`KeyCountExact`) needs that removing a
key that is there shortens the map by one (`RemovalShortens`, from the library's
facts on cardinalities), which ties each `SweepPop` to the count it will report.
`ExpiriesCounted` (`ExpiryCounted`) shows of every step that no part of a `DEL`
takes that what `keys_expired` and the sweep's own count gain is what the map
loses; that a sweep begins at zero is the part of `KeyCountExact` it rests on.
`MemoryCovers` (`MemoryCoversData`), `LimitsKept` (`LimitsHold`) and
`AccountIsKept` (`AccountKept`) share one invariant, `MemoryInv`: the stored
entries take no more than `memory_bytes`, which is within `MaxMemory`, and keys and
sizes are within theirs. Both bounds are needed to show that nothing wraps:
what is subtracted is the size of an entry that is still part of the sum, and
what is added was projected from a number within the limit, which by
`WidthAssumption` leaves room for one entry of the greatest size. The sweep only
makes the sum smaller; every other step changes both sides alike
(`AccountedFor`), a DEL key by key.

`ShardImplementsStore` (`ImplementsStore`), in the same module, shows that every step of the shard is a step of `TtlStore` or a stutter. Outside `DEL` the
store is the map itself (`OutsideDel`). `DEL` takes effect when it begins
(`DelBegins`): from there on the store lacks all its keys and the answer counts
those still to come, so that removing one of them only moves it from the keys
pending to the keys deleted (`DelGoesOn`), and the answer is due at the end
(`DelEnds`). `SweepStep` needs `SweepInThePast` again, since the store lets only
a key vanish whose deadline has passed by its own clock.

**`PersistenceProofs`.** `PersistenceTypeCorrect` needs `TempIsWriting`: from
`create` to `rename` the temporary file exists and holds the request in hand,
which no restart or failure breaks, since both send the writer back to idle.
`SnapshotNeverTorn` (`SnapIntact`) strengthens it to `RenamedAreSynced`:
whatever either name has durably pointed to was synced before the rename, so
power loss cannot tear it. `PipelineInOrder` (`PipelineOrdered`) is proved
through `OrderInv`, which adds what the temporary file and `committed` hold and
that no snapshot comes from a later run, so that a power loss that brings back an
older file keeps the order. `SnapshotOnlyAdvances` (`SnapshotAdvances`) follows:
a rename replaces the file by the request in hand, which is not older.

**`ServerProofs`.** `ServerRunsPipeline`: every behaviour of the server is one of
the pipeline, action by action, so that the four theorems above hold of the
server, shutdown and all (`ServerNeverTears`, `ServerKeepsOrder`,
`ServerOnlyAdvances`). `ServerTypeCorrect` (`ServerTypeOK`) needs `ServerInv`:
while anybody in `run` holds a sender the channel is open and the worker in its loop
unless it has panicked, and once `main` has been dropped no connection and no
command is left. `ExitIsClean` (`ExitLeavesNoTemp`) rests on
`NoStrayTemp`: without failures, in the first run, there is a temporary file only
while the writer is on its way from `create` to `rename`, and `Exit` waits for that.

**`DispatchProofs`.** `DispatchInOrder` (`SessionOrder`) goes through `OrderInv`:
in each channel the messages of one connection are in the order of its requests;
what waits there comes after all that was executed; and while a part has not been
sent, or was refused, its request is neither in the channel nor executed. The last
is what makes a `Send` append something later than everything before it, also when
the connection has given up on earlier commands that are still queued.
`DispatchRefused` (`RefusedNeverExecuted`) adds `OwnParts`, that a command has
parts on its own shards only, and `RefusedKept`, that a refused request is over
and no shard has it. The case that matters is `Respond`: a refusal is the answer
to a command with one part (`RefusedWhole`), and that part was never sent; no
later step sends a message of a request that is over (`NothingElseSent`).
`DispatchTypeCorrect` (`TypeOK`) and `AnswersOwn` (`AnswerIsOwn`) rest on
`AnswerInv`, which follows a reply on its way back: a message in a channel says
what the command's part says (`MessagesFit`), what a shard did for a request was of
the kind its operation has (`ResultsFit`), what lies in a oneshot is what that
shard did for that request (`RepliesFit`), and so is what a part has taken from
it (`PartsFit`). A late reply stays in the oneshot of its own request, for which
nobody waits any more. When all parts are in, the sum over the parts is the sum
over the shards that executed them (`SumOfEqual`).

**`ConnectionProofs`.** `ConnectionTypeCorrect` (`TypeOK`) is inductive.
`ConnectionInOrder` (`ResponsesInOrder`) and `ConnectionBounded` (`BoundedAhead`)
follow from one invariant that counts instead of concatenating: `ItemsNumbered`
says that the items in the buffer and on their way continue the numbers of those
answered, up to the first torn read, and `ResponsesNumbered` that the responses
received, on their way, in the writer's hand, in the channel and in the reader's
hand are numbered without a gap. `OrderSuffices` turns the counts back into the
sequences.

**`ProtocolProofs`.** What is serialised is parsed, whatever it is and however it
arrives. `Reads` says what the parser is to make of the bytes of a value of which
the last may be missing: the value and the place behind it if all are there,
`InvalidFormat` if a line is torn, `Incomplete` otherwise. `AllReadable` proves it
of every value at every place, by induction over the depth: `LineRead` and
`FirstLineRead` for the first line, `ElementsOf` for the loop of `parse_array`, itself
an induction over the elements read, `ReadableNext` for the turn from one depth to
the next. That the functions of the model satisfy their own recursive equations is
proved too (`ValuesAre`, `EncodedIs`, `TearsAre`, and for the parser that what
is found at a place depends on later places only), since nothing else says that
such a function exists.

`ProtocolInv` then says where a connection stands in what its client sends: the
bytes in the buffer are those read last, the cursor is behind the values parsed,
and these are the first the client sent (`Found`). A read, a compaction and a value
parsed keep it (`ReadKeeps`, `CompactKeeps`, `ValueKeeps`); what `parse` does next is
`ParsingIs`. `NothingWithheld` and `RejectedOnlyWhenTorn` are conjuncts of the
invariant, since what they say of the moment a read begins or an error is found
stays true only because nothing is parsed after it. From it follow
`ProtocolTypeCorrect`, `ProtocolParses` (`ParsedAsSent`), `ProtocolPrompt`
(`NothingWithheld`), `ProtocolRejects` (`RejectedOnlyWhenTorn`) and, since every
reply is a value without a line end in its lines (`RefusalIs`, `ResponsesAre`),
`ProtocolReplies` (`RepliesReadBack`).

`ProtocolCommands` (`CommandsAsAsked`) compares `FromResp` with `Asks`, for any
value. `TakenFor` is `Asks` or the exception, `InfoWithMore`, and `ArgsAsk` says the
same of a name and its arguments (`AsksIs`);
`ArgsAccepted` goes through the commands and shows that each part of `from_resp`
accepts exactly that. The case with something to it is SET: `SetOptions` takes the
first refusal or else the last number of a loop, and `OptionsMean` looks at all
the pairs at once (`OptionsAccept`).

**`SnapshotFormatProofs`.** What is written is read back, in three parts.
*The header*: nine pieces, whose offsets `BeforeFacts` lists; `FieldOffset` shows
that `ReadField` looks where `WriteHeader` wrote, `SealedKeeps` that what lies
before the checksums and behind them (bytes 0..31 and 48..63) stays as it is when
they are written, `FieldRead` that a field reads as what was written and as nothing
else, `ReservedKept` that the reserved bytes outside the checksums are still zero.
*An entry*: `EntryLaidOut` and `EntryReadBack`, for
any lengths; `BodyWritten` extends it to the data section, in any order of the
entries. *Time*: `StampRead` and `StampSkipped` bound what rounding to seconds
and a later, maybe different, `boot` do to a deadline; for a stamp that is later
than the second in which the load began, the deadline was not past when it was
saved, and the two roundings differ by less than a second.

`FormatInv` puts them together: while there is a file it holds, in some order and
at some offsets, the entries of `saved` stamped at some time not after the load
(`WrittenAt`), its header announces their number (`HeaderInv`), and the loader
stands behind the first `n - left` of them (`Behind`): those it has inserted
faithfully or skipped with less than a second to go, the others are absent. That
they are absent is what `NothingComesBack` needs; that no key occurs twice comes
from the order; and that the loader stops at the last byte comes from `Behind`
with no entry left, the last offset being the length of the file. `EntryTurn` is one turn of the loop, and
`FormatTypeCorrect`, `HeaderIsKept`, `DeadlinesAreKept`, `LoadedToTheEnd`,
`LoadedDeadlinesAreQueued` and `ExpiredStaysAway` follow. As in the run, the
theorems cover both values of `CheckHeader`; with TRUE no file passes the checks,
and they say nothing of the loop.

**Only model-checked.** The liveness properties, as everything under fairness or
about ENABLED: `ExpiredEventuallyRemoved`, `EventuallySaved`, `ShutdownCompletes`,
`EveryCommandAnswered`, `EveryResponseDelivered`, `ResetEndsConnection`. The claims of
section 3 that the code does not keep are shown violated, which takes a
counterexample and no proof. Every other property of the runs is a theorem.

## 5. What is not modelled

- Key hashing (`common/hash.rs`): `RouteKey` is any function from keys to shards,
  which is all that routing needs. That CRC16 spreads keys evenly is a statistical
  claim.
- `frontend/multi_key.rs`, `error_handling.rs`, `acceptor.rs` and `threads.rs`:
  nothing calls them.
- Observability: formatting and HTTP over counters. The exporter reads metrics
  objects that no shard writes (`server.rs:56` makes one set, `shard.rs:27`
  another); as they share nothing there is no behaviour to state a property of.
- Adjustments of the wall clock while the server runs: `Instant`s and wall clock
  move together in `SnapshotFormat`.
- Snapshot files truncated or altered from outside: the header's checks come
  first and reject them, as they reject every file. `memory_bytes` after a load,
  which `deserialize.rs` does not set and nobody can observe while nothing loads.
- Input that is not UTF-8, which `from_utf8_lossy` alters, and the memory set
  aside for an array of an announced length (`parser.rs:124`).
- Command line arguments, logs and the text of INFO.
- The tokio runtime, whose channels, timeouts, `select!` and shutdown are modelled
  from the way the code uses them and marked external.
