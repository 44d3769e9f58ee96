----------------------------- MODULE Persistence -----------------------------
(***************************************************************************)
(* The snapshot pipeline of one shard (src/src/shard/worker.rs,            *)
(* persistence/writer.rs, common/channels.rs and the start of              *)
(* src/src/server.rs): the worker serialises the shard and offers the      *)
(* bytes to a channel of capacity one; the writer task writes them to      *)
(* shard{N}.snap.tmp, syncs, and renames the file to shard{N}.snap.        *)
(*                                                                         *)
(* The process may die at any step and be started again, the worker may    *)
(* panic, any file operation may fail, and the machine may lose power,     *)
(* which undoes what the disk had not made durable.                        *)
(*                                                                         *)
(* What a snapshot contains is told by the server run it was taken in and  *)
(* the number of writes that run's shard had seen.                         *)
(***************************************************************************)
EXTENDS Naturals, Sequences

CONSTANTS
    Capacity,    \* SNAPSHOT_CHANNEL_CAPACITY
    MaxRuns,     \* bound: starts of the server
    MaxWrites,   \* bound: writes to the shard in one run
    MaxErrors,   \* bound: file operations that fail
    None         \* no file, no snapshot

Snapshots == [run : Nat, writes : Nat]

\* What is known of a file's contents: created and maybe half written,
\* completely written, or completely written and synced.
FileStates == {"partial", "written", "synced"}
Files == [snap : Snapshots, state : FileStates]

ASSUME PersistenceAssumption ==
    /\ Capacity \in Nat \ {0}
    /\ MaxRuns \in Nat /\ MaxWrites \in Nat /\ MaxErrors \in Nat
    /\ None \notin Snapshots
    /\ None \notin Files

VARIABLES
    up,         \* the process is running
    run,        \* which run of the server this is
    writes,     \* writes the shard has seen in this run
    worker,     \* run_shard_worker: "running", "done" or "panicked"
    commands,   \* whether the command channel has senders: "open" or "closed"
    queue,      \* the snapshot channel
    writer,     \* run_snapshot_writer: what it does next
    writing,    \* the request the writer is working on
    tmp,        \* shard{N}.snap.tmp
    final,      \* shard{N}.snap
    committed,  \* the file shard{N}.snap names on stable storage
    errors      \* file operations that have failed

workerVars == <<writes, worker, commands>>
disk == <<tmp, final, committed>>
vars == <<up, run, workerVars, queue, writer, writing, disk, errors>>

Init ==
    /\ up = TRUE /\ run = 1 /\ writes = 0
    /\ worker = "running" /\ commands = "open"
    /\ queue = << >> /\ writer = "idle" /\ writing = None
    /\ tmp = None /\ final = None /\ committed = None
    /\ errors = 0
-----------------------------------------------------------------------------
(***************************************************************************)
(* The shard worker.                                                       *)
(***************************************************************************)
\* serialize_shard: between two commands, so it sees all of the shard.
Serialized == [run |-> run, writes |-> writes]

\* Mutant: the newest snapshot jumps the queue.
EnqueueFront(s) ==
    queue' = IF Len(queue) < Capacity THEN <<s>> \o queue ELSE queue

\* Mutant: the channel has no bound.
EnqueueUnbounded(s) == queue' = Append(queue, s)

\* try_send: a full channel drops the new snapshot, not the old one.
Enqueue(s) ==
    queue' = IF Len(queue) < Capacity THEN Append(queue, s) ELSE queue

\* The shard executes a command that changes it.  Those that wait in the
\* channel when its last sender is dropped are received all the same.
Write ==
    /\ up /\ worker = "running"
    /\ writes < MaxWrites
    /\ writes' = writes + 1
    /\ UNCHANGED <<up, run, worker, commands, queue, writer, writing, disk,
                   errors>>

\* snapshot_ticker.tick(): at once when the worker starts, then every
\* SNAPSHOT_INTERVAL_SECS.
SnapshotTick ==
    /\ up /\ worker = "running"
    /\ Enqueue(Serialized)
    /\ UNCHANGED <<up, run, workerVars, writer, writing, disk, errors>>

\* The worker's task ends with the shard it owns; tokio catches the panic, and
\* the process goes on without that shard and without a final snapshot.
Panics ==
    /\ up /\ worker = "running"
    /\ worker' = "panicked"
    /\ UNCHANGED <<up, run, writes, commands, queue, writer, writing, disk,
                   errors>>

\* SET or EXPIRE with a TTL past the last Instant (Panic in module Shard).
CommandPanics == Panics

\* A tick, or the final snapshot, meets a deadline past the last SystemTime
\* (SerializePanics in module Shard), which some command has stored.
SerializePanics == writes > 0 /\ Panics

\* The last sender of the command channel is dropped.
CloseChannel ==
    /\ up /\ commands = "open"
    /\ commands' = "closed"
    /\ UNCHANGED <<up, run, writes, worker, queue, writer, writing, disk,
                   errors>>

\* recv() returns None: leave the loop, take the final snapshot, end.
WorkerStops ==
    /\ up /\ worker = "running" /\ commands = "closed"
    /\ Enqueue(Serialized)
    /\ worker' = "done"
    /\ UNCHANGED <<up, run, writes, commands, writer, writing, disk, errors>>
-----------------------------------------------------------------------------
(***************************************************************************)
(* The snapshot writer.  Each file operation is a step; one that fails is  *)
(* logged, and the writer goes on to the next request.                     *)
(***************************************************************************)
WriterAt(step) == up /\ writer = step

ToStep(step) ==
    /\ writer' = step
    /\ UNCHANGED <<up, run, workerVars, queue, writing, errors>>

WriterReceives ==
    /\ WriterAt("idle") /\ queue # << >>
    /\ writing' = Head(queue)
    /\ queue' = Tail(queue)
    /\ writer' = "create"
    /\ UNCHANGED <<up, run, workerVars, disk, errors>>

\* The worker has dropped its sender, in whichever way it ended, and the
\* channel is empty.
WriterStops ==
    /\ WriterAt("idle") /\ queue = << >> /\ worker # "running"
    /\ writer' = "done"
    /\ UNCHANGED <<up, run, workerVars, queue, writing, disk, errors>>

\* File::create truncates whatever an earlier attempt left behind.
CreateTemp ==
    /\ WriterAt("create")
    /\ tmp' = [snap |-> writing, state |-> "partial"]
    /\ ToStep("write")
    /\ UNCHANGED <<final, committed>>

WriteAll ==
    /\ WriterAt("write")
    /\ tmp' = [tmp EXCEPT !.state = "written"]
    /\ ToStep("sync")
    /\ UNCHANGED <<final, committed>>

\* Mutant: write_snapshot_file returns without sync_all.
SyncSkipped ==
    /\ WriterAt("sync")
    /\ ToStep("rename")
    /\ UNCHANGED disk

SyncAll ==
    /\ WriterAt("sync")
    /\ tmp' = [tmp EXCEPT !.state = "synced"]
    /\ ToStep("rename")
    /\ UNCHANGED <<final, committed>>

\* fs::rename: readers see the new file at once; that the name points to it
\* is durable only later, for nothing syncs the directory.
Rename ==
    /\ WriterAt("rename")
    /\ final' = tmp /\ tmp' = None
    /\ writer' = "idle" /\ writing' = None
    /\ UNCHANGED <<up, run, workerVars, queue, committed, errors>>

\* Mutant: the first failure ends the writer's loop.
WriterFailsForGood ==
    /\ \E step \in {"create", "write", "sync", "rename"} : WriterAt(step)
    /\ errors < MaxErrors
    /\ errors' = errors + 1
    /\ writer' = "done" /\ writing' = None
    /\ UNCHANGED <<up, run, workerVars, queue, disk>>

\* Mutant: a request that failed is tried again, after those that wait.
WriterFailsAndRequeues ==
    /\ \E step \in {"create", "write", "sync", "rename"} : WriterAt(step)
    /\ errors < MaxErrors
    /\ errors' = errors + 1
    /\ queue' = Append(queue, writing)
    /\ writer' = "idle" /\ writing' = None
    /\ UNCHANGED <<up, run, workerVars, disk>>

WriterFails ==
    /\ \E step \in {"create", "write", "sync", "rename"} : WriterAt(step)
    /\ errors < MaxErrors
    /\ errors' = errors + 1
    /\ writer' = "idle" /\ writing' = None
    /\ UNCHANGED <<up, run, workerVars, queue, disk>>

WriterStep ==
    \/ WriterReceives \/ WriterStops
    \/ CreateTemp \/ WriteAll \/ SyncAll \/ Rename
-----------------------------------------------------------------------------
(***************************************************************************)
(* The machine.                                                            *)
(***************************************************************************)
\* The file system makes the last rename durable, in its own time.
Commit ==
    /\ committed # final
    /\ committed' = final
    /\ UNCHANGED <<up, run, workerVars, queue, writer, writing, tmp, final,
                   errors>>

Dies ==
    /\ up' = FALSE
    /\ writes' = 0 /\ worker' = "done" /\ commands' = "closed"
    /\ queue' = << >> /\ writer' = "done" /\ writing' = None

\* main returns and the runtime is dropped.  Tasks end where they await; what
\* waits in channels is lost; but the closure of spawn_blocking, from create to
\* rename, is completed once it has begun.
TasksDropped ==
    /\ up
    /\ worker' = "done" /\ commands' = "closed" /\ queue' = << >>
    /\ \/ writer \in {"idle", "create", "done"} /\ writer' = "done" /\ writing' = None
       \/ writer \in {"create", "write", "sync", "rename"} /\ UNCHANGED <<writer, writing>>
    /\ UNCHANGED <<up, run, writes, disk, errors>>

\* The process ends at once: it is killed, or calls process::exit.
Crash ==
    /\ up
    /\ Dies
    /\ UNCHANGED <<run, disk, errors>>

\* Data that was not synced need not have reached the disk.
Damaged(f) == IF f.state = "synced" THEN f ELSE [f EXCEPT !.state = "partial"]

\* After a power loss shard{N}.snap is the file whose rename was durable, and
\* the temporary name is gone or names a file it named before.
PowerLoss ==
    /\ run < MaxRuns
    /\ Dies
    /\ final' = IF committed = None THEN None ELSE Damaged(committed)
    /\ committed' = final'
    /\ tmp' \in {None} \cup {Damaged(f) : f \in {tmp, final} \ {None}}
    /\ UNCHANGED <<run, errors>>

\* Server::new: the shard starts empty (Shard::new), whatever is on disk;
\* temporary files are removed, unless that fails.
Restart ==
    /\ ~up /\ run < MaxRuns
    /\ up' = TRUE /\ run' = run + 1 /\ writes' = 0
    /\ worker' = "running" /\ commands' = "open"
    /\ queue' = << >> /\ writer' = "idle" /\ writing' = None
    /\ tmp' \in {None, tmp}
    /\ UNCHANGED <<final, committed, errors>>

Next ==
    \/ Write \/ SnapshotTick \/ CommandPanics \/ SerializePanics
    \/ CloseChannel \/ WorkerStops
    \/ WriterStep \/ WriterFails
    \/ Commit \/ TasksDropped \/ Crash \/ PowerLoss \/ Restart

Spec == Init /\ [][Next]_vars

\* The ticker keeps ticking, and the worker and the writer keep running.
\* A tick that finds the channel full changes nothing; once the writer has
\* made room there is room until a tick fills it, so weak fairness is enough.
Fairness ==
    /\ WF_vars(SnapshotTick)
    /\ WF_vars(WorkerStops)
    /\ WF_vars(WriterStep)

FairSpec == Spec /\ Fairness
-----------------------------------------------------------------------------
(***************************************************************************)
(* Properties.                                                             *)
(***************************************************************************)
\* Type invariant.  In particular the snapshot channel keeps its capacity, and
\* the writer has a request in hand exactly from recv() to the end of rename.
TypeOK ==
    /\ up \in BOOLEAN
    /\ run \in Nat /\ writes \in Nat
    /\ worker \in {"running", "done", "panicked"}
    /\ commands \in {"open", "closed"}
    /\ queue \in Seq(Snapshots) /\ Len(queue) <= Capacity
    /\ writer \in {"idle", "create", "write", "sync", "rename", "done"}
    /\ writing \in Snapshots \cup {None}
    /\ writing # None <=> writer \in {"create", "write", "sync", "rename"}
    /\ tmp \in Files \cup {None}
    /\ final \in Files \cup {None}
    /\ committed \in Files \cup {None}
    /\ errors \in Nat

\* shard{N}.snap, when it exists, is complete: no crash, failed file
\* operation or power loss at any moment leaves a torn file under that name.
SnapIntact == final # None => final.state # "partial"

\* a was taken no later than b.
NotNewer(a, b) == a.run < b.run \/ (a.run = b.run /\ a.writes <= b.writes)

\* Snapshots stay in the order they were taken in on their way to the disk:
\* the file, the one being written, the ones waiting, the shard itself.
PipelineOrdered ==
    /\ \A i \in 1 .. Len(queue) : NotNewer(queue[i], Serialized)
    /\ \A i, j \in 1 .. Len(queue) : i <= j => NotNewer(queue[i], queue[j])
    /\ writing # None =>
         /\ NotNewer(writing, Serialized)
         /\ \A i \in 1 .. Len(queue) : NotNewer(writing, queue[i])
    /\ final # None =>
         /\ final.snap.run <= run
         /\ up => NotNewer(final.snap, Serialized)
         /\ writing # None => NotNewer(final.snap, writing)
         /\ \A i \in 1 .. Len(queue) : NotNewer(final.snap, queue[i])

\* While the server runs, shard{N}.snap is only ever replaced by a snapshot
\* that was taken later: no skipped tick, failed write, retry or restart
\* makes an older one overwrite a newer one.
SnapshotAdvances ==
    [][up' /\ final # None => final' # None /\ NotNewer(final.snap, final'.snap)]_vars

\* The file holds the first n writes of this run.
Saved(n) == final # None /\ final.snap.run = run /\ final.snap.writes >= n

\* Every write is on disk in the end, however many ticks were skipped and
\* although some file operations failed, unless the server goes down or the
\* worker ends first.
EventuallySaved ==
    \A n \in 1 .. MaxWrites :
      (up /\ worker = "running" /\ writes >= n)
        ~> (Saved(n) \/ worker # "running")

(***************************************************************************)
(* What the repository's documents say and the code does not do.           *)
(***************************************************************************)
\* What a snapshot on disk holds survives restarts: it is only replaced by
\* one that holds it too.
SavedDataKept ==
    [][up' /\ final # None /\ final.snap.writes > 0
         => /\ final' # None
            /\ final'.snap.run = final.snap.run
            /\ final'.snap.writes >= final.snap.writes]_vars
=============================================================================
