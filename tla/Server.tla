-------------------------------- MODULE Server --------------------------------
(***************************************************************************)
(* The life of the server process (src/src/server.rs and main.rs) around   *)
(* the snapshot pipeline of one of its shards: start, connections, Ctrl-C, *)
(* drain, the dropping of the senders, the wait for the workers, the       *)
(* return of run and main, and the end of the runtime.                     *)
(*                                                                         *)
(* A shard's command channel closes when its last sender is dropped.       *)
(* Senders are held by the Server (shard_channels), by the                 *)
(* ConnectionHandler, which is a local of run and lives until run returns, *)
(* and by every connection task.  Commands come from connection tasks      *)
(* only; those in the channel outlive the connection that sent them, and   *)
(* none outlives the worker.                                               *)
(*                                                                         *)
(* Every step of this module is a step of Persistence or leaves its        *)
(* variables alone (theorem ServerRunsPipeline).                           *)
(***************************************************************************)
EXTENDS Persistence

CONSTANTS
    MaxConnections,  \* bound: connections at a time
    MaxWaiting       \* bound: commands in the shard's channel at a time

ASSUME ServerAssumption == MaxConnections \in Nat /\ MaxWaiting \in Nat

VARIABLES
    main,     \* where Server::run and main are
    conns,    \* connection tasks alive
    waiting   \* commands in the shard's channel

serverVars == <<main, conns, waiting>>
allVars == <<vars, serverVars>>

\* serving: in select!; draining: in the first sleep of shutdown; closing: in
\* the second; returned: run has returned; dropped: so has main, and the
\* runtime ends its tasks; exited: the process has ended by itself; down: it
\* was ended.
Phases == {"serving", "draining", "closing", "returned", "dropped", "exited", "down"}

ServerInit == Init /\ main = "serving" /\ conns = 0 /\ waiting = 0
-----------------------------------------------------------------------------
\* Mutant: connections have no senders of their own.
SendersWithoutConnections ==
    IF main \in {"serving", "draining"} THEN {"server"} ELSE {}

\* The senders of the shard's command channel.
Senders ==
    (IF main \in {"serving", "draining"} THEN {"server"} ELSE {})
      \cup (IF main \in {"serving", "draining", "closing"} THEN {"handler"} ELSE {})
      \cup (IF conns > 0 THEN {"connections"} ELSE {})

\* A connection is accepted, with senders of its own.
ConnectionOpens ==
    /\ main = "serving" /\ conns < MaxConnections
    /\ conns' = conns + 1
    /\ UNCHANGED <<vars, main, waiting>>

\* sender.send: the worker's receiver is there and the channel has room.
ConnectionSends ==
    /\ conns > 0 /\ worker = "running" /\ waiting < MaxWaiting
    /\ waiting' = waiting + 1
    /\ UNCHANGED <<vars, main, conns>>

\* A connection task returns.  It need not: a client may stay, and a task may
\* wait for its writer for ever (ConnectionEnds in module Connection).
ConnectionReturns ==
    /\ conns > 0
    /\ conns' = conns - 1
    /\ UNCHANGED <<vars, main, waiting>>

\* Ctrl-C ends select!: the listener is dropped, connections are not.
CtrlC ==
    /\ main = "serving" /\ main' = "draining"
    /\ UNCHANGED <<vars, conns, waiting>>

\* drop(self.shard_channels), when the drain time is over.
DropSenders ==
    /\ main = "draining" /\ main' = "closing"
    /\ UNCHANGED <<vars, conns, waiting>>

\* Mutant: shutdown waits for the worker instead of two seconds.
RunJoinsWorker ==
    /\ main = "closing" /\ worker = "done" /\ main' = "returned"
    /\ UNCHANGED <<vars, conns, waiting>>

\* The two seconds are over, whatever the workers do; run returns and drops
\* the handler.
RunReturns ==
    /\ main = "closing" /\ main' = "returned"
    /\ UNCHANGED <<vars, conns, waiting>>

\* main returns; every task is dropped.
MainReturns ==
    /\ main = "returned" /\ main' = "dropped"
    /\ TasksDropped /\ conns' = 0 /\ waiting' = 0

\* Mutant: main ends with process::exit.
ExitAtOnce ==
    /\ main = "dropped" /\ main' = "exited"
    /\ Crash /\ UNCHANGED <<conns, waiting>>

\* The runtime waits for a file operation it has begun, and the process ends.
Exit ==
    /\ main = "dropped" /\ main' = "exited"
    /\ writer \in {"idle", "done"}
    /\ Crash /\ UNCHANGED <<conns, waiting>>

MainStep == DropSenders \/ RunReturns \/ MainReturns \/ Exit

\* The channel closes with its last sender.
LastSenderDropped == Senders = {} /\ CloseChannel /\ UNCHANGED serverVars

\* recv() returns a command: it changes the shard, or does not.
ExecuteCommand ==
    /\ up /\ worker = "running" /\ waiting > 0
    /\ waiting' = waiting - 1
    /\ Write \/ UNCHANGED vars
    /\ UNCHANGED <<main, conns>>

\* The worker panics, over a command or over a snapshot: its receiver is
\* dropped, with what waits in the channel.  Connections live on; what they
\* send to this shard from now on is refused (WorkerPanics in Dispatch).
WorkerPanics ==
    /\ (waiting > 0 /\ CommandPanics) \/ SerializePanics
    /\ waiting' = 0
    /\ UNCHANGED <<main, conns>>

\* recv() returns None only when it has returned every command first.
RecvEnds == waiting = 0 /\ WorkerStops /\ UNCHANGED serverVars

\* The rest of the worker, its writer and the file system.
Background ==
    /\ SnapshotTick \/ WriterStep \/ WriterFails \/ Commit
    /\ UNCHANGED serverVars

Fall == (Crash \/ PowerLoss) /\ main' = "down" /\ conns' = 0 /\ waiting' = 0
Start == Restart /\ main' = "serving" /\ conns' = 0 /\ waiting' = 0

ServerNext ==
    \/ ConnectionOpens \/ ConnectionSends \/ ConnectionReturns
    \/ ExecuteCommand \/ WorkerPanics \/ RecvEnds \/ Background
    \/ CtrlC \/ MainStep \/ LastSenderDropped
    \/ Fall \/ Start

ServerSpec == ServerInit /\ [][ServerNext]_allVars

\* Besides the fairness of the pipeline: timers fire, and the runtime ends.
\* Nothing makes a client leave or somebody press Ctrl-C.
ServerFairness ==
    /\ WF_allVars(SnapshotTick /\ UNCHANGED serverVars)
    /\ WF_allVars(ExecuteCommand)
    /\ WF_allVars(RecvEnds)
    /\ WF_allVars(WriterStep /\ UNCHANGED serverVars)
    /\ WF_allVars(MainStep)

ServerFairSpec == ServerSpec /\ ServerFairness
-----------------------------------------------------------------------------
(***************************************************************************)
(* Properties.                                                             *)
(***************************************************************************)
\* Type invariant.  In particular a connection lives only in a process that
\* has not returned from main, and as long as it does the worker of a shard
\* does not leave its loop, since the channel is open; a panic is the only way
\* in which the worker can be gone.  Commands wait only for a worker.
ServerTypeOK ==
    /\ main \in Phases
    /\ conns \in 0 .. MaxConnections
    /\ waiting \in 0 .. MaxWaiting
    /\ up <=> main \notin {"exited", "down"}
    /\ conns > 0 => up /\ worker # "done" /\ commands = "open"
    /\ waiting > 0 => worker = "running"

\* Shutdown ends the process, whatever clients do and although their
\* connections keep the workers from stopping.
ShutdownCompletes == main = "draining" ~> ~up

\* A process that ends by itself leaves no temporary file behind: what the
\* writer has begun it completes, unless a file operation failed.  This is
\* said of the first run: one that follows a crash begins with removing the
\* file the crash has left, and goes on when that fails.
ExitLeavesNoTemp ==
    [][main = "dropped" /\ main' = "exited" /\ errors = 0 /\ run = 1
         => tmp = None]_allVars

(***************************************************************************)
(* What the repository's documents say and the code does not do.           *)
(***************************************************************************)
\* Nothing is on its way in this shard: no command waits, and no snapshot waits
\* or is being written.
AtRest == waiting = 0 /\ queue = << >> /\ writer \in {"idle", "done"}

\* When run returns, which is when shutdown says it is complete, shard{N}.snap
\* holds all the shard holds, unless a file operation failed, the worker
\* panicked or something is still on its way.
ShutdownSaves ==
    [][main = "closing" /\ main' = "returned" /\ AtRest
         /\ worker # "panicked" /\ errors = 0 /\ writes > 0
       => Saved(writes)]_allVars
=============================================================================
