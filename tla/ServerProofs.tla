----------------------------- MODULE ServerProofs -----------------------------
(***************************************************************************)
(* The server runs the snapshot pipeline: what PersistenceProofs proves of *)
(* the pipeline holds in a server with connections, Ctrl-C and shutdown,   *)
(* whatever its bounds.                                                    *)
(***************************************************************************)
EXTENDS Server, PersistenceProofs

USE DEF vars, workerVars, disk, serverVars, allVars

\* Each step of the server is one of the pipeline, or none of its business.
LEMMA ServerStep == [ServerNext]_allVars => [Next]_vars
<1> SUFFICES ASSUME [ServerNext]_allVars PROVE [Next]_vars
  OBVIOUS
<1>1. CASE ConnectionOpens \/ ConnectionSends \/ ConnectionReturns \/ CtrlC
  BY <1>1 DEF ConnectionOpens, ConnectionSends, ConnectionReturns, CtrlC
<1>2. CASE MainStep
  BY <1>2 DEF MainStep, DropSenders, RunReturns, MainReturns, Exit, Next
<1>3. CASE LastSenderDropped
  BY <1>3 DEF LastSenderDropped, Next
<1>4. CASE Background
  BY <1>4 DEF Background, Next
<1>5. CASE Fall \/ Start
  BY <1>5 DEF Fall, Start, Next
<1>6. CASE ExecuteCommand \/ WorkerPanics \/ RecvEnds
  BY <1>6 DEF ExecuteCommand, WorkerPanics, RecvEnds, Next
<1>7. CASE UNCHANGED allVars
  BY <1>7
<1> QED
  BY <1>1, <1>2, <1>3, <1>4, <1>5, <1>6, <1>7 DEF ServerNext

\* The server implements the pipeline: start, connections, Ctrl-C, the two
\* waits of shutdown, the return of main and the end of the runtime drive the
\* shard's worker and writer only in ways module Persistence knows.
THEOREM ServerRunsPipeline == ServerSpec => Spec
<1>1. ServerInit => Init
  BY DEF ServerInit
<1> QED
  BY <1>1, ServerStep, PTL DEF ServerSpec, Spec

\* No shutdown, crash or power loss of the server leaves a torn snapshot file.
THEOREM ServerNeverTears == ServerSpec => []SnapIntact
BY ServerRunsPipeline, SnapshotNeverTorn, PTL

\* In a server, too, snapshots stay in the order they were taken in.
THEOREM ServerKeepsOrder == ServerSpec => []PipelineOrdered
BY ServerRunsPipeline, PipelineInOrder, PTL

\* In a server, too, the snapshot file is only replaced by a later one.
THEOREM ServerOnlyAdvances == ServerSpec => SnapshotAdvances
BY ServerRunsPipeline, SnapshotOnlyAdvances
-----------------------------------------------------------------------------
\* While anybody in run holds a sender, a worker that has not panicked is in its
\* loop; once main has returned no connection and no command is left.
ServerInv ==
    /\ ServerTypeOK
    /\ main \in {"serving", "draining", "closing"} =>
         worker # "done" /\ commands = "open"
    /\ main \in {"dropped", "exited", "down"} => conns = 0 /\ waiting = 0

LEMMA ServerInvInit == ServerInit => ServerInv
BY ServerAssumption DEF ServerInit, Init, ServerInv, ServerTypeOK, Phases

LEMMA ServerInvStep == ServerInv /\ [ServerNext]_allVars => ServerInv'
<1> SUFFICES ASSUME ServerInv, [ServerNext]_allVars PROVE ServerInv'
  OBVIOUS
<1> USE ServerAssumption DEF ServerInv, ServerTypeOK, Phases
<1>1. CASE ConnectionOpens
  BY <1>1 DEF ConnectionOpens
<1>2. CASE ConnectionSends \/ ConnectionReturns
  BY <1>2 DEF ConnectionSends, ConnectionReturns
<1>3. CASE CtrlC \/ DropSenders \/ RunReturns
  BY <1>3 DEF CtrlC, DropSenders, RunReturns
<1>4. CASE MainReturns
  BY <1>4 DEF MainReturns, TasksDropped
<1>5. CASE Exit
  BY <1>5 DEF Exit, Crash, Dies
<1>6. CASE LastSenderDropped
  <2>1. conns = 0 /\ main \notin {"serving", "draining", "closing"}
    BY <1>6 DEF LastSenderDropped, Senders
  <2> QED
    BY <1>6, <2>1 DEF LastSenderDropped, CloseChannel
<1>7. CASE Background
  <2>1. UNCHANGED <<main, conns, waiting, commands, up, worker>>
    BY <1>7 DEF Background, SnapshotTick, WriterFails, Commit, WriterStep,
                WriterReceives, WriterStops, CreateTemp, WriteAll, SyncAll,
                Rename, ToStep
  <2> QED
    BY <2>1
<1>8. CASE Fall
  BY <1>8 DEF Fall, Crash, PowerLoss, Dies
<1>9. CASE Start
  BY <1>9 DEF Start, Restart
<1>10. CASE ExecuteCommand
  <2>1. UNCHANGED <<main, conns, commands, up, worker>> /\ waiting' = waiting - 1
    BY <1>10 DEF ExecuteCommand, Write
  <2> QED
    BY <1>10, <2>1 DEF ExecuteCommand
<1>11. CASE WorkerPanics
  <2>1. UNCHANGED <<main, conns, commands, up>> /\ waiting' = 0 /\ worker' = "panicked"
    BY <1>11 DEF WorkerPanics, CommandPanics, SerializePanics, Panics
  <2> QED
    BY <2>1
<1>12. CASE RecvEnds
  <2>1. commands = "closed" /\ waiting = 0 /\ UNCHANGED <<main, conns, waiting, commands, up>>
    BY <1>12 DEF RecvEnds, WorkerStops
  <2> QED
    BY <2>1
<1>13. CASE UNCHANGED allVars
  BY <1>13
<1> QED
  BY <1>1, <1>2, <1>3, <1>4, <1>5, <1>6, <1>7, <1>8, <1>9, <1>10, <1>11,
     <1>12, <1>13
     DEF ServerNext, MainStep

\* The states of the server are well typed.  Whoever holds the senders, in
\* whichever order they are dropped: a worker never leaves its loop under a
\* connection that is alive, and only a panic can take it away from one; no
\* command waits for a worker that has ended.
THEOREM ServerTypeCorrect == ServerSpec => []ServerTypeOK
<1>1. ServerInv => ServerTypeOK
  BY DEF ServerInv
<1> QED
  BY <1>1, ServerInvInit, ServerInvStep, PTL DEF ServerSpec
-----------------------------------------------------------------------------
\* In a first run without failures the temporary file exists only while the
\* writer works on it.
NoStrayTemp ==
    /\ run \in Nat \ {0}
    /\ up /\ run = 1 /\ errors = 0 /\ writer \in {"idle", "create", "done"}
         => tmp = None

LEMMA StrayStep == TypeOK /\ NoStrayTemp /\ [Next]_vars => NoStrayTemp'
<1> SUFFICES ASSUME TypeOK, NoStrayTemp, [Next]_vars PROVE NoStrayTemp'
  OBVIOUS
<1> USE DEF NoStrayTemp
<1>1. CASE Write \/ SnapshotTick \/ CommandPanics \/ SerializePanics
             \/ CloseChannel \/ WorkerStops \/ Commit
  BY <1>1 DEF Write, SnapshotTick, CommandPanics, SerializePanics, Panics,
              CloseChannel, WorkerStops, Commit
<1>2. CASE WriterStep
  BY <1>2 DEF WriterStep, WriterReceives, WriterStops, CreateTemp, WriteAll,
              SyncAll, Rename, WriterAt, ToStep
<1>3. CASE WriterFails
  BY <1>3 DEF WriterFails, TypeOK
<1>4. CASE TasksDropped
  BY <1>4 DEF TasksDropped
<1>5. CASE Crash \/ PowerLoss
  BY <1>5 DEF Crash, PowerLoss, Dies
<1>6. CASE Restart
  BY <1>6 DEF Restart
<1>7. CASE UNCHANGED vars
  BY <1>7
<1> QED
  BY <1>1, <1>2, <1>3, <1>4, <1>5, <1>6, <1>7 DEF Next

\* A process that ends by itself has completed the file operation it began:
\* the runtime does not abandon the writer between create and rename.
THEOREM ExitIsClean == ServerSpec => ExitLeavesNoTemp
<1> DEFINE Clean == main = "dropped" /\ main' = "exited" /\ errors = 0 /\ run = 1
                      => tmp = None
<1>1. Init => NoStrayTemp
  BY DEF Init, NoStrayTemp
<1>2. Spec => []NoStrayTemp
  BY <1>1, TypeInvariant, StrayStep, PTL DEF Spec
<1>3. NoStrayTemp /\ [ServerNext]_allVars => [Clean]_allVars
  <2> SUFFICES ASSUME NoStrayTemp, ServerNext, main = "dropped", main' = "exited",
                      errors = 0, run = 1
               PROVE  tmp = None
    BY DEF Clean
  <2>1. Exit
    BY DEF ServerNext, ConnectionOpens, ConnectionSends, ConnectionReturns,
           ExecuteCommand, WorkerPanics, RecvEnds, Background, CtrlC, MainStep,
           DropSenders, RunReturns, MainReturns, LastSenderDropped, Fall, Start
  <2> QED
    BY <2>1 DEF Exit, Crash, NoStrayTemp
<1> HIDE DEF Clean
<1>4. ServerSpec => [][Clean]_allVars
  BY <1>2, <1>3, ServerRunsPipeline, PTL DEF ServerSpec
<1> QED
  BY <1>4 DEF ExitLeavesNoTemp, Clean
=============================================================================
