-------------------------- MODULE PersistenceProofs --------------------------
(***************************************************************************)
(* What holds of the snapshot pipeline for every capacity of its channel   *)
(* and any number of runs, writes, failures, crashes and power losses.     *)
(***************************************************************************)
EXTENDS Persistence, TLAPS

USE DEF vars, workerVars, disk

\* From File::create to rename, the temporary file is the writer's own and
\* is about the request it is working on; when it is renamed it is synced.
TempIsWriting ==
    /\ writer \in {"write", "sync", "rename"} =>
         tmp # None /\ tmp.snap = writing
    /\ writer = "rename" => tmp.state = "synced"
-----------------------------------------------------------------------------
(***************************************************************************)
(* Type correctness.                                                       *)
(***************************************************************************)
LEMMA SerializedTyped == TypeOK => Serialized \in Snapshots
BY DEF TypeOK, Serialized, Snapshots

LEMMA EnqueueTyped ==
    ASSUME TypeOK, Enqueue(Serialized)
    PROVE  queue' \in Seq(Snapshots) /\ Len(queue') <= Capacity
<1>1. CASE Len(queue) < Capacity
  <2>1. queue' = Append(queue, Serialized)
    BY <1>1 DEF Enqueue
  <2>2. queue' \in Seq(Snapshots) /\ Len(queue') = Len(queue) + 1
    BY <2>1, SerializedTyped DEF TypeOK
  <2> QED
    BY <1>1, <2>2, PersistenceAssumption DEF TypeOK
<1>2. CASE ~(Len(queue) < Capacity)
  BY <1>2 DEF Enqueue, TypeOK
<1> QED
  BY <1>1, <1>2

LEMMA DamagedTyped ==
    ASSUME NEW f \in Files
    PROVE  Damaged(f) \in Files /\ Damaged(f).snap = f.snap
BY DEF Damaged, Files, FileStates

LEMMA TypeInit == Init => TypeOK /\ TempIsWriting
BY PersistenceAssumption DEF Init, TypeOK, TempIsWriting

LEMMA DiesTyped ==
    ASSUME TypeOK, Dies, UNCHANGED <<run, errors>>,
           tmp' \in Files \cup {None}, final' \in Files \cup {None},
           committed' \in Files \cup {None}
    PROVE  TypeOK'
<1>1. up' \in BOOLEAN /\ writes' \in Nat /\ run' \in Nat /\ errors' \in Nat
  BY DEF Dies, TypeOK
<1>2. queue' \in Seq(Snapshots) /\ Len(queue') <= Capacity
  BY PersistenceAssumption DEF Dies
<1> QED
  BY <1>1, <1>2 DEF Dies, TypeOK

LEMMA TypeStep == TypeOK /\ TempIsWriting /\ [Next]_vars => TypeOK'
<1> SUFFICES ASSUME TypeOK, TempIsWriting, [Next]_vars PROVE TypeOK'
  OBVIOUS
<1> USE PersistenceAssumption
<1>1. CASE Write
  BY <1>1 DEF Write, TypeOK
<1>2. CASE SnapshotTick
  BY <1>2, EnqueueTyped DEF SnapshotTick, TypeOK
<1>3. CASE CloseChannel
  BY <1>3 DEF CloseChannel, TypeOK
<1>4. CASE WorkerStops
  BY <1>4, EnqueueTyped DEF WorkerStops, TypeOK
<1>5. CASE WriterReceives
  <2>1. Head(queue) \in Snapshots
    BY <1>5 DEF WriterReceives, TypeOK
  <2>2. Tail(queue) \in Seq(Snapshots) /\ Len(Tail(queue)) = Len(queue) - 1
    BY <1>5 DEF WriterReceives, TypeOK
  <2> QED
    BY <1>5, <2>1, <2>2 DEF WriterReceives, WriterAt, TypeOK
<1>6. CASE WriterStops
  BY <1>6 DEF WriterStops, WriterAt, TypeOK
<1>7. CASE CreateTemp
  <2>1. writing \in Snapshots
    BY <1>7 DEF CreateTemp, WriterAt, TypeOK
  <2>2. tmp' \in Files
    BY <1>7, <2>1 DEF CreateTemp, Files, FileStates
  <2> QED
    BY <1>7, <2>2 DEF CreateTemp, WriterAt, ToStep, TypeOK
<1>8. CASE WriteAll \/ SyncAll
  <2>1. tmp \in Files
    BY <1>8 DEF WriteAll, SyncAll, WriterAt, TempIsWriting, TypeOK
  <2>2. tmp' \in Files
    BY <1>8, <2>1 DEF WriteAll, SyncAll, Files, FileStates
  <2> QED
    BY <1>8, <2>2 DEF WriteAll, SyncAll, WriterAt, ToStep, TypeOK
<1>9. CASE Rename
  BY <1>9 DEF Rename, WriterAt, TypeOK
<1>10. CASE WriterFails
  BY <1>10 DEF WriterFails, WriterAt, TypeOK
<1>11. CASE Commit
  BY <1>11 DEF Commit, TypeOK
<1>12. CASE Crash
  BY <1>12, DiesTyped DEF Crash, TypeOK
<1>13. CASE PowerLoss
  <2>1. final' \in Files \cup {None} /\ committed' \in Files \cup {None}
    BY <1>13, DamagedTyped DEF PowerLoss, TypeOK
  <2>2. tmp' \in Files \cup {None}
    BY <1>13, DamagedTyped DEF PowerLoss, TypeOK
  <2> QED
    BY <1>13, <2>1, <2>2, DiesTyped DEF PowerLoss
<1>14. CASE Restart
  BY <1>14 DEF Restart, TypeOK
<1>15. CASE TasksDropped
  <2>1. queue' \in Seq(Snapshots) /\ Len(queue') <= Capacity
    BY <1>15 DEF TasksDropped
  <2> QED
    BY <1>15, <2>1 DEF TasksDropped, TypeOK
<1>16. CASE CommandPanics \/ SerializePanics
  BY <1>16 DEF CommandPanics, SerializePanics, Panics, TypeOK
<1>17. CASE UNCHANGED vars
  BY <1>17 DEF TypeOK
<1> QED
  BY <1>1, <1>2, <1>3, <1>4, <1>5, <1>6, <1>7, <1>8, <1>9, <1>10, <1>11,
     <1>12, <1>13, <1>14, <1>15, <1>16, <1>17
  DEF Next, WriterStep

LEMMA TempStep == TypeOK /\ TempIsWriting /\ [Next]_vars => TempIsWriting'
<1> SUFFICES ASSUME TypeOK, TempIsWriting, [Next]_vars PROVE TempIsWriting'
  OBVIOUS
<1> USE DEF TempIsWriting
<1>1. CASE UNCHANGED <<writer, writing, tmp>>
  BY <1>1
<1>2. ASSUME writer' \notin {"write", "sync", "rename"} PROVE TempIsWriting'
  BY <1>2
<1>3. CASE CreateTemp
  <2>1. writing \in Snapshots
    BY <1>3 DEF CreateTemp, WriterAt, TypeOK
  <2>2. tmp' \in Files /\ tmp'.snap = writing
    BY <1>3, <2>1 DEF CreateTemp, Files, FileStates
  <2> QED
    BY <1>3, <2>2, PersistenceAssumption DEF CreateTemp, ToStep
<1>4. CASE WriteAll \/ SyncAll
  <2>1. tmp \in Files /\ tmp.snap = writing
    BY <1>4 DEF WriteAll, SyncAll, WriterAt, TypeOK
  <2>2. tmp' \in Files /\ tmp'.snap = writing
    BY <1>4, <2>1 DEF WriteAll, SyncAll, Files, FileStates
  <2>3. SyncAll => tmp'.state = "synced"
    BY <2>1 DEF SyncAll, Files
  <2>4. WriteAll => writer' = "sync"
    BY DEF WriteAll, ToStep
  <2>5. writing' = writing /\ tmp' # None
    BY <1>4, <2>2, PersistenceAssumption DEF WriteAll, SyncAll, ToStep
  <2> QED
    BY <1>4, <2>2, <2>3, <2>4, <2>5
<1>5. CASE Write \/ SnapshotTick \/ CommandPanics \/ SerializePanics
             \/ CloseChannel \/ WorkerStops \/ Commit \/ UNCHANGED vars
  BY <1>1, <1>5
  DEF Write, SnapshotTick, CommandPanics, SerializePanics, Panics,
      CloseChannel, WorkerStops, Commit
<1>6. CASE WriterReceives \/ WriterStops \/ Rename \/ WriterFails
  BY <1>2, <1>6 DEF WriterReceives, WriterStops, Rename, WriterFails
<1>7. CASE Crash \/ PowerLoss \/ Restart
  BY <1>2, <1>7 DEF Crash, PowerLoss, Dies, Restart
<1>8. CASE TasksDropped
  BY <1>1, <1>2, <1>8 DEF TasksDropped
<1> QED
  BY <1>3, <1>4, <1>5, <1>6, <1>7, <1>8 DEF Next, WriterStep

LEMMA TypeInvariant == Spec => [](TypeOK /\ TempIsWriting)
BY TypeInit, TypeStep, TempStep, PTL DEF Spec

\* The pipeline keeps its types, its channel its capacity.
THEOREM PersistenceTypeCorrect == Spec => []TypeOK
BY TypeInvariant, PTL
-----------------------------------------------------------------------------
(***************************************************************************)
(* The file under the final name is complete.                              *)
(***************************************************************************)
\* Everything ever renamed was synced first, so a power loss cannot damage
\* it, whichever of the files it brings back.
RenamedAreSynced ==
    /\ final # None => final.state = "synced"
    /\ committed # None => committed.state = "synced"

LEMMA SyncedStep ==
    TypeOK /\ TempIsWriting /\ RenamedAreSynced /\ [Next]_vars
      => RenamedAreSynced'
<1> SUFFICES ASSUME TypeOK, TempIsWriting, RenamedAreSynced, [Next]_vars
             PROVE  RenamedAreSynced'
  OBVIOUS
<1> USE DEF RenamedAreSynced
<1>1. CASE UNCHANGED <<final, committed>>
  BY <1>1
<1>2. CASE Rename
  BY <1>2 DEF Rename, WriterAt, TempIsWriting
<1>3. CASE Commit
  BY <1>3 DEF Commit
<1>4. CASE PowerLoss
  BY <1>4 DEF PowerLoss, Damaged
<1>5. CASE Write \/ SnapshotTick \/ CommandPanics \/ SerializePanics
             \/ CloseChannel \/ WorkerStops
             \/ WriterReceives \/ WriterStops \/ CreateTemp \/ WriteAll
             \/ SyncAll \/ WriterFails \/ TasksDropped \/ Crash \/ Restart
             \/ UNCHANGED vars
  BY <1>1, <1>5
  DEF Write, SnapshotTick, CommandPanics, SerializePanics, Panics,
      CloseChannel, WorkerStops, WriterReceives, WriterStops, CreateTemp,
      WriteAll, SyncAll, WriterFails, TasksDropped, Crash, Restart
<1> QED
  BY <1>2, <1>3, <1>4, <1>5 DEF Next, WriterStep

\* Write, sync and rename, in that order, keep shard{N}.snap whole through
\* any number of crashes, power losses and failures at any step.
THEOREM SnapshotNeverTorn == Spec => []SnapIntact
<1>1. Init => RenamedAreSynced
  BY DEF Init, RenamedAreSynced
<1>2. RenamedAreSynced => SnapIntact
  BY DEF RenamedAreSynced, SnapIntact
<1> QED
  BY <1>1, <1>2, SyncedStep, TypeInvariant, PTL DEF Spec
-----------------------------------------------------------------------------
(***************************************************************************)
(* Snapshots stay in order.                                                *)
(***************************************************************************)
LEMMA NotNewerTransitive ==
    ASSUME NEW a \in Snapshots, NEW b \in Snapshots, NEW c \in Snapshots,
           NotNewer(a, b), NotNewer(b, c)
    PROVE  NotNewer(a, c)
BY DEF NotNewer, Snapshots

LEMMA NotNewerReflexive ==
    ASSUME NEW a \in Snapshots
    PROVE  NotNewer(a, a)
BY DEF NotNewer, Snapshots

\* What PowerLoss may bring back is from this run or an earlier one, too.
OrderInv ==
    /\ PipelineOrdered
    /\ committed # None => committed.snap.run <= run

\* A snapshot is offered to the channel: it is the newest of all.
LEMMA EnqueueOrdered ==
    ASSUME TypeOK, PipelineOrdered, up, Enqueue(Serialized),
           UNCHANGED <<run, writes, writing, final>>
    PROVE  PipelineOrdered'
<1>1. Serialized' = Serialized /\ Serialized \in Snapshots
  BY SerializedTyped DEF Serialized
<1>2. CASE Len(queue) < Capacity
  <2>1. /\ queue' = Append(queue, Serialized)
        /\ Len(queue') = Len(queue) + 1
        /\ \A i \in 1 .. Len(queue) : queue'[i] = queue[i]
        /\ queue'[Len(queue) + 1] = Serialized
        /\ Len(queue) \in Nat
    BY <1>1, <1>2 DEF Enqueue, TypeOK
  <2>2. \A i \in 1 .. Len(queue') : NotNewer(queue'[i], Serialized')
    BY <1>1, <2>1, NotNewerReflexive DEF PipelineOrdered
  <2>3. ASSUME NEW i \in 1 .. Len(queue'), NEW j \in 1 .. Len(queue'), i <= j
        PROVE  NotNewer(queue'[i], queue'[j])
    <3>1. CASE j = Len(queue) + 1
      BY <1>1, <2>1, <2>2, <3>1
    <3>2. CASE j # Len(queue) + 1
      <4>1. i \in 1 .. Len(queue) /\ j \in 1 .. Len(queue)
        BY <2>1, <2>3, <3>2
      <4> QED
        BY <2>1, <2>3, <4>1 DEF PipelineOrdered
    <3> QED
      BY <3>1, <3>2
  <2>4. writing' # None =>
          /\ NotNewer(writing', Serialized')
          /\ \A i \in 1 .. Len(queue') : NotNewer(writing', queue'[i])
    BY <1>1, <2>1 DEF PipelineOrdered
  <2>5. final' # None =>
          /\ final'.snap.run <= run'
          /\ NotNewer(final'.snap, Serialized')
          /\ writing' # None => NotNewer(final'.snap, writing')
          /\ \A i \in 1 .. Len(queue') : NotNewer(final'.snap, queue'[i])
    BY <1>1, <2>1 DEF PipelineOrdered
  <2> QED
    BY <2>2, <2>3, <2>4, <2>5 DEF PipelineOrdered
<1>3. CASE ~(Len(queue) < Capacity)
  BY <1>1, <1>3 DEF Enqueue, PipelineOrdered
<1> QED
  BY <1>2, <1>3

\* The process is gone, and with it everything before the disk.
LEMMA DeathOrdered ==
    ASSUME Dies, final' # None => final'.snap.run <= run'
    PROVE  PipelineOrdered'
BY DEF Dies, PipelineOrdered

LEMMA OrderStep ==
    TypeOK /\ TempIsWriting /\ OrderInv /\ [Next]_vars => OrderInv'
<1> SUFFICES ASSUME TypeOK, TempIsWriting, OrderInv, [Next]_vars
             PROVE  OrderInv'
  OBVIOUS
<1> USE DEF OrderInv
<1>1. ASSUME UNCHANGED <<up, run, writes, queue, writing, final, committed>>
      PROVE  OrderInv'
  BY <1>1 DEF PipelineOrdered, Serialized
<1>2. CASE Write
  <2>1. \A s \in Snapshots : NotNewer(s, Serialized) => NotNewer(s, Serialized')
    BY <1>2 DEF Write, Serialized, NotNewer, Snapshots, TypeOK
  <2>2. \A i \in 1 .. Len(queue) : queue[i] \in Snapshots
    BY DEF TypeOK
  <2>3. final # None => final.snap \in Snapshots
    BY DEF TypeOK, Files
  <2>4. writing # None => writing \in Snapshots
    BY DEF TypeOK
  <2> QED
    BY <1>2, <2>1, <2>2, <2>3, <2>4 DEF Write, PipelineOrdered
<1>3. CASE SnapshotTick \/ WorkerStops
  BY <1>3, EnqueueOrdered DEF SnapshotTick, WorkerStops
<1>4. CASE WriterReceives
  <2>1. /\ Len(queue) \in Nat \ {0}
        /\ writing' = queue[1]
        /\ Len(queue') = Len(queue) - 1
        /\ \A i \in 1 .. Len(queue') : queue'[i] = queue[i + 1]
    BY <1>4 DEF WriterReceives, TypeOK
  <2>2. Serialized' = Serialized
    BY <1>4 DEF WriterReceives, Serialized
  <2>3. \A i \in 1 .. Len(queue') : i + 1 \in 1 .. Len(queue)
    BY <2>1
  <2>4. 1 \in 1 .. Len(queue)
    BY <2>1
  <2>5. /\ \A i \in 1 .. Len(queue') : NotNewer(queue'[i], Serialized')
        /\ \A i, j \in 1 .. Len(queue') :
             i <= j => NotNewer(queue'[i], queue'[j])
    <3>1. /\ \A i \in 1 .. Len(queue) : NotNewer(queue[i], Serialized)
          /\ \A i, j \in 1 .. Len(queue) : i <= j => NotNewer(queue[i], queue[j])
      BY DEF PipelineOrdered
    <3>2. ASSUME NEW i \in 1 .. Len(queue') PROVE NotNewer(queue'[i], Serialized')
      BY <2>1, <2>2, <2>3, <3>1
    <3>3. ASSUME NEW i \in 1 .. Len(queue'), NEW j \in 1 .. Len(queue'), i <= j
          PROVE  NotNewer(queue'[i], queue'[j])
      <4>1. i + 1 \in 1 .. Len(queue) /\ j + 1 \in 1 .. Len(queue) /\ i + 1 <= j + 1
        BY <2>1, <2>3, <3>3
      <4>2. NotNewer(queue[i + 1], queue[j + 1])
        BY <3>1, <4>1
      <4> QED
        BY <2>1, <4>2
    <3> QED
      BY <3>2, <3>3
  <2>6. /\ NotNewer(writing', Serialized')
        /\ \A i \in 1 .. Len(queue') : NotNewer(writing', queue'[i])
    BY <2>1, <2>2, <2>3, <2>4 DEF PipelineOrdered
  <2>7. final' # None =>
          /\ final'.snap.run <= run'
          /\ up' => NotNewer(final'.snap, Serialized')
          /\ NotNewer(final'.snap, writing')
          /\ \A i \in 1 .. Len(queue') : NotNewer(final'.snap, queue'[i])
    BY <1>4, <2>1, <2>2, <2>3, <2>4, Zenon DEF WriterReceives, PipelineOrdered
  <2>8. committed' # None => committed'.snap.run <= run'
    BY <1>4 DEF WriterReceives
  <2> QED
    BY <2>5, <2>6, <2>7, <2>8 DEF PipelineOrdered
<1>5. CASE Rename
  <2>1. final'.snap = writing /\ writing # None /\ writing \in Snapshots
    BY <1>5, PersistenceAssumption
    DEF Rename, WriterAt, TempIsWriting, TypeOK
  <2>2. Serialized' = Serialized
    BY <1>5 DEF Rename, Serialized
  <2>3. NotNewer(writing, Serialized)
    BY <2>1 DEF PipelineOrdered
  <2>4. writing.run <= run
    BY <2>1, <2>3 DEF NotNewer, Serialized, Snapshots, TypeOK
  <2> QED
    BY <1>5, <2>1, <2>2, <2>3, <2>4 DEF Rename, PipelineOrdered
<1>6. CASE WriterFails
  BY <1>6 DEF WriterFails, PipelineOrdered, Serialized
<1>7. CASE Commit
  BY <1>7 DEF Commit, PipelineOrdered, Serialized
<1>8. CASE Crash
  BY <1>8, DeathOrdered DEF Crash, PipelineOrdered
<1>9. CASE PowerLoss
  <2>1. final' # None => final'.snap = committed.snap /\ committed # None
    BY <1>9, DamagedTyped DEF PowerLoss, TypeOK
  <2> QED
    BY <1>9, <2>1, DeathOrdered DEF PowerLoss
<1>10. CASE Restart
  <2>1. Serialized' = [run |-> run + 1, writes |-> 0]
    BY <1>10 DEF Restart, Serialized
  <2>2. final # None => final.snap \in Snapshots /\ final.snap.run <= run
    BY DEF TypeOK, Files, PipelineOrdered
  <2>3. final # None => NotNewer(final.snap, Serialized')
    BY <2>1, <2>2 DEF NotNewer, Snapshots, TypeOK
  <2>4. committed # None => committed.snap.run \in Nat
    BY DEF TypeOK, Files, Snapshots
  <2>5. final # None => final.snap.run <= run + 1
    BY <2>2 DEF Snapshots, TypeOK
  <2> QED
    BY <1>10, <2>3, <2>4, <2>5 DEF Restart, PipelineOrdered, TypeOK
<1>11. CASE CommandPanics \/ SerializePanics \/ CloseChannel \/ WriterStops
              \/ CreateTemp \/ WriteAll \/ SyncAll \/ UNCHANGED vars
  BY <1>1, <1>11
  DEF CommandPanics, SerializePanics, Panics, CloseChannel, WriterStops,
      CreateTemp, WriteAll, SyncAll, ToStep
<1>12. CASE TasksDropped
  BY <1>12 DEF TasksDropped, PipelineOrdered, Serialized
<1> QED
  BY <1>2, <1>3, <1>4, <1>5, <1>6, <1>7, <1>8, <1>9, <1>10, <1>11, <1>12
  DEF Next, WriterStep

LEMMA OrderInvariant == Spec => []OrderInv
<1>1. Init => OrderInv
  BY DEF Init, OrderInv, PipelineOrdered
<1> QED
  BY <1>1, OrderStep, TypeInvariant, PTL DEF Spec

\* Snapshots reach the disk in the order they were taken in, for a channel of
\* any capacity.
THEOREM PipelineInOrder == Spec => []PipelineOrdered
BY OrderInvariant, PTL DEF OrderInv

\* The body of SnapshotAdvances.
Advances ==
    up' /\ final # None => final' # None /\ NotNewer(final.snap, final'.snap)

LEMMA AdvanceStep == TypeOK /\ TempIsWriting /\ OrderInv /\ [Next]_vars => Advances
<1> SUFFICES ASSUME TypeOK, TempIsWriting, OrderInv, [Next]_vars, up', final # None
             PROVE  final' # None /\ NotNewer(final.snap, final'.snap)
  BY DEF Advances
<1>1. CASE Rename
  <2>1. final' # None /\ final'.snap = writing /\ writing # None
    BY <1>1, PersistenceAssumption
    DEF Rename, WriterAt, TempIsWriting, TypeOK
  <2> QED
    BY <2>1 DEF OrderInv, PipelineOrdered
<1>2. CASE UNCHANGED final
  BY <1>2, NotNewerReflexive DEF TypeOK, Files
<1>3. CASE Crash \/ PowerLoss
  BY <1>3 DEF Crash, PowerLoss, Dies
<1>4. CASE Write \/ SnapshotTick \/ CommandPanics \/ SerializePanics
             \/ CloseChannel \/ WorkerStops \/ WriterReceives \/ WriterStops \/ CreateTemp
             \/ WriteAll \/ SyncAll \/ WriterFails \/ Commit \/ TasksDropped
             \/ Restart \/ UNCHANGED vars
  BY <1>2, <1>4
  DEF Write, SnapshotTick, CommandPanics, SerializePanics, Panics,
      CloseChannel, WorkerStops, WriterReceives, WriterStops, CreateTemp,
      WriteAll, SyncAll, WriterFails, Commit, TasksDropped, Restart
<1> QED
  BY <1>1, <1>3, <1>4 DEF Next, WriterStep

\* An older snapshot never overwrites a newer one while the server runs.
THEOREM SnapshotOnlyAdvances == Spec => SnapshotAdvances
<1>1. Spec => [][Advances]_vars
  BY AdvanceStep, OrderInvariant, TypeInvariant, PTL DEF Spec
<1> QED
  BY <1>1 DEF SnapshotAdvances, Advances
=============================================================================
