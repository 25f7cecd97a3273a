--------------------------- MODULE MonitorWorkerProofs ---------------------------
(***************************************************************************)
(* Proofs about MonitorWorker for every set of devices and every wish,     *)
(* panic and wake bound.                                                   *)
(***************************************************************************)
EXTENDS MCMonitorWorker, MonitorDataProofs, SequenceTheorems, TLAPS

-----------------------------------------------------------------------------
(* Threads *)

ClientThread == [pc : ClientPC, cmd : Command]
CollectorThread == [pc : CollectorPC, cmd : Command, job : Job, out : Update,
                    next : {"results", "commands"}]
StorageThread == [pc : StoragePC, job : Job]

(* The states a thread is put in are states of that thread. *)
LEMMA Threads ==
    /\ Idle \in ClientThread
    /\ \A pc \in ClientPC, cmd \in Command : [pc |-> pc, cmd |-> cmd] \in ClientThread
    /\ \A c \in ClientThread, pc \in ClientPC : [c EXCEPT !.pc = pc] \in ClientThread
    /\ \A pc \in CollectorPC : At(pc) \in CollectorThread
    /\ \A pc \in CollectorPC, out \in Update :
          [At(pc) EXCEPT !.out = out] \in CollectorThread
    /\ \A out \in Update, next \in {"results", "commands"} :
          [At("send") EXCEPT !.out = out, !.next = next] \in CollectorThread
    /\ \A c \in CollectorThread, pc \in CollectorPC :
          /\ [c EXCEPT !.pc = pc] \in CollectorThread
          /\ \A job \in Job : [c EXCEPT !.pc = pc, !.job = job] \in CollectorThread
          /\ \A cmd \in Command : [c EXCEPT !.pc = pc, !.cmd = cmd] \in CollectorThread
    /\ \A pc \in StoragePC, job \in Job : [pc |-> pc, job |-> job] \in StorageThread
    /\ \A s \in StorageThread, pc \in StoragePC : [s EXCEPT !.pc = pc] \in StorageThread
  BY Constructors
  DEF Idle, At, ClientThread, CollectorThread, StorageThread, ClientPC,
      CollectorPC, StoragePC

(* The first and the other messages of a channel are messages; so are those *)
(* of a channel a message was added to.                                     *)
LEMMA Channels ==
  \A S : \A s \in Seq(S) :
     /\ \A e \in S : Append(s, e) \in Seq(S) /\ Len(Append(s, e)) = Len(s) + 1
     /\ s # <<>> => /\ Head(s) \in S /\ Tail(s) \in Seq(S)
                    /\ Len(Tail(s)) = Len(s) - 1 /\ Len(s) > 0
     /\ Len(s) \in Nat
     /\ Len(s) = 0 <=> s = <<>>
  OBVIOUS

(* The channel MonitorWorker::start creates is empty, whatever it carries. *)
LEMMA EmptyChannel == (\A S : <<>> \in Seq(S)) /\ Len(<<>>) = 0
  OBVIOUS

(* A thread that exits leaves well-typed channels behind. *)
LEMMA ExitTyped ==
  ASSUME Exit
  PROVE  /\ collector' \in CollectorThread
         /\ requests' \in Seq(Command) /\ Len(requests') <= 1
         /\ wake' \in Seq({"Work", "Shutdown"})
         /\ results' \in Seq(Job)
  <1>1. collector' \in CollectorThread
    BY Threads DEF Exit, CollectorPC
  <1>2. requests' \in Seq(Command)
    BY EmptyChannel DEF Exit
  <1>3. Len(requests') <= 1
    BY EmptyChannel DEF Exit
  <1>4. wake' \in Seq({"Work", "Shutdown"})
    BY EmptyChannel DEF Exit
  <1>5. results' \in Seq(Job)
    BY EmptyChannel DEF Exit
  <1> QED BY <1>1, <1>2, <1>3, <1>4, <1>5

-----------------------------------------------------------------------------
(* Type correctness *)

(* TypeOK, with the types of the threads named. *)
Typed ==
    /\ requests \in Seq(Command) /\ Len(requests) <= 1
    /\ wake \in Seq({"Work", "Shutdown"})
    /\ updates \in Seq(Update) /\ Len(updates) <= 1
    /\ jobs \in Seq(Job)
    /\ results \in Seq(Job)
    /\ storageBusy \in BOOLEAN
    /\ desiredSensitive \in BOOLEAN
    /\ client \in ClientThread
    /\ collector \in CollectorThread
    /\ storage \in StorageThread
    /\ base \in Collector

(* The fields of a well-typed state, one by one. *)
LEMMA ThreadFields ==
    /\ \A c \in ClientThread : c.pc \in ClientPC /\ c.cmd \in Command
    /\ \A c \in CollectorThread :
          /\ c.pc \in CollectorPC /\ c.cmd \in Command /\ c.job \in Job
          /\ c.out \in Update /\ c.next \in {"results", "commands"}
          /\ c.next \in CollectorPC
    /\ \A s \in StorageThread : s.pc \in StoragePC /\ s.job \in Job
    /\ \A cmd \in Command : cmd.op \in Operation /\ cmd.flag \in BOOLEAN /\ cmd.ids \in SUBSET Devices
    /\ \A j \in Job : j.ids \in SUBSET Devices /\ j.targets \in SUBSET Devices /\ j.sensitive \in BOOLEAN
    /\ \A c \in Collector : c.sensitive \in BOOLEAN /\ c.devices \in SUBSET Devices
  BY DEF ClientThread, CollectorThread, StorageThread, Command, Job, Collector, CollectorPC

(* MonitorWorker::start creates every channel, flag and thread with its type. *)
LEMMA TypeInit == Init => TypeOK
  <1> SUFFICES ASSUME Init PROVE TypeOK
    OBVIOUS
  <1>1. base \in Collector /\ base.sensitive \in BOOLEAN
    BY ThreadFields DEF Init, NewCollectors
  <1>2. client \in ClientThread /\ collector \in CollectorThread
    BY Threads DEF Init, CollectorPC
  <1>3. storage \in StorageThread
    BY Threads, Constructors DEF Init, StoragePC
  <1>4. /\ requests \in Seq(Command) /\ wake \in Seq({"Work", "Shutdown"})
        /\ updates \in Seq(Update) /\ jobs \in Seq(Job) /\ results \in Seq(Job)
    BY EmptyChannel DEF Init
  <1>5. Len(requests) <= 1 /\ Len(updates) <= 1
    BY EmptyChannel DEF Init
  <1> QED BY <1>1, <1>2, <1>3, <1>4, <1>5
          DEF Init, TypeOK, ClientThread, CollectorThread, StorageThread

(* No step of the client, of a thread or of a panic takes a variable out of *)
(* its type.                                                                *)
LEMMA TypeStep == TypeOK /\ [Next]_vars => TypeOK'
  <1> SUFFICES ASSUME Typed, [Next]_vars PROVE Typed'
    BY DEF TypeOK, Typed, ClientThread, CollectorThread, StorageThread
  <1> USE DEF Typed
  <1>1. CASE ClientCall
    BY <1>1, Constructors, Threads, WorkerAssumption
    DEF ClientCall, RequestRefresh, RequestSensitive, RequestStorageHealth,
        StartSend, ClientPC, channels
  <1>2. CASE TrySend
    <2>1. client' \in ClientThread
      BY <1>2, Threads DEF TrySend, AfterRefusal, ClientPC
    <2>2. requests' \in Seq(Command)
      BY <1>2, ThreadFields, Channels DEF TrySend
    <2>3. Len(requests') <= 1
      BY <1>2, ThreadFields, Channels DEF TrySend
    <2> QED BY <1>2, <2>1, <2>2, <2>3 DEF TrySend
  <1>3. CASE SendWake
    BY <1>3, Threads, Channels DEF SendWake, AfterRefusal, ClientPC
  <1>4. CASE ReleaseClaim
    BY <1>4, Threads DEF ReleaseClaim, channels
  <1>5. CASE Poll
    BY <1>5, Channels DEF Poll
  <1>6. CASE Drop
    <2>1. client' \in ClientThread
      BY <1>6, Threads DEF Drop, ClientPC
    <2>2. wake' \in Seq({"Work", "Shutdown"})
      <3>1. Append(wake, "Shutdown") \in Seq({"Work", "Shutdown"})
        OBVIOUS
      <3>2. wake' = wake \/ wake' = Append(wake, "Shutdown")
        BY <1>6 DEF Drop
      <3> QED BY <3>1, <3>2
    <2>3. updates' \in Seq(Update) /\ Len(updates') <= 1
      <3>1. updates' = updates \/ updates' = <<>>
        BY <1>6 DEF Drop
      <3>2. <<>> \in Seq(Update) /\ Len(<<>>) <= 1
        BY EmptyChannel
      <3> QED BY <3>1, <3>2
    <2> QED BY <1>6, <2>1, <2>2, <2>3 DEF Drop
  <1>7. CASE Wakeup
    BY <1>7, Threads, Channels, ExitTyped DEF Wakeup, Goto, CollectorPC
  <1>8. CASE TakeResult
    BY <1>8, Threads, Channels DEF TakeResult, CollectorPC
  <1>9. CASE ResultsDrained
    BY <1>9, Threads DEF ResultsDrained, Goto, CollectorPC, channels
  <1>10. CASE ApplyHealth
    <2>1. collector.job \in Job
      BY ThreadFields
    <2>2. base' \in Collector
      BY <1>10, <2>1, HealthKept DEF ApplyHealth
    <2>3. Answer(StorageHealth(collector.job.ids), base') \in Update
      BY <2>1, <2>2, ThreadFields, Constructors
    <2> QED BY <1>10, <2>2, <2>3, Threads DEF ApplyHealth, Prepare, channels
  <1>11. CASE TakeCommand
    <2>1. Head(requests) \in Command /\ requests' \in Seq(Command)
      BY <1>11, Channels DEF TakeCommand
    <2>2. Len(requests') <= 1
      BY <1>11, Channels DEF TakeCommand
    <2>3. collector' \in CollectorThread
      BY <1>11, <2>1, Threads DEF TakeCommand, CollectorPC
    <2> QED BY <1>11, <2>1, <2>2, <2>3 DEF TakeCommand
  <1>12. CASE CommandsDrained
    BY <1>12, Threads, ExitTyped DEF CommandsDrained, Goto, CollectorPC
  <1>13. CASE ExecuteRefresh
    <2>1. base' \in Collector
      BY <1>13, CollectorOperations DEF ExecuteRefresh
    <2>2. Answer(collector.cmd, base') \in Update
      BY <2>1, ThreadFields, Constructors
    <2> QED BY <1>13, <2>1, <2>2, Threads DEF ExecuteRefresh, CollectorPC, channels
  <1>14. CASE ClaimPeriodic
    BY <1>14, Threads DEF ClaimPeriodic, Goto, CollectorPC, channels
  <1>15. CASE DispatchPeriodic
    <2>1. CASE base.devices # {} /\ ~StorageAlive
      BY <1>15, <2>1, ExitTyped DEF DispatchPeriodic, SendJob
    <2>2. CASE base.devices # {} /\ StorageAlive
      <3>1. jobs' \in Seq(Job)
        BY <1>15, <2>2, Channels, Constructors DEF DispatchPeriodic, SendJob
      <3> QED BY <1>15, <2>2, <3>1, Threads
              DEF DispatchPeriodic, SendJob, Goto, CollectorPC
    <2>3. CASE base.devices = {}
      BY <1>15, <2>3, Threads DEF DispatchPeriodic, Goto, CollectorPC
    <2> QED BY <2>1, <2>2, <2>3
  <1>16. CASE ExecuteStorageHealth
    <2>1. /\ JobFor(base, collector.cmd.ids) \in Job
          /\ Answer(collector.cmd, base) \in Update
      BY ThreadFields, Constructors
    <2> DEFINE job == JobFor(base, collector.cmd.ids)
    <2>2. CASE job.targets # {} /\ ~StorageAlive
      BY <1>16, <2>2, ExitTyped DEF ExecuteStorageHealth, SendJob
    <2>3. CASE job.targets # {} /\ StorageAlive
      <3>1. jobs' \in Seq(Job)
        BY <1>16, <2>1, <2>3, Channels DEF ExecuteStorageHealth, SendJob
      <3> QED BY <1>16, <2>3, <3>1, Threads
              DEF ExecuteStorageHealth, SendJob, CollectorPC
    <2>4. CASE job.targets = {}
      BY <1>16, <2>1, <2>4, Threads DEF ExecuteStorageHealth, Prepare
    <2> QED BY <2>2, <2>3, <2>4
  <1>17. CASE ExecuteSetSensitive
    <2>1. base' \in Collector
      BY <1>17, ThreadFields, CollectorOperations DEF ExecuteSetSensitive
    <2>2. Answer(collector.cmd, base') \in Update
      BY <2>1, ThreadFields, Constructors
    <2> QED BY <1>17, <2>1, <2>2, Threads
            DEF ExecuteSetSensitive, Prepare, channels
  <1>18. CASE SendUpdate
    <2>1. CASE ~UpdatesOpen
      BY <1>18, <2>1, ExitTyped DEF SendUpdate
    <2>2. CASE UpdatesOpen
      <3>1. /\ collector.out \in Update
            /\ updates = <<>> /\ updates' = Append(updates, collector.out)
        BY <1>18, <2>2, ThreadFields DEF SendUpdate
      <3>2. updates' \in Seq(Update) /\ Len(updates') <= 1
        <4>1. updates' \in Seq(Update) /\ Len(updates') = Len(updates) + 1
          BY <3>1, Channels
        <4>2. Len(updates) = 0
          BY <3>1, EmptyChannel
        <4> QED BY <4>1, <4>2
      <3>3. collector' \in CollectorThread
        BY <1>18, <2>2, ThreadFields, Threads DEF SendUpdate
      <3> QED BY <1>18, <2>2, <3>2, <3>3 DEF SendUpdate
    <2> QED BY <2>1, <2>2
  <1>19. CASE CollectorPanics
    BY <1>19, ExitTyped DEF CollectorPanics
  <1>20. CASE TakeJob
    BY <1>20, Threads, Channels DEF TakeJob, StoragePC
  <1>21. CASE JobsClosed
    BY <1>21, Threads DEF JobsClosed, StoragePC, channels
  <1>22. CASE WakeCollector
    BY <1>22, Threads, Channels DEF WakeCollector, StoragePC
  <1>23. CASE FinishJob
    <2>1. storage' \in StorageThread
      BY <1>23, Threads, Constructors DEF FinishJob, StoragePC
    <2>2. results' \in Seq(Job)
      <3>1. storage.job \in Job
        BY ThreadFields
      <3>2. results' = results \/ results' = Append(results, storage.job)
        BY <1>23 DEF FinishJob
      <3>3. results \in Seq(Job)
        OBVIOUS
      <3>4. Append(results, storage.job) \in Seq(Job)
        BY <3>1, <3>3, AppendProperties
      <3> QED BY Zenon, <3>2, <3>3, <3>4
    <2> QED BY <1>23, <2>1, <2>2 DEF FinishJob
  <1>24. CASE StoragePanics
    BY <1>24, Threads DEF StoragePanics, StoragePC, channels
  <1>25. CASE UNCHANGED vars
    BY <1>25 DEF vars, channels
  <1> QED
    BY <1>1, <1>2, <1>3, <1>4, <1>5, <1>6, <1>7, <1>8, <1>9, <1>10, <1>11,
       <1>12, <1>13, <1>14, <1>15, <1>16, <1>17, <1>18, <1>19, <1>20, <1>21,
       <1>22, <1>23, <1>24, <1>25
    DEF Next, ClientContinues, CollectorStep, StorageStep

(* Every thread's private state, every channel and the monitor's data keep *)
(* their types, and the two bounded channels never hold more than one      *)
(* message.                                                                *)
THEOREM TypeCorrect == Spec => []TypeOK
  BY TypeInit, TypeStep, PTL DEF Spec
-----------------------------------------------------------------------------
(* Who changes what *)

(* The collector is touched by the collector thread only, and the channels *)
(* and flags by the threads that hold an end of them.                      *)
LEMMA Frame ==
  ASSUME [Next]_vars
  PROVE  /\ client' = client \/ ClientCall \/ ClientContinues \/ Drop
         /\ collector' = collector \/ CollectorStep \/ CollectorPanics
         /\ storage' = storage \/ StorageStep \/ FinishJob \/ StoragePanics
         /\ base' = base \/ ApplyHealth \/ ExecuteRefresh \/ ExecuteSetSensitive
  BY DEF Next, vars, channels, ClientCall, ClientContinues, CollectorStep,
         StorageStep, RequestRefresh, RequestSensitive, RequestStorageHealth,
         TrySend, SendWake, ReleaseClaim, Poll, Drop, Wakeup, TakeResult,
         ResultsDrained, ApplyHealth, TakeCommand, CommandsDrained,
         ExecuteRefresh, ClaimPeriodic, DispatchPeriodic, ExecuteStorageHealth,
         ExecuteSetSensitive, SendUpdate, CollectorPanics, TakeJob, JobsClosed,
         WakeCollector, FinishJob, StoragePanics

-----------------------------------------------------------------------------
(* Hiding identifying values *)

(* No operation of the collector shows what is hidden, but for the one     *)
(* that is asked to.                                                       *)
LEMMA HiddenKept ==
  ASSUME Typed, [Next]_vars, Hidden, ~desiredSensitive', ~Shows
  PROVE  Hidden'
  <1> USE DEF Typed, Hidden
  <1>1. CASE ApplyHealth
    <2>1. collector.job \in Job
      BY ThreadFields
    <2>2. /\ desiredSensitive' = desiredSensitive
          /\ base' \in HealthApplied(base, collector.job, desiredSensitive)
      BY <1>1 DEF ApplyHealth
    <2> QED BY <2>1, <2>2, HealthKept
  <1>2. CASE ExecuteRefresh
    BY <1>2, CollectorOperations DEF ExecuteRefresh
  <1>3. CASE ExecuteSetSensitive
    <2>1. /\ collector.cmd.flag = FALSE
          /\ base' \in SensitiveSet(base, collector.cmd.flag)
      BY <1>3, ThreadFields DEF ExecuteSetSensitive, Shows
    <2> QED BY <2>1, CollectorOperations
  <1>4. CASE base' = base
    BY <1>4
  <1>5. ApplyHealth \/ ExecuteRefresh \/ ExecuteSetSensitive \/ base' = base
    BY Frame
  <1> QED BY <1>1, <1>2, <1>3, <1>4, <1>5

(* The answer of a collector that hides them identifies no device.         *)
LEMMA AnswerHides ==
  ASSUME NEW cmd, NEW c, c.identified = {}
  PROVE  ~Answer(cmd, c).identified
  BY DEF Answer

(* For any number of devices, and whatever storage jobs, refreshes and     *)
(* setting changes are in flight, identifying values that were hidden stay *)
(* hidden until the client asks for them.                                  *)
THEOREM HiddenStaysHidden == Spec => StaysHidden
  <1>1. TypeOK => Typed
    BY DEF TypeOK, Typed, ClientThread, CollectorThread, StorageThread
  <1>2. TypeOK /\ [Next]_vars => (Hidden /\ ~desiredSensitive' => Hidden' \/ Shows)
    BY <1>1, HiddenKept
  <1> QED BY <1>2, TypeCorrect, PTL DEF Spec, StaysHidden

(* The update that a step prepares is that of the collector after it, and  *)
(* that of the base when nothing had to be collected.                      *)
LEMMA PreparedFrom ==
  ASSUME Typed, [Next]_vars
  PROVE  \/ collector'.out = collector.out
         \/ collector'.out = NoUpdate
         \/ \E cmd \in Command : collector'.out = Answer(cmd, base')
  <1>1. collector \in CollectorThread /\ collector.cmd \in Command
    BY ThreadFields DEF Typed
  <1>2. ASSUME NEW pc PROVE At(pc).out = NoUpdate
    BY DEF At
  <1>3. CASE Wakeup \/ TakeResult \/ ResultsDrained \/ TakeCommand \/ CommandsDrained
             \/ ClaimPeriodic
    BY <1>1, <1>2, <1>3 DEF Wakeup, TakeResult, ResultsDrained, TakeCommand,
       CommandsDrained, ClaimPeriodic, Goto, Exit, CollectorThread
  <1>4. CASE SendUpdate \/ CollectorPanics
    BY <1>2, <1>4 DEF SendUpdate, CollectorPanics, Exit
  <1>5. CASE DispatchPeriodic
    BY <1>1, <1>2, <1>5 DEF DispatchPeriodic, SendJob, Goto, Exit, CollectorThread
  <1>6. CASE ApplyHealth
    <2>1. StorageHealth(collector.job.ids) \in Command
      BY ThreadFields, Constructors DEF Typed
    <2>2. collector'.out = Answer(StorageHealth(collector.job.ids), base')
      BY <1>6 DEF ApplyHealth, Prepare, At
    <2> QED BY <2>1, <2>2
  <1>7. CASE ExecuteRefresh
    <2>1. collector'.out = Answer(collector.cmd, base')
      BY <1>7 DEF ExecuteRefresh, At
    <2> QED BY <1>1, <2>1
  <1>8. CASE ExecuteSetSensitive
    <2>1. collector'.out = Answer(collector.cmd, base')
      BY <1>8 DEF ExecuteSetSensitive, Prepare, At
    <2> QED BY <1>1, <2>1
  <1>9. CASE ExecuteStorageHealth
    <2>1. base' = base
      BY <1>9 DEF ExecuteStorageHealth
    <2>2. \/ collector'.out = Answer(collector.cmd, base)
          \/ \E pc : collector' = At(pc)
      BY <1>9 DEF ExecuteStorageHealth, Prepare, SendJob, Exit, At
    <2> QED BY <1>1, <1>2, <2>1, <2>2
  <1>10. CASE collector' = collector
    BY <1>10
  <1> QED BY <1>3, <1>4, <1>5, <1>6, <1>7, <1>8, <1>9, <1>10, Frame DEF CollectorStep

(* Nor does any update that is prepared while they are hidden and nobody   *)
(* asks for them identify a device: not the answer of a job that ran with  *)
(* them, nor one from the cached base.                                     *)
THEOREM UpdatesHide == Spec => HiddenUpdates
  <1>1. TypeOK => Typed
    BY DEF TypeOK, Typed, ClientThread, CollectorThread, StorageThread
  <1>2. TypeOK /\ [Next]_vars
          => (/\ Hidden /\ ~desiredSensitive' /\ ~Shows
              /\ collector'.out # collector.out
              => ~collector'.out.identified)
    <2> SUFFICES ASSUME Typed, [Next]_vars, Hidden, ~desiredSensitive', ~Shows,
                        collector'.out # collector.out
                 PROVE  ~collector'.out.identified
      BY <1>1
    <2>1. base'.identified = {}
      BY HiddenKept DEF Hidden
    <2>2. ~NoUpdate.identified
      BY DEF NoUpdate
    <2> QED BY <2>1, <2>2, PreparedFrom, AnswerHides
  <1> QED BY <1>2, TypeCorrect, PTL DEF Spec, HiddenUpdates
-----------------------------------------------------------------------------
(* The claim on the storage thread *)

(* What keeps BusyHasOneOwner: only a storage-health request is ever left  *)
(* with a claim to release, and the storage thread returns only after the  *)
(* collector thread.                                                       *)
ClaimInv ==
    /\ client.pc = "release" => client.cmd.op = "StorageHealth"
    /\ CollectorAlive => storage.pc # "exit"
    /\ BusyHasOneOwner

(* Nobody holds the claim on storage work when the threads start. *)
LEMMA ClaimInit == Init => ClaimInv
  BY EmptyChannel
  DEF Init, ClaimInv, BusyHasOneOwner, ClaimOwners, One, Idle, At, NoCommand,
      Refresh, CollectorAlive

(* The terms of ClaimOwners. *)
ClientOwns == One(client.pc \in {"send", "release"} /\ client.cmd.op = "StorageHealth")
QueueOwns == One(requests # <<>> /\ Head(requests).op = "StorageHealth")
CollectorOwns == One(\/ collector.pc = "execute" /\ collector.cmd.op = "StorageHealth"
                     \/ collector.pc = "dispatch")
StorageOwns == One(storage.pc \in {"collecting", "panicked"})

Owners ==
    /\ ClaimOwners = ClientOwns + QueueOwns + CollectorOwns + Len(jobs)
                     + StorageOwns + Len(results)
    /\ ClientOwns \in {0, 1} /\ QueueOwns \in {0, 1}
    /\ CollectorOwns \in {0, 1} /\ StorageOwns \in {0, 1}
    /\ Len(jobs) \in Nat /\ Len(results) \in Nat
    /\ One(storageBusy) \in {0, 1}
    /\ One(storageBusy) = 1 <=> storageBusy

(* The number of owners is the sum over the four places a claim can be. *)
LEMMA OwnersByParts == Typed => Owners
  BY Channels
  DEF Typed, Owners, ClaimOwners, ClientOwns, QueueOwns, CollectorOwns,
      StorageOwns, One

(* A step that moves the claim from one owner to another, or leaves it     *)
(* where it is.                                                            *)
LEMMA ClaimMoves ==
  ASSUME Typed, Typed', BusyHasOneOwner, CollectorAlive' => CollectorAlive,
         CollectorAlive' =>
            /\ storageBusy' = storageBusy
            /\ ClientOwns' + QueueOwns' + CollectorOwns' + Len(jobs)'
                  + StorageOwns' + Len(results)'
               = ClientOwns + QueueOwns + CollectorOwns + Len(jobs)
                  + StorageOwns + Len(results)
  PROVE  BusyHasOneOwner'
  <1>1. Owners /\ Owners'
    BY OwnersByParts, PTL
  <1> QED BY <1>1 DEF Owners, BusyHasOneOwner

(* What a part of the claim's whereabouts depends on. *)
LEMMA Unmoved ==
    /\ client' = client => ClientOwns' = ClientOwns
    /\ requests' = requests => QueueOwns' = QueueOwns
    /\ collector' = collector => CollectorOwns' = CollectorOwns
    /\ storage' = storage => StorageOwns' = StorageOwns
  BY DEF ClientOwns, QueueOwns, CollectorOwns, StorageOwns

(* Every step moves the claim as a whole: compare_exchange takes it for one *)
(* party, a send hands it on, and only storage_busy.store(false) ends it.   *)
LEMMA ClaimStep == Typed /\ Typed' /\ ClaimInv /\ [Next]_vars => ClaimInv'
  <1> SUFFICES ASSUME Typed, Typed', ClaimInv, [Next]_vars PROVE ClaimInv'
    OBVIOUS
  <1> USE DEF ClaimInv
  <1>1. client'.pc = "release" => client'.cmd.op = "StorageHealth"
    <2>1. CASE client' = client
      BY <2>1
    <2>2. CASE ClientCall
      BY <2>2 DEF ClientCall, RequestRefresh, RequestSensitive,
                  RequestStorageHealth, StartSend
    <2>3. CASE ClientContinues
      BY <2>3 DEF ClientContinues, TrySend, SendWake, ReleaseClaim,
                  AfterRefusal, Idle, Typed, ClientThread
    <2>4. CASE Drop
      BY <2>4 DEF Drop, Typed, ClientThread
    <2> QED BY <2>1, <2>2, <2>3, <2>4, Frame
  <1>2. CollectorAlive' => CollectorAlive
    <2>1. CollectorStep \/ CollectorPanics => CollectorAlive
      BY DEF CollectorAlive, CollectorStep, CollectorPanics, Wakeup, TakeResult,
             ResultsDrained, ApplyHealth, TakeCommand, CommandsDrained,
             ExecuteRefresh, ClaimPeriodic, DispatchPeriodic,
             ExecuteStorageHealth, ExecuteSetSensitive, SendUpdate
    <2> QED BY <2>1, Frame DEF CollectorAlive
  <1>3. CollectorAlive' => storage'.pc # "exit"
    <2>1. CASE storage' = storage
      BY <2>1, <1>2
    <2>2. CASE StorageStep \/ FinishJob \/ StoragePanics
      BY <2>2, <1>2
      DEF StorageStep, TakeJob, JobsClosed, WakeCollector, FinishJob,
          StoragePanics, CollectorAlive, Typed, StorageThread
    <2> QED BY <2>1, <2>2, Frame
  <1>4. BusyHasOneOwner'
    <2> SUFFICES ASSUME CollectorAlive', CollectorAlive PROVE BusyHasOneOwner'
      BY <1>2 DEF BusyHasOneOwner
    <2>o. Owners /\ Owners'
      BY OwnersByParts, PTL
    <2>b. ClaimOwners = One(storageBusy)
      BY DEF BusyHasOneOwner
    <2>c. BusyHasOneOwner /\ (CollectorAlive' => CollectorAlive)
      OBVIOUS
    <2> HIDE DEF ClaimInv
    <2>1. CASE ClientCall
      <3>1. /\ UNCHANGED <<channels, collector, storage>> /\ client.pc = "idle"
            /\ \/ client'.cmd.op # "StorageHealth" /\ storageBusy' = storageBusy
               \/ /\ client'.pc = "send" /\ client'.cmd.op = "StorageHealth"
                  /\ ~storageBusy /\ storageBusy'
        BY <2>1 DEF ClientCall, RequestRefresh, RequestSensitive, MayCall,
                    RequestStorageHealth, StartSend, Refresh, SetSensitive,
                    StorageHealth
      <3>2. ClientOwns = 0
        BY <3>1 DEF ClientOwns, One
      <3>3. \/ ClientOwns' = 0 /\ storageBusy' = storageBusy
            \/ ClientOwns' = 1 /\ ~storageBusy /\ storageBusy'
        BY <3>1 DEF ClientOwns, One
      <3>4. /\ QueueOwns' = QueueOwns /\ CollectorOwns' = CollectorOwns
            /\ StorageOwns' = StorageOwns
            /\ Len(jobs)' = Len(jobs) /\ Len(results)' = Len(results)
        BY <3>1, Unmoved DEF channels
      <3> QED BY <2>o, <2>b, <3>2, <3>3, <3>4 DEF Owners, BusyHasOneOwner, One
    <2>2. CASE TrySend
      <3>1. CASE requests = <<>> /\ requests' = Append(requests, client.cmd)
        <4>1. /\ client.pc = "send" /\ client'.pc = "wake"
              /\ requests' # <<>> /\ Head(requests') = client.cmd
          BY <2>2, <3>1, ThreadFields, Channels DEF TrySend, Typed, ClientThread
        <4>2. ClientOwns' = 0 /\ QueueOwns = 0 /\ QueueOwns' = ClientOwns
          BY <3>1, <4>1 DEF ClientOwns, QueueOwns, One
        <4> QED BY <2>2, <2>o, <4>2, <2>c, Unmoved, ClaimMoves DEF TrySend, Owners
      <3>2. CASE client.pc = "send" /\ AfterRefusal /\ requests' = requests
        <4>1. ClientOwns' = ClientOwns
          BY <3>2 DEF AfterRefusal, ClientOwns, One, Idle, Typed, ClientThread
        <4> QED BY <2>2, <3>2, <4>1, <2>c, Unmoved, ClaimMoves DEF TrySend
      <3> QED BY <2>2, <3>1, <3>2 DEF TrySend
    <2>3. CASE SendWake
      <3>1. client.pc = "wake" /\ client' = Idle
        BY <2>3 DEF SendWake
      <3>2. ClientOwns' = ClientOwns
        BY <3>1 DEF ClientOwns, One, Idle
      <3> QED BY <2>3, <3>2, <2>c, Unmoved, ClaimMoves DEF SendWake
    <2>4. CASE ReleaseClaim
      <3>1. ClientOwns = 1 /\ ClientOwns' = 0 /\ ~storageBusy'
        BY <2>4 DEF ReleaseClaim, ClaimInv, ClientOwns, One, Idle
      <3>2. /\ QueueOwns' = QueueOwns /\ CollectorOwns' = CollectorOwns
            /\ StorageOwns' = StorageOwns
            /\ Len(jobs)' = Len(jobs) /\ Len(results)' = Len(results)
        BY <2>4, Unmoved DEF ReleaseClaim, channels
      <3> QED BY <2>o, <2>b, <3>1, <3>2 DEF Owners, BusyHasOneOwner, One
    <2>5. CASE Poll \/ Drop
      <3>1. ClientOwns' = ClientOwns
        BY <2>5 DEF Poll, Drop, ClientOwns, One, Typed, ClientThread
      <3> QED BY <2>5, <3>1, <2>c, Unmoved, ClaimMoves DEF Poll, Drop
    <2>6. CASE \/ Wakeup \/ ResultsDrained \/ ApplyHealth \/ CommandsDrained
               \/ ExecuteRefresh \/ ExecuteSetSensitive \/ SendUpdate
      <3>a. \/ collector.pc \notin {"execute", "dispatch"}
            \/ collector.pc = "execute" /\ collector.cmd.op # "StorageHealth"
        BY <2>6
        DEF Wakeup, ResultsDrained, ApplyHealth, CommandsDrained, ExecuteRefresh,
            ExecuteSetSensitive, SendUpdate
      <3>b. CollectorOwns = 0
        BY <3>a DEF CollectorOwns, One
      <3>c. collector'.pc \in {"recv", "results", "commands", "claim", "send"}
        <4>1. collector.next \in {"results", "commands"}
          BY ThreadFields DEF Typed
        <4>2. CASE Wakeup \/ ResultsDrained \/ CommandsDrained
          BY <4>2 DEF Wakeup, ResultsDrained, CommandsDrained, Goto, Exit, At,
                      CollectorAlive, Typed, CollectorThread
        <4>3. CASE ApplyHealth \/ ExecuteSetSensitive
          BY <4>3 DEF ApplyHealth, ExecuteSetSensitive, Prepare, At
        <4>4. CASE ExecuteRefresh
          BY <4>4 DEF ExecuteRefresh, At
        <4>5. CASE SendUpdate
          BY <4>5, <4>1 DEF SendUpdate, Exit, At, CollectorAlive
        <4> QED BY <2>6, <4>2, <4>3, <4>4, <4>5
      <3>d. CollectorOwns' = 0
        BY <3>c DEF CollectorOwns, One
      <3>1. CollectorOwns = 0 /\ CollectorOwns' = 0
        BY <3>b, <3>d
      <3>2. /\ UNCHANGED <<requests, jobs, results, storageBusy, client, storage>>
        BY <2>6
        DEF Wakeup, ResultsDrained, ApplyHealth, CommandsDrained, ExecuteRefresh,
            ExecuteSetSensitive, SendUpdate, Exit, At, CollectorAlive, channels
      <3> QED BY <3>1, <3>2, <2>c, Unmoved, ClaimMoves
    <2>7. CASE TakeResult
      <3>1. /\ results # <<>> /\ results' = Tail(results) /\ ~storageBusy'
            /\ UNCHANGED <<requests, jobs, client, storage>>
        BY <2>7 DEF TakeResult
      <3>2. CollectorOwns = 0 /\ CollectorOwns' = 0
        BY <2>7 DEF TakeResult, CollectorOwns, One, Typed, CollectorThread
      <3>3. Len(results)' = Len(results) - 1 /\ Len(results) > 0
        BY <3>1, Channels DEF Typed
      <3>4. /\ ClientOwns' = ClientOwns /\ QueueOwns' = QueueOwns
            /\ StorageOwns' = StorageOwns /\ Len(jobs)' = Len(jobs)
        BY <3>1, Unmoved
      <3> QED BY <2>o, <2>b, <3>1, <3>2, <3>3, <3>4
              DEF Owners, BusyHasOneOwner, One
    <2>8. CASE TakeCommand
      <3>1. /\ requests # <<>> /\ requests' = Tail(requests)
            /\ collector.pc = "commands"
            /\ collector'.pc = "execute" /\ collector'.cmd = Head(requests)
        BY <2>8 DEF TakeCommand, Typed, CollectorThread
      <3>2. Len(requests) <= 1 /\ Len(requests) > 0 /\ Len(requests) \in Nat
        BY <3>1, Channels DEF Typed
      <3>3. requests' = <<>>
        <4>1. /\ requests' \in Seq(Command)
              /\ Len(requests') = Len(requests) - 1
          BY <3>1, Channels DEF Typed
        <4>2. Len(requests') = 0
          BY <4>1, <3>2
        <4> QED BY <4>1, <4>2, Channels
      <3>4. /\ CollectorOwns = 0 /\ QueueOwns' = 0
            /\ CollectorOwns' = QueueOwns
        BY <3>1, <3>3 DEF CollectorOwns, QueueOwns, One
      <3> QED BY <2>8, <2>o, <3>4, <2>c, Unmoved, ClaimMoves
              DEF TakeCommand, Owners
    <2>9. CASE ClaimPeriodic
      <3>1. CollectorOwns = 0 /\ collector' = [collector EXCEPT !.pc = collector'.pc]
            /\ UNCHANGED <<channels, client, storage>>
        BY <2>9 DEF ClaimPeriodic, Goto, CollectorOwns, One, Typed, CollectorThread
      <3>2. \/ CollectorOwns' = 0 /\ storageBusy' = storageBusy
            \/ CollectorOwns' = 1 /\ ~storageBusy /\ storageBusy'
        BY <2>9 DEF ClaimPeriodic, Goto, CollectorOwns, One, Typed, CollectorThread
      <3>3. /\ ClientOwns' = ClientOwns /\ QueueOwns' = QueueOwns
            /\ StorageOwns' = StorageOwns
            /\ Len(jobs)' = Len(jobs) /\ Len(results)' = Len(results)
        BY <3>1, Unmoved DEF channels
      <3> QED BY <2>o, <2>b, <3>1, <3>2, <3>3 DEF Owners, BusyHasOneOwner, One
    <2>10. CASE DispatchPeriodic \/ ExecuteStorageHealth
      <3>1. /\ CollectorOwns = 1 /\ CollectorOwns' = 0
            /\ UNCHANGED <<requests, results, client, storage>>
        <4>1. CASE DispatchPeriodic
          BY <4>1
          DEF DispatchPeriodic, SendJob, Goto, Exit, At, CollectorAlive,
              CollectorOwns, One, Typed, CollectorThread
        <4>2. CASE ExecuteStorageHealth
          <5>1. CollectorOwns = 1
            BY <4>2 DEF ExecuteStorageHealth, CollectorOwns, One
          <5>2. collector'.pc \in {"commands", "send"}
            <6>1. \/ Prepare(Answer(collector.cmd, base), "commands")
                  \/ collector' = At("commands")
                  \/ collector' = At("exit")
              BY <4>2 DEF ExecuteStorageHealth, SendJob, Exit
            <6>2. CASE Prepare(Answer(collector.cmd, base), "commands")
              BY <6>2 DEF Prepare, At
            <6>3. CASE collector' = At("commands")
              BY <6>3 DEF At
            <6>4. CASE collector' = At("exit")
              BY <6>4 DEF At, CollectorAlive
            <6> QED BY <6>1, <6>2, <6>3, <6>4
          <5>3. CollectorOwns' = 0
            BY <5>2 DEF CollectorOwns, One
          <5>4. UNCHANGED <<requests, results, client, storage>>
            BY <4>2 DEF ExecuteStorageHealth, SendJob, Exit, At, CollectorAlive
          <5> QED BY <5>1, <5>3, <5>4
        <4> QED BY <2>10, <4>1, <4>2
      <3>2. \/ ~storageBusy' /\ jobs' = jobs
            \/ /\ storageBusy' = storageBusy
               /\ \E job \in Job : jobs' = Append(jobs, job)
        BY <2>10, ThreadFields, Constructors
        DEF DispatchPeriodic, ExecuteStorageHealth, SendJob, Typed
      <3>3. \/ ~storageBusy' /\ Len(jobs)' = Len(jobs)
            \/ storageBusy' = storageBusy /\ Len(jobs)' = Len(jobs) + 1
        BY <3>2, Channels DEF Typed
      <3>4. /\ ClientOwns' = ClientOwns /\ QueueOwns' = QueueOwns
            /\ StorageOwns' = StorageOwns /\ Len(results)' = Len(results)
        BY <3>1, Unmoved
      <3> QED BY <2>o, <2>b, <3>1, <3>3, <3>4 DEF Owners, BusyHasOneOwner, One
    <2>11. CASE TakeJob
      <3>1. /\ jobs # <<>> /\ jobs' = Tail(jobs)
            /\ storage.pc = "idle" /\ storage'.pc = "collecting"
        BY <2>11 DEF TakeJob
      <3>2. StorageOwns = 0 /\ StorageOwns' = 1
        BY <3>1 DEF StorageOwns, One
      <3>3. Len(jobs)' = Len(jobs) - 1
        BY <3>1, Channels DEF Typed
      <3> QED BY <2>11, <2>o, <3>2, <3>3, <2>c, Unmoved, ClaimMoves
              DEF TakeJob, Owners
    <2>12. CASE JobsClosed \/ WakeCollector \/ StoragePanics
      <3>1. StorageOwns' = StorageOwns
        BY <2>12 DEF JobsClosed, WakeCollector, StoragePanics, StorageOwns, One,
                     Typed, StorageThread
      <3> QED BY <2>12, <3>1, <2>c, Unmoved, ClaimMoves
              DEF JobsClosed, WakeCollector, StoragePanics, channels
    <2>13. CASE FinishJob
      <3>1. /\ storage.job \in Job /\ results' = Append(results, storage.job)
            /\ storage.pc = "collecting" /\ storage'.pc = "wake"
        BY <2>13, ThreadFields DEF FinishJob, Typed
      <3>2. StorageOwns = 1 /\ StorageOwns' = 0
        BY <3>1 DEF StorageOwns, One
      <3>3. Len(results)' = Len(results) + 1
        BY <3>1, Channels DEF Typed
      <3> QED BY <2>13, <2>o, <3>2, <3>3, <2>c, Unmoved, ClaimMoves
              DEF FinishJob, Owners
    <2>14. CASE CollectorPanics
      BY <2>14 DEF CollectorPanics, Exit, At, CollectorAlive
    <2>15. CASE UNCHANGED vars
      BY <2>15, <2>c, Unmoved, ClaimMoves DEF vars, channels
    <2> QED
      BY <2>1, <2>2, <2>3, <2>4, <2>5, <2>6, <2>7, <2>8, <2>9, <2>10, <2>11,
         <2>12, <2>13, <2>14, <2>15
      DEF Next, ClientContinues, CollectorStep, StorageStep
  <1> QED BY <1>1, <1>3, <1>4

(* For any number of devices: while the collector thread lives,            *)
(* storage_busy is set exactly while one party holds the claim, so there   *)
(* is never a second health job and no path forgets to give the claim back.*)
THEOREM ClaimHasOneOwner == Spec => []BusyHasOneOwner
  <1>1. TypeOK => Typed
    BY DEF TypeOK, Typed, ClientThread, CollectorThread, StorageThread
  <1>2. (TypeOK => Typed)'
    BY <1>1, PTL
  <1>3. Init => ClaimInv
    BY ClaimInit
  <1>4. TypeOK /\ TypeOK' /\ ClaimInv /\ [Next]_vars => ClaimInv'
    BY <1>1, <1>2, ClaimStep
  <1>5. ClaimInv => BusyHasOneOwner
    BY DEF ClaimInv
  <1> QED BY <1>3, <1>4, <1>5, TypeCorrect, PTL DEF Spec

(* A thread that ended with a job still owns its claim. *)
LEMMA OwnedStorageLives == Typed /\ ClaimInv => JobFindsStorage
  <1> SUFFICES ASSUME Typed, ClaimInv, CollectorAlive, CollectorOwns = 1
               PROVE  StorageAlive
    BY DEF JobFindsStorage, CollectorOwns, CollectorAlive, One
  <1>1. Owners /\ ClaimOwners = One(storageBusy)
    BY OwnersByParts DEF ClaimInv, BusyHasOneOwner
  <1>2. StorageOwns = 0
    BY <1>1 DEF Owners
  <1> QED BY <1>2 DEF StorageAlive, StorageOwns, One, ClaimInv

(* A storage job always finds the storage thread there to take it: a       *)
(* thread that panicked keeps its claim, so that the collector is never    *)
(* asked for another job and the monitor survives.                         *)
THEOREM JobAlwaysFindsStorage == Spec => []JobFindsStorage
  <1>1. TypeOK => Typed
    BY DEF TypeOK, Typed, ClientThread, CollectorThread, StorageThread
  <1>2. (TypeOK => Typed)'
    BY <1>1, PTL
  <1>3. TypeOK /\ TypeOK' /\ ClaimInv /\ [Next]_vars => ClaimInv'
    BY <1>1, <1>2, ClaimStep
  <1> QED BY ClaimInit, <1>1, <1>3, OwnedStorageLives, TypeCorrect, PTL DEF Spec
-----------------------------------------------------------------------------
(* Wake-ups *)

(* The collector will look at its results again before it sleeps. *)
Draining ==
    \/ collector.pc \in {"results", "apply", "exit"}
    \/ collector.pc = "send" /\ collector.next = "results"

(* NoLostWakeup made inductive: a result that was queued after the         *)
(* collector drained its results has a wake-up queued or on its way.       *)
WakeInv ==
    /\ collector.pc = "recv" /\ requests # <<>> => wake # <<>> \/ client.pc = "wake"
    /\ results # <<>> => Draining \/ wake # <<>> \/ storage.pc = "wake"

(* No message waits when the threads start. *)
LEMMA WakeInit == Init => WakeInv
  BY DEF Init, WakeInv

(* A sender wakes after it sends, and the collector thread looks at both *)
(* channels between a wake-up and its next sleep.                        *)
LEMMA WakeStep == Typed /\ Typed' /\ WakeInv /\ [Next]_vars => WakeInv'
  <1> SUFFICES ASSUME Typed, Typed', WakeInv, [Next]_vars PROVE WakeInv'
    OBVIOUS
  <1>a. \A S : \A s \in Seq(S), e \in S : Append(s, e) # <<>>
    <2> SUFFICES ASSUME NEW S, NEW s \in Seq(S), NEW e \in S
                 PROVE  Append(s, e) # <<>>
      OBVIOUS
    <2>1. Append(s, e) \in Seq(S) /\ Len(Append(s, e)) = Len(s) + 1 /\ Len(s) \in Nat
      BY Channels
    <2> QED BY <2>1, EmptyChannel
  <1>1. CASE ClientCall \/ ReleaseClaim
    BY <1>1
    DEF ClientCall, RequestRefresh, RequestSensitive, RequestStorageHealth,
        MayCall, ReleaseClaim, channels, WakeInv, Draining
  <1>2. CASE TrySend
    BY <1>2 DEF TrySend, Typed, ClientThread, WakeInv, Draining
  <1>3. CASE SendWake
    <2>1. CollectorAlive => wake' # <<>>
      BY <1>3, <1>a DEF SendWake, Typed
    <2> QED BY <1>3, <2>1 DEF SendWake, CollectorAlive, WakeInv, Draining
  <1>4. CASE Poll
    BY <1>4 DEF Poll, WakeInv, Draining
  <1>5. CASE Drop
    <2>1. wake # <<>> => wake' # <<>>
      BY <1>5, <1>a DEF Drop, Typed
    <2> QED BY <1>5, <2>1 DEF Drop, WakeInv, Draining
  <1>6. CASE CollectorStep \/ CollectorPanics
    <2>1. CASE Exit
      BY <2>1 DEF Exit, At, WakeInv, Draining
    <2>2. CASE Wakeup /\ ~Exit
      BY <2>2 DEF Wakeup, Goto, Typed, CollectorThread, WakeInv, Draining
    <2>3. CASE TakeResult
      BY <2>3 DEF TakeResult, Typed, CollectorThread, WakeInv, Draining
    <2>4. CASE ResultsDrained
      BY <2>4 DEF ResultsDrained, Goto, channels, Typed, CollectorThread,
                  WakeInv, Draining
    <2>5. CASE ApplyHealth
      BY <2>5 DEF ApplyHealth, Prepare, At, channels, WakeInv, Draining
    <2>6. CASE TakeCommand
      BY <2>6 DEF TakeCommand, Typed, CollectorThread, WakeInv, Draining
    <2>7. CASE CommandsDrained /\ ~Exit
      BY <2>7 DEF CommandsDrained, Goto, Typed, CollectorThread, WakeInv, Draining
    <2>8. CASE ExecuteRefresh \/ ExecuteSetSensitive
      BY <2>8 DEF ExecuteRefresh, ExecuteSetSensitive, Prepare, At, channels,
                  WakeInv, Draining
    <2>9. CASE ClaimPeriodic
      BY <2>9 DEF ClaimPeriodic, Goto, channels, Typed, CollectorThread,
                  WakeInv, Draining
    <2>10. CASE DispatchPeriodic /\ ~Exit
      BY <2>10 DEF DispatchPeriodic, SendJob, Goto, Typed, CollectorThread,
                   WakeInv, Draining
    <2>11. CASE ExecuteStorageHealth /\ ~Exit
      <3>1. collector.pc = "execute" /\ UNCHANGED <<requests, wake, results, storage>>
        BY <2>11 DEF ExecuteStorageHealth, SendJob
      <3>2. \/ Prepare(Answer(collector.cmd, base), "commands")
            \/ collector' = At("commands")
        BY <2>11 DEF ExecuteStorageHealth, SendJob
      <3>3. collector'.pc \in {"send", "commands"}
        <4>1. CASE Prepare(Answer(collector.cmd, base), "commands")
          BY <4>1 DEF Prepare, At
        <4>2. CASE collector' = At("commands")
          BY <4>2 DEF At
        <4> QED BY <3>2, <4>1, <4>2
      <3> QED BY <3>1, <3>3 DEF WakeInv, Draining
    <2>12. CASE SendUpdate /\ ~Exit
      BY <2>12, ThreadFields DEF SendUpdate, At, Typed, WakeInv, Draining
    <2> QED
      BY <1>6, <2>1, <2>2, <2>3, <2>4, <2>5, <2>6, <2>7, <2>8, <2>9, <2>10,
         <2>11, <2>12
      DEF CollectorStep, CollectorPanics
  <1>7. CASE TakeJob \/ JobsClosed \/ StoragePanics
    BY <1>7 DEF TakeJob, JobsClosed, StoragePanics, channels, Typed,
                StorageThread, WakeInv, Draining
  <1>8. CASE WakeCollector
    <2>1. CollectorAlive => wake' # <<>>
      BY <1>8, <1>a DEF WakeCollector, Typed
    <2> QED BY <1>8, <2>1 DEF WakeCollector, CollectorAlive, WakeInv, Draining
  <1>9. CASE FinishJob
    BY <1>9 DEF FinishJob, WakeInv, Draining
  <1>10. CASE UNCHANGED vars
    BY <1>10 DEF vars, channels, WakeInv, Draining
  <1> QED
    BY <1>1, <1>2, <1>3, <1>4, <1>5, <1>6, <1>7, <1>8, <1>9, <1>10
    DEF Next, ClientContinues, StorageStep

(* The collector thread never sleeps in wake_rx.recv while a command or a  *)
(* storage result waits for it and nobody is about to wake it.             *)
THEOREM WakeupsAreNotLost == Spec => []NoLostWakeup
  <1>1. TypeOK => Typed
    BY DEF TypeOK, Typed, ClientThread, CollectorThread, StorageThread
  <1>2. (TypeOK => Typed)'
    BY <1>1, PTL
  <1>3. TypeOK /\ TypeOK' /\ WakeInv /\ [Next]_vars => WakeInv'
    BY <1>1, <1>2, WakeStep
  <1>4. WakeInv => NoLostWakeup
    BY DEF WakeInv, Draining, NoLostWakeup
  <1> QED BY WakeInit, <1>3, <1>4, TypeCorrect, PTL DEF Spec
-----------------------------------------------------------------------------
(* The worker implements its contract *)

(* The contract's operations of the collector are the worker's. *)
LEMMA SameData ==
    /\ Contract!Command = Command
    /\ Contract!NewCollectors = NewCollectors
    /\ \A ids : Contract!StorageHealth(ids) = StorageHealth(ids)
    /\ \A cmd, c : Contract!Answer(cmd, c) = Answer(cmd, c)
    /\ \A c, ids : Contract!JobFor(c, ids) = JobFor(c, ids)
    /\ \A c : Contract!PeriodicJob(c) = PeriodicJob(c)
    /\ \A c, force : Contract!Refreshed(c, force) = Refreshed(c, force)
    /\ \A c, include : Contract!SensitiveSet(c, include) = SensitiveSet(c, include)
    /\ \A c, job, wish :
          Contract!HealthApplied(c, job, wish) = HealthApplied(c, job, wish)
  BY DEF Contract!Command, Command, Contract!Operation, Operation,
         Contract!NewCollectors, NewCollectors, Contract!Collector, Collector,
         Contract!StorageHealth, StorageHealth, Contract!Answer, Answer,
         Contract!JobFor, JobFor, Contract!PeriodicJob, PeriodicJob,
         Contract!Refreshed, Refreshed, Contract!FullDiscovery, FullDiscovery,
         Contract!SensitiveSet, SensitiveSet,
         Contract!HealthApplied, HealthApplied

(* Queues of at most one message, and messages put at their end. *)
LEMMA Short ==
  \A S : \A s \in Seq(S) :
     /\ s \o <<>> = s /\ <<>> \o s = s
     /\ Len(s) <= 1 /\ s # <<>> => s = <<Head(s)>> /\ Tail(s) = <<>>
     /\ \A e \in S : /\ s \o <<e>> = Append(s, e)
                     /\ s # <<>> => Tail(s \o <<e>>) = Tail(s) \o <<e>>
                     /\ s = <<>> => Append(s, e) = <<e>>
                     /\ Append(s, e) # <<>>
                     /\ <<e>> \in Seq(S) /\ <<e>> # <<>>
  <1> SUFFICES ASSUME NEW S, NEW s \in Seq(S)
               PROVE  /\ s \o <<>> = s /\ <<>> \o s = s
                      /\ Len(s) <= 1 /\ s # <<>> => s = <<Head(s)>> /\ Tail(s) = <<>>
                      /\ \A e \in S : /\ s \o <<e>> = Append(s, e)
                                      /\ s # <<>> => Tail(s \o <<e>>) = Tail(s) \o <<e>>
                                      /\ s = <<>> => Append(s, e) = <<e>>
                                      /\ Append(s, e) # <<>>
                                      /\ <<e>> \in Seq(S) /\ <<e>> # <<>>
    OBVIOUS
  <1>1. s \o <<>> = s /\ <<>> \o s = s
    BY ConcatEmptySeq
  <1>2. Len(s) <= 1 /\ s # <<>> => s = <<Head(s)>> /\ Tail(s) = <<>>
    <2> SUFFICES ASSUME Len(s) <= 1, s # <<>> PROVE s = <<Head(s)>> /\ Tail(s) = <<>>
      OBVIOUS
    <2>1. Len(s) = 1
      <3>1. Len(s) \in Nat /\ Len(s) # 0
        BY Channels
      <3> QED BY <3>1
    <2>2. Tail(s) \in Seq(S) /\ Len(Tail(s)) = 0
      BY <2>1, HeadTailProperties
    <2>3. Tail(s) = <<>>
      BY <2>2, Channels
    <2>4. s = <<Head(s)>>
      BY <2>1
    <2> QED BY <2>3, <2>4
  <1>3. ASSUME NEW e \in S
        PROVE  /\ s \o <<e>> = Append(s, e)
               /\ s # <<>> => Tail(s \o <<e>>) = Tail(s) \o <<e>>
               /\ s = <<>> => Append(s, e) = <<e>>
               /\ Append(s, e) # <<>>
               /\ <<e>> \in Seq(S) /\ <<e>> # <<>>
    <2>1. Append(s, e) = s \o <<e>>
      BY AppendIsConcat
    <2>2. Append(s, e) # <<>>
      BY AppendProperties
    <2>3. s # <<>> => Tail(s) \in Seq(S) /\ Tail(Append(s, e)) = Append(Tail(s), e)
      BY HeadTailAppend, HeadTailProperties
    <2>4. s # <<>> => Append(Tail(s), e) = Tail(s) \o <<e>>
      BY <2>3, AppendIsConcat
    <2>5. s = <<>> => Append(s, e) = <<e>>
      OBVIOUS
    <2>6. <<e>> \in Seq(S) /\ <<e>> # <<>>
      OBVIOUS
    <2> QED BY <2>1, <2>2, <2>3, <2>4, <2>5, <2>6
  <1> QED BY <1>1, <1>2, <1>3

(* Where the one storage-health job of a live monitor can be. *)
JobPlace ==
    /\ results # <<>> =>
          /\ jobs = <<>> /\ storage.pc \notin {"collecting", "panicked"}
          /\ results = <<Head(results)>> /\ Tail(results) = <<>>
          /\ Health = results /\ storageBusy /\ ~TentativeClaim
    /\ jobs # <<>> =>
          /\ results = <<>> /\ storage.pc \notin {"collecting", "panicked"}
          /\ jobs = <<Head(jobs)>> /\ Tail(jobs) = <<>>
          /\ Health = jobs /\ storageBusy /\ ~TentativeClaim
    /\ storage.pc \in {"collecting", "panicked"} =>
          /\ results = <<>> /\ jobs = <<>>
          /\ Health = <<storage.job>> /\ storageBusy /\ ~TentativeClaim
    /\ /\ jobs = <<>> /\ results = <<>>
       /\ storage.pc \notin {"collecting", "panicked"}
       => Health = <<>>

(* The job is where its claim is: a second one would need a second claim. *)
LEMMA OneJob == Typed /\ BusyHasOneOwner /\ CollectorAlive => JobPlace
  <1> SUFFICES ASSUME Typed, BusyHasOneOwner, CollectorAlive PROVE JobPlace
    OBVIOUS
  <1>1. Owners /\ ClaimOwners = One(storageBusy)
    BY OwnersByParts DEF BusyHasOneOwner
  <1>2. /\ jobs \in Seq(Job) /\ results \in Seq(Job) /\ storage.job \in Job
        /\ <<storage.job>> \in Seq(Job)
    BY ThreadFields, Short DEF Typed
  <1>3. TentativeClaim => ClientOwns = 1 \/ CollectorOwns = 1
    BY DEF TentativeClaim, ClientOwns, CollectorOwns, One
  <1>4. storage.pc \in {"collecting", "panicked"} <=> StorageOwns = 1
    BY DEF StorageOwns, One
  <1>5. /\ jobs # <<>> <=> Len(jobs) > 0
        /\ results # <<>> <=> Len(results) > 0
    BY <1>2, Channels
  <1>6. Health = jobs \o OnlyIf(StorageOwns = 1, <<storage.job>>) \o results
    BY <1>4 DEF Health, RunningJobs, OnlyIf
  <1>7. CASE results # <<>>
    <2>1. /\ Len(jobs) = 0 /\ StorageOwns = 0 /\ Len(results) = 1 /\ storageBusy
          /\ ~TentativeClaim
      BY <1>1, <1>3, <1>5, <1>7 DEF Owners
    <2>2. jobs = <<>> /\ results = <<Head(results)>> /\ Tail(results) = <<>>
      BY <1>2, <1>5, <1>7, <2>1, Short
    <2>3. Health = results
      BY <1>2, <1>6, <2>1, <2>2, Short, EmptyChannel DEF OnlyIf
    <2> QED BY <1>4, <1>7, <2>1, <2>2, <2>3 DEF JobPlace
  <1>8. CASE jobs # <<>>
    <2>1. /\ Len(results) = 0 /\ StorageOwns = 0 /\ Len(jobs) = 1 /\ storageBusy
          /\ ~TentativeClaim
      BY <1>1, <1>3, <1>5, <1>8 DEF Owners
    <2>2. results = <<>> /\ jobs = <<Head(jobs)>> /\ Tail(jobs) = <<>>
      BY <1>2, <1>5, <1>8, <2>1, Short
    <2>3. Health = jobs
      BY <1>2, <1>6, <2>1, <2>2, Short DEF OnlyIf
    <2> QED BY <1>4, <1>8, <2>1, <2>2, <2>3 DEF JobPlace
  <1>9. CASE storage.pc \in {"collecting", "panicked"}
    <2>1. Len(results) = 0 /\ Len(jobs) = 0 /\ storageBusy /\ ~TentativeClaim
      BY <1>1, <1>3, <1>4, <1>9 DEF Owners
    <2>2. results = <<>> /\ jobs = <<>>
      BY <1>5, <2>1
    <2>3. Health = <<storage.job>>
      BY <1>2, <1>4, <1>6, <1>9, <2>2, Short DEF OnlyIf
    <2> QED BY <1>9, <2>1, <2>2, <2>3 DEF JobPlace
  <1>10. CASE jobs = <<>> /\ results = <<>> /\ storage.pc \notin {"collecting", "panicked"}
    BY <1>2, <1>4, <1>6, <1>10, Short DEF OnlyIf, JobPlace
  <1> QED BY <1>7, <1>8, <1>9, <1>10 DEF JobPlace

(* A claim taken and not yet used is the only one. *)
LEMMA OneClaim ==
  ASSUME Typed, BusyHasOneOwner, CollectorAlive,
         \/ TentativeClaim
         \/ collector.pc = "execute" /\ collector.cmd.op = "StorageHealth"
  PROVE  /\ storageBusy
         /\ jobs = <<>> /\ results = <<>> /\ Health = <<>>
         /\ storage.pc \notin {"collecting", "panicked"}
         /\ \/ client.pc \notin {"send", "release"}
            \/ client.cmd.op # "StorageHealth"
            \/ collector.pc # "dispatch"
               /\ ~(collector.pc = "execute" /\ collector.cmd.op = "StorageHealth")
  <1>1. Owners /\ ClaimOwners = One(storageBusy)
    BY OwnersByParts DEF BusyHasOneOwner
  <1>2. ClientOwns = 1 \/ CollectorOwns = 1
    BY DEF TentativeClaim, ClientOwns, CollectorOwns, One
  <1>3. /\ storageBusy /\ Len(jobs) = 0 /\ Len(results) = 0 /\ StorageOwns = 0
        /\ ClientOwns = 0 \/ CollectorOwns = 0
    BY <1>1, <1>2 DEF Owners
  <1>4. jobs = <<>> /\ results = <<>>
    BY <1>3, Channels DEF Typed
  <1>5. storage.pc \notin {"collecting", "panicked"}
    BY <1>3 DEF StorageOwns, One
  <1>6. \/ client.pc \notin {"send", "release"}
        \/ client.cmd.op # "StorageHealth"
        \/ collector.pc # "dispatch"
           /\ ~(collector.pc = "execute" /\ collector.cmd.op = "StorageHealth")
    BY <1>3 DEF ClientOwns, CollectorOwns, One
  <1> QED BY <1>3, <1>4, <1>5, <1>6, OneJob DEF JobPlace

(* The answers a client has still to receive: one in the channel, one the  *)
(* collector has prepared and cannot send yet.                             *)
AnswerPlace ==
    /\ collector.pc \notin {"claim", "dispatch", "send"} =>
          /\ Outbox = IF UpdatesOpen THEN updates ELSE <<>>
          /\ Len(Outbox) <= 1
    /\ collector.pc \in {"claim", "dispatch", "send"} =>
          Outbox = IF UpdatesOpen THEN Append(updates, collector.out) ELSE <<>>

(* A prepared answer comes after the one in the channel. *)
LEMMA Answers == Typed => AnswerPlace
  <1> SUFFICES ASSUME Typed PROVE AnswerPlace
    OBVIOUS
  <1>1. updates \in Seq(Update) /\ Len(updates) <= 1 /\ collector.out \in Update
    BY ThreadFields DEF Typed
  <1>2. Len(<<>>) <= 1
    BY EmptyChannel
  <1>3. updates \o <<>> = updates /\ updates \o <<collector.out>> = Append(updates, collector.out)
    BY <1>1, Short
  <1>4. collector.pc \notin {"claim", "dispatch", "send"} =>
          Outbox = IF UpdatesOpen THEN updates ELSE <<>>
    BY <1>3 DEF Outbox, PreparedUpdates, OnlyIf
  <1>5. collector.pc \in {"claim", "dispatch", "send"} =>
          Outbox = IF UpdatesOpen THEN Append(updates, collector.out) ELSE <<>>
    BY <1>3 DEF Outbox, PreparedUpdates, OnlyIf
  <1> QED BY <1>1, <1>2, <1>4, <1>5 DEF AnswerPlace

(* What of the contract's state a step that leaves these variables alone keeps. *)
LEMMA Kept ==
    /\ collector' = collector =>
          Doing' = Doing /\ Collected' = Collected /\ CollectorAlive' = CollectorAlive
    /\ client' = client => UpdatesOpen' = UpdatesOpen
    /\ /\ collector' = collector /\ updates' = updates
       /\ UpdatesOpen' = UpdatesOpen
       => Outbox' = Outbox
    /\ /\ jobs' = jobs /\ storage' = storage /\ results' = results
       /\ CollectorAlive' = CollectorAlive
       => Health' = Health
    /\ collector' = collector /\ storageBusy' = storageBusy /\ client' = client =>
          Claimed' = Claimed
  BY DEF Doing, Collected, CollectorAlive, UpdatesOpen, Outbox, PreparedUpdates,
         Health, RunningJobs, Claimed, TentativeClaim, OnlyIf

(* A periodic check is made only where it is enabled. *)
PeriodicInv == collector.pc \in {"claim", "dispatch"} => PeriodicHealth

(* storage_health_due is false while periodic checks are disabled. *)
LEMMA PeriodicStep == Typed /\ PeriodicInv /\ [Next]_vars => PeriodicInv'
  <1> SUFFICES ASSUME Typed, PeriodicInv, [Next]_vars PROVE PeriodicInv'
    OBVIOUS
  <1>1. CASE collector' = collector
    BY <1>1 DEF PeriodicInv
  <1>2. CASE ExecuteRefresh
    <2>1. PICK due \in HealthDue(base', collector.cmd.flag) :
             collector'.pc = IF due THEN "claim" ELSE "send"
      BY <1>2 DEF ExecuteRefresh, At
    <2>2. due => PeriodicHealth
      BY <2>1, DataAssumption DEF HealthDue
    <2> QED BY <2>1, <2>2 DEF PeriodicInv
  <1>3. CASE ClaimPeriodic
    BY <1>3 DEF ClaimPeriodic, PeriodicInv
  <1>4. CASE Exit
    BY <1>4 DEF Exit, At, PeriodicInv
  <1>5. CASE (Wakeup \/ ResultsDrained \/ CommandsDrained) /\ ~Exit
    BY <1>5 DEF Wakeup, ResultsDrained, CommandsDrained, Goto, PeriodicInv,
                Typed, CollectorThread
  <1>6. CASE TakeResult \/ TakeCommand
    BY <1>6 DEF TakeResult, TakeCommand, PeriodicInv, Typed, CollectorThread
  <1>7. CASE ApplyHealth \/ ExecuteSetSensitive
    BY <1>7 DEF ApplyHealth, ExecuteSetSensitive, Prepare, At, PeriodicInv
  <1>8. CASE DispatchPeriodic /\ ~Exit
    BY <1>8 DEF DispatchPeriodic, SendJob, Goto, PeriodicInv
  <1>9. CASE SendUpdate /\ ~Exit
    BY <1>9, ThreadFields DEF SendUpdate, At, PeriodicInv, Typed
  <1>10. CASE ExecuteStorageHealth /\ ~Exit
    <2>1. \/ Prepare(Answer(collector.cmd, base), "commands")
          \/ collector' = At("commands")
      BY <1>10 DEF ExecuteStorageHealth, SendJob
    <2>2. collector'.pc \in {"send", "commands"}
      <3>1. CASE Prepare(Answer(collector.cmd, base), "commands")
        BY <3>1 DEF Prepare, At
      <3>2. CASE collector' = At("commands")
        BY <3>2 DEF At
      <3> QED BY <2>1, <3>1, <3>2
    <2> QED BY <2>2 DEF PeriodicInv
  <1>11. CollectorPanics => Exit
    BY DEF CollectorPanics
  <1> QED BY <1>1, <1>2, <1>3, <1>4, <1>5, <1>6, <1>7, <1>8, <1>9, <1>10, <1>11,
             Frame
          DEF CollectorStep

(* One step of the worker is a step of its contract, or none. *)
Simulates == [Contract!ContractNext]_(Contract!contract)

(* A step the contract does not show. *)
LEMMA Silent ==
  ASSUME UNCHANGED <<requests, Doing, Health, Collected, Outbox, Claimed,
                     desiredSensitive, base, UpdatesOpen, CollectorAlive>>
  PROVE  Simulates
  BY DEF Simulates, Contract!contract

(* The collector thread ends, with no answer prepared or nobody to receive it. *)
LEMMA Ends ==
  ASSUME Typed, Typed', Exit, CollectorAlive,
         UNCHANGED <<updates, client, desiredSensitive, base>>,
         collector.pc \notin {"claim", "dispatch", "send"} \/ ~UpdatesOpen
  PROVE  Simulates
  <1>1. /\ collector'.pc = "exit" /\ requests' = <<>>
    BY DEF Exit, At
  <1>2. ~CollectorAlive' /\ Health' = <<>> /\ ~Claimed'
    BY <1>1 DEF CollectorAlive, Health, Claimed, OnlyIf
  <1>3. Doing' = <<>> /\ Collected' = <<>>
    BY <1>1 DEF Doing, Collected, OnlyIf
  <1>4. UpdatesOpen' = UpdatesOpen
    BY Kept
  <1>5. AnswerPlace /\ AnswerPlace'
    BY Answers, PTL
  <1>6. Outbox' = Outbox
    BY <1>1, <1>4, <1>5 DEF AnswerPlace
  <1>7. Claimed' = FALSE /\ CollectorAlive' = FALSE
    BY <1>2
  <1>8. Contract!Stop
    BY <1>1, <1>2, <1>3, <1>4, <1>6, <1>7 DEF Contract!Stop
  <1> QED BY <1>8 DEF Simulates, Contract!ContractNext

(* Every step of the client is one of the contract's client, or silent. *)
LEMMA ClientSimulates ==
  ASSUME Typed, Typed', ClaimInv, ClaimInv',
         ClientCall \/ ClientContinues \/ Poll \/ Drop
  PROVE  Simulates
  <1>t. BusyHasOneOwner /\ (client.pc = "release" => client.cmd.op = "StorageHealth")
    BY DEF ClaimInv
  <1>1. CASE \E force \in BOOLEAN : RequestRefresh(force)
    <2>1. /\ client.pc = "idle" /\ client'.pc = "send" /\ client'.cmd.op = "Refresh"
          /\ UNCHANGED <<channels, storageBusy, desiredSensitive, collector,
                         storage, base>>
      BY <1>1 DEF RequestRefresh, MayCall, StartSend, Refresh
    <2>2. UpdatesOpen' = UpdatesOpen /\ Claimed' = Claimed
      BY <2>1 DEF UpdatesOpen, Claimed, TentativeClaim, CollectorAlive
    <2> QED BY <2>1, <2>2, Kept, Silent DEF channels
  <1>2. CASE \E include \in Wishes : RequestSensitive(include)
    <2>1. PICK include \in BOOLEAN : RequestSensitive(include)
      BY <1>2, WorkerAssumption
    <2>2. /\ client.pc = "idle" /\ client'.pc = "send" /\ client'.cmd.op = "SetSensitive"
          /\ desiredSensitive' = include
          /\ UNCHANGED <<channels, storageBusy, collector, storage, base>>
      BY <2>1 DEF RequestSensitive, MayCall, StartSend, SetSensitive
    <2>3. UpdatesOpen /\ UpdatesOpen' = UpdatesOpen /\ Claimed' = Claimed
      BY <2>2 DEF UpdatesOpen, Claimed, TentativeClaim, CollectorAlive
    <2>4. Contract!Wish(include)
      BY <2>2, <2>3, Kept DEF Contract!Wish, channels
    <2> QED BY <2>4 DEF Simulates, Contract!ContractNext
  <1>3. CASE \E ids \in SUBSET Devices : RequestStorageHealth(ids)
    <2>1. /\ client.pc = "idle" /\ client'.pc = "send"
          /\ client'.cmd.op = "StorageHealth" /\ ~storageBusy
          /\ UNCHANGED <<channels, desiredSensitive, collector, storage, base>>
      BY <1>3 DEF RequestStorageHealth, MayCall, StartSend, StorageHealth
    <2>2. UpdatesOpen' = UpdatesOpen /\ Claimed' = Claimed
      BY <2>1 DEF UpdatesOpen, Claimed, TentativeClaim, CollectorAlive
    <2> QED BY <2>1, <2>2, Kept, Silent DEF channels
  <1>4. CASE TrySend
    <2>u. /\ client.pc = "send" /\ UpdatesOpen /\ UpdatesOpen'
          /\ UNCHANGED <<wake, updates, jobs, results, storageBusy,
                         desiredSensitive, collector, storage, base>>
      BY <1>4 DEF TrySend, AfterRefusal, UpdatesOpen, Idle, Typed, ClientThread
    <2>1. CASE /\ CollectorAlive /\ requests = <<>>
               /\ requests' = Append(requests, client.cmd)
               /\ client' = [client EXCEPT !.pc = "wake"]
      <3>1. client.cmd \in Command /\ client'.pc = "wake"
        BY <2>1, ThreadFields DEF Typed, ClientThread
      <3>2. requests' = <<client.cmd>>
        BY <2>1, <3>1, Short DEF Typed
      <3>3. ASSUME client.cmd.op = "StorageHealth"
            PROVE  ~Claimed /\ Claimed'
        <4>1. TentativeClaim
          BY <2>u, <3>3 DEF TentativeClaim
        <4>2. storageBusy /\ collector.pc # "dispatch"
          BY <1>t, <2>u, <2>1, <3>3, <4>1, OneClaim
        <4>3. ~TentativeClaim'
          BY <2>u, <3>1, <4>2 DEF TentativeClaim
        <4> QED BY <2>u, <2>1, <4>1, <4>2, <4>3 DEF Claimed, CollectorAlive
      <3>4. client.cmd.op # "StorageHealth" => Claimed' = Claimed
        BY <2>u, <3>1 DEF Claimed, TentativeClaim, CollectorAlive
      <3>5. Claimed \in BOOLEAN /\ Claimed' \in BOOLEAN
        BY DEF Claimed
      <3>6. Contract!Submit(client.cmd)
        BY <2>u, <2>1, <3>2, <3>3, <3>4, <3>5, Kept DEF Contract!Submit, Contract!Accepts
      <3> QED BY <3>1, <3>6, SameData DEF Simulates, Contract!ContractNext
    <2>2. CASE AfterRefusal /\ requests' = requests
      <3>1. TentativeClaim' = TentativeClaim
        BY <2>u, <2>2 DEF AfterRefusal, TentativeClaim, Idle, Typed, ClientThread
      <3>2. Claimed' = Claimed
        BY <2>u, <3>1 DEF Claimed, CollectorAlive
      <3> QED BY <2>u, <2>2, <3>2, Kept, Silent
    <2> QED BY <1>4, <2>1, <2>2 DEF TrySend
  <1>5. CASE SendWake
    <2>u. /\ client.pc = "wake" /\ UpdatesOpen /\ UpdatesOpen'
          /\ UNCHANGED <<requests, updates, jobs, results, storageBusy,
                         desiredSensitive, collector, storage, base>>
      BY <1>5 DEF SendWake, AfterRefusal, UpdatesOpen, Idle, Typed, ClientThread
    <2>1. Claimed' = Claimed
      BY <1>5, <2>u DEF SendWake, Claimed, TentativeClaim, CollectorAlive, Idle
    <2> QED BY <2>u, <2>1, Kept, Silent
  <1>6. CASE ReleaseClaim
    <2>1. /\ client.pc = "release" /\ client.cmd.op = "StorageHealth"
          /\ client'.pc = "idle" /\ ~storageBusy'
          /\ UNCHANGED <<channels, desiredSensitive, collector, storage, base>>
      BY <1>t, <1>6 DEF ReleaseClaim, Idle
    <2>2. UpdatesOpen' = UpdatesOpen /\ Claimed' = Claimed
      BY <2>1 DEF UpdatesOpen, Claimed, TentativeClaim, CollectorAlive
    <2> QED BY <2>1, <2>2, Kept, Silent DEF channels
  <1>7. CASE Poll
    <2>1. /\ UpdatesOpen /\ updates # <<>> /\ updates' = Tail(updates)
          /\ UNCHANGED <<requests, jobs, results, storageBusy, desiredSensitive,
                         client, collector, storage, base>>
      BY <1>7 DEF Poll, UpdatesOpen
    <2>a. AnswerPlace /\ AnswerPlace'
      BY Answers, PTL
    <2>2. AnswerPlace /\ AnswerPlace' /\ UpdatesOpen'
      BY <2>1, <2>a, Kept
    <2>3. updates \in Seq(Update) /\ collector.out \in Update
      BY ThreadFields DEF Typed
    <2>4. Append(updates, collector.out) # <<>>
          /\ Tail(Append(updates, collector.out)) = Append(Tail(updates), collector.out)
      BY <2>1, <2>3, HeadTailAppend, AppendProperties
    <2>5. Outbox # <<>> /\ Outbox' = Tail(Outbox)
      BY <2>1, <2>2, <2>4 DEF AnswerPlace
    <2>6. Contract!Receive
      BY <2>1, <2>2, <2>5, Kept DEF Contract!Receive
    <2> QED BY <2>6 DEF Simulates, Contract!ContractNext
  <1>8. CASE Drop
    <2>u. UNCHANGED <<requests, jobs, results, storageBusy, desiredSensitive,
                      collector, storage, base>>
      BY <1>8 DEF Drop
    <2>1. client.pc \in {"idle", "dropRequests", "dropUpdates"} /\ UpdatesOpen
          /\ client'.pc \in {"dropRequests", "dropUpdates", "gone"}
      BY <1>8 DEF Drop, Typed, ClientThread, UpdatesOpen
    <2>2. Claimed' = Claimed
      BY <2>u, <2>1 DEF Claimed, TentativeClaim, CollectorAlive
    <2>3. CASE client.pc # "dropUpdates"
      <3>1. updates' = updates /\ UpdatesOpen'
        BY <1>8, <2>3 DEF Drop, Typed, ClientThread, UpdatesOpen
      <3> QED BY <2>u, <2>1, <2>2, <3>1, Kept, Silent
    <2>4. CASE client.pc = "dropUpdates"
      <3>1. client'.pc = "gone"
        BY <1>8, <2>4 DEF Drop, Typed, ClientThread
      <3>2. UpdatesOpen' = FALSE /\ Outbox' = <<>>
        BY <3>1 DEF UpdatesOpen, Outbox, OnlyIf
      <3>3. Contract!Close
        BY <2>u, <2>1, <2>2, <3>2, Kept DEF Contract!Close
      <3> QED BY <3>3 DEF Simulates, Contract!ContractNext
    <2> QED BY <2>3, <2>4
  <1> QED BY <1>1, <1>2, <1>3, <1>4, <1>5, <1>6, <1>7, <1>8
          DEF ClientCall, ClientContinues

(* Every step of the collector thread is one of the contract's worker, *)
(* silent, or its end.                                                 *)
LEMMA CollectorSimulates ==
  ASSUME Typed, Typed', ClaimInv, ClaimInv', PeriodicInv,
         CollectorStep \/ CollectorPanics
  PROVE  Simulates
  <1>a. CollectorAlive /\ BusyHasOneOwner
    BY DEF ClaimInv, CollectorAlive, CollectorStep, CollectorPanics, Wakeup,
           TakeResult, ResultsDrained, ApplyHealth, TakeCommand,
           CommandsDrained, ExecuteRefresh, ClaimPeriodic, DispatchPeriodic,
           ExecuteStorageHealth, ExecuteSetSensitive, SendUpdate
  <1>b. AnswerPlace /\ AnswerPlace'
    BY Answers, PTL
  <1>c. JobPlace /\ (CollectorAlive' => JobPlace')
    <2>1. (Typed /\ BusyHasOneOwner /\ CollectorAlive => JobPlace)'
      BY OneJob, PTL
    <2> QED BY <1>a, <2>1, OneJob DEF ClaimInv
  <1>d. JobFindsStorage
    BY OwnedStorageLives
  <1>e. /\ client' = client
        /\ UpdatesOpen' = UpdatesOpen
    BY Kept
    DEF CollectorStep, CollectorPanics, Wakeup, TakeResult, ResultsDrained,
        ApplyHealth, TakeCommand, CommandsDrained, ExecuteRefresh,
        ClaimPeriodic, DispatchPeriodic, ExecuteStorageHealth,
        ExecuteSetSensitive, SendUpdate
  <1>1. CASE Wakeup
    <2>1. CASE Exit
      BY <1>1, <1>a, <2>1, Ends DEF Wakeup
    <2>2. CASE ~Exit
      <3>1. /\ collector.pc = "recv" /\ collector'.pc = "results"
            /\ UNCHANGED <<requests, results, updates, jobs, storageBusy,
                           desiredSensitive, storage, base>>
        BY <1>1, <2>2 DEF Wakeup, Goto, Typed, CollectorThread
      <3>2. UNCHANGED <<Doing, Collected, CollectorAlive, Claimed>>
        BY <1>e, <3>1 DEF Doing, Collected, CollectorAlive, Claimed, TentativeClaim, OnlyIf
      <3>3. Outbox' = Outbox
        BY <1>b, <1>e, <3>1 DEF AnswerPlace
      <3> QED BY <1>e, <3>1, <3>2, <3>3, Kept, Silent
    <2> QED BY <2>1, <2>2
  <1>2. CASE TakeResult
    <2>1. /\ collector.pc = "results" /\ collector'.pc = "apply"
          /\ collector'.job = Head(results) /\ ~storageBusy'
          /\ results # <<>> /\ results' = Tail(results)
          /\ UNCHANGED <<requests, updates, jobs, desiredSensitive, storage, base>>
      BY <1>2 DEF TakeResult, Typed, CollectorThread
    <2>2. /\ Doing = <<>> /\ Doing' = <<>> /\ Collected = <<>>
          /\ Collected' = <<Head(results)>> /\ CollectorAlive' = CollectorAlive
          /\ Claimed' = FALSE
      BY <1>a, <2>1 DEF Doing, Collected, CollectorAlive, Claimed, OnlyIf
    <2>3. Health = results /\ results = <<Head(results)>> /\ results' = <<>>
      BY <1>c, <2>1 DEF JobPlace
    <2>4. Health' = <<>>
      BY <1>a, <1>c, <2>1, <2>2, <2>3 DEF JobPlace
    <2>5. Outbox' = Outbox /\ Len(Outbox) <= 1
      BY <1>b, <1>e, <2>1 DEF AnswerPlace
    <2>6. Contract!CollectHealth
      BY <1>a, <1>e, <2>1, <2>2, <2>3, <2>4, <2>5
      DEF Contract!CollectHealth, Contract!Ready
    <2> QED BY <2>6 DEF Simulates, Contract!ContractNext, Contract!WorkerSide
  <1>3. CASE ResultsDrained
    <2>1. /\ collector.pc = "results" /\ collector'.pc = "commands"
          /\ UNCHANGED <<requests, results, updates, jobs, storageBusy,
                         desiredSensitive, storage, base>>
      BY <1>3 DEF ResultsDrained, Goto, Typed, CollectorThread, channels
    <2>2. UNCHANGED <<Doing, Collected, CollectorAlive, Claimed>>
      BY <1>e, <2>1 DEF Doing, Collected, CollectorAlive, Claimed, TentativeClaim, OnlyIf
    <2>3. Outbox' = Outbox
      BY <1>b, <1>e, <2>1 DEF AnswerPlace
    <2> QED BY <1>e, <2>1, <2>2, <2>3, Kept, Silent
  <1>4. CASE ApplyHealth
    <2> DEFINE answer == Answer(StorageHealth(collector.job.ids), base')
    <2>1. /\ collector.pc = "apply" /\ collector'.pc = "send"
          /\ collector'.out = answer
          /\ base' \in HealthApplied(base, collector.job, desiredSensitive)
          /\ UNCHANGED <<requests, results, updates, jobs, storageBusy,
                         desiredSensitive, storage>>
      BY <1>4 DEF ApplyHealth, Prepare, At, channels
    <2>2. /\ Doing' = Doing /\ Collected = <<collector.job>> /\ Collected' = <<>>
          /\ CollectorAlive' = CollectorAlive /\ Claimed' = Claimed
      BY <1>e, <2>1 DEF Doing, Collected, CollectorAlive, Claimed, TentativeClaim, OnlyIf
    <2>3. Head(Collected) = collector.job /\ Collected # <<>>
      BY <2>2, Short, ThreadFields DEF Typed
    <2>4. Outbox' = IF UpdatesOpen THEN Append(Outbox, answer) ELSE <<>>
      BY <1>b, <1>e, <2>1 DEF AnswerPlace
    <2>5. Health' = Health
      BY <2>1, <2>2, Kept
    <2> HIDE DEF answer
    <2>6. answer = Contract!Answer(Contract!StorageHealth(Head(Collected).ids), base')
      BY <2>3, SameData DEF answer
    <2>7. base' \in Contract!HealthApplied(base, Head(Collected), desiredSensitive)
      BY <2>1, <2>3, SameData
    <2>8. Contract!ReportHealth
      BY <1>a, <1>e, <2>1, <2>2, <2>3, <2>4, <2>5, <2>6, <2>7
      DEF Contract!ReportHealth, Contract!Deliver
    <2> QED BY <2>8 DEF Simulates, Contract!ContractNext, Contract!WorkerSide
  <1>5. CASE TakeCommand
    <2>1. /\ collector.pc = "commands" /\ collector'.pc = "execute"
          /\ collector'.cmd = Head(requests)
          /\ requests # <<>> /\ requests' = Tail(requests)
          /\ UNCHANGED <<updates, jobs, results, storageBusy, desiredSensitive,
                         storage, base>>
      BY <1>5 DEF TakeCommand, Typed, CollectorThread
    <2>2. requests = <<Head(requests)>> /\ requests' = <<>>
      BY <2>1, Short DEF Typed
    <2>3. /\ Doing = <<>> /\ Doing' = <<Head(requests)>> /\ Collected = <<>>
          /\ Collected' = <<>> /\ CollectorAlive' = CollectorAlive
          /\ Claimed' = Claimed
      BY <1>e, <2>1 DEF Doing, Collected, CollectorAlive, Claimed, TentativeClaim, OnlyIf
    <2>4. Outbox' = Outbox /\ Len(Outbox) <= 1
      BY <1>b, <1>e, <2>1 DEF AnswerPlace
    <2>5. Health' = Health
      BY <2>1, <2>3, Kept
    <2>6. Contract!Take
      BY <1>a, <1>e, <2>1, <2>2, <2>3, <2>4, <2>5 DEF Contract!Take, Contract!Ready
    <2> QED BY <2>6 DEF Simulates, Contract!ContractNext, Contract!WorkerSide
  <1>6. CASE CommandsDrained
    <2>1. CASE Exit
      BY <1>6, <1>a, <2>1, Ends DEF CommandsDrained
    <2>2. CASE ~Exit
      <3>1. /\ collector.pc = "commands" /\ collector'.pc = "recv"
            /\ UNCHANGED <<requests, results, updates, jobs, storageBusy,
                           desiredSensitive, storage, base>>
        BY <1>6, <2>2 DEF CommandsDrained, Goto, Typed, CollectorThread
      <3>2. UNCHANGED <<Doing, Collected, CollectorAlive, Claimed>>
        BY <1>e, <3>1 DEF Doing, Collected, CollectorAlive, Claimed, TentativeClaim, OnlyIf
      <3>3. Outbox' = Outbox
        BY <1>b, <1>e, <3>1 DEF AnswerPlace
      <3> QED BY <1>e, <3>1, <3>2, <3>3, Kept, Silent
    <2> QED BY <2>1, <2>2
  <1>7. CASE ExecuteRefresh
    <2> DEFINE answer == Answer(collector.cmd, base')
    <2>1. /\ collector.pc = "execute" /\ collector'.pc \in {"claim", "send"}
          /\ collector.cmd.op = "Refresh" /\ collector'.out = answer
          /\ base' \in Refreshed(base, collector.cmd.flag)
          /\ UNCHANGED <<requests, results, updates, jobs, storageBusy,
                         desiredSensitive, storage>>
      BY <1>7 DEF ExecuteRefresh, At, channels
    <2>2. /\ Doing = <<collector.cmd>> /\ Doing' = <<>> /\ Collected' = Collected
          /\ CollectorAlive' = CollectorAlive /\ Claimed' = Claimed
      BY <1>e, <2>1 DEF Doing, Collected, CollectorAlive, Claimed, TentativeClaim, OnlyIf
    <2>3. Head(Doing) = collector.cmd /\ Doing # <<>>
      BY <2>2, Short, ThreadFields DEF Typed
    <2>4. Outbox' = IF UpdatesOpen THEN Append(Outbox, answer) ELSE <<>>
      BY <1>b, <1>e, <2>1 DEF AnswerPlace
    <2>5. Health' = Health
      BY <2>1, <2>2, Kept
    <2> HIDE DEF answer
    <2>6. answer = Contract!Answer(Head(Doing), base')
      BY <2>3, SameData DEF answer
    <2>7. base' \in Contract!Refreshed(base, Head(Doing).flag)
      BY <2>1, <2>3, SameData
    <2>8. Contract!DoRefresh
      BY <1>a, <1>e, <2>1, <2>2, <2>3, <2>4, <2>5, <2>6, <2>7
      DEF Contract!DoRefresh, Contract!Carry, Contract!Deliver
    <2> QED BY <2>8 DEF Simulates, Contract!ContractNext, Contract!WorkerSide
  <1>8. CASE ClaimPeriodic
    <2>1. /\ collector.pc = "claim" /\ collector'.pc \in {"send", "dispatch"}
          /\ collector'.out = collector.out
          /\ UNCHANGED <<requests, results, updates, jobs, desiredSensitive,
                         storage, base>>
      BY <1>8 DEF ClaimPeriodic, Goto, Typed, CollectorThread, channels
    <2>2. UNCHANGED <<Doing, Collected, CollectorAlive>>
      BY <2>1 DEF Doing, Collected, CollectorAlive, OnlyIf
    <2>3. Claimed' = Claimed
      BY <1>8, <1>e, <2>1, <2>2
      DEF ClaimPeriodic, Goto, Claimed, TentativeClaim, Typed, CollectorThread
    <2>4. Outbox' = Outbox
      BY <1>b, <1>e, <2>1 DEF AnswerPlace
    <2> QED BY <1>e, <2>1, <2>2, <2>3, <2>4, Kept, Silent
  <1>9. CASE DispatchPeriodic
    <2>1. /\ collector.pc = "dispatch" /\ collector'.pc = "send"
          /\ collector'.out = collector.out /\ StorageAlive
          /\ UNCHANGED <<requests, results, updates, desiredSensitive, storage, base>>
      BY <1>9, <1>d
      DEF DispatchPeriodic, SendJob, Goto, JobFindsStorage, Typed, CollectorThread
    <2>2. UNCHANGED <<Doing, Collected, CollectorAlive>> /\ ~Claimed
      BY <2>1 DEF Doing, Collected, CollectorAlive, Claimed, TentativeClaim, OnlyIf
    <2>3. Outbox' = Outbox
      BY <1>b, <1>e, <2>1 DEF AnswerPlace
    <2>4. CASE base.devices = {}
      <3>1. jobs' = jobs /\ ~storageBusy'
        BY <1>9, <2>4 DEF DispatchPeriodic
      <3>2. Claimed' = Claimed
        BY <2>2, <3>1 DEF Claimed
      <3>3. Health' = Health
        BY <2>1, <2>2, <3>1, Kept
      <3> QED BY <1>e, <2>1, <2>2, <2>3, <3>2, <3>3, Silent
    <2>5. CASE base.devices # {}
      <3>1. jobs' = Append(jobs, PeriodicJob(base)) /\ storageBusy' = storageBusy
        BY <1>9, <2>1, <2>5 DEF DispatchPeriodic, SendJob
      <3>2. TentativeClaim
        BY <2>1 DEF TentativeClaim
      <3>3. /\ storageBusy /\ jobs = <<>> /\ Health = <<>>
            /\ client.pc \notin {"send", "release"} \/ client.cmd.op # "StorageHealth"
        BY <1>a, <2>1, <3>2, OneClaim
      <3>4. Claimed' = TRUE
        BY <1>a, <1>e, <2>1, <2>2, <3>1, <3>3 DEF Claimed, TentativeClaim
      <3>5. PeriodicJob(base) \in Job
        BY Constructors DEF Typed
      <3>6. jobs' = <<PeriodicJob(base)>> /\ jobs' # <<>>
        BY <3>1, <3>3, <3>5, Short DEF Typed
      <3>7. Health' = <<PeriodicJob(base)>>
        BY <1>a, <1>c, <2>2, <3>6 DEF JobPlace
      <3>8. Doing = <<>> /\ Collected = <<>> /\ PeriodicHealth
        BY <2>1 DEF Doing, Collected, OnlyIf, PeriodicInv
      <3>9. Contract!StartPeriodic
        BY <1>a, <1>e, <2>1, <2>2, <2>3, <2>5, <3>4, <3>7, <3>8, SameData
        DEF Contract!StartPeriodic
      <3> QED BY <3>9 DEF Simulates, Contract!ContractNext, Contract!WorkerSide
    <2> QED BY <2>4, <2>5
  <1>10. CASE ExecuteStorageHealth
    <2> DEFINE job == JobFor(base, collector.cmd.ids)
               answer == Answer(collector.cmd, base)
    <2>1. /\ collector.pc = "execute" /\ collector.cmd.op = "StorageHealth"
          /\ StorageAlive
          /\ UNCHANGED <<updates, desiredSensitive, client, storage, base>>
      BY <1>10, <1>d DEF ExecuteStorageHealth, JobFindsStorage
    <2>2. /\ storageBusy /\ jobs = <<>> /\ Health = <<>> /\ results = <<>>
          /\ storage.pc \notin {"collecting", "panicked"}
          /\ client.pc \notin {"send", "release"} \/ client.cmd.op # "StorageHealth"
      BY <1>a, <2>1, OneClaim
    <2>3. /\ Doing = <<collector.cmd>> /\ Collected = <<>> /\ Claimed = TRUE
      BY <1>a, <2>1, <2>2 DEF Doing, Collected, Claimed, TentativeClaim, OnlyIf
    <2>4. Head(Doing) = collector.cmd /\ Doing # <<>>
      BY <2>3, Short, ThreadFields DEF Typed
    <2>5. job \in Job
      BY ThreadFields, Constructors DEF Typed
    <2> HIDE DEF answer, job
    <2>6. answer = Contract!Answer(Head(Doing), base)
          /\ job = Contract!JobFor(base, Head(Doing).ids)
      BY <2>4, SameData DEF answer, job
    <2>7. CASE job.targets = {}
      <3>1. /\ collector'.pc = "send" /\ collector'.out = answer /\ ~storageBusy'
            /\ UNCHANGED <<requests, results, jobs>>
        BY <1>10, <2>7 DEF ExecuteStorageHealth, Prepare, At, answer, job
      <3>2. /\ Doing' = <<>> /\ Collected' = Collected /\ Claimed' = FALSE
            /\ CollectorAlive' = CollectorAlive
        BY <1>a, <2>3, <3>1 DEF Doing, Collected, CollectorAlive, Claimed, OnlyIf
      <3>3. Outbox' = IF UpdatesOpen THEN Append(Outbox, answer) ELSE <<>>
        BY <1>b, <1>e, <2>1, <3>1 DEF AnswerPlace
      <3>4. Health' = Health
        BY <2>1, <3>1, <3>2, Kept
      <3>5. Contract!DoStorageHealth
        BY <1>a, <1>e, <2>1, <2>4, <2>6, <2>7, <3>1, <3>2, <3>3, <3>4
        DEF Contract!DoStorageHealth, Contract!Carry, Contract!Deliver
      <3> QED BY <3>5 DEF Simulates, Contract!ContractNext, Contract!WorkerSide
    <2>8. CASE job.targets # {}
      <3>1. /\ collector'.pc = "commands" /\ storageBusy' = storageBusy
            /\ jobs' = Append(jobs, job)
            /\ UNCHANGED <<requests, results>>
        BY <1>10, <2>1, <2>8 DEF ExecuteStorageHealth, SendJob, At, job
      <3>2. /\ Doing' = <<>> /\ Collected' = Collected /\ Claimed' = Claimed
            /\ CollectorAlive' = CollectorAlive
        BY <1>a, <1>e, <2>1, <2>3, <3>1
        DEF Doing, Collected, CollectorAlive, Claimed, TentativeClaim, OnlyIf
      <3>3. Outbox' = Outbox
        BY <1>b, <1>e, <2>1, <3>1 DEF AnswerPlace
      <3>4. jobs' = <<job>> /\ jobs' # <<>>
        BY <2>2, <2>5, <3>1, Short DEF Typed
      <3>5. Health' = <<job>>
        BY <1>a, <1>c, <3>2, <3>4 DEF JobPlace
      <3>6. Contract!DoStorageHealth
        BY <1>a, <1>e, <2>1, <2>4, <2>6, <2>8, <3>1, <3>2, <3>3, <3>5
        DEF Contract!DoStorageHealth, Contract!Carry
      <3> QED BY <3>6 DEF Simulates, Contract!ContractNext, Contract!WorkerSide
    <2> QED BY <2>7, <2>8
  <1>11. CASE ExecuteSetSensitive
    <2> DEFINE answer == Answer(collector.cmd, base')
    <2>1. /\ collector.pc = "execute" /\ collector'.pc = "send"
          /\ collector.cmd.op = "SetSensitive" /\ collector'.out = answer
          /\ base' \in SensitiveSet(base, collector.cmd.flag)
          /\ UNCHANGED <<requests, results, updates, jobs, storageBusy,
                         desiredSensitive, storage>>
      BY <1>11 DEF ExecuteSetSensitive, Prepare, At, channels
    <2>2. /\ Doing = <<collector.cmd>> /\ Doing' = <<>> /\ Collected' = Collected
          /\ CollectorAlive' = CollectorAlive /\ Claimed' = Claimed
      BY <1>e, <2>1 DEF Doing, Collected, CollectorAlive, Claimed, TentativeClaim, OnlyIf
    <2>3. Head(Doing) = collector.cmd /\ Doing # <<>>
      BY <2>2, Short, ThreadFields DEF Typed
    <2>4. Outbox' = IF UpdatesOpen THEN Append(Outbox, answer) ELSE <<>>
      BY <1>b, <1>e, <2>1 DEF AnswerPlace
    <2>5. Health' = Health
      BY <2>1, <2>2, Kept
    <2> HIDE DEF answer
    <2>6. answer = Contract!Answer(Head(Doing), base')
      BY <2>3, SameData DEF answer
    <2>7. base' \in Contract!SensitiveSet(base, Head(Doing).flag)
      BY <2>1, <2>3, SameData
    <2>8. Contract!DoSetSensitive
      BY <1>a, <1>e, <2>1, <2>2, <2>3, <2>4, <2>5, <2>6, <2>7
      DEF Contract!DoSetSensitive, Contract!Carry, Contract!Deliver
    <2> QED BY <2>8 DEF Simulates, Contract!ContractNext, Contract!WorkerSide
  <1>12. CASE SendUpdate
    <2>1. CASE ~UpdatesOpen
      BY <1>12, <1>a, <2>1, Ends DEF SendUpdate
    <2>2. CASE UpdatesOpen
      <3>1. /\ collector.pc = "send" /\ collector'.pc = collector.next
            /\ updates' = Append(updates, collector.out)
            /\ UNCHANGED <<requests, results, jobs, storageBusy,
                           desiredSensitive, storage, base>>
        BY <1>12, <2>2 DEF SendUpdate, At
      <3>2. collector'.pc \in {"results", "commands"}
        BY <3>1, ThreadFields DEF Typed
      <3>3. UNCHANGED <<Doing, Collected, CollectorAlive, Claimed>>
        BY <1>e, <3>1, <3>2
        DEF Doing, Collected, CollectorAlive, Claimed, TentativeClaim, OnlyIf
      <3>4. Outbox' = Outbox
        BY <1>b, <1>e, <2>2, <3>1, <3>2 DEF AnswerPlace
      <3> QED BY <1>e, <3>1, <3>3, <3>4, Kept, Silent
    <2> QED BY <2>1, <2>2
  <1>13. CASE CollectorPanics
    <2>1. /\ Exit /\ collector.pc \in {"apply", "execute"}
          /\ UNCHANGED <<updates, client, desiredSensitive, base>>
      BY <1>13 DEF CollectorPanics
    <2> QED BY <1>a, <2>1, Ends
  <1> QED BY <1>1, <1>2, <1>3, <1>4, <1>5, <1>6, <1>7, <1>8, <1>9, <1>10,
             <1>11, <1>12, <1>13
          DEF CollectorStep

(* The storage-health thread works where the contract does not look: the   *)
(* running job stays the running job.                                      *)
LEMMA StorageSimulates ==
  ASSUME Typed, Typed', ClaimInv, ClaimInv',
         StorageStep \/ FinishJob \/ StoragePanics
  PROVE  Simulates
  <1>1. UNCHANGED <<requests, updates, storageBusy, desiredSensitive, client,
                    collector, base>>
    BY DEF StorageStep, TakeJob, JobsClosed, WakeCollector, FinishJob,
           StoragePanics, channels
  <1>2. UNCHANGED <<Doing, Collected, CollectorAlive, UpdatesOpen, Outbox, Claimed>>
    BY <1>1, Kept
  <1>3. Health' = Health
    <2>1. CASE ~CollectorAlive
      BY <1>2, <2>1 DEF Health, OnlyIf
    <2>2. CASE CollectorAlive
      <3>1. (Typed /\ BusyHasOneOwner /\ CollectorAlive => JobPlace)'
        BY OneJob, PTL
      <3>2. JobPlace /\ JobPlace'
        BY <1>2, <2>2, <3>1, OneJob DEF ClaimInv
      <3>3. CASE TakeJob
        <4>1. /\ jobs # <<>> /\ storage'.pc = "collecting"
              /\ storage'.job = Head(jobs)
          BY <3>3 DEF TakeJob
        <4>2. Health = <<Head(jobs)>>
          BY <3>2, <4>1 DEF JobPlace
        <4>3. Health' = <<Head(jobs)>>
          BY <3>2, <4>1 DEF JobPlace
        <4> QED BY <4>2, <4>3
      <3>4. CASE FinishJob
        <4>1. /\ storage.pc = "collecting"
              /\ results' = Append(results, storage.job)
          BY <2>2, <3>4 DEF FinishJob
        <4>2. results = <<>> /\ Health = <<storage.job>>
          BY <3>2, <4>1 DEF JobPlace
        <4>3. results' = <<storage.job>> /\ results' # <<>>
          BY <4>1, <4>2, Short, ThreadFields DEF Typed
        <4>4. Health' = results'
          BY <3>2, <4>3 DEF JobPlace
        <4> QED BY <4>2, <4>3, <4>4
      <3>5. CASE StoragePanics
        <4>1. /\ storage.pc = "collecting" /\ storage'.pc = "panicked"
              /\ storage'.job = storage.job
          BY <3>5 DEF StoragePanics, Typed, StorageThread
        <4> QED BY <3>2, <4>1 DEF JobPlace
      <3>6. CASE WakeCollector
        <4>1. /\ storage.pc = "wake" /\ storage'.pc \in {"idle", "exit"}
              /\ storage'.job = storage.job
              /\ UNCHANGED <<jobs, results>>
          BY <3>6 DEF WakeCollector, Typed, StorageThread
        <4> QED BY <1>2, <4>1 DEF Health, RunningJobs, OnlyIf
      <3>7. ~JobsClosed
        BY <2>2 DEF JobsClosed
      <3> QED BY <3>3, <3>4, <3>5, <3>6, <3>7 DEF StorageStep
    <2> QED BY <2>1, <2>2
  <1> QED BY <1>1, <1>2, <1>3, Silent

(* The worker starts as the contract does. *)
LEMMA ContractStarts == Init => Contract!ContractInit
  <1> SUFFICES ASSUME Init PROVE Contract!ContractInit
    OBVIOUS
  <1>1. client.pc = "idle" /\ collector.pc = "recv" /\ storage.pc = "idle"
    BY DEF Init, Idle, At
  <1>2. <<>> \o <<>> = <<>>
    BY Short, EmptyChannel
  <1>3. Doing = <<>> /\ Collected = <<>> /\ Health = <<>> /\ Outbox = <<>>
    BY <1>1, <1>2 DEF Init, Doing, Collected, Health, RunningJobs, Outbox,
                      PreparedUpdates, OnlyIf
  <1>4. Claimed = FALSE /\ UpdatesOpen = TRUE /\ CollectorAlive = TRUE
    BY <1>1 DEF Init, Claimed, UpdatesOpen, CollectorAlive
  <1> QED BY <1>3, <1>4, SameData DEF Init, Contract!ContractInit

(* For any number of devices: what the client of a MonitorWorker sees, with *)
(* its two threads, five channels, wake-ups and atomics, is a behaviour of  *)
(* the contract, on which the GUI session is modelled.                      *)
THEOREM WorkerKeepsContract == Spec => ImplementsContract
  <1>1. TypeOK => Typed
    BY DEF TypeOK, Typed, ClientThread, CollectorThread, StorageThread
  <1>2. (TypeOK => Typed)'
    BY <1>1, PTL
  <1>3. Init => ClaimInv /\ PeriodicInv
    BY ClaimInit DEF Init, At, PeriodicInv
  <1>4. TypeOK /\ TypeOK' /\ ClaimInv /\ PeriodicInv /\ [Next]_vars
          => ClaimInv' /\ PeriodicInv'
    BY <1>1, <1>2, ClaimStep, PeriodicStep
  <1>5. Spec => [](TypeOK /\ ClaimInv /\ PeriodicInv)
    BY <1>3, <1>4, TypeCorrect, PTL DEF Spec
  <1>6. /\ TypeOK /\ ClaimInv /\ PeriodicInv
        /\ TypeOK' /\ ClaimInv' /\ [Next]_vars
        => Simulates
    <2> SUFFICES ASSUME Typed, Typed', ClaimInv, ClaimInv', PeriodicInv, [Next]_vars
                 PROVE  Simulates
      BY <1>1, <1>2
    <2>1. CASE UNCHANGED vars
      BY <2>1, Kept, Silent DEF vars, channels
    <2>2. CASE Next
      BY <2>2, ClientSimulates, CollectorSimulates, StorageSimulates DEF Next
    <2> QED BY <2>1, <2>2
  <1> QED BY ContractStarts, <1>5, <1>6, PTL
          DEF Spec, ImplementsContract, Contract!ContractSpec, Simulates
=============================================================================
