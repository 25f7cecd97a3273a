----------------------------- MODULE MonitorWorker -----------------------------
(***************************************************************************)
(* The nonblocking monitor of crates/hwall-core/src/monitor.rs: a client   *)
(* handle, the collector thread and the storage-health thread, joined by   *)
(* channels and two atomic flags.                                          *)
(*                                                                         *)
(*   requests  sync_channel(1)   client    -> collector  commands          *)
(*   wake      channel           client, storage -> collector              *)
(*   updates   sync_channel(1)   collector -> client     snapshots         *)
(*   jobs      channel           collector -> storage    health jobs       *)
(*   results   channel           storage   -> collector  health results    *)
(*                                                                         *)
(* Every access to shared state (an atomic, a channel end) is a step of    *)
(* its own; what a thread does to its own data is part of the step it      *)
(* belongs to.                                                             *)
(***************************************************************************)
EXTENDS MonitorData

CONSTANTS
    Wishes,          \* values of include_sensitive the client asks for
    Panics,          \* threads that may panic in a collector
    MaxWakes         \* bound: no new request while this many wakes queue up

ASSUME WorkerAssumption ==
    /\ Wishes \subseteq BOOLEAN
    /\ Panics \subseteq {"collector", "storage"}
    /\ MaxWakes \in Nat \ {0}

VARIABLES
    requests, wake, updates, jobs, results,
    storageBusy,        \* AtomicBool storage_busy
    desiredSensitive,   \* AtomicBool desired_sensitive
    client,             \* the thread that owns the MonitorWorker handle
    collector,          \* the "hwall-collector" thread
    storage,            \* the "hwall-storage-health" thread
    base                \* the MonitorCollector owned by the collector thread

channels == <<requests, wake, updates, jobs, results>>
vars == <<channels, storageBusy, desiredSensitive, client, collector, storage,
          base>>

-----------------------------------------------------------------------------
(* Threads and channel ends *)

Idle == [pc |-> "idle", cmd |-> NoCommand]

ClientPC == {"idle", "send", "wake", "release", "dropRequests",
             "dropUpdates", "gone"}
CollectorPC == {"recv", "results", "apply", "commands", "execute", "claim",
                "dispatch", "send", "exit"}
StoragePC == {"idle", "collecting", "wake", "panicked", "exit"}

TypeOK ==
    /\ requests \in Seq(Command) /\ Len(requests) <= 1
    /\ wake \in Seq({"Work", "Shutdown"})
    /\ updates \in Seq(Update) /\ Len(updates) <= 1
    /\ jobs \in Seq(Job)
    /\ results \in Seq(Job)
    /\ storageBusy \in BOOLEAN
    /\ desiredSensitive \in BOOLEAN
    /\ client \in [pc : ClientPC, cmd : Command]
    /\ collector \in [pc : CollectorPC, cmd : Command, job : Job, out : Update,
                      next : {"results", "commands"}]
    /\ storage \in [pc : StoragePC, job : Job]
    /\ base \in Collector

(* Channel ends: a send fails, and a receive ends, when the other end is gone *)
RequestsOpen == client.pc \notin {"dropUpdates", "gone"}
UpdatesOpen == client.pc # "gone"
CollectorAlive == collector.pc # "exit"
StorageAlive == storage.pc \notin {"panicked", "exit"}

-----------------------------------------------------------------------------
(* Client handle: request, request_sensitive, request_storage_health, poll, drop *)

MayCall == client.pc = "idle" /\ Len(wake) < MaxWakes

StartSend(cmd) == client' = [pc |-> "send", cmd |-> cmd]

RequestRefresh(force) ==
    /\ MayCall
    /\ StartSend(Refresh(force))
    /\ UNCHANGED <<channels, storageBusy, desiredSensitive, collector, storage,
                   base>>

(* The wish is published before the command is sent, and stays published *)
(* when the channel is full.                                             *)
RequestSensitive(include) ==
    /\ MayCall
    /\ desiredSensitive' = include
    /\ StartSend(SetSensitive(include))
    /\ UNCHANGED <<channels, storageBusy, collector, storage, base>>

(* The compare_exchange that succeeds; one that fails returns Busy and *)
(* changes nothing.                                                    *)
RequestStorageHealth(ids) ==
    /\ MayCall
    /\ ~storageBusy
    /\ storageBusy' = TRUE
    /\ StartSend(StorageHealth(ids))
    /\ UNCHANGED <<channels, desiredSensitive, collector, storage, base>>

(* A mutant: a refused request forgets its claim. *)
AfterRefusalKeepingClaim == client' = Idle

(* What a refused request leaves to do: give the health claim back. *)
AfterRefusal ==
    client' = IF client.cmd.op = "StorageHealth"
              THEN [client EXCEPT !.pc = "release"] ELSE Idle

TrySend ==
    /\ client.pc = "send"
    /\ \/ /\ CollectorAlive
          /\ requests = <<>>
          /\ requests' = Append(requests, client.cmd)
          /\ client' = [client EXCEPT !.pc = "wake"]
       \/ /\ ~CollectorAlive \/ requests # <<>>
          /\ AfterRefusal
          /\ UNCHANGED requests
    /\ UNCHANGED <<wake, updates, jobs, results, storageBusy, desiredSensitive,
                   collector, storage, base>>

(* A mutant: an accepted request wakes nobody. *)
SendNoWake ==
    /\ client.pc = "wake"
    /\ client' = Idle
    /\ UNCHANGED <<channels, storageBusy, desiredSensitive, collector, storage,
                   base>>

SendWake ==
    /\ client.pc = "wake"
    /\ \/ /\ CollectorAlive
          /\ wake' = Append(wake, "Work")
          /\ client' = Idle
       \/ /\ ~CollectorAlive
          /\ AfterRefusal
          /\ UNCHANGED wake
    /\ UNCHANGED <<requests, updates, jobs, results, storageBusy,
                   desiredSensitive, collector, storage, base>>

ReleaseClaim ==
    /\ client.pc = "release"
    /\ storageBusy' = FALSE
    /\ client' = Idle
    /\ UNCHANGED <<channels, desiredSensitive, collector, storage, base>>

Poll ==
    /\ client.pc = "idle"
    /\ updates # <<>>
    /\ updates' = Tail(updates)
    /\ UNCHANGED <<requests, wake, jobs, results, storageBusy, desiredSensitive,
                   client, collector, storage, base>>

(* A mutant: the handle is dropped without a shutdown message, its fields  *)
(* alone closing the channels.                                             *)
DropSilently ==
    /\ \/ /\ client.pc = "idle"
          /\ client' = [client EXCEPT !.pc = "dropUpdates"]
          /\ UNCHANGED updates
       \/ /\ client.pc = "dropUpdates"
          /\ client' = [client EXCEPT !.pc = "gone"]
          /\ updates' = <<>>
    /\ UNCHANGED <<requests, wake, jobs, results, storageBusy, desiredSensitive,
                   collector, storage, base>>

(* Drop: the shutdown message first, then the fields in declaration order. *)
Drop ==
    /\ \/ /\ client.pc = "idle"
          /\ wake' = IF CollectorAlive THEN Append(wake, "Shutdown") ELSE wake
          /\ client' = [client EXCEPT !.pc = "dropRequests"]
          /\ UNCHANGED updates
       \/ /\ client.pc = "dropRequests"
          /\ client' = [client EXCEPT !.pc = "dropUpdates"]
          /\ UNCHANGED <<wake, updates>>
       \/ /\ client.pc = "dropUpdates"
          /\ client' = [client EXCEPT !.pc = "gone"]
          /\ updates' = <<>>
          /\ UNCHANGED wake
    /\ UNCHANGED <<requests, jobs, results, storageBusy, desiredSensitive,
                   collector, storage, base>>

-----------------------------------------------------------------------------
(* Collector thread *)

Goto(pc) == collector' = [collector EXCEPT !.pc = pc]

At(pc) == [pc |-> pc, cmd |-> NoCommand, job |-> NoJob, out |-> NoUpdate,
           next |-> "commands"]

(* Send an update, then go on with the loop that produced it. *)
Prepare(update, next) ==
    collector' = [At("send") EXCEPT !.out = update, !.next = next]

(* Leaving the closure drops the three receivers with what they hold. *)
Exit ==
    /\ collector' = At("exit")
    /\ requests' = <<>>
    /\ wake' = <<>>
    /\ results' = <<>>

Wakeup ==
    /\ collector.pc = "recv"
    /\ wake # <<>>
    /\ \/ /\ Head(wake) = "Shutdown"
          /\ Exit
       \/ /\ Head(wake) = "Work"
          /\ wake' = Tail(wake)
          /\ Goto("results")
          /\ UNCHANGED <<requests, results>>
    /\ UNCHANGED <<updates, jobs, storageBusy, desiredSensitive, client,
                   storage, base>>

(* A mutant: the flag is not cleared. *)
TakeResultKeepingClaim ==
    /\ collector.pc = "results"
    /\ results # <<>>
    /\ results' = Tail(results)
    /\ collector' = [collector EXCEPT !.pc = "apply", !.job = Head(results)]
    /\ UNCHANGED <<requests, wake, updates, jobs, storageBusy, desiredSensitive,
                   client, storage, base>>

(* The flag is cleared as soon as the result is taken. *)
TakeResult ==
    /\ collector.pc = "results"
    /\ results # <<>>
    /\ results' = Tail(results)
    /\ storageBusy' = FALSE
    /\ collector' = [collector EXCEPT !.pc = "apply", !.job = Head(results)]
    /\ UNCHANGED <<requests, wake, updates, jobs, desiredSensitive, client,
                   storage, base>>

ResultsDrained ==
    /\ collector.pc = "results"
    /\ results = <<>>
    /\ Goto("commands")
    /\ UNCHANGED <<channels, storageBusy, desiredSensitive, client, storage,
                   base>>

(* A mutant: the update is built before identifying values are removed. *)
ApplyHealthLeaking ==
    /\ collector.pc = "apply"
    /\ base' \in HealthApplied(base, collector.job, desiredSensitive)
    /\ Prepare([Answer(StorageHealth(collector.job.ids), base') EXCEPT
                  !.identified = @ \/ collector.job.sensitive], "results")
    /\ UNCHANGED <<channels, storageBusy, desiredSensitive, client, storage>>

ApplyHealth ==
    /\ collector.pc = "apply"
    /\ base' \in HealthApplied(base, collector.job, desiredSensitive)
    /\ Prepare(Answer(StorageHealth(collector.job.ids), base'), "results")
    /\ UNCHANGED <<channels, storageBusy, desiredSensitive, client, storage>>

TakeCommand ==
    /\ collector.pc = "commands"
    /\ requests # <<>>
    /\ requests' = Tail(requests)
    /\ collector' = [collector EXCEPT !.pc = "execute", !.cmd = Head(requests)]
    /\ UNCHANGED <<wake, updates, jobs, results, storageBusy, desiredSensitive,
                   client, storage, base>>

CommandsDrained ==
    /\ collector.pc = "commands"
    /\ requests = <<>>
    /\ IF RequestsOpen
       THEN Goto("recv") /\ UNCHANGED <<requests, wake, results>>
       ELSE Exit
    /\ UNCHANGED <<updates, jobs, storageBusy, desiredSensitive, client,
                   storage, base>>

(* snapshot_telemetry, then the check whether a periodic job is due. *)
ExecuteRefresh ==
    /\ collector.pc = "execute"
    /\ collector.cmd.op = "Refresh"
    /\ base' \in Refreshed(base, collector.cmd.flag)
    /\ \E due \in HealthDue(base', collector.cmd.flag) :
          collector' = [At(IF due THEN "claim" ELSE "send") EXCEPT
                            !.out = Answer(collector.cmd, base')]
    /\ UNCHANGED <<channels, storageBusy, desiredSensitive, client, storage>>

(* A mutant: the collector waits for the running job. *)
ClaimPeriodicWaiting ==
    /\ collector.pc = "claim"
    /\ ~storageBusy
    /\ Goto("dispatch")
    /\ storageBusy' = TRUE
    /\ UNCHANGED <<channels, desiredSensitive, client, storage, base>>

(* compare_exchange of the periodic job; when a job is running there is none *)
ClaimPeriodic ==
    /\ collector.pc = "claim"
    /\ IF storageBusy
       THEN Goto("send") /\ UNCHANGED storageBusy
       ELSE Goto("dispatch") /\ storageBusy' = TRUE
    /\ UNCHANGED <<channels, desiredSensitive, client, storage, base>>

(* Handing a job over; a storage thread that is gone ends this one too. *)
SendJob(job, goOn) ==
    IF StorageAlive
    THEN /\ jobs' = Append(jobs, job)
         /\ goOn
         /\ UNCHANGED <<requests, wake, results, storageBusy>>
    ELSE /\ storageBusy' = FALSE
         /\ Exit
         /\ UNCHANGED jobs

DispatchPeriodic ==
    /\ collector.pc = "dispatch"
    /\ IF base.devices = {}
       THEN /\ storageBusy' = FALSE
            /\ Goto("send")
            /\ UNCHANGED <<requests, wake, jobs, results>>
       ELSE SendJob(PeriodicJob(base), Goto("send"))
    /\ UNCHANGED <<updates, desiredSensitive, client, storage, base>>

(* No matching device: answered at once from the cached base.  Otherwise *)
(* the job is queued and the answer comes with its result.               *)
ExecuteStorageHealth ==
    /\ collector.pc = "execute"
    /\ collector.cmd.op = "StorageHealth"
    /\ LET job == JobFor(base, collector.cmd.ids)
       IN IF job.targets = {}
          THEN /\ storageBusy' = FALSE
               /\ Prepare(Answer(collector.cmd, base), "commands")
               /\ UNCHANGED <<requests, wake, jobs, results>>
          ELSE SendJob(job, collector' = At("commands"))
    /\ UNCHANGED <<updates, desiredSensitive, client, storage, base>>

ExecuteSetSensitive ==
    /\ collector.pc = "execute"
    /\ collector.cmd.op = "SetSensitive"
    /\ base' \in SensitiveSet(base, collector.cmd.flag)
    /\ Prepare(Answer(collector.cmd, base'), "commands")
    /\ UNCHANGED <<channels, storageBusy, desiredSensitive, client, storage>>

(* A mutant: an unbounded channel. *)
SendUpdateUnbounded ==
    /\ collector.pc = "send"
    /\ UpdatesOpen
    /\ updates' = Append(updates, collector.out)
    /\ collector' = At(collector.next)
    /\ UNCHANGED <<requests, wake, jobs, results, storageBusy, desiredSensitive,
                   client, storage, base>>

(* A blocking send: it waits while the channel is full and fails when the *)
(* client has dropped its receiver.                                       *)
SendUpdate ==
    /\ collector.pc = "send"
    /\ \/ /\ UpdatesOpen
          /\ updates = <<>>
          /\ updates' = Append(updates, collector.out)
          /\ collector' = At(collector.next)
          /\ UNCHANGED <<requests, wake, results>>
       \/ /\ ~UpdatesOpen
          /\ Exit
          /\ UNCHANGED updates
    /\ UNCHANGED <<jobs, storageBusy, desiredSensitive, client, storage, base>>

(* A panic in a collector unwinds the thread. *)
CollectorPanics ==
    /\ "collector" \in Panics
    /\ collector.pc \in {"apply", "execute"}
    /\ Exit
    /\ UNCHANGED <<updates, jobs, storageBusy, desiredSensitive, client,
                   storage, base>>

-----------------------------------------------------------------------------
(* Storage-health thread *)

TakeJob ==
    /\ storage.pc = "idle"
    /\ jobs # <<>>
    /\ jobs' = Tail(jobs)
    /\ storage' = [pc |-> "collecting", job |-> Head(jobs)]
    /\ UNCHANGED <<requests, wake, updates, results, storageBusy,
                   desiredSensitive, client, collector, base>>

JobsClosed ==
    /\ storage.pc = "idle"
    /\ jobs = <<>>
    /\ ~CollectorAlive
    /\ storage' = [storage EXCEPT !.pc = "exit"]
    /\ UNCHANGED <<channels, storageBusy, desiredSensitive, client, collector,
                   base>>

(* The helpers have answered, been killed or failed: the result goes back. *)
FinishJob ==
    /\ storage.pc = "collecting"
    /\ IF CollectorAlive
       THEN /\ results' = Append(results, storage.job)
            /\ storage' = [pc |-> "wake", job |-> NoJob]
       ELSE /\ storage' = [pc |-> "exit", job |-> NoJob]
            /\ UNCHANGED results
    /\ UNCHANGED <<requests, wake, updates, jobs, storageBusy, desiredSensitive,
                   client, collector, base>>

WakeCollector ==
    /\ storage.pc = "wake"
    /\ IF CollectorAlive
       THEN /\ wake' = Append(wake, "Work")
            /\ storage' = [storage EXCEPT !.pc = "idle"]
       ELSE /\ storage' = [storage EXCEPT !.pc = "exit"]
            /\ UNCHANGED wake
    /\ UNCHANGED <<requests, updates, jobs, results, storageBusy,
                   desiredSensitive, client, collector, base>>

(* A mutant: a guard releases the claim while the thread unwinds. *)
StoragePanicsReleasing ==
    /\ "storage" \in Panics
    /\ storage.pc = "collecting"
    /\ storage' = [storage EXCEPT !.pc = "panicked"]
    /\ storageBusy' = FALSE
    /\ UNCHANGED <<channels, desiredSensitive, client, collector, base>>

StoragePanics ==
    /\ "storage" \in Panics
    /\ storage.pc = "collecting"
    /\ storage' = [storage EXCEPT !.pc = "panicked"]
    /\ UNCHANGED <<channels, storageBusy, desiredSensitive, client, collector,
                   base>>

-----------------------------------------------------------------------------

Init ==
    /\ requests = <<>> /\ wake = <<>> /\ updates = <<>>
    /\ jobs = <<>> /\ results = <<>>
    /\ storageBusy = FALSE
    /\ base \in NewCollectors
    /\ desiredSensitive = base.sensitive
    /\ client = Idle
    /\ collector = At("recv")
    /\ storage = [pc |-> "idle", job |-> NoJob]

ClientCall ==
    \/ \E force \in BOOLEAN : RequestRefresh(force)
    \/ \E include \in Wishes : RequestSensitive(include)
    \/ \E ids \in SUBSET Devices : RequestStorageHealth(ids)

ClientContinues == TrySend \/ SendWake \/ ReleaseClaim

CollectorStep ==
    \/ Wakeup \/ TakeResult \/ ResultsDrained \/ ApplyHealth
    \/ TakeCommand \/ CommandsDrained
    \/ ExecuteRefresh \/ ClaimPeriodic \/ DispatchPeriodic
    \/ ExecuteStorageHealth \/ ExecuteSetSensitive
    \/ SendUpdate

StorageStep == TakeJob \/ JobsClosed \/ WakeCollector

Next ==
    \/ ClientCall \/ ClientContinues \/ Poll \/ Drop
    \/ CollectorStep \/ CollectorPanics
    \/ StorageStep \/ FinishJob \/ StoragePanics

Spec == Init /\ [][Next]_vars

(* Threads that can run do run; the client's event loop keeps polling     *)
(* while it holds the handle, and finishes a drop it has begun.  The       *)
(* collector finds the command channel empty now and then: a client sends *)
(* its next request on a later tick, not in the instant between two        *)
(* try_recv calls.  Nothing is assumed of the helper commands.             *)
Fairness ==
    /\ WF_vars(ClientContinues)
    /\ WF_vars(client.pc \in {"dropRequests", "dropUpdates"} /\ Drop)
    /\ SF_vars(Poll)
    /\ WF_vars(CollectorStep)
    /\ SF_vars(CommandsDrained)
    /\ WF_vars(StorageStep)

FairSpec == Spec /\ Fairness

(* A premise of some properties: helper commands end. *)
HelpersEnd == WF_vars(FinishJob)

-----------------------------------------------------------------------------
(* Properties *)

(* The claim on the storage thread changes hands: client, request queue,   *)
(* collector, job queue, storage thread, result queue.  A storage thread   *)
(* that panicked keeps its claim for ever.                                 *)
One(b) == IF b THEN 1 ELSE 0

ClaimOwners ==
    One(client.pc \in {"send", "release"} /\ client.cmd.op = "StorageHealth")
    + One(requests # <<>> /\ Head(requests).op = "StorageHealth")
    + One(\/ collector.pc = "execute" /\ collector.cmd.op = "StorageHealth"
          \/ collector.pc = "dispatch")
    + Len(jobs)
    + One(storage.pc \in {"collecting", "panicked"})
    + Len(results)

(* storage_busy is set exactly while one party holds the claim: there is   *)
(* never a second health job, and no path through request_storage_health,  *)
(* try_request and the collector loop forgets to give the claim back.      *)
BusyHasOneOwner == CollectorAlive => ClaimOwners = One(storageBusy)

(* A job always finds the storage thread there to take it: one that        *)
(* panicked keeps its claim, so that the collector, which would end with   *)
(* it, is never asked for another job.                                     *)
JobFindsStorage ==
    collector.pc = "dispatch"
    \/ (collector.pc = "execute" /\ collector.cmd.op = "StorageHealth")
    => StorageAlive

(* The collector thread never sleeps in wake_rx.recv while a command or a  *)
(* storage result waits for it and no wake-up is queued or on its way.     *)
NoLostWakeup ==
    collector.pc = "recv" =>
        /\ requests # <<>> => wake # <<>> \/ client.pc = "wake"
        /\ results # <<>> => wake # <<>> \/ storage.pc = "wake"

(* Identifying values are hidden: neither collected nor cached. *)
Hidden == ~base.sensitive /\ base.identified = {}

Shows == /\ collector.pc = "execute"
         /\ collector.cmd.op = "SetSensitive" /\ collector.cmd.flag

(* Once hidden, identifying values stay hidden until the client asks for   *)
(* them: a storage job that was started while they were shown, and ends    *)
(* after they were hidden, does not bring them back.                       *)
StaysHidden == [][Hidden /\ ~desiredSensitive' => Hidden' \/ Shows]_vars

(* Nor does any update prepared while they are hidden and unwanted.        *)
HiddenUpdates ==
    [][ /\ Hidden /\ ~desiredSensitive' /\ ~Shows
        /\ collector'.out # collector.out
        => ~collector'.out.identified ]_vars

(* An accepted refresh is answered, even while a helper command hangs in   *)
(* the storage thread: telemetry never waits for storage health.           *)
RefreshAnswered ==
    (client.pc = "wake" /\ client.cmd.op = "Refresh")
        ~> (\/ updates # <<>> /\ Head(updates).op = "Refresh"
            \/ ~CollectorAlive \/ ~RequestsOpen)

(* If helper commands end, the storage-health claim is always released.    *)
ClaimReleased ==
    HelpersEnd =>
        (storageBusy ~> (~storageBusy \/ ~CollectorAlive \/ storage.pc = "panicked"))

(* Dropping the handle stops the collector thread, whatever it was doing,  *)
(* and the storage thread, once its helper command ends.                   *)
DropStopsThreads ==
    /\ client.pc = "gone" ~> ~CollectorAlive
    /\ HelpersEnd => (client.pc = "gone" ~> ~StorageAlive)

(* What the monitor has accepted comes to an end: refreshes are answered   *)
(* and the claim on the storage thread is given back.                      *)
AcceptedIsServed == RefreshAnswered /\ ClaimReleased
=============================================================================
