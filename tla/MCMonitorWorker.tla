---------------------------- MODULE MCMonitorWorker ----------------------------
(***************************************************************************)
(* MonitorWorker for TLC, with the mapping under which it implements       *)
(* MonitorContract.                                                        *)
(***************************************************************************)
EXTENDS MonitorWorker

OnlyIf(b, s) == IF b THEN s ELSE <<>>

Doing == OnlyIf(collector.pc = "execute", <<collector.cmd>>)
Collected == OnlyIf(collector.pc = "apply", <<collector.job>>)

(* Jobs between the collector's queue and its result channel. *)
RunningJobs ==
    jobs \o OnlyIf(storage.pc \in {"collecting", "panicked"}, <<storage.job>>)
         \o results
Health == OnlyIf(CollectorAlive, RunningJobs)

PreparedUpdates ==
    updates \o OnlyIf(collector.pc \in {"claim", "dispatch", "send"},
                      <<collector.out>>)
Outbox == OnlyIf(UpdatesOpen, PreparedUpdates)

(* A claim that a client call or the periodic check took but has not used. *)
TentativeClaim ==
    \/ client.pc \in {"send", "release"} /\ client.cmd.op = "StorageHealth"
    \/ collector.pc = "dispatch"
Claimed == storageBusy /\ CollectorAlive /\ ~TentativeClaim

Contract == INSTANCE MonitorContract WITH
    inbox     <- requests,
    doing     <- Doing,
    health    <- Health,
    collected <- Collected,
    outbox    <- Outbox,
    claimed   <- Claimed,
    wanted    <- desiredSensitive,
    state     <- base,
    open      <- UpdatesOpen,
    alive     <- CollectorAlive

(* The threads, channels and atomics of the worker show a client nothing   *)
(* but the behaviours of the contract.                                     *)
ImplementsContract == Contract!ContractSpec
=============================================================================
