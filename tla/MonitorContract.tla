---------------------------- MODULE MonitorContract ----------------------------
(***************************************************************************)
(* What a MonitorWorker promises the client that owns it, without its      *)
(* threads, wake-ups and atomics:                                          *)
(*   - one command waits at a time, one is carried out at a time;          *)
(*   - answers come in the order they were prepared and none is lost;      *)
(*   - at most one storage-health job runs, concurrently with everything   *)
(*     else, and a second request for one is refused;                      *)
(*   - a wish about identifying values takes effect at once on what a      *)
(*     running job brings back.                                            *)
(* MonitorWorker implements it; the GUI session is modelled on top of it.  *)
(***************************************************************************)
EXTENDS MonitorData

VARIABLES
    inbox,      \* the accepted command not yet taken
    doing,      \* the command the collector carries out
    health,     \* the storage-health job that runs
    collected,  \* a finished job whose result is not yet applied
    outbox,     \* answers not yet received
    claimed,    \* a storage-health request or job is outstanding
    wanted,     \* the client's latest wish about identifying values
    state,      \* the MonitorCollector
    open,       \* the client still receives
    alive       \* the collector thread runs

contract == <<inbox, doing, health, collected, outbox, claimed, wanted, state,
              open, alive>>

ContractTypeOK ==
    /\ inbox \in Seq(Command) /\ Len(inbox) <= 1
    /\ doing \in Seq(Command) /\ Len(doing) <= 1
    /\ health \in Seq(Job) /\ Len(health) <= 1
    /\ collected \in Seq(Job) /\ Len(collected) <= 1
    /\ outbox \in Seq(Update) /\ Len(outbox) <= 2
    /\ {claimed, wanted, open, alive} \subseteq BOOLEAN
    /\ state \in Collector

ContractInit ==
    /\ inbox = <<>> /\ doing = <<>> /\ health = <<>> /\ collected = <<>>
    /\ outbox = <<>>
    /\ claimed = FALSE
    /\ state \in NewCollectors
    /\ wanted = state.sensitive
    /\ open = TRUE /\ alive = TRUE

(* Client side *)

Wish(include) ==
    /\ open
    /\ wanted' = include
    /\ UNCHANGED <<inbox, doing, health, collected, outbox, claimed, state,
                   open, alive>>

Accepts(cmd) ==
    /\ alive
    /\ inbox = <<>>
    /\ cmd.op = "StorageHealth" => ~claimed

Submit(cmd) ==
    /\ open
    /\ Accepts(cmd)
    /\ inbox' = <<cmd>>
    /\ claimed' = (claimed \/ cmd.op = "StorageHealth")
    /\ UNCHANGED <<doing, health, collected, outbox, wanted, state, open, alive>>

Receive ==
    /\ open
    /\ outbox # <<>>
    /\ outbox' = Tail(outbox)
    /\ UNCHANGED <<inbox, doing, health, collected, claimed, wanted, state,
                   open, alive>>

Close ==
    /\ open
    /\ open' = FALSE
    /\ outbox' = <<>>
    /\ UNCHANGED <<inbox, doing, health, collected, claimed, wanted, state, alive>>

(* Worker side.  It does nothing further while a prepared answer finds no  *)
(* room, so that at most two answers wait.                                 *)

Ready == alive /\ doing = <<>> /\ collected = <<>> /\ Len(outbox) <= 1

Deliver(update) ==
    outbox' = IF open THEN Append(outbox, update) ELSE <<>>

Take ==
    /\ Ready
    /\ inbox # <<>>
    /\ doing' = inbox
    /\ inbox' = <<>>
    /\ UNCHANGED <<health, collected, outbox, claimed, wanted, state, open, alive>>

Carry(op) == alive /\ doing # <<>> /\ Head(doing).op = op

DoRefresh ==
    /\ Carry("Refresh")
    /\ state' \in Refreshed(state, Head(doing).flag)
    /\ Deliver(Answer(Head(doing), state'))
    /\ doing' = <<>>
    /\ UNCHANGED <<inbox, health, collected, claimed, wanted, open, alive>>

DoSetSensitive ==
    /\ Carry("SetSensitive")
    /\ state' \in SensitiveSet(state, Head(doing).flag)
    /\ Deliver(Answer(Head(doing), state'))
    /\ doing' = <<>>
    /\ UNCHANGED <<inbox, health, collected, claimed, wanted, open, alive>>

(* A request for devices that are not there is answered at once. *)
DoStorageHealth ==
    /\ Carry("StorageHealth")
    /\ LET job == JobFor(state, Head(doing).ids)
       IN IF job.targets = {}
          THEN /\ claimed' = FALSE
               /\ Deliver(Answer(Head(doing), state))
               /\ UNCHANGED health
          ELSE /\ health' = <<job>>
               /\ UNCHANGED <<claimed, outbox>>
    /\ doing' = <<>>
    /\ UNCHANGED <<inbox, collected, wanted, state, open, alive>>

StartPeriodic ==
    /\ PeriodicHealth
    /\ alive /\ doing = <<>> /\ collected = <<>>
    /\ ~claimed
    /\ state.devices # {}
    /\ claimed' = TRUE
    /\ health' = <<PeriodicJob(state)>>
    /\ UNCHANGED <<inbox, doing, collected, outbox, wanted, state, open, alive>>

(* The claim is given back before the result is applied. *)
CollectHealth ==
    /\ Ready
    /\ health # <<>>
    /\ collected' = health
    /\ health' = <<>>
    /\ claimed' = FALSE
    /\ UNCHANGED <<inbox, doing, outbox, wanted, state, open, alive>>

ReportHealth ==
    /\ alive
    /\ collected # <<>>
    /\ state' \in HealthApplied(state, Head(collected), wanted)
    /\ Deliver(Answer(StorageHealth(Head(collected).ids), state'))
    /\ collected' = <<>>
    /\ UNCHANGED <<inbox, doing, health, claimed, wanted, open, alive>>

(* The collector thread ends: after Close, or because it panicked. *)
Stop ==
    /\ alive
    /\ alive' = FALSE
    /\ inbox' = <<>> /\ doing' = <<>> /\ health' = <<>> /\ collected' = <<>>
    /\ claimed' = FALSE
    /\ UNCHANGED <<outbox, wanted, state, open>>

WorkerSide ==
    \/ Take \/ DoRefresh \/ DoSetSensitive \/ DoStorageHealth
    \/ StartPeriodic \/ CollectHealth \/ ReportHealth

ContractNext ==
    \/ \E include \in BOOLEAN : Wish(include)
    \/ \E cmd \in Command : Submit(cmd)
    \/ Receive \/ Close
    \/ WorkerSide \/ Stop

ContractSpec == ContractInit /\ [][ContractNext]_contract
=============================================================================
