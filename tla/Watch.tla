--------------------------------- MODULE Watch ---------------------------------
(***************************************************************************)
(* hwall-cli watch --jsonl as a client of the collector thread: run_jsonl  *)
(* of crates/hwall-cli/src/watch.rs.  It asks for a sample, waits for it,  *)
(* prints it and sleeps until the next deadline; storage-health updates    *)
(* that come in between are passed over.                                   *)
(***************************************************************************)
EXTENDS MonitorContract

CONSTANT WatchMayFail \* the collector thread may die, and the output fail

ASSUME WatchAssumption == WatchMayFail \in BOOLEAN

VARIABLES
    watcher, \* where run_jsonl is
    printed  \* the last step printed a line

watchVars == <<contract, watcher, printed>>

WatchTypeOK ==
    /\ ContractTypeOK
    /\ watcher \in {"sleeping", "requesting", "waiting", "printing", "failed"}
    /\ printed \in BOOLEAN

WatchInit == ContractInit /\ watcher = "requesting" /\ printed = FALSE

Silent == printed' = FALSE

(* next_start is reached.                                                  *)
WatchWakes ==
    /\ watcher = "sleeping"
    /\ watcher' = "requesting"
    /\ Silent
    /\ UNCHANGED contract

(* A request that finds the monitor busy is repeated, WORKER_POLL_INTERVAL *)
(* later.                                                                  *)
WatchRequests ==
    /\ watcher = "requesting"
    /\ \/ Submit(Refresh(FALSE)) /\ watcher' = "waiting"
       \/ ~alive /\ watcher' = "failed" /\ UNCHANGED contract
    /\ Silent

(* A mutant: the first update that comes is taken for the sample.          *)
IsAnySample(update) == TRUE

IsSample(update) == update.op # "StorageHealth"

WatchReceives ==
    /\ watcher = "waiting"
    /\ Receive
    /\ watcher' = IF IsSample(Head(outbox)) THEN "printing" ELSE "waiting"
    /\ Silent

(* A mutant: the end of the collector thread is waited out.                *)
WatchWaitsForDead ==
    /\ watcher = "waiting" /\ outbox = <<>> /\ ~alive
    /\ UNCHANGED watchVars

WatchDisconnects ==
    /\ watcher = "waiting" /\ outbox = <<>> /\ ~alive
    /\ watcher' = "failed"
    /\ Silent
    /\ UNCHANGED contract

WatchPrints ==
    /\ watcher = "printing"
    /\ \/ watcher' = "sleeping" /\ printed' = TRUE
       \/ WatchMayFail /\ watcher' = "failed" /\ printed' = FALSE
    /\ UNCHANGED contract

WatchWorker == Take \/ DoRefresh \/ DoSetSensitive \/ DoStorageHealth \/ ReportHealth

WatchMonitor ==
    /\ WatchWorker \/ StartPeriodic \/ CollectHealth \/ (WatchMayFail /\ Stop)
    /\ UNCHANGED <<watcher, printed>>

Watcher ==
    WatchWakes \/ WatchRequests \/ WatchReceives \/ WatchDisconnects \/ WatchPrints

WatchNext == Watcher \/ WatchMonitor

(* As for the terminal monitor: the loop goes on, and the monitor takes a  *)
(* command also between storage-health jobs.                               *)
WatchFairness ==
    /\ WF_watchVars(Watcher)
    /\ SF_watchVars(Take /\ UNCHANGED <<watcher, printed>>)
    /\ WF_watchVars(WatchWorker /\ UNCHANGED <<watcher, printed>>)

WatchSpec == WatchInit /\ [][WatchNext]_watchVars /\ WatchFairness

-----------------------------------------------------------------------------
(* Properties *)

Owed ==
    LET messages == inbox \o doing \o outbox
    IN Cardinality({ i \in DOMAIN messages : messages[i].op = "Refresh" })

(* Every line is the sample that was asked for last, never one of before:  *)
(* a line is printed when the monitor owes none, and one is waited for     *)
(* exactly while it owes one.                                              *)
WatchPaired ==
    alive => Owed = IF watcher = "waiting" THEN 1 ELSE 0

(* Lines are printed for ever, or the program ends with an error, however  *)
(* storage-health updates come in between.                                 *)
WatchGoesOn == []<>(printed \/ watcher = "failed")
=============================================================================
