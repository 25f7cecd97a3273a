---------------------------------- MODULE Tui ----------------------------------
(***************************************************************************)
(* The terminal monitor as a client of the collector thread: run_loop of   *)
(* crates/hwall-cli/src/tui.rs and the part of App (tui/app.rs) that       *)
(* receives updates, asks for refreshes and obeys the keys for pausing,    *)
(* rediscovery and quitting.  What it displays is module TuiView.          *)
(***************************************************************************)
EXTENDS MonitorContract

CONSTANTS
    TuiMayFail, \* the collector thread may die
    MaxKeys     \* bound: keys pressed

ASSUME TuiAssumption == TuiMayFail \in BOOLEAN /\ MaxKeys \in Nat

VARIABLES
    app,      \* struct App
    counted,  \* the last step counted a sample in the statistics
    replaced, \* the last step replaced the displayed snapshot
    stained,  \* the user paused since the refresh under way was requested
    keys      \* keys pressed so far

tuiLocal == <<app, counted, replaced, stained, keys>>
tuiVars == <<contract, tuiLocal>>

TuiTypeOK ==
    /\ ContractTypeOK
    /\ app \in [step : {"receive", "request", "keys", "quitting", "ended"}, paused : BOOLEAN, due : BOOLEAN,
                force : BOOLEAN, refreshInFlight : BOOLEAN, discard : BOOLEAN,
                disconnected : BOOLEAN, quit : BOOLEAN]
    /\ {counted, replaced, stained} \subseteq BOOLEAN
    /\ keys \in 0 .. MaxKeys

TuiInit ==
    /\ ContractInit
    /\ app = [step |-> "receive", paused |-> FALSE, due |-> FALSE, force |-> FALSE,
              refreshInFlight |-> FALSE, discard |-> FALSE, disconnected |-> FALSE,
              quit |-> FALSE]
    /\ counted = FALSE /\ replaced = FALSE /\ stained = FALSE
    /\ keys = 0

ForHealth(message) == message.op = "StorageHealth"

(* Refreshes accepted by the monitor whose answer is not yet received.     *)
TuiOpen ==
    LET messages == inbox \o doing \o outbox
    IN Cardinality({ i \in DOMAIN messages : ~ForHealth(messages[i]) })

Quiet == counted' = FALSE /\ replaced' = FALSE

-----------------------------------------------------------------------------
(* tick *)

(* What receive_collection_updates makes of the flags ...                  *)
Answered(update) ==
    [app EXCEPT !.refreshInFlight = @ /\ ForHealth(update),
                !.discard = @ /\ ForHealth(update),
                !.due = @ \/ (~app.paused /\ (app.force \/ app.discard))]

(* ... and whether the snapshot is displayed.                              *)
AppliesUpdate(update) == ~app.paused /\ (~app.discard \/ ForHealth(update))

TuiReceive ==
    /\ app.step = "receive" /\ ~app.disconnected
    /\ Receive
    /\ LET update == Head(outbox)
       IN /\ app' = Answered(update)
          /\ replaced' = AppliesUpdate(update)
          /\ counted' = (AppliesUpdate(update) /\ ~ForHealth(update))
    /\ UNCHANGED <<stained, keys>>

(* MonitorPoll::Idle, or Disconnected once the collector is gone.          *)
TuiReceiveEnds ==
    /\ app.step = "receive"
    /\ app.disconnected \/ outbox = <<>>
    /\ app' = [app EXCEPT !.step = "request",
                          !.disconnected = @ \/ ~alive,
                          !.refreshInFlight = @ /\ alive]
    /\ Quiet
    /\ UNCHANGED <<contract, stained, keys>>

(* run_loop looks at the quit flag after the tick.                         *)
AfterTick == IF app.quit THEN "quitting" ELSE "keys"

(* request_refresh_when_due                                                *)
MayRequest == ~app.paused /\ ~app.refreshInFlight /\ ~app.disconnected /\ (app.due \/ app.force)

TuiRequest ==
    /\ app.step = "request"
    /\ MayRequest
    /\ \/ /\ Submit(Refresh(app.force))
          /\ app' = [app EXCEPT !.step = AfterTick, !.refreshInFlight = TRUE, !.discard = FALSE,
                                !.due = FALSE, !.force = FALSE]
          /\ stained' = FALSE
       \/ /\ alive /\ ~Accepts(Refresh(app.force))
          /\ app' = [app EXCEPT !.step = AfterTick, !.due = FALSE]
          /\ UNCHANGED <<contract, stained>>
       \/ /\ ~alive
          /\ app' = [app EXCEPT !.step = AfterTick, !.disconnected = TRUE]
          /\ UNCHANGED <<contract, stained>>
    /\ Quiet
    /\ UNCHANGED keys

TuiRequestsNothing ==
    /\ app.step = "request"
    /\ ~MayRequest
    /\ app' = [app EXCEPT !.step = AfterTick]
    /\ Quiet
    /\ UNCHANGED <<contract, stained, keys>>

(* next_refresh is reached.                                                *)
TuiDeadline ==
    /\ ~app.due
    /\ app' = [app EXCEPT !.due = TRUE]
    /\ Quiet
    /\ UNCHANGED <<contract, stained, keys>>

-----------------------------------------------------------------------------
(* Keys, up to 64 of them in a turn *)

TuiKey ==
    /\ app.step = "keys" /\ ~app.quit
    /\ keys < MaxKeys
    /\ keys' = keys + 1
    /\ Quiet
    /\ UNCHANGED contract

(* A mutant: pausing does not mark the sample under way.                   *)
TogglePauseKeeping ==
    /\ TuiKey
    /\ app' = IF app.paused THEN [app EXCEPT !.paused = FALSE, !.due = TRUE]
              ELSE [app EXCEPT !.paused = TRUE]
    /\ stained' = (stained \/ (~app.paused /\ TuiOpen > 0))

(* The space bar *)
TogglePause ==
    /\ TuiKey
    /\ app' = IF app.paused THEN [app EXCEPT !.paused = FALSE, !.due = TRUE]
              ELSE [app EXCEPT !.paused = TRUE, !.discard = app.refreshInFlight]
    /\ stained' = (stained \/ (~app.paused /\ TuiOpen > 0))

(* r *)
ForceRefresh ==
    /\ TuiKey
    /\ app' = [app EXCEPT !.force = TRUE, !.due = TRUE]
    /\ UNCHANGED stained

(* q, Escape, Control-C *)
QuitKey ==
    /\ TuiKey
    /\ app' = [app EXCEPT !.quit = TRUE]
    /\ UNCHANGED stained

(* There are no more keys within the timeout, or the quit key was pressed: *)
(* the next turn's tick.                                                   *)
TuiKeysEnd ==
    /\ app.step = "keys"
    /\ app' = [app EXCEPT !.step = "receive"]
    /\ Quiet
    /\ UNCHANGED <<contract, stained, keys>>

(* run_loop returns and the worker is dropped.                             *)
TuiEnds ==
    /\ app.step = "quitting"
    /\ Close
    /\ app' = [app EXCEPT !.step = "ended"]
    /\ Quiet
    /\ UNCHANGED <<stained, keys>>

-----------------------------------------------------------------------------

TuiWorker == Take \/ DoRefresh \/ DoSetSensitive \/ DoStorageHealth \/ ReportHealth

(* Periodic jobs start at least 200 milliseconds apart (parse_duration of  *)
(* main.rs), so that none starts while updates are being received.         *)
TuiMonitor ==
    /\ \/ TuiWorker \/ CollectHealth
       \/ app.step # "receive" /\ StartPeriodic
       \/ TuiMayFail /\ Stop
    /\ UNCHANGED tuiLocal

TuiLoop ==
    \/ TuiReceive \/ TuiReceiveEnds \/ TuiRequest \/ TuiRequestsNothing
    \/ TuiKeysEnd \/ TuiEnds

TuiNext ==
    TuiLoop \/ TuiDeadline \/ TogglePause \/ ForceRefresh \/ QuitKey \/ TuiMonitor

(* The loop turns, time passes, and the monitor carries out what it has    *)
(* accepted, a command also between storage-health jobs that follow each   *)
(* other (its wake-ups are served in their order); a job need not end.     *)
TuiFairness ==
    /\ WF_tuiVars(TuiLoop)
    /\ WF_tuiVars(TuiDeadline)
    /\ SF_tuiVars(Take /\ UNCHANGED tuiLocal)
    /\ WF_tuiVars(TuiWorker /\ UNCHANGED tuiLocal)

TuiSpec == TuiInit /\ [][TuiNext]_tuiVars /\ TuiFairness

-----------------------------------------------------------------------------
(* Properties *)

(* The terminal monitor waits for an answer exactly while the monitor owes *)
(* it one: also with storage-health updates in between, and after a pause. *)
TuiInFlight == alive /\ open => (app.refreshInFlight <=> TuiOpen = 1) /\ TuiOpen <= 1

(* While updates are paused the displayed snapshot stays; and no sample    *)
(* that was requested before a pause is counted, also when it arrives      *)
(* after updates have been resumed.                                        *)
TuiPauseHolds ==
    [][/\ replaced' /\ outbox' # outbox => ~app.paused
       /\ counted' /\ outbox' # outbox => ~stained]_tuiVars

(* Samples go on as long as updates are not paused, whatever a helper of   *)
(* the storage health does; and a rediscovery that was asked for is        *)
(* requested, after the refresh under way or the pause.                    *)
TuiGoesOn ==
    /\ []<>(counted \/ app.paused \/ app.disconnected \/ app.quit)
    /\ app.force ~> (~app.force \/ app.paused \/ app.disconnected \/ app.quit)
=============================================================================
