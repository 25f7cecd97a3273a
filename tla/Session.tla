-------------------------------- MODULE Session --------------------------------
(***************************************************************************)
(* The GUI session of crates/hwall-gui/src/session.rs on top of the        *)
(* monitor's contract.  The GTK main loop runs a tick (finish              *)
(* initialization, receive every waiting update, make at most one request) *)
(* and the user's actions, one after the other, while the monitor works    *)
(* concurrently: the contract's steps interleave with those of a tick.     *)
(***************************************************************************)
EXTENDS MonitorContract

CONSTANTS
    MayFail,     \* initial discovery and the collector thread may die
    MaxEvents    \* bound: user actions in one behaviour

(* Session::spawn builds its collector with include_storage_health unset. *)
ASSUME SessionAssumption ==
    /\ ~PeriodicHealth
    /\ MayFail \in BOOLEAN
    /\ MaxEvents \in Nat

VARIABLES
    session,   \* struct Session
    shown,     \* the displayed snapshot identifies a device
    sampled,   \* the last step counted a telemetry sample in the statistics
    tainted,   \* the user paused since the refresh under way was requested
    events     \* user actions so far

ui == <<session, shown, sampled, tainted, events>>
sessionVars == <<contract, ui>>

Reason == {"View", "Manual", "ElevatedManual"}

Priority(reason) ==
    CASE reason = "View" -> 0 [] reason = "Manual" -> 1
      [] reason = "ElevatedManual" -> 2

(* PendingHealthRefresh; None has no devices. *)
HealthRefresh == [reason : Reason, ids : SUBSET Devices]
NoHealth == [reason |-> "View", ids |-> {}]

(* An Option<bool> is the set of its value. *)
Option == {{}, {TRUE}, {FALSE}}

Step == {"between", "receive", "request", "wished"}

SessionTypeOK ==
    /\ ContractTypeOK
    /\ session \in [started : BOOLEAN, step : Step, disconnected : BOOLEAN,
                    paused : BOOLEAN, due : BOOLEAN, force : BOOLEAN,
                    refreshInFlight : BOOLEAN, discard : BOOLEAN,
                    desired : BOOLEAN, pending : Option, inFlight : Option,
                    pendingHealth : HealthRefresh, inFlightHealth : HealthRefresh]
    /\ {shown, sampled, tainted} \subseteq BOOLEAN
    /\ events \in 0..MaxEvents

Some(refresh) == refresh.ids # {}

Identified(collector) == collector.identified # {}

(* Commands other than storage health, and storage-health requests, that   *)
(* the monitor has accepted and whose answer has not been received.        *)
IsHealth(message) == message.op = "StorageHealth"
Messages == inbox \o doing \o outbox
OpenRefreshes == Cardinality({i \in DOMAIN Messages : ~IsHealth(Messages[i])})
OpenHealth ==
    Cardinality({i \in DOMAIN Messages : IsHealth(Messages[i])})
    + Len(health) + Len(collected)

-----------------------------------------------------------------------------
(* Tick *)

(* The initial discovery hands over its collector; the worker starts, if   *)
(* its threads can be created.                                             *)
FinishInitialization ==
    /\ ~session.started /\ ~session.disconnected
    /\ \/ session' = [session EXCEPT !.started = TRUE, !.step = "receive",
                                     !.due = FALSE]
       \/ /\ MayFail
          /\ session' = [session EXCEPT !.disconnected = TRUE, !.due = FALSE]
    /\ shown' = Identified(state)
    /\ sampled' = TRUE
    /\ UNCHANGED <<contract, tainted, events>>

InitializationFails ==
    /\ MayFail
    /\ ~session.started /\ ~session.disconnected
    /\ session' = [session EXCEPT !.disconnected = TRUE]
    /\ UNCHANGED <<contract, shown, sampled, tainted, events>>

Tick ==
    /\ session.started
    /\ session.step = "between"
    /\ session' = [session EXCEPT !.step = "receive"]
    /\ UNCHANGED <<contract, shown, sampled, tainted, events>>

(* A mutant: any update ends the refresh under way. *)
ClearedByAny(update) ==
    [session EXCEPT
        !.refreshInFlight = FALSE,
        !.discard = FALSE,
        !.inFlight = IF update.op = "SetSensitive" THEN {} ELSE @,
        !.inFlightHealth = IF IsHealth(update) THEN NoHealth ELSE @]

(* What receive_update makes of one MonitorPoll::Update: the flags of the  *)
(* requests it may answer ...                                              *)
Cleared(update) ==
    [session EXCEPT
        !.refreshInFlight = @ /\ IsHealth(update),
        !.discard = @ /\ IsHealth(update),
        !.inFlight = IF update.op = "SetSensitive" THEN {} ELSE @,
        !.inFlightHealth = IF IsHealth(update) THEN NoHealth ELSE @]

(* ... whether it answers an administrative request of the user ...        *)
SensitiveChanged(update) ==
    update.op = "SetSensitive" /\ session.inFlight # {}

Administrative(update) ==
    \/ IsHealth(update) /\ Some(session.inFlightHealth)
    \/ SensitiveChanged(update) /\ update.flag = session.desired

(* A mutant: while paused, no snapshot is shown. *)
AppliesUnpaused(update) == ~session.paused /\ ~session.discard

(* ... and whether its snapshot is shown.                                  *)
Applies(update) ==
    IF SensitiveChanged(update)
    THEN update.flag = session.desired
    ELSE Administrative(update) \/ (~session.paused /\ ~session.discard)

ReceiveUpdate ==
    /\ session.step = "receive"
    /\ Receive
    /\ LET update == Head(outbox)
       IN /\ session' = Cleared(update)
          /\ shown' = IF Applies(update) THEN update.identified ELSE shown
          /\ sampled' = (Applies(update) /\ ~Administrative(update))
    /\ UNCHANGED <<tainted, events>>

(* MonitorPoll::Idle, or Disconnected once the collector is gone. *)
PollEnds ==
    /\ session.step = "receive"
    /\ outbox = <<>>
    /\ session' = [session EXCEPT !.step = "request",
                                  !.disconnected = @ \/ ~alive,
                                  !.refreshInFlight = @ /\ alive]
    /\ sampled' = FALSE
    /\ UNCHANGED <<contract, shown, tainted, events>>

(* A mutant: Busy is taken for Accepted. *)
RequestOptimistically(cmd, accepted) ==
    \/ /\ Submit(cmd)
       /\ session' = [accepted EXCEPT !.step = "between"]
    \/ /\ alive /\ ~Accepts(cmd)
       /\ session' = [accepted EXCEPT !.step = "between"]
       /\ UNCHANGED contract
    \/ /\ ~alive
       /\ session' = [session EXCEPT !.step = "between", !.disconnected = TRUE]
       /\ UNCHANGED contract

(* A request as the session sees it: accepted, Busy, or Disconnected. *)
Request(cmd, accepted) ==
    \/ /\ Submit(cmd)
       /\ session' = [accepted EXCEPT !.step = "between"]
    \/ /\ alive /\ ~Accepts(cmd)
       /\ session' = [session EXCEPT !.step = "between"]
       /\ UNCHANGED contract
    \/ /\ ~alive
       /\ session' = [session EXCEPT !.step = "between", !.disconnected = TRUE]
       /\ UNCHANGED contract

(* request_sensitive stores the wish, then tries to send the command. *)
WishSensitive ==
    /\ session.step = "request"
    /\ ~session.disconnected
    /\ \E include \in session.pending :
        /\ ~session.refreshInFlight
        /\ Wish(include)
    /\ session' = [session EXCEPT !.step = "wished"]
    /\ sampled' = FALSE
    /\ UNCHANGED <<shown, tainted, events>>

RequestSensitive ==
    /\ session.step = "wished"
    /\ \E include \in session.pending :
        Request(SetSensitive(include),
                [session EXCEPT !.refreshInFlight = TRUE, !.inFlight = {include},
                                !.pending = {}])
    /\ tainted' = (tainted /\ ~session'.refreshInFlight)
    /\ UNCHANGED <<shown, sampled, events>>

(* A mutant: a waiting health request takes its turn while one is under way *)
HealthTurnAlways == session.pending = {} /\ Some(session.pendingHealth)

HealthTurn ==
    /\ session.pending = {}
    /\ ~Some(session.inFlightHealth)
    /\ Some(session.pendingHealth)

RequestHealth ==
    /\ session.step = "request"
    /\ ~session.disconnected
    /\ HealthTurn
    /\ Request(StorageHealth(session.pendingHealth.ids),
               [session EXCEPT !.inFlightHealth = session.pendingHealth,
                               !.pendingHealth = NoHealth])
    /\ UNCHANGED <<shown, sampled, tainted, events>>

RefreshTurn ==
    /\ session.pending = {}
    /\ ~HealthTurn
    /\ ~session.paused /\ ~session.refreshInFlight
    /\ session.force \/ session.due

RequestRefresh ==
    /\ session.step = "request"
    /\ ~session.disconnected
    /\ RefreshTurn
    /\ Request(Refresh(session.force),
               [session EXCEPT !.refreshInFlight = TRUE, !.force = FALSE,
                               !.due = FALSE])
    /\ tainted' = (tainted /\ ~session'.refreshInFlight)
    /\ UNCHANGED <<shown, sampled, events>>

RequestNothing ==
    /\ session.step = "request"
    /\ \/ session.disconnected
       \/ session.pending # {} /\ session.refreshInFlight
       \/ session.pending = {} /\ ~HealthTurn /\ ~RefreshTurn
    /\ session' = [session EXCEPT !.step = "between"]
    /\ UNCHANGED <<contract, shown, sampled, tainted, events>>

(* next_refresh is reached. *)
Deadline ==
    /\ ~session.due
    /\ session' = [session EXCEPT !.due = TRUE]
    /\ UNCHANGED <<contract, shown, sampled, tainted, events>>

-----------------------------------------------------------------------------
(* User actions, between two ticks *)

UserActs ==
    /\ session.step = "between"
    /\ events < MaxEvents
    /\ events' = events + 1
    /\ sampled' = FALSE

(* A mutant: resuming forgets that the sample under way is to be discarded *)
TogglePausedForgetting ==
    /\ UserActs
    /\ session' = IF session.paused
                  THEN [session EXCEPT !.paused = FALSE, !.due = TRUE,
                                       !.discard = FALSE]
                  ELSE [session EXCEPT !.paused = TRUE,
                                       !.discard = session.refreshInFlight]
    /\ tainted' = (tainted \/ (~session.paused /\ OpenRefreshes > 0))
    /\ UNCHANGED <<contract, shown>>

TogglePaused ==
    /\ UserActs
    /\ session' = IF session.paused
                  THEN [session EXCEPT !.paused = FALSE, !.due = TRUE]
                  ELSE [session EXCEPT !.paused = TRUE,
                                       !.discard = session.refreshInFlight]
    /\ tainted' = (tainted \/ (~session.paused /\ OpenRefreshes > 0))
    /\ UNCHANGED <<contract, shown>>

Rediscover ==
    /\ UserActs
    /\ session' = [session EXCEPT !.force = TRUE, !.due = TRUE]
    /\ UNCHANGED <<contract, shown, tainted>>

SetInterval ==
    /\ UserActs
    /\ session' = [session EXCEPT !.due = FALSE]
    /\ UNCHANGED <<contract, shown, tainted>>

SetIdentifyingInformation(include) ==
    /\ UserActs
    /\ session' = [session EXCEPT !.desired = include, !.pending = {include}]
    /\ UNCHANGED <<contract, shown, tainted>>

(* Devices that a request under way, or one waiting, already covers. *)
Covered(reason) ==
    LET current == session.inFlightHealth
        waiting == session.pendingHealth
    IN (IF Priority(current.reason) >= Priority(reason) THEN current.ids ELSE {})
       \cup (IF reason \in {"View", waiting.reason} THEN waiting.ids ELSE {})

(* One request waits: equal reasons are joined, a higher one replaces it, *)
(* a lower one is dropped.                                                *)
Merged(wantedIds, reason) ==
    LET waiting == session.pendingHealth
    IN IF Some(waiting) /\ waiting.reason = reason
       THEN [waiting EXCEPT !.ids = @ \cup wantedIds]
       ELSE IF Some(waiting) /\ Priority(waiting.reason) > Priority(reason)
       THEN waiting
       ELSE [reason |-> reason, ids |-> wantedIds]

RefreshStorageHealth(ids, reason) ==
    /\ UserActs
    /\ LET uncovered == ids \ Covered(reason)
       IN session' = IF uncovered = {} THEN session
                     ELSE [session EXCEPT !.pendingHealth = Merged(uncovered, reason)]
    /\ UNCHANGED <<contract, shown, tainted>>

-----------------------------------------------------------------------------

WorkerSteps ==
    Take \/ DoRefresh \/ DoSetSensitive \/ DoStorageHealth \/ ReportHealth

Monitor ==
    /\ WorkerSteps \/ CollectHealth \/ (MayFail /\ Stop)
    /\ UNCHANGED ui

SessionInit ==
    /\ ContractInit
    /\ session = [started |-> FALSE, step |-> "between", disconnected |-> FALSE,
                  paused |-> FALSE, due |-> FALSE, force |-> FALSE,
                  refreshInFlight |-> FALSE, discard |-> FALSE,
                  desired |-> state.sensitive, pending |-> {}, inFlight |-> {},
                  pendingHealth |-> NoHealth, inFlightHealth |-> NoHealth]
    /\ shown = FALSE /\ sampled = FALSE /\ tainted = FALSE
    /\ events = 0

MainLoop ==
    \/ FinishInitialization \/ Tick \/ ReceiveUpdate \/ PollEnds
    \/ WishSensitive \/ RequestSensitive \/ RequestHealth \/ RequestRefresh
    \/ RequestNothing

User ==
    \/ TogglePaused \/ Rediscover \/ SetInterval
    \/ \E include \in BOOLEAN : SetIdentifyingInformation(include)
    \/ \E ids \in SUBSET Devices \ {{}}, reason \in Reason :
          RefreshStorageHealth(ids, reason)

SessionNext ==
    MainLoop \/ InitializationFails \/ Deadline \/ User \/ Monitor

SessionSpec == SessionInit /\ [][SessionNext]_sessionVars

(* The main loop keeps ticking, deadlines pass, and the monitor carries    *)
(* out what it has accepted; a storage-health job need not end.            *)
SessionFairness ==
    /\ WF_sessionVars(MainLoop)
    /\ WF_sessionVars(Deadline)
    /\ WF_sessionVars(WorkerSteps /\ UNCHANGED ui)

SessionFairSpec == SessionSpec /\ SessionFairness

(* A premise: helper commands end, and the monitor gets to their result. *)
SessionHelpersEnd == SF_sessionVars(CollectHealth /\ UNCHANGED ui)

-----------------------------------------------------------------------------
(* Properties *)

One(b) == IF b THEN 1 ELSE 0

(* The session's idea of what is under way is what the monitor really has  *)
(* outstanding, so that no flag stays set after its answer and none is     *)
(* cleared before it: a session that mistook either would stop refreshing  *)
(* or send requests whose answers it misreads.                             *)
InFlightAccurate ==
    alive =>
        /\ OpenRefreshes = One(session.refreshInFlight)
        /\ OpenHealth = One(Some(session.inFlightHealth))

(* When the session waits for no storage health, the monitor is free to    *)
(* start a job: a waiting request cannot be refused for ever.              *)
HealthFreeWhenIdle == ~Some(session.inFlightHealth) => ~claimed

(* Once the user's wish to hide identifying values has been answered, the  *)
(* display does not identify a device, and no update on its way does.      *)
HiddenWhenSettled ==
    session.started /\ ~session.desired
    /\ session.pending = {} /\ session.inFlight = {} =>
        /\ ~shown
        /\ \A i \in DOMAIN outbox : ~outbox[i].identified

(* A sample requested before a pause is never counted after it, not even   *)
(* when the user resumes before it arrives; nor is any while paused.       *)
PausedSamplesDiscarded ==
    [][sampled' /\ outbox' # outbox => ~tainted /\ ~session.paused]_sessionVars

(* Every change of the identifying-information setting is eventually       *)
(* carried out, also when it races with refreshes and health requests.     *)
SensitiveSettles ==
    <>[](session.disconnected \/ (session.pending = {} /\ session.inFlight = {}))

(* Telemetry goes on while a helper command hangs in a storage job.        *)
LiveKeepsSampling == []<>(sampled \/ session.paused \/ session.disconnected)

(* If helper commands end, no storage-health request waits for ever.       *)
HealthSettles ==
    SessionHelpersEnd =>
        <>[](session.disconnected
             \/ (~Some(session.pendingHealth) /\ ~Some(session.inFlightHealth)))

(* The session and the monitor agree about what is under way.              *)
RequestsTracked == SessionTypeOK /\ InFlightAccurate /\ HealthFreeWhenIdle

(* What the user asks for is carried out in the end.                       *)
RequestsSettle == SensitiveSettles /\ HealthSettles
=============================================================================
