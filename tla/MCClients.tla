-------------------------------- MODULE MCClients --------------------------------
(***************************************************************************)
(* Small instances of the clients of the collector and of what the program *)
(* hands to the outside: the terminal monitor and watch on the promises of *)
(* MonitorWorker, serve, the log, one helper command, the settings file    *)
(* and the window rule.  They run one at a time: a behaviour is of the one *)
(* that part says.                                                         *)
(***************************************************************************)
EXTENDS Tui, Watch, Serve, LogWorker, HelperCommand, SettingsStore, PlasmaRule

VARIABLE part

clientsVars == <<part, contract, tuiLocal, watcher, printed, serveVars, logVars,
                 helperVars, settingsVars, plasmaVars>>

MCNoRule == [ids |-> Others, count |-> Cardinality(Others), entries |-> Unmanaged,
             position |-> FALSE]

ClientsInit ==
    /\ part \in {"tui", "watch", "serve", "log", "helper", "settings", "plasma"}
    /\ TuiInit /\ WatchInit /\ ServeInit /\ LogInit /\ HelperInit /\ SettingsInit /\ PlasmaInit
    /\ part \notin {"tui", "watch"} => ~wanted /\ state.devices = {}
    /\ part # "helper" => ~helper.elevated
    /\ part # "plasma" => rules = MCNoRule /\ ~window.enabled

Elsewhere(p) ==
    /\ part = p
    /\ p \notin {"tui", "watch"} => UNCHANGED contract
    /\ p # "tui" => UNCHANGED tuiLocal
    /\ p # "watch" => UNCHANGED <<watcher, printed>>
    /\ p # "serve" => UNCHANGED serveVars
    /\ p # "log" => UNCHANGED logVars
    /\ p # "helper" => UNCHANGED helperVars
    /\ p # "settings" => UNCHANGED settingsVars
    /\ p # "plasma" => UNCHANGED plasmaVars
    /\ UNCHANGED part

ClientsNext ==
    \/ Elsewhere("tui") /\ TuiNext
    \/ Elsewhere("watch") /\ WatchNext
    \/ Elsewhere("serve") /\ ServeNext
    \/ Elsewhere("log") /\ LogNext
    \/ Elsewhere("helper") /\ HelperNext
    \/ Elsewhere("settings") /\ SettingsNext
    \/ Elsewhere("plasma") /\ PlasmaNext

(* The fairness that the modules state, of the part that runs: of its main *)
(* thread or loop, of what works beside it, of what takes its requests,    *)
(* and of a third one.                                                     *)
MainThread ==
    \/ Elsewhere("tui") /\ TuiLoop
    \/ Elsewhere("watch") /\ Watcher
    \/ Elsewhere("serve") /\ Connection
    \/ Elsewhere("log") /\ (FindLogError \/ SendLogStop \/ JoinLogThread)
    \/ Elsewhere("helper") /\ HelperCaller

Background ==
    \/ Elsewhere("tui") /\ TuiWorker /\ UNCHANGED tuiLocal
    \/ Elsewhere("watch") /\ WatchWorker /\ UNCHANGED <<watcher, printed>>
    \/ Elsewhere("serve") /\ Refresher
    \/ Elsewhere("log") /\ LogThreadNext
    \/ Elsewhere("helper") /\ Reader("stdout")

Taken ==
    \/ Elsewhere("tui") /\ Take /\ UNCHANGED tuiLocal
    \/ Elsewhere("watch") /\ Take /\ UNCHANGED <<watcher, printed>>

Third ==
    \/ Elsewhere("tui") /\ TuiDeadline
    \/ Elsewhere("helper") /\ Reader("stderr")

ClientsFairness ==
    /\ WF_clientsVars(MainThread) /\ WF_clientsVars(Background)
    /\ SF_clientsVars(Taken) /\ WF_clientsVars(Third)

ClientsSpec == ClientsInit /\ [][ClientsNext]_clientsVars /\ ClientsFairness

-----------------------------------------------------------------------------
(* Properties of the parts, together where they are about the same thing   *)

(* The clients' data are well formed, and the terminal monitor and watch   *)
(* each wait for exactly the answers that the collector owes them.         *)
ClientsConsistent ==
    /\ TuiTypeOK /\ WatchTypeOK /\ ServeTypeOK /\ LogTypeOK
    /\ HelperTypeOK /\ SettingsTypeOK /\ PlasmaTypeOK
    /\ part = "tui" => TuiInFlight
    /\ part = "watch" => WatchPaired

(* The window rule is what the settings ask for, and the user's changes of *)
(* its position are left to him.                                           *)
RuleManaged == [][RuleAsWanted' /\ PositionRespected]_plasmaVars

(* Nothing waits for ever on what another thread, program or client does   *)
(* or leaves undone.                                                       *)
ClientsGoOn ==
    /\ part = "tui" => TuiGoesOn
    /\ part = "watch" => WatchGoesOn
    /\ part = "serve" => ServeGoesOn
    /\ part = "log" => LogEnds
    /\ part = "helper" => HelperReturns
=============================================================================
