------------------------------- MODULE MainWindow -------------------------------
(***************************************************************************)
(* What the main window of the graphical program shows and when it is      *)
(* brought up to date (crates/hwall-gui/src/main.rs): two views that share *)
(* one entry, a status line with a notice that expires, a tick that goes   *)
(* on while the window is hidden, and the details windows.  Everything     *)
(* runs in callbacks of the main loop, one at a time; a handler is the     *)
(* composition of the functions that it calls.  What the session, the      *)
(* table, the page and the settings do themselves is in their modules.     *)
(***************************************************************************)
EXTENDS Naturals

CONSTANTS
    Searched,    \* texts in the entry
    DetailSensors,  \* sensors whose details may be opened
    Drives       \* drives whose details may be opened, and whose health is read

NoText == "empty"
Texts == Searched \cup {NoText}
Views == {"sensors", "hardware"}

VARIABLE
    gui   \* mapped, gone    the window; whether the program has ended
          \* view            the view of the stack
          \* entry, settling the entry, whether search-changed is to come
          \* query           sensor_query and hardware_query
          \* shown           the texts that table and page were made with
          \* behind          what does not show the model as it is
          \* timed           the timed notice: none, on, or over and to expire
          \* details         the open details windows
          \* asked           the drives whose health the last step asked for

WindowTypeOK ==
    gui \in [mapped : BOOLEAN, gone : BOOLEAN, view : Views, entry : Texts,
             settling : BOOLEAN, query : [Views -> Texts], shown : [Views -> Texts],
             behind : SUBSET (Views \cup {"status"}), timed : {"none", "on", "over"},
             details : SUBSET (DetailSensors \cup Drives), asked : SUBSET Drives]

-----------------------------------------------------------------------------
(* The functions the handlers call, from one state of gui to the next      *)

Behind(g, parts) == [g EXCEPT !.behind = @ \cup parts]
Everything == Views \cup {"status"}

UpdateStatus(g) == IF g.mapped THEN [g EXCEPT !.behind = @ \ {"status"}] ELSE g

RebuildRows(g) ==
    IF g.mapped
    THEN UpdateStatus([g EXCEPT !.behind = @ \ {"sensors"}, !.shown.sensors = g.query.sensors])
    ELSE g

SyncHardware(g) == IF g.mapped THEN [g EXCEPT !.behind = @ \ {"hardware"}] ELSE g

SyncActiveView(g) ==
    IF ~g.mapped THEN g
    ELSE IF g.view = "hardware" THEN UpdateStatus(SyncHardware(g)) ELSE RebuildRows(g)

(* The search-changed handler *)
SearchChanged(g) ==
    LET typed == [g EXCEPT !.settling = FALSE, !.query[g.view] = g.entry]
    IN IF g.view = "hardware"
       THEN UpdateStatus([typed EXCEPT !.shown.hardware = g.entry])
       ELSE RebuildRows(typed)

(* GTK's search entry tells of a change after a delay, and at once when it *)
(* is emptied.                                                             *)
SetText(g, text) ==
    IF text = NoText THEN SearchChanged([g EXCEPT !.entry = text])
    ELSE [g EXCEPT !.entry = text, !.settling = TRUE]

(* process_session_tick: news is what the session's tick found: a snapshot,*)
(* another activity or a logging error, or nothing.                        *)
ProcessTick(g, present, news) ==
    LET changes == CASE news = "snapshot" -> Everything
                     [] news = "activity" -> {"status"}
                     [] OTHER -> {}
        over == g.timed = "over"
        told == Behind([g EXCEPT !.timed = IF over THEN "none" ELSE @], changes)
    IN IF ~present THEN told
       ELSE IF news = "snapshot" THEN SyncActiveView(told)
       ELSE IF news = "activity" \/ over THEN UpdateStatus(told) ELSE told

(* request_stale_health: of the drives that are asked about, those whose   *)
(* health is due.                                                          *)
AskStale(g, drives, due) == [g EXCEPT !.asked = drives \cap due]

(* request_visible_storage_health, when it is time or forced               *)
AskVisible(g, due) ==
    AskStale(g, (IF g.mapped /\ g.view = "hardware" THEN Drives ELSE {})
                    \cup (g.details \cap Drives), due)

(* A mutant: only what the tick finds is shown. *)
MapHandlerOfTicks(g, before, after, due) ==
    AskVisible(ProcessTick(ProcessTick(g, FALSE, before), TRUE, after), due)

(* The handler of the map signal *)
MapHandler(g, before, after, due) ==
    AskVisible(ProcessTick(SyncActiveView(ProcessTick(g, FALSE, before)), TRUE, after), due)

(* connect_plasma_window_placement: the rule's outcome may be a notice.    *)
PlasmaMapHandler(g, noted) == IF noted THEN UpdateStatus(Behind(g, {"status"})) ELSE g

-----------------------------------------------------------------------------
(* The callbacks *)

News == {"snapshot", "activity", "none"}

Running == ~gui.gone
Becomes(g) == gui' = [g EXCEPT !.asked = {}]

(* start_tick, every 50 ms; the health is looked at every five seconds.    *)
TimerTick ==
    /\ Running
    /\ \E news \in News, due \in SUBSET Drives, look \in BOOLEAN :
          LET ticked == [ProcessTick(gui, gui.mapped, news) EXCEPT !.asked = {}]
          IN gui' = IF look THEN AskVisible(ticked, due) ELSE ticked

(* The window is presented, first or from the tray. *)
Show ==
    /\ Running /\ ~gui.mapped
    /\ \E before \in News, after \in News, due \in SUBSET Drives, noted \in BOOLEAN :
          gui' = PlasmaMapHandler(
                    MapHandler([gui EXCEPT !.mapped = TRUE], before, after, due), noted)

(* The close request: to the tray, or the end; quit ends it too.           *)
Close ==
    /\ Running
    /\ \/ gui.mapped /\ Becomes([gui EXCEPT !.mapped = FALSE])
       \/ Becomes([gui EXCEPT !.mapped = FALSE, !.gone = TRUE])

(* visible-child-name changes *)
SwitchView ==
    /\ Running /\ gui.mapped
    /\ \E view \in Views \ {gui.view}, due \in SUBSET Drives :
          LET text == gui.query[view]
              there == [gui EXCEPT !.view = view, !.asked = {}]
              set == IF gui.entry # text THEN SetText(there, text) ELSE there
              synced == IF view = "hardware"
                        THEN AskVisible(SyncHardware([set EXCEPT !.shown.hardware = text]), due)
                        ELSE IF gui.entry = text THEN RebuildRows(set) ELSE set
          IN gui' = UpdateStatus(synced)

TypeText ==
    /\ Running /\ gui.mapped
    /\ \E text \in Texts \ {gui.entry} : Becomes(SetText(gui, text))

EntrySettles ==
    /\ Running /\ gui.settling
    /\ Becomes(SearchChanged(gui))

(* Commands that change what the status line says; recordings start and    *)
(* stop like TogglePaused.                                                 *)
StatusCommand ==
    /\ Running
    /\ Becomes(UpdateStatus(Behind(gui, {"status"})))

TogglePaused == StatusCommand
Rediscover == StatusCommand
RefreshHealth == StatusCommand
ToggleLogging == StatusCommand

(* Hide, favourite, collapse, organize, show again, favourites only: what  *)
(* is done in the sensor view                                              *)
RowsCommand ==
    /\ Running /\ gui.mapped /\ gui.view = "sensors"
    /\ Becomes(RebuildRows(Behind(gui, {"sensors", "status"})))

(* Commands that change what both views say, with the window hidden too,   *)
(* from a details window or the tray                                       *)
ViewCommand ==
    /\ Running
    /\ Becomes(SyncActiveView(Behind(gui, Everything)))

ResetStatistics == ViewCommand
RenameRow == ViewCommand
ConfigureSensorAlert == ViewCommand
ApplySettings == ViewCommand

(* An export has ended. *)
TellExport ==
    /\ Running
    /\ Becomes(UpdateStatus(Behind([gui EXCEPT !.timed = "on"], {"status"})))

NoticeIsOver ==
    /\ Running /\ gui.timed = "on"
    /\ Becomes(Behind([gui EXCEPT !.timed = "over"], {"status"}))

(* show_details_for_row: a window that is open is presented; recording a   *)
(* sensor begins with its window.                                          *)
ShowDetailsForRow ==
    /\ Running /\ gui.mapped /\ gui.view = "sensors"
    /\ \/ \E key \in DetailSensors \ gui.details :
             Becomes(UpdateStatus(Behind([gui EXCEPT !.details = @ \cup {key}], {"status"})))
       \/ StatusCommand   \* no longer there

ShowDeviceDetails ==
    /\ Running /\ gui.mapped /\ gui.view = "sensors"
    /\ \E drive \in Drives \ gui.details, due \in SUBSET Drives :
          gui' = AskStale([gui EXCEPT !.details = @ \cup {drive}], {drive}, due)

CloseDetails ==
    /\ Running
    /\ \E key \in gui.details :
          LET closed == [gui EXCEPT !.details = @ \ {key}]
          IN Becomes(IF key \in DetailSensors
                     THEN UpdateStatus(Behind(closed, {"status"})) ELSE closed)

WindowInit ==
    gui = [mapped |-> FALSE, gone |-> FALSE, view |-> "sensors", entry |-> NoText,
           settling |-> FALSE, query |-> [v \in Views |-> NoText],
           shown |-> [v \in Views |-> NoText], behind |-> Everything, timed |-> "none",
           details |-> {}, asked |-> {}]

WindowNext ==
    \/ TimerTick \/ Show \/ Close \/ SwitchView \/ TypeText \/ EntrySettles
    \/ TogglePaused \/ Rediscover \/ RefreshHealth \/ ToggleLogging
    \/ RowsCommand \/ ResetStatistics \/ RenameRow \/ ConfigureSensorAlert \/ ApplySettings
    \/ TellExport \/ NoticeIsOver
    \/ ShowDetailsForRow \/ ShowDeviceDetails \/ CloseDetails

WindowSpec == WindowInit /\ [][WindowNext]_gui

-----------------------------------------------------------------------------
(* A window that is seen shows what there is: whatever happened while it   *)
(* was hidden, showed the other view or waited for the text to settle, its *)
(* view and its status are those of the model, its text is the one the     *)
(* view was made with; only an expired notice stays until the next tick    *)
(* (process_session_tick, connect_view_switching, connect_map).            *)
WindowTrue ==
    gui.mapped =>
        /\ ~gui.settling => /\ gui.view \notin gui.behind
                            /\ gui.entry = gui.query[gui.view]
                            /\ gui.shown[gui.view] = gui.query[gui.view]
        /\ gui.timed # "over" => "status" \notin gui.behind

(* No drive is asked for its health, and so woken, unless it is looked at  *)
(* (request_visible_storage_health).                                       *)
AskedWhenSeen ==
    gui.asked \subseteq gui.details \/ (gui.mapped /\ gui.view = "hardware")
=============================================================================
