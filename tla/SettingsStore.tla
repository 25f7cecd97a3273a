----------------------------- MODULE SettingsStore -----------------------------
(***************************************************************************)
(* The settings of the GUI and their file: SettingsStore of crates/hwall-  *)
(* app/src/settings.rs and its callers in crates/hwall-gui/src/main.rs.    *)
(* Every change is saved at once, into a temporary file that then replaces *)
(* the old one; the program may be killed, and steps may fail, between.    *)
(*                                                                         *)
(* Settings are a version number, 0 for the defaults.                      *)
(***************************************************************************)
EXTENDS Naturals

CONSTANTS
    MaxVersion, \* bound: changes of the settings
    MaxRuns     \* bound: starts of the program

ASSUME SettingsAssumption == {MaxVersion, MaxRuns} \subseteq Nat \ {0}

Defaults == 0
Broken == MaxVersion + 1   \* what cannot be read as settings
Contents == 0 .. Broken

VARIABLES
    disk,     \* settings.json and settings.json.tmp, options
    gui,      \* the program: its loop, and settings_reset_pending
    settings, \* the settings in memory
    saving,   \* where a save or a reset is, and what comes after it
    saved,    \* the settings that the last finished save wrote, an option
    edited,   \* the file was changed by someone else since
    used      \* versions and starts used up

settingsVars == <<disk, gui, settings, saving, saved, edited, used>>

SettingsTypeOK ==
    /\ disk \in [file : {{}} \cup { {c} : c \in Contents },
                 temporary : {{}} \cup { {c} : c \in Contents }]
    /\ gui \in [loop : {"off", "running", "quitting"}, resetPending : BOOLEAN,
                trayQuit : BOOLEAN]
    /\ settings \in 0 .. MaxVersion
    /\ saving \in [at : {"no", "write", "rename", "reset", "unlink"},
                   then : {"running", "quitting", "off"}]
    /\ saved \in {{}} \cup { {v} : v \in 0 .. MaxVersion }
    /\ edited \in BOOLEAN
    /\ used \in [versions : 0 .. MaxVersion, runs : 0 .. MaxRuns]

NotSaving == [at |-> "no", then |-> "running"]
GuiOff == [loop |-> "off", resetPending |-> FALSE, trayQuit |-> FALSE]

SettingsInit ==
    /\ disk = [file |-> {}, temporary |-> {}]
    /\ gui = GuiOff
    /\ settings = Defaults /\ saving = NotSaving
    /\ saved = {} /\ edited = FALSE
    /\ used = [versions |-> 0, runs |-> 0]

(* load: a file that is missing or cannot be read gives the defaults.      *)
Loaded == IF disk.file \in {{}, {Broken}} THEN Defaults
          ELSE CHOOSE v \in disk.file : TRUE

Launch ==
    /\ gui.loop = "off" /\ used.runs < MaxRuns
    /\ gui' = [GuiOff EXCEPT !.loop = "running"]
    /\ settings' = Loaded
    /\ used' = [used EXCEPT !.runs = @ + 1]
    /\ UNCHANGED <<disk, saving, saved, edited>>

Idle == gui.loop # "off" /\ saving.at = "no"

(* save_settings; then is what the caller does next.                       *)
BeginSave(then) == saving' = [at |-> "write", then |-> then]

(* One of the many handlers that change a setting and save it.             *)
ChangeSettings ==
    /\ Idle /\ gui.loop = "running"
    /\ used.versions < MaxVersion
    /\ used' = [used EXCEPT !.versions = @ + 1]
    /\ settings' = used'.versions
    /\ BeginSave("running")
    /\ UNCHANGED <<disk, gui, saved, edited>>

(* connect_close_request: the window is hidden or closed, and with it the  *)
(* program; nothing is saved after a reset.                                *)
CloseRequest ==
    /\ Idle
    /\ IF gui.resetPending
       THEN gui' = GuiOff /\ UNCHANGED saving
       ELSE UNCHANGED gui /\ \E then \in {"running", "off"} : BeginSave(then)
    /\ UNCHANGED <<disk, settings, saved, edited, used>>

(* TrayAction::Quit, which can still be dispatched after a reset.          *)
TrayQuits ==
    /\ Idle
    /\ gui' = [gui EXCEPT !.trayQuit = TRUE]
    /\ BeginSave("off")
    /\ UNCHANGED <<disk, settings, saved, edited, used>>

(* application.quit() takes effect at the end of the loop's turn.          *)
LoopEnds ==
    /\ Idle /\ gui.loop = "quitting"
    /\ gui' = GuiOff
    /\ UNCHANGED <<disk, settings, saving, saved, edited, used>>

-----------------------------------------------------------------------------
(* SettingsStore::save.  Any step may fail, which only leaves a notice,    *)
(* and the program may be killed before any of them.                       *)

Afterwards ==
    /\ saving' = NotSaving
    /\ gui' = IF saving.then = "off" THEN GuiOff ELSE [gui EXCEPT !.loop = saving.then]

(* A mutant: the settings are written into their file itself.              *)
WriteInPlace ==
    /\ saving.at = "write"
    /\ \/ disk' = [disk EXCEPT !.file = {Broken}]
       \/ disk' = [disk EXCEPT !.file = {settings}]
    /\ saving' = [saving EXCEPT !.at = "rename"]
    /\ UNCHANGED <<gui, settings, saved, edited, used>>

(* fs::write makes the file empty first, so that what a failed or killed   *)
(* write leaves is not settings.                                           *)
WriteTemporary ==
    /\ saving.at = "write"
    /\ \/ /\ disk' = [disk EXCEPT !.temporary = {settings}]
          /\ saving' = [saving EXCEPT !.at = "rename"]
          /\ UNCHANGED gui
       \/ /\ disk' \in {disk, [disk EXCEPT !.temporary = {Broken}]}
          /\ Afterwards
    /\ UNCHANGED <<settings, saved, edited, used>>

RenameTemporary ==
    /\ saving.at = "rename"
    /\ \/ /\ disk' = [file |-> disk.temporary, temporary |-> {}]
          /\ saved' = {settings} /\ edited' = FALSE
       \/ UNCHANGED <<disk, saved, edited>>
    /\ Afterwards
    /\ UNCHANGED <<settings, used>>

(* SettingsStore::reset, after the Plasma rule has been removed: first the *)
(* temporary file, then the settings; a failure leaves the program running.*)
BeginReset ==
    /\ Idle /\ gui.loop = "running"
    /\ saving' = [at |-> "reset", then |-> "quitting"]
    /\ UNCHANGED <<disk, gui, settings, saved, edited, used>>

ResetFails == saving' = NotSaving /\ UNCHANGED <<disk, gui, saved, edited>>

RemoveTemporary ==
    /\ saving.at = "reset"
    /\ \/ /\ disk' = [disk EXCEPT !.temporary = {}]
          /\ saving' = [saving EXCEPT !.at = "unlink"]
          /\ UNCHANGED <<gui, saved, edited>>
       \/ ResetFails
    /\ UNCHANGED <<settings, used>>

RemoveFile ==
    /\ saving.at = "unlink"
    /\ \/ /\ disk' = [disk EXCEPT !.file = {}]
          /\ saved' = {} /\ edited' = FALSE
          /\ saving' = NotSaving
          /\ gui' = [gui EXCEPT !.loop = "quitting", !.resetPending = TRUE]
       \/ ResetFails
    /\ UNCHANGED <<settings, used>>

(* The program is killed, also in the middle of a write.                   *)
Killed ==
    /\ gui.loop # "off"
    /\ gui' = GuiOff
    /\ saving' = NotSaving
    /\ disk' \in {disk} \cup (IF saving.at = "write"
                              THEN {[disk EXCEPT !.temporary = {Broken}]} ELSE {})
    /\ UNCHANGED <<settings, saved, edited, used>>

(* Someone edits the file, or leaves one of another version, that cannot   *)
(* be read.                                                                *)
EditedByHand ==
    /\ gui.loop = "off" /\ disk.file # {}
    /\ disk' = [disk EXCEPT !.file = {Broken}]
    /\ edited' = TRUE
    /\ UNCHANGED <<gui, settings, saving, saved, used>>

SettingsNext ==
    \/ Launch \/ ChangeSettings \/ CloseRequest \/ TrayQuits \/ LoopEnds
    \/ WriteTemporary \/ RenameTemporary
    \/ BeginReset \/ RemoveTemporary \/ RemoveFile
    \/ Killed \/ EditedByHand

SettingsSpec == SettingsInit /\ [][SettingsNext]_settingsVars

-----------------------------------------------------------------------------
(* Properties *)

(* Whatever fails and wherever the program is killed, the settings file    *)
(* has the settings of the last save that was finished, whole; only a file *)
(* that others made unreadable is started from with the defaults.          *)
SettingsSurvive ==
    ~edited => disk.file = saved

(* After a reset the settings are gone, the temporary file too, until the  *)
(* program is started again: closing the window does not bring them back.  *)
(* (Quitting by the tray in the same turn of the main loop does.)          *)
ResetStays ==
    gui.resetPending /\ ~gui.trayQuit => disk = [file |-> {}, temporary |-> {}]

(* Neither a crash, nor a program that closes, nor a reset leaves settings *)
(* that the user never chose.                                              *)
SettingsKept == SettingsSurvive /\ ResetStays
=============================================================================
