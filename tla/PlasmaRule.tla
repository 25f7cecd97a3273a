------------------------------- MODULE PlasmaRule -------------------------------
(***************************************************************************)
(* The KWin rule that remembers the window's position: crates/hwall-app/   *)
(* src/plasma.rs, and when crates/hwall-gui/src/main.rs has it installed,  *)
(* refreshed or removed.  kwinrulesrc is read and written entry by entry   *)
(* by helper programs, any of which may be missing or fail; KWin reads it  *)
(* when told to and writes the position into it.                           *)
(***************************************************************************)
EXTENDS Naturals, FiniteSets, Sequences

CONSTANTS
    Keys,      \* MANAGED_RULE_ENTRIES
    ScopeKeys, \* title and titlematch, without which a rule is stale
    Others,    \* ids of rules of other programs
    MaxSyncs   \* bound: times the rule is synchronized

ASSUME PlasmaAssumption ==
    /\ ScopeKeys \subseteq Keys
    /\ IsFiniteSet(Others)
    /\ MaxSyncs \in Nat

Hwall == "hwall"
ASSUME RuleIdAssumption == Hwall \notin Others

VARIABLES
    rules,   \* kwinrulesrc
    kwin,    \* the rule as KWin last read it, an option
    call,    \* the last call of sync_plasma_window_placement: enabled or not, its tools
    sync,    \* how far that call is
    window,  \* the GUI: its window, its setting, plasma_map_sync_pending
    syncs    \* calls so far

plasmaVars == <<rules, kwin, call, sync, window, syncs>>

(* An entry is absent, as HWall writes it, or something else.              *)
Entry == {"absent", "managed", "other"}
Rule == [entries : [Keys -> Entry], position : BOOLEAN]

(* What a call may find: PlasmaTools::discover, a Plasma session with all   *)
(* helper programs, and kconfig_tools_available, which looks again.        *)
Tools == {"plasma", "kconfig"}

PlasmaTypeOK ==
    /\ rules \in [ids : SUBSET (Others \cup {Hwall}), count : 0 .. Cardinality(Others) + 1,
                  entries : [Keys -> Entry], position : BOOLEAN]
    /\ kwin \in {{}} \cup {{r} : r \in Rule}
    /\ call \in [install : BOOLEAN, tools : SUBSET Tools]
    /\ sync \in [at : {"no", "list", "unscope", "write list", "write count", "entries",
                       "position", "reconfigure"},
                 create : BOOLEAN, reset : BOOLEAN, changed : BOOLEAN, todo : SUBSET Keys,
                 ids : SUBSET (Others \cup {Hwall})]
    /\ window \in [started : BOOLEAN, mapped : BOOLEAN, everMapped : BOOLEAN,
                   enabled : BOOLEAN, pending : BOOLEAN, untold : BOOLEAN, failed : BOOLEAN]
    /\ syncs \in 0 .. MaxSyncs

NoSync == [at |-> "no", create |-> FALSE, reset |-> FALSE, changed |-> FALSE,
           todo |-> {}, ids |-> {}]

(* untold: kwinrulesrc was changed without KWin being told.                *)
NewWindow(enabled, untold) ==
    [started |-> FALSE, mapped |-> FALSE, everMapped |-> FALSE, enabled |-> enabled,
     pending |-> FALSE, untold |-> untold, failed |-> FALSE]

Unmanaged == [k \in Keys |-> "absent"]

Listed == Hwall \in rules.ids

(* What KWin makes of the file when it reads it.                           *)
RuleRead == IF Listed THEN {[entries |-> rules.entries, position |-> rules.position]} ELSE {}

(* A rule of before may be there, whole, or not scoped to a window title.  *)
PlasmaInit ==
    /\ rules \in
         { [ids |-> Others, count |-> Cardinality(Others),
            entries |-> Unmanaged, position |-> FALSE] } \cup
         { [ids |-> Others \cup {Hwall}, count |-> Cardinality(Others) + 1,
            entries |-> [k \in Keys |-> IF k \in ScopeKeys THEN scope ELSE "managed"],
            position |-> placed] : scope \in Entry, placed \in BOOLEAN }
    /\ kwin = RuleRead
    /\ call = [install |-> FALSE, tools |-> {}]
    /\ sync = NoSync
    /\ \E enabled \in BOOLEAN : window = NewWindow(enabled, FALSE)
    /\ syncs = 0

-----------------------------------------------------------------------------
(* When the rule is synchronized *)

(* Programs and the session's environment may differ from call to call.    *)
BeginSync(install, create, reset) ==
    /\ syncs < MaxSyncs
    /\ syncs' = syncs + 1
    /\ \E tools \in SUBSET Tools : call' = [install |-> install, tools |-> tools]
    /\ sync' = [NoSync EXCEPT !.at = "list", !.create = create, !.reset = reset]

(* build_ui, before the window is shown                                    *)
SyncAtStart ==
    /\ sync.at = "no" /\ ~window.started
    /\ BeginSync(window.enabled, FALSE, FALSE)
    /\ window' = [window EXCEPT !.started = TRUE]
    /\ UNCHANGED <<rules, kwin>>

(* The settings dialog is applied; its window is mapped or not.            *)
ApplySetting(enabled) ==
    /\ sync.at = "no" /\ window.started
    /\ BeginSync(enabled, window.mapped, FALSE)
    /\ window' = [window EXCEPT !.enabled = enabled]
    /\ UNCHANGED <<rules, kwin>>

(* A reset of all settings removes the rule first.  The program then quits *)
(* or, if the file of the settings stays, goes on with the setting it had. *)
ResetSettings ==
    /\ sync.at = "no" /\ window.started
    /\ BeginSync(FALSE, FALSE, TRUE)
    /\ UNCHANGED <<rules, kwin, window>>

(* connect_map *)
MapWindow ==
    /\ sync.at = "no" /\ window.started /\ ~window.mapped
    /\ window' = [window EXCEPT !.mapped = TRUE, !.everMapped = TRUE, !.pending = FALSE]
    /\ IF window.pending /\ window.enabled
       THEN BeginSync(TRUE, TRUE, FALSE)
       ELSE UNCHANGED <<call, sync, syncs>>
    /\ UNCHANGED <<rules, kwin>>

HideWindow ==
    /\ sync.at = "no" /\ window.mapped
    /\ window' = [window EXCEPT !.mapped = FALSE]
    /\ UNCHANGED <<rules, kwin, call, sync, syncs>>

(* The program ends, by a kill between two helper programs also, and is    *)
(* started again with what the file of the settings says.                  *)
Relaunch ==
    /\ window.started
    /\ \E enabled \in BOOLEAN : window' = NewWindow(enabled, window.untold \/ sync.changed)
    /\ sync' = NoSync
    /\ UNCHANGED <<rules, kwin, call, syncs>>

-----------------------------------------------------------------------------
(* The steps of a synchronization, each one a helper program *)

(* The call returns; a reset does not take over whether creation is pending. *)
SyncReturns(pending, unannounced) ==
    /\ sync' = NoSync
    /\ window' = [window EXCEPT !.pending = IF sync.reset THEN @ ELSE pending,
                                !.failed = FALSE, !.untold = @ \/ unannounced]

(* Installing fails without a Plasma session and all helper programs,      *)
(* removing does nothing without those that read and write the file.       *)
ToolsFound == (IF call.install THEN "plasma" ELSE "kconfig") \in call.tools

(* An error is shown and leaves no creation pending.                       *)
SyncFails ==
    /\ sync.at # "no" /\ (call.install \/ ToolsFound)
    /\ sync' = NoSync
    /\ window' = [window EXCEPT !.pending = sync.reset /\ @, !.failed = TRUE,
                                !.untold = @ \/ sync.changed]
    /\ UNCHANGED <<rules, kwin, call, syncs>>

RemovalSkipped ==
    /\ sync.at = "list" /\ ~call.install /\ ~ToolsFound
    /\ SyncReturns(FALSE, FALSE)
    /\ UNCHANGED <<rules, kwin, call, syncs>>

CreationAllowed == sync.create

(* install_or_update_rule and remove_rule up to their first write          *)
ReadRuleList ==
    /\ sync.at = "list" /\ ToolsFound
    /\ IF call.install /\ ~Listed /\ ~CreationAllowed
       THEN SyncReturns(TRUE, FALSE)
       ELSE /\ sync' = [sync EXCEPT
                  !.ids = IF call.install THEN rules.ids \cup {Hwall} ELSE rules.ids \ {Hwall},
                  !.todo = Keys,
                  !.changed = call.install /\ ~Listed,
                  !.at = IF call.install /\ Listed
                            /\ \E k \in ScopeKeys : rules.entries[k] # "managed"
                         THEN "unscope"
                         ELSE IF ~call.install /\ ~Listed THEN "entries" ELSE "write list"]
            /\ UNCHANGED window
    /\ UNCHANGED <<rules, kwin, call, syncs>>

(* A stale rule was for all windows of the program: its position is dropped *)
UnscopePosition ==
    /\ sync.at = "unscope"
    /\ rules' = [rules EXCEPT !.position = FALSE]
    /\ sync' = [sync EXCEPT !.at = "write list", !.changed = @ \/ rules.position]
    /\ UNCHANGED <<kwin, call, window, syncs>>

(* write_rule_list: the rules, then their count                            *)
WriteRuleList ==
    /\ sync.at = "write list"
    /\ rules' = [rules EXCEPT !.ids = sync.ids]
    /\ sync' = [sync EXCEPT !.at = "write count", !.changed = @ \/ rules.ids # sync.ids]
    /\ UNCHANGED <<kwin, call, window, syncs>>

WriteRuleCount ==
    /\ sync.at = "write count"
    /\ rules' = [rules EXCEPT !.count = Cardinality(sync.ids)]
    /\ sync' = [sync EXCEPT !.at = "entries",
                            !.changed = @ \/ rules.count # Cardinality(sync.ids)]
    /\ UNCHANGED <<kwin, call, window, syncs>>

(* A mutant: an entry that is there is taken to be right.                  *)
WrittenUnlessThere(k) == IF rules.entries[k] = "absent" THEN "managed" ELSE rules.entries[k]

(* write_config_if_changed                                                 *)
Written(k) == "managed"

(* One of the managed entries, written or deleted unless it is so already. *)
SyncEntry(k) ==
    /\ sync.at = "entries" /\ k \in sync.todo
    /\ LET value == IF call.install THEN Written(k) ELSE "absent"
       IN /\ rules' = [rules EXCEPT !.entries[k] = value]
          /\ sync' = [sync EXCEPT !.todo = @ \ {k},
                                  !.changed = @ \/ rules.entries[k] # value]
    /\ UNCHANGED <<kwin, call, window, syncs>>

EntriesDone ==
    /\ sync.at = "entries" /\ sync.todo = {}
    /\ IF call.install
       THEN IF sync.changed
            THEN sync' = [sync EXCEPT !.at = "reconfigure"] /\ UNCHANGED window
            ELSE SyncReturns(FALSE, FALSE)
       ELSE sync' = [sync EXCEPT !.at = "position"] /\ UNCHANGED window
    /\ UNCHANGED <<rules, kwin, call, syncs>>

(* Without a Plasma session KWin is not told of what was removed.          *)
RemovePosition ==
    /\ sync.at = "position"
    /\ rules' = [rules EXCEPT !.position = FALSE]
    /\ LET changed == sync.changed \/ rules.position
       IN IF changed /\ "plasma" \in call.tools
          THEN /\ sync' = [sync EXCEPT !.at = "reconfigure", !.changed = changed]
               /\ UNCHANGED window
          ELSE SyncReturns(FALSE, changed)
    /\ UNCHANGED <<kwin, call, syncs>>

(* PlasmaTools::reconfigure: KWin reads the rules.                         *)
Reconfigure ==
    /\ sync.at = "reconfigure"
    /\ kwin' = RuleRead
    /\ sync' = NoSync
    /\ window' = [window EXCEPT !.pending = sync.reset /\ @, !.failed = FALSE, !.untold = FALSE]
    /\ UNCHANGED <<rules, call, syncs>>

(* KWin remembers where a mapped window with a rule is, at any time.       *)
KWinPlaces ==
    /\ window.mapped /\ kwin # {} /\ Listed
    /\ rules' = [rules EXCEPT !.position = TRUE]
    /\ kwin' = { [r EXCEPT !.position = TRUE] : r \in kwin }
    /\ UNCHANGED <<call, sync, window, syncs>>

PlasmaNext ==
    \/ SyncAtStart \/ MapWindow \/ HideWindow \/ Relaunch \/ KWinPlaces
    \/ \E enabled \in BOOLEAN : ApplySetting(enabled)
    \/ ResetSettings
    \/ SyncFails \/ RemovalSkipped
    \/ ReadRuleList \/ UnscopePosition \/ WriteRuleList \/ WriteRuleCount
    \/ \E k \in Keys : SyncEntry(k)
    \/ EntriesDone \/ RemovePosition \/ Reconfigure

PlasmaSpec == PlasmaInit /\ [][PlasmaNext]_plasmaVars

-----------------------------------------------------------------------------
(* Properties *)

(* The last synchronization of this process has returned without an error. *)
Worked == sync.at = "no" /\ window.started /\ ~window.failed

(* The rules of other programs stay listed whatever fails.  When the last  *)
(* synchronization has worked, the rule is there whole and scoped to the   *)
(* window if it was to be installed and the window has been mapped, and    *)
(* gone without a trace if it was to be removed and the programs for that  *)
(* were there, whatever attempts that failed or were killed have left.     *)
(* KWin has read the rule, unless it was not told of a change, by an       *)
(* attempt that did not end or by a removal outside of Plasma: the next    *)
(* one finds nothing to change there and does not make up for it.          *)
RuleAsWanted ==
    /\ Others \subseteq rules.ids
    /\ Worked /\ call.install /\ ~window.pending =>
          /\ Listed /\ rules.count = Cardinality(rules.ids)
          /\ rules.entries = [k \in Keys |-> "managed"]
    /\ Worked /\ ~call.install /\ "kconfig" \in call.tools =>
          ~Listed /\ rules.entries = Unmanaged /\ ~rules.position
    /\ sync.at = "no" => window.untold \/ kwin = RuleRead

(* The rule is not created before the window has been mapped once, when    *)
(* KWin could take an arbitrary position for the remembered one; and the   *)
(* position that KWin remembers for the scoped rule is kept by everything  *)
(* but its removal.                                                        *)
PositionRespected ==
    /\ Listed' /\ ~Listed => window.everMapped
    /\ rules.position /\ ~rules'.position =>
          ~call.install \/ \E k \in ScopeKeys : rules.entries[k] # "managed"
=============================================================================
