------------------------------- MODULE SensorTable -------------------------------
(***************************************************************************)
(* The table of sensors (crates/hwall-gui/src/table.rs): the store of row  *)
(* states, the labels that GTK binds to them and recycles, the selection   *)
(* and what is kept of it when the rows change.  One column stands for the *)
(* six, whose labels are bound and rendered alike.                         *)
(***************************************************************************)
EXTENDS Naturals, FiniteSets, SequencesExt

CONSTANTS
    Sections,     \* ids of the rows of devices and groups
    SensorIds,    \* ids of the rows of sensors
    Layouts,      \* the ids of the rows, in order, that there may be
    Values,       \* what a row may say
    Labels        \* the labels that GTK has for the cells

Free == "free"   \* no id of a row

ASSUME TableAssumption ==
    /\ Sections \cap SensorIds = {} /\ Free \notin Sections \cup SensorIds
    /\ Layouts \subseteq Seq(Sections \cup SensorIds)
    /\ \A layout \in Layouts : IsInjective(layout)

VARIABLES
    store,      \* the ids of the row states, in order
    row,        \* what each row state says
    bound,      \* the label of each row state, an option
    label,      \* what each label says: a row and what it said
    item,       \* the row state that GTK has each label's item at, or Free
    selection   \* the ids that are selected

tableVars == <<store, row, bound, label, item, selection>>

-----------------------------------------------------------------------------
(* The selection *)

(* selection_changed: no section is selected together with a sensor.       *)
Sanitized(selected) ==
    IF Cardinality(selected) > 1 /\ selected \cap SensorIds # {}
    THEN selected \ Sections ELSE selected

(* Clicks, keys and the rubber band of GTK select any rows. *)
Select ==
    /\ \E selected \in SUBSET ToSet(store) : selection' = Sanitized(selected)
    /\ UNCHANGED <<store, row, bound, label, item>>

(* The context menu is for the row, or for the selected sensors if it is   *)
(* one of them.                                                            *)
ContextClick ==
    /\ \E id \in ToSet(store) :
          selection' = IF id \in selection \cap SensorIds /\ selection \subseteq SensorIds
                       THEN selection ELSE {id}
    /\ UNCHANGED <<store, row, bound, label, item>>

ClearSelection ==
    /\ selection' = {}
    /\ UNCHANGED <<store, row, bound, label, item>>

-----------------------------------------------------------------------------
(* The labels *)

(* bind_label, when a row comes into view *)
Bind(l, id) ==
    /\ item[l] = Free /\ \A k \in Labels : item[k] # id
    /\ item' = [item EXCEPT ![l] = id]
    /\ bound' = [bound EXCEPT ![id] = {l}]
    /\ label' = [label EXCEPT ![l] = <<id, row[id]>>]
    /\ UNCHANGED <<store, row, selection>>

(* unbind_label, when it leaves *)
Unbind(l) ==
    /\ item[l] # Free
    /\ bound' = [bound EXCEPT ![item[l]] = {}]
    /\ item' = [item EXCEPT ![l] = Free]
    /\ UNCHANGED <<store, row, label, selection>>

-----------------------------------------------------------------------------
(* sync_rows *)

(* update_rows: a state that changes is rendered into its label. *)
UpdateRows(says) ==
    LET changed == { id \in ToSet(store) : row[id] # says[id] }
    IN /\ row' = says
       /\ label' = [l \in Labels |->
                       IF \E id \in changed : l \in bound[id]
                       THEN LET id == CHOOSE i \in changed : l \in bound[i] IN <<id, says[id]>>
                       ELSE label[l]]
       /\ UNCHANGED <<store, bound, item, selection>>

(* What is selected in the new rows, the first one if nothing was before.  *)
Kept(layout, preserve) ==
    IF preserve = {} /\ layout # <<>> THEN {layout[1]} ELSE preserve \cap ToSet(layout)

(* replace_topology: new states, to which GTK has yet to bind its labels.  *)
ReplaceTopology(layout, says) ==
    /\ store' = layout
    /\ row' = says
    /\ bound' = [id \in DOMAIN says |-> {}]
    /\ item' = [l \in Labels |-> Free]
    /\ selection' = Kept(layout, selection)
    /\ UNCHANGED label

SyncRows ==
    \E layout \in Layouts :
        \E says \in [ToSet(layout) -> Values] :
            IF layout = store THEN UpdateRows(says) ELSE ReplaceTopology(layout, says)

TableInit ==
    /\ store = <<>> /\ row = <<>> /\ bound = <<>>
    /\ label \in [Labels -> {<<>>}]
    /\ item = [l \in Labels |-> Free]
    /\ selection = {}

TableNext ==
    \/ Select \/ ContextClick \/ ClearSelection \/ SyncRows
    \/ \E l \in Labels : Unbind(l) \/ \E id \in ToSet(store) : Bind(l, id)

TableSpec == TableInit /\ [][TableNext]_tableVars

-----------------------------------------------------------------------------
(* Whatever was scrolled, updated and replaced, a label in view says what  *)
(* the row at its place was last given (bind_label, unbind_label, update,  *)
(* sync_rows); and a section is never selected together with a sensor, so  *)
(* that a command for the selected rows is for sensors or for one row.     *)
TableTrue ==
    /\ \A l \in Labels : item[l] # Free => label[l] = <<item[l], row[item[l]]>>
    /\ Cardinality(selection) > 1 => selection \cap Sections = {} \/ selection \cap SensorIds = {}
    /\ selection \subseteq ToSet(store)

(* New rows never select a row that the user had not, except that the      *)
(* first is when none was (replace_topology, select_id).                   *)
SelectionKept ==
    store' # store => \/ selection' = selection \cap ToSet(store')
                      \/ selection = {} /\ selection' = {store'[1]}
=============================================================================
