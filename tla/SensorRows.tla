------------------------------- MODULE SensorRows -------------------------------
(***************************************************************************)
(* Which sensor rows there are and in which order: the projection of a     *)
(* snapshot through the settings (crates/hwall-app/src/rows.rs and         *)
(* visibility.rs), the dialog that organizes it                            *)
(* (crates/hwall-gui/src/dialogs/preferences.rs), and the commands of the  *)
(* window that change the settings (crates/hwall-gui/src/main.rs).  A key  *)
(* is <<device>>, <<device, kind>> or <<device, kind, sensor>>, so that    *)
(* its length says its depth and its front its parent.  The text in the    *)
(* entry is the set of the keys whose labels contain it; all contain the   *)
(* empty one.                                                              *)
(***************************************************************************)
EXTENDS Integers, FiniteSets, SequencesExt

CONSTANTS
    Kinds,      \* the kinds of sensors, in the order of SensorKind
    Snapshots,  \* sequences of sensor keys, those of a device together
    Searches,   \* texts, as the sets of the keys that they match; not the empty text
    MaxMarked   \* how many keys are hidden, collapsed or favourites at most

Up(key, depth) == SubSeq(key, 1, depth)

AllSensors == UNION { ToSet(s) : s \in Snapshots }
RowKeys == { Up(key, n) : key \in AllSensors, n \in 1 .. 3 }
NoSearch == RowKeys

ASSUME RowsAssumption ==
    /\ Kinds \in Seq(STRING) /\ IsInjective(Kinds)
    /\ \A s \in Snapshots : s \in Seq(STRING \X ToSet(Kinds) \X STRING) /\ IsInjective(s)
    /\ \A found \in Searches : found \subseteq RowKeys
    /\ MaxMarked \in Nat

VARIABLES
    readings,    \* the sensors of the snapshot the session shows
    order,       \* settings.device_order and settings.sensor_row_order
    marked,      \* settings.visibility: hidden, collapsed, favorites
    options,     \* show_sensor_groups, favorites_only, logging_scope, sensor_query
    organizer,   \* the entries of the dialog that organizes the rows, an option
    organized    \* the entries that were applied last, for the properties

rowsVars == <<readings, order, marked, options, organizer, organized>>

-----------------------------------------------------------------------------
(* The projection *)

(* The elements of s that are in keep, in their order *)
Selected(s, keep) == FlattenSeq([i \in DOMAIN s |-> IF s[i] \in keep THEN <<s[i]>> ELSE <<>>])

(* Both sorts of the code are stable and send what has no position behind  *)
(* what has one.                                                           *)
Arranged(keys, positions) ==
    Selected(positions, ToSet(keys)) \o Selected(keys, ToSet(keys) \ ToSet(positions))

(* Each device where it occurs first *)
Devices(s) ==
    FlattenSeq([i \in DOMAIN s |-> IF \E j \in 1 .. i - 1 : Up(s[j], 1) = Up(s[i], 1)
                                   THEN <<>> ELSE <<Up(s[i], 1)>>])

OrderedDevices(s, devices) == Arranged(Devices(s), devices)

(* The groups of a device, first in the order of their kinds *)
OrderedGroups(s, device, rows) ==
    LET groups == [k \in DOMAIN Kinds |-> Append(device, Kinds[k])]
    IN Arranged(Selected(groups, { Up(key, 2) : key \in ToSet(s) }), rows)

OrderedSensors(s, group, rows) ==
    Arranged(Selected(s, { key \in ToSet(s) : Up(key, 2) = group }), rows)

(* sensor_order_entries *)
GroupEntries(s, o, group) == <<group>> \o OrderedSensors(s, group, o.rows)

DeviceEntries(s, o, device) ==
    LET groups == OrderedGroups(s, device, o.rows)
    IN <<device>> \o FlattenSeq([i \in DOMAIN groups |-> GroupEntries(s, o, groups[i])])

OrderEntries(s, o) ==
    LET devices == OrderedDevices(s, o.devices)
    IN FlattenSeq([i \in DOMAIN devices |-> DeviceEntries(s, o, devices[i])])

(* build_sensor_rows_with_order: a device or group without a sensor that   *)
(* passes has no row.                                                      *)
Passing(s, m, show) ==
    { key \in ToSet(s) :
        /\ key \notin m.hidden
        /\ show.favoritesOnly => key \in m.favorites
        /\ \E n \in 1 .. 3 : Up(key, n) \in show.query }

GroupRows(s, o, m, show, group) ==
    LET sensors == Selected(OrderedSensors(s, group, o.rows), Passing(s, m, show))
    IN IF group \in m.hidden \/ sensors = <<>> THEN <<>>
       ELSE IF ~show.groups THEN sensors
       ELSE IF group \in m.collapsed THEN <<group>> ELSE <<group>> \o sensors

DeviceRows(s, o, m, show, device) ==
    LET groups == OrderedGroups(s, device, o.rows)
        below == FlattenSeq([i \in DOMAIN groups |-> GroupRows(s, o, m, show, groups[i])])
    IN IF device \in m.hidden \/ below = <<>> THEN <<>>
       ELSE IF device \in m.collapsed THEN <<device>> ELSE <<device>> \o below

BuildRows(s, o, m, show) ==
    LET devices == OrderedDevices(s, o.devices)
    IN FlattenSeq([i \in DOMAIN devices |-> DeviceRows(s, o, m, show, devices[i])])

SensorRows == BuildRows(readings, order, marked, options)

LoggingVisibility(m) ==
    [m EXCEPT !.collapsed = {}, !.hidden = IF options.scope = "visible" THEN @ ELSE {}]

LoggingRows ==
    BuildRows(readings, order, LoggingVisibility(marked),
              [options EXCEPT !.query = NoSearch, !.favoritesOnly = options.scope = "favorites"])

-----------------------------------------------------------------------------
(* The dialog *)

SubtreeEnd(entries, start) ==
    LET after == { i \in start + 1 .. Len(entries) : Len(entries[i]) <= Len(entries[start]) }
    IN IF after = {} THEN Len(entries) + 1 ELSE CHOOSE i \in after : \A j \in after : i <= j

Siblings(entries, start) ==
    { i \in DOMAIN entries \ {start} : Len(entries[i]) = Len(entries[start])
                                        /\ Front(entries[i]) = Front(entries[start]) }

(* The entries with those from middle to last before those from first.     *)
Swapped(entries, first, middle, last) ==
    SubSeq(entries, 1, first - 1) \o SubSeq(entries, middle, last - 1)
        \o SubSeq(entries, first, middle - 1) \o SubSeq(entries, last, Len(entries))

(* A mutant: the entry without what is below it. *)
MovedAlone(entries, start, direction) ==
    LET before == { i \in Siblings(entries, start) : i < start }
    IN IF direction = "up" /\ before # {}
       THEN Swapped(entries, CHOOSE i \in before : \A j \in before : j <= i, start, start + 1)
       ELSE entries

(* move_order_item; a move beyond the last sibling changes nothing *)
Moved(entries, start, direction) ==
    LET end == SubtreeEnd(entries, start)
        before == { i \in Siblings(entries, start) : i < start }
        after == { i \in Siblings(entries, start) : i >= end }
    IN CASE direction = "up" /\ before # {} ->
              Swapped(entries, CHOOSE i \in before : \A j \in before : j <= i, start, end)
         [] direction = "down" /\ after # {} ->
              LET next == CHOOSE i \in after : \A j \in after : i <= j
              IN Swapped(entries, start, end, SubtreeEnd(entries, next))
         [] OTHER -> entries

Open == organizer # <<>>

(* The dialog is modal. *)
Organize ==
    /\ ~Open
    /\ organizer' = OrderEntries(readings, order)
    /\ UNCHANGED <<readings, order, marked, options, organized>>

MoveSelected ==
    /\ Open
    /\ \E start \in DOMAIN organizer, direction \in {"up", "down"} :
          organizer' = Moved(organizer, start, direction)
    /\ UNCHANGED <<readings, order, marked, options, organized>>

ApplyOrder ==
    /\ Open
    /\ LET devices == { key \in ToSet(organizer) : Len(key) = 1 }
       IN order' = [devices |-> Selected(organizer, devices),
                    rows |-> Selected(organizer, ToSet(organizer) \ devices)]
    /\ organized' = organizer
    /\ organizer' = <<>>
    /\ UNCHANGED <<readings, marked, options>>

CancelOrganizing ==
    /\ Open
    /\ organizer' = <<>>
    /\ UNCHANGED <<readings, order, marked, options, organized>>

-----------------------------------------------------------------------------
(* The window *)

(* A tick applies an update of the monitor, with the dialog open or not. *)
ReadingsChange ==
    /\ readings' \in Snapshots
    /\ UNCHANGED <<order, marked, options, organizer, organized>>

Marks == Cardinality(marked.hidden) + Cardinality(marked.collapsed)
            + Cardinality(marked.favorites)

Mark(change) ==
    /\ ~Open
    /\ marked' = change
    /\ UNCHANGED <<readings, order, options, organizer, organized>>

(* hide_sensor_rows, toggle_row_collapsed and set_sensor_rows_favorite, of *)
(* a row that is shown                                                     *)
HideRow ==
    /\ Marks < MaxMarked
    /\ \E key \in ToSet(SensorRows) : Mark([marked EXCEPT !.hidden = @ \cup {key}])

ToggleCollapsed ==
    \E key \in ToSet(SensorRows) :
        /\ Len(key) < 3
        /\ key \in marked.collapsed \/ Marks < MaxMarked
        /\ Mark([marked EXCEPT !.collapsed = IF key \in @ THEN @ \ {key} ELSE @ \cup {key}])

SetFavorite ==
    \E key \in ToSet(SensorRows), favorite \in BOOLEAN :
        /\ Len(key) = 3
        /\ favorite => Marks < MaxMarked
        /\ Mark([marked EXCEPT !.favorites = IF favorite THEN @ \cup {key} ELSE @ \ {key}])

(* show_hidden_items, one or all of them *)
ShowHiddenItems ==
    \E shown \in { {key} : key \in marked.hidden } \cup {marked.hidden} :
        Mark([marked EXCEPT !.hidden = @ \ shown])

NormalOptions == [groups |-> TRUE, favoritesOnly |-> FALSE, scope |-> "visible", query |-> NoSearch]

(* The settings dialog, the button and the entry: at most one of them at a *)
(* time is not as usual.                                                   *)
ChangeOptions ==
    /\ ~Open
    /\ options' \in { [NormalOptions EXCEPT !.groups = FALSE],
                      [NormalOptions EXCEPT !.favoritesOnly = TRUE],
                      [NormalOptions EXCEPT !.scope = "all"],
                      [NormalOptions EXCEPT !.scope = "favorites"], NormalOptions }
                    \cup { [NormalOptions EXCEPT !.query = q] : q \in Searches }
    /\ UNCHANGED <<readings, order, marked, organizer, organized>>

RowsInit ==
    /\ readings \in Snapshots
    /\ order = [devices |-> <<>>, rows |-> <<>>]
    /\ marked = [hidden |-> {}, collapsed |-> {}, favorites |-> {}]
    /\ options = NormalOptions
    /\ organizer = <<>> /\ organized = <<>>

RowsNext ==
    \/ Organize \/ MoveSelected \/ ApplyOrder \/ CancelOrganizing
    \/ ReadingsChange \/ HideRow \/ ToggleCollapsed \/ SetFavorite \/ ShowHiddenItems
    \/ ChangeOptions

RowsSpec == RowsInit /\ [][RowsNext]_rowsVars

-----------------------------------------------------------------------------
(* The rows, of the window and of the log, are in the order that the       *)
(* dialog showed when it was applied last, whatever has come and gone      *)
(* since and whatever is hidden, collapsed, searched for or not grouped;   *)
(* what the dialog did not have stands behind what it had next to it       *)
(* (build_sensor_rows_with_order, show_sensor_order).                      *)
InOrder(rows) ==
    /\ Selected(rows, ToSet(organized)) = Selected(organized, ToSet(rows))
    /\ \A i, j \in DOMAIN rows :
          /\ Len(rows[i]) = Len(rows[j]) /\ Front(rows[i]) = Front(rows[j])
          /\ rows[i] \in ToSet(organized) /\ rows[j] \notin ToSet(organized)
          => i < j

OrderKept == InOrder(SensorRows) /\ InOrder(LoggingRows)

(* Whatever the dialog moves, each entry stays once and stays below the    *)
(* one it belongs to, with nothing else between (move_order_item).         *)
OrganizerIsTree ==
    /\ IsInjective(organizer)
    /\ \A i \in DOMAIN organizer :
          Len(organizer[i]) > 1 =>
              /\ i > 1
              /\ \/ organizer[i - 1] = Front(organizer[i])
                 \/ Len(organizer[i - 1]) >= Len(organizer[i])
                    /\ Up(organizer[i - 1], Len(organizer[i]) - 1) = Front(organizer[i])

(* The log has the sensors of its scope whatever the window shows: a       *)
(* search, the button for favourites and a collapsed row leave it alone    *)
(* (logging_rows).                                                         *)
LogsItsScope ==
    { key \in ToSet(LoggingRows) : Len(key) = 3 } =
        { key \in ToSet(readings) :
            CASE options.scope = "all" -> TRUE
              [] options.scope = "favorites" -> key \in marked.favorites
              [] OTHER -> \A n \in 1 .. 3 : Up(key, n) \notin marked.hidden }

(* What is shown is what the commands left: no row of what is hidden, and  *)
(* every sensor that none of them keeps back (build_sensor_rows).          *)
ShowsTheRest ==
    LET shown == ToSet(SensorRows)
        Kept(key) ==
            \/ \E n \in 1 .. 3 : Up(key, n) \in marked.hidden
            \/ options.favoritesOnly /\ key \notin marked.favorites
            \/ \A n \in 1 .. 3 : Up(key, n) \notin options.query
        Folded(key) ==
            \/ Up(key, 1) \in marked.collapsed
            \/ options.groups /\ Up(key, 2) \in marked.collapsed
    IN /\ { key \in shown : Len(key) = 3 } =
              { key \in ToSet(readings) : ~Kept(key) /\ ~Folded(key) }
       /\ { key \in shown : Len(key) = 1 } =
              { Up(key, 1) : key \in { k \in ToSet(readings) : ~Kept(k) } }

RowsTrue == OrderKept /\ OrganizerIsTree /\ LogsItsScope /\ ShowsTheRest
=============================================================================
