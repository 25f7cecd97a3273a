------------------------------ MODULE HardwarePage ------------------------------
(***************************************************************************)
(* The hardware page of the window (crates/hwall-gui/src/hardware.rs): the *)
(* list of the devices that match, the one that is selected, and its       *)
(* details, whose widgets are made once and whose labels are then updated  *)
(* in place.  Of a device, title stands for category, name and subtitle,   *)
(* structure for the titles, keys and labels of its sections and sensors,  *)
(* value for their values, and refresh for the button that refreshes its   *)
(* health.                                                                 *)
(***************************************************************************)
EXTENDS Naturals, FiniteSets, Sequences

CONSTANTS
    DeviceIds,
    Titles,
    Structures,
    Shown,       \* values, and texts to search for with the titles
    Inventories  \* sequences of devices, each with an id of its own

PageDevice == [id : DeviceIds, title : Titles, structure : Structures,
               refresh : {"none", "plain", "elevated"}, value : Shown]

ASSUME InventoryAssumption ==
    \A inventory \in Inventories :
        /\ inventory \in Seq(PageDevice)
        /\ \A i, j \in DOMAIN inventory : i # j => inventory[i].id # inventory[j].id

AnyText == "any"   \* the empty query, which all devices match

VARIABLES
    inventory,   \* state.inventory, an option
    find,        \* state.query
    listed,      \* the rows of the list; navigation_signature is of them
    chosen,      \* state.selected_id, an option
    rendered,    \* state.rendered, an option
    details      \* what the widgets of the details show, or a message

pageVars == <<inventory, find, listed, chosen, rendered, details>>

Start == [message |-> "Select a hardware device"]
Nothing == [message |-> "No hardware matches the search"]

-----------------------------------------------------------------------------
MatchingDevices(devices, q) ==
    LET kept == { i \in DOMAIN devices : q \in {AnyText, devices[i].title, devices[i].value} }
        Nth(n) == CHOOSE i \in kept : Cardinality({ j \in kept : j < i }) = n - 1
    IN [n \in 1 .. Cardinality(kept) |-> devices[Nth(n)]]

(* navigation_signature *)
Navigation(devices, q) ==
    LET matching == MatchingDevices(devices, q)
    IN [i \in DOMAIN matching |-> [id |-> matching[i].id, title |-> matching[i].title]]

With(devices, id) == { devices[i] : i \in { j \in DOMAIN devices : devices[j].id = id } }

SameStatic(left, right) ==
    /\ left.id = right.id /\ left.title = right.title /\ left.structure = right.structure
    /\ left.refresh = right.refresh

RenderDevice(device) ==
    /\ details' = device
    /\ rendered' = {device}

(* update_detail_labels sets the values, and leaves the rest as it is.     *)
UpdateDetailLabels(device) == details' = [details EXCEPT !.value = device.value]

UpdateOrRender(device) ==
    IF \E r \in rendered : SameStatic(r, device)
    THEN UpdateDetailLabels(device) /\ rendered' = {device}
    ELSE RenderDevice(device)

(* rebuild_navigation: the device stays selected, if it is there.  A row   *)
(* that GTK selects renders the device.                                    *)
RebuildNavigation(devices, q) ==
    LET rows == Navigation(devices, q)
        ids == { rows[i].id : i \in DOMAIN rows }
    IN /\ listed' = rows
       /\ IF rows = <<>>
          THEN chosen' = {} /\ rendered' = {} /\ details' = Nothing
          ELSE LET target == IF chosen \cap ids # {} THEN CHOOSE id \in chosen : TRUE
                             ELSE rows[1].id
               IN /\ chosen' = {target}
                  /\ \E device \in With(devices, target) : RenderDevice(device)

(* sync *)
SyncInventory ==
    \E devices \in Inventories :
        /\ inventory' = {devices}
        /\ IF listed # Navigation(devices, find)
           THEN RebuildNavigation(devices, find)
           ELSE /\ \A id \in chosen : \E device \in With(devices, id) : UpdateOrRender(device)
                /\ chosen = {} => UNCHANGED <<rendered, details>>
                /\ UNCHANGED <<listed, chosen>>
        /\ UNCHANGED find

SetPageQuery ==
    \E q \in Titles \cup Shown \cup {AnyText} :
        /\ find # q /\ find' = q
        /\ IF inventory = {} THEN UNCHANGED <<listed, chosen, rendered, details>>
           ELSE \E devices \in inventory : RebuildNavigation(devices, q)
        /\ UNCHANGED inventory

(* A click on a row *)
SelectDevice ==
    /\ \E i \in DOMAIN listed :
          /\ listed[i].id \notin chosen
          /\ chosen' = {listed[i].id}
          /\ \E devices \in inventory :
                \E device \in With(devices, listed[i].id) : RenderDevice(device)
    /\ UNCHANGED <<inventory, find, listed>>

PageInit ==
    /\ inventory = {} /\ find = AnyText
    /\ listed = <<>> /\ chosen = {} /\ rendered = {} /\ details = Start

PageNext == SyncInventory \/ SetPageQuery \/ SelectDevice

PageSpec == PageInit /\ [][PageNext]_pageVars

-----------------------------------------------------------------------------
(* However devices come, go and change and whatever is searched for, the   *)
(* details are those of the device that is selected, as it is now, with    *)
(* the button that its health needs, and it is one of the list; with no    *)
(* device to show they say so (sync, update_or_render_device).             *)
PageTrue ==
    \A devices \in inventory :
        /\ listed = Navigation(devices, find)
        /\ \A i \in DOMAIN devices : devices[i].id \in chosen => details = devices[i]
        /\ chosen \subseteq { listed[i].id : i \in DOMAIN listed }
        /\ IF chosen = {} THEN listed = <<>> /\ details \in {Start, Nothing} ELSE listed # <<>>
=============================================================================
