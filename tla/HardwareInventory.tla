---------------------------- MODULE HardwareInventory ----------------------------
(***************************************************************************)
(* The inventory that the hardware page shows, built from the devices of a *)
(* snapshot (crates/hwall-app/src/hardware.rs): which devices are in it,   *)
(* what the board takes over from its firmware, and in which sections      *)
(* their properties are.  Keys stand for the kinds of properties that the  *)
(* code tells apart; how a name or a value is written, and the order       *)
(* within a section, are left out.                                         *)
(***************************************************************************)
EXTENDS SequencesExt

CONSTANT
    Machines   \* sets of devices that a snapshot may have

(* A device as far as the page tells devices apart; what may be missing is *)
(* the set of it.                                                          *)
Health == [status : STRING, checked : BOOLEAN, attempted : BOOLEAN, note : BOOLEAN,
           availability : {"Current", "DriveAsleep", "PermissionDenied", "HelperMissing",
                           "Unsupported", "Error"}]

DeviceWith(keys) ==
    [id : STRING, class : STRING, parent : SUBSET STRING, vendor : SUBSET STRING,
     model : SUBSET STRING, properties : [keys -> STRING], sensors : SUBSET STRING,
     internal : BOOLEAN, named : STRING, health : SUBSET Health, refreshable : BOOLEAN]

(* What collectors find: devices are merged by their ids                   *)
(* (SnapshotBuilder::add_device), firmware is one device and its date no   *)
(* property of another, the names that it gets on the page are not those   *)
(* that a collector gives (collect/dmi.rs), and health is asked of drives  *)
(* that can be asked again (collect/storage_health.rs).                    *)
ASSUME MachinesAssumption ==
    \A devices \in Machines :
        /\ \A d, e \in devices : d.id = e.id \/ {d.class, e.class} = {"Bios"} => d = e
        /\ \A d \in devices :
              /\ d \in DeviceWith(DOMAIN d.properties)
              /\ \A option \in {d.vendor, d.model} : \A x, y \in option : x = y
              /\ \A x, y \in d.health : x = y
              /\ d.health # {} => d.refreshable
              /\ DOMAIN d.properties \cap {"bios_version", "bios_date", "bios_vendor"} = {}
              /\ "release_date" \in DOMAIN d.properties => d.class = "Bios"

VARIABLE
    machine    \* the devices of the snapshot that is shown

ChassisNames == [c \in {"3", "9"} |-> IF c = "3" THEN "Desktop" ELSE "Laptop"]

Option(key, option) == [k \in {key : x \in option} |-> CHOOSE x \in option : TRUE]

(* f, and what of g it has not *)
Extended(f, g) == [k \in DOMAIN f \cup DOMAIN g |-> IF k \in DOMAIN f THEN f[k] ELSE g[k]]

Without(f, keys) == [k \in DOMAIN f \ keys |-> f[k]]

-----------------------------------------------------------------------------
(* hardware_device_visible; internal stands for what a name, a class code  *)
(* or an id tells: partitions, hubs, bridges, and devices that another     *)
(* class shows.                                                            *)
Visible(device) ==
    CASE device.class \in {"Storage", "Usb", "Pci"} -> ~device.internal
      [] device.class \in {"Thermal", "SensorController"} -> device.sensors # {}
      [] device.class = "Other" -> device.sensors # {} \/ DOMAIN device.properties # {}
      [] OTHER -> TRUE

(* rename_property: what has the new name already keeps it. *)
Renamed(f, old, new) ==
    IF old \in DOMAIN f THEN Extended(Without(f, {old}), Option(new, {f[old]})) ELSE f

NormalizedFirmware(firmware) ==
    LET known == Extended(firmware.properties, Option("bios_version", firmware.model))
    IN Renamed(Renamed(known, "release_date", "bios_date"),
               "bios_release", "platform_firmware_revision")

(* merge_firmware_properties: what the board has stays. *)
MergedFirmware(properties, firmware) ==
    Extended(properties,
             Extended(NormalizedFirmware(firmware), Option("bios_vendor", firmware.vendor)))

(* normalize_chassis_type: the form factor that dmidecode names, or the    *)
(* name of the code, if it has one.                                        *)
NormalizedChassis(f) ==
    IF "chassis_form_factor" \in DOMAIN f
    THEN Extended(Option("chassis_type", {f["chassis_form_factor"]}),
                  Without(f, {"chassis_form_factor"}))
    ELSE IF "chassis_type" \in DOMAIN f /\ f["chassis_type"] \in DOMAIN ChassisNames
    THEN [f EXCEPT !["chassis_type"] = ChassisNames[@]] ELSE f

LinkedFirmware(devices, board) ==
    { d \in devices : d.class = "Bios" /\ d.parent = {board.id} }

HasVisibleMotherboard(devices, firmware) ==
    \E d \in devices : {d.id} = firmware.parent /\ d.class = "Motherboard" /\ Visible(d)

(* hardware_view_device, an option *)
ViewDevice(devices, device) ==
    CASE device.class = "Motherboard" ->
            LET chassis == NormalizedChassis(device.properties)
            IN { [device EXCEPT !.properties =
                    IF LinkedFirmware(devices, device) = {} THEN chassis
                    ELSE MergedFirmware(chassis,
                            CHOOSE f \in LinkedFirmware(devices, device) : TRUE)] }
      [] device.class = "Bios" ->
            IF HasVisibleMotherboard(devices, device) THEN {}
            ELSE { [device EXCEPT !.properties = NormalizedFirmware(device), !.model = {}] }
      [] OTHER -> {device}

-----------------------------------------------------------------------------
(* project_device *)

(* category_for; a name may say what the class does not. *)
Category(device) ==
    CASE device.class = "Bluetooth" -> "Bluetooth"
      [] device.class # "Bluetooth" /\ device.named # "as its class" -> device.named
      [] OTHER ->
            CASE device.class \in {"Motherboard", "Bios"} -> "Motherboard"
              [] device.class = "SensorController" /\ device.parent = {"motherboard:0"} ->
                    "Motherboard"
              [] device.class = "SensorController" -> "Controllers"
              [] OTHER -> device.class

AdvancedKeys == {"i2c_address", "of_node"}
HealthKeys == {"critical_warning", "media_errors"}

(* property_section *)
PropertySection(key) ==
    CASE key \in {"chassis_type"} -> "Identity"
      [] key \in {"bios_version", "bios_vendor", "bios_date", "platform_firmware_revision",
                  "release_date", "bios_release", "chassis_form_factor"} -> "Firmware & platform"
      [] key \in {"slot_label", "locator", "bank_locator"} -> "Memory"
      [] key \in HealthKeys -> "SMART / Health"
      [] OTHER -> "Properties"

(* The sections that section_order_for puts first, of those there are here *)
SectionOrder(category) ==
    CASE category = "Motherboard" -> <<"Identity", "Firmware & platform", "Properties">>
      [] category = "Memory" -> <<"Identity", "Memory", "Properties">>
      [] category = "Storage" -> <<"Identity", "SMART / Health", "Properties">>
      [] OTHER -> <<"Identity", "Properties">>

(* A mutant: the bank is compared with the slot alone. *)
DuplicateOfSlot(device, key) ==
    /\ device.class = "Memory" /\ key \in {"locator", "bank_locator"}
    /\ "slot_label" \in DOMAIN device.properties
    /\ device.properties["slot_label"] = device.properties[key]

(* duplicate_memory_location_property *)
DuplicateLocation(device, key) ==
    /\ device.class = "Memory"
    /\ \E earlier \in CASE key = "locator" -> {"slot_label"}
                        [] key = "bank_locator" -> {"slot_label", "locator"}
                        [] OTHER -> {} :
          /\ earlier \in DOMAIN device.properties
          /\ device.properties[earlier] = device.properties[key]

(* push_storage_health_summary *)
HealthSummary(health) ==
    IF health = {} THEN Option("health_status", {"Not checked"})
    ELSE LET h == CHOOSE x \in health : TRUE
             aged == IF h.checked THEN {"health_last_checked"}
                     ELSE IF h.attempted THEN {"health_last_attempt"} ELSE {}
             noted == IF h.note THEN {"health_message"} ELSE {}
         IN [k \in {"health_status", "health_availability"} \cup aged \cup noted |->
                CASE k = "health_status" -> h.status
                  [] k = "health_availability" ->
                        IF h.availability = "PermissionDenied"
                        THEN "Use Refresh as administrator" ELSE h.availability
                  [] k \in aged -> "age"
                  [] OTHER -> "note"]

HasHealthSection(device) ==
    /\ Category(device) = "Storage"
    /\ device.refreshable \/ device.health # {} \/ DOMAIN device.properties \cap HealthKeys # {}

Lines(section, values) == { [section |-> section, key |-> k, value |-> values[k]] : k \in DOMAIN values }

(* The lines of the details: identity, health and properties.              *)
AllLines(device) ==
    LET kept == { k \in DOMAIN device.properties : ~DuplicateLocation(device, k) }
        values == [k \in kept |-> device.properties[k]]
    IN Lines("Identity", Extended(Option("vendor", device.vendor), Option("model", device.model)))
         \cup (IF HasHealthSection(device) THEN Lines("SMART / Health", HealthSummary(device.health))
               ELSE {})
         \cup { [section |-> IF k \in AdvancedKeys THEN "Advanced" ELSE PropertySection(k),
                 key |-> k, value |-> values[k]] : k \in kept }

ProjectDevice(device) ==
    LET lines == AllLines(device)
        titles == { line.section : line \in lines } \ {"Advanced"}
        order == SectionOrder(Category(device))
        first == FlattenSeq([i \in DOMAIN order |->
                                IF order[i] \in titles THEN <<order[i]>> ELSE <<>>])
    IN [id |-> device.id,
        category |-> Category(device),
        sections |-> first \o SetToSeq(titles \ ToSet(first)),
        lines |-> lines,
        sensors |-> device.sensors,
        refreshable |-> device.refreshable,
        permission |-> \E h \in device.health : h.availability = "PermissionDenied"]

(* build_hardware_inventory *)
BuildInventory(devices) ==
    { ProjectDevice(d) : d \in UNION { ViewDevice(devices, e) : e \in { v \in devices : Visible(v) } } }

(* render_device adds the button below the section of the health.          *)
HealthButton(shown) ==
    IF shown.refreshable /\ Contains(shown.sections, "SMART / Health")
    THEN {IF shown.permission THEN "elevated" ELSE "plain"} ELSE {}

-----------------------------------------------------------------------------
(* Discoveries find devices and lose them.  The inventory depends on the   *)
(* devices alone, so that it is enough to find them from none.             *)
InventoryInit == machine = {}
DevicesChange == machine' \in IF machine = {} THEN Machines ELSE {{}}
InventorySpec == InventoryInit /\ [][DevicesChange]_machine

-----------------------------------------------------------------------------
Device(id) == { d \in machine : d.id = id }

Places(key, value) ==
    UNION { { <<shown.id, line.section>> : line \in { l \in shown.lines : l.key = key /\ l.value = value } }
               : shown \in BuildInventory(machine) }

(* What is known of the firmware is shown once, with its board or by       *)
(* itself, whichever of both are found and whoever found them              *)
(* (hardware_view_device, firmware_has_visible_motherboard).               *)
FirmwareShownOnce ==
    \A f \in { d \in machine : d.class = "Bios" } :
        /\ \A version \in f.model :
              "bios_version" \notin DOMAIN f.properties
                  => \E p \in Places("bios_version", version) : Places("bios_version", version) = {p}
        /\ \A k \in {"release_date", "bios_date"} \cap DOMAIN f.properties :
              \E p \in Places("bios_date", f.properties[k]) :
                  Places("bios_date", f.properties[k]) = {p}
        /\ \A vendor \in f.vendor : Places("bios_vendor", vendor) \cup Places("vendor", vendor) # {}

(* Each place that is known of a memory module is shown once: no two lines *)
(* say the same and none is lost (duplicate_memory_location_property).     *)
LocationsShownOnce ==
    \A shown \in BuildInventory(machine), d \in machine :
        shown.id = d.id /\ d.class = "Memory" =>
            \A k \in {"slot_label", "locator", "bank_locator"} \cap DOMAIN d.properties :
                \E line \in shown.lines : { l \in shown.lines :
                    l.section = "Memory" /\ l.value = d.properties[k] } = {line}

(* No two lines of a section have the same key, by which hardware.rs of    *)
(* the window finds the label to update; a section is there once, and for  *)
(* each line; and a drive that asks for the administrator's refresh has    *)
(* the button for it.                                                      *)
SectionsConsistent ==
    \A shown \in BuildInventory(machine) :
        /\ \A l, m \in shown.lines : l.section = m.section /\ l.key = m.key => l = m
        /\ IsInjective(shown.sections)
        /\ { l.section : l \in shown.lines } \subseteq ToSet(shown.sections) \cup {"Advanced"}
        /\ (\E l \in shown.lines : /\ l.section = "SMART / Health"
                                   /\ l.key = "health_availability"
                                   /\ l.value = "Use Refresh as administrator") =>
                HealthButton(shown) = {"elevated"}

InventoryTrue == FirmwareShownOnce /\ LocationsShownOnce /\ SectionsConsistent
=============================================================================
