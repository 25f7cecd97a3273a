--------------------------------- MODULE MCViews ---------------------------------
(***************************************************************************)
(* Small instances of what the program shows: the report of the terminal   *)
(* monitor, and of the graphical program the rows of the sensors, their    *)
(* table, the hardware page, the inventory that is on it, and the window   *)
(* around them.  They run one at a time: a behaviour is of the one that    *)
(* part says.                                                              *)
(***************************************************************************)
EXTENDS TuiView, SensorRows, SensorTable, HardwarePage, HardwareInventory, MainWindow

-----------------------------------------------------------------------------
(* Reports of three lines at most, which contain what is searched for or not *)
MCReports == UNION { [1 .. n -> SUBSET Queries] : n \in 0 .. 3 }

(* Two devices with two kinds of sensors; they come, go and change places. *)
MCKinds == <<"temperature", "fan">>
MCSnapshots ==
    { << <<"d", "fan", "x">>, <<"d", "temperature", "x">>, <<"d", "fan", "y">>, <<"e", "fan", "x">> >>,
      << <<"e", "fan", "x">>, <<"d", "fan", "x">>, <<"d", "temperature", "x">> >>,
      << <<"d", "fan", "y">>, <<"d", "fan", "x">> >> }
MCSearches == { { <<"d", "fan">> }, { <<"e">>, <<"d", "fan", "x">> } }

(* Tables with a section or two, one of which has no sensors *)
MCLayouts == { <<>>, <<"h", "a", "b">>, <<"h", "b">>, <<"a", "h", "g">> }

(* Pages of one or both of two devices, in either order *)
MCEntries(id) == [id : {id}, title : Titles, structure : Structures,
                  refresh : {"plain", "elevated"}, value : Shown]
MCInventories ==
    { <<>> } \cup { <<x>> : x \in MCEntries("a") }
    \cup { <<x, y>> : x \in MCEntries("a"), y \in MCEntries("b") }
    \cup { <<y, x>> : x \in MCEntries("a"), y \in MCEntries("b") }

-----------------------------------------------------------------------------
(* Machines: a board and its firmware, either of them alone, a memory      *)
(* module with one other device, or a drive, with some of the properties   *)
(* that they may have each.                                                *)
MCPlain(id, class) ==
    [id |-> id, class |-> class, parent |-> {}, vendor |-> {}, model |-> {},
     properties |-> <<>>, sensors |-> {}, internal |-> FALSE, named |-> "as its class",
     health |-> {}, refreshable |-> FALSE]

MCOptional(x) == {{}, {x}}
MCProperties(keys, values) == UNION { [k -> values] : k \in SUBSET keys }

MCBoards ==
    { [MCPlain("motherboard:0", "Motherboard") EXCEPT !.vendor = v, !.properties = p] :
        v \in MCOptional("V"),
        p \in MCProperties({"chassis_type", "chassis_form_factor"}, {"3", "Desktop", "77"}) }

MCFirmware ==
    { [MCPlain("bios:0", "Bios") EXCEPT
            !.parent = {"motherboard:0"}, !.vendor = v, !.model = m, !.properties = p] :
        v \in MCOptional("V"), m \in MCOptional("1.2"),
        p \in MCProperties({"release_date", "bios_release", "platform_firmware_revision"},
                           {"A", "B"}) }

MCMemory ==
    { [MCPlain("memory:0", "Memory") EXCEPT !.properties = p, !.model = {"M"}] :
        p \in MCProperties({"slot_label", "locator", "bank_locator", "i2c_address"}, {"A", "B"}) }

MCHealth == [status : {"Good"}, availability : {"PermissionDenied", "Current"},
             checked : BOOLEAN, attempted : BOOLEAN, note : BOOLEAN]

MCDisks ==
    { [MCPlain("block:sda", "Storage") EXCEPT
            !.health = h, !.refreshable = TRUE, !.properties = p, !.internal = i] :
        h \in {{}} \cup { {x} : x \in MCHealth }, p \in MCProperties({"media_errors"}, {"A"}),
        i \in BOOLEAN }

MCOthers ==
    { MCPlain("thermal:0", "Thermal"),
      [MCPlain("sensors:0", "SensorController") EXCEPT !.sensors = {"s"}, !.parent = {"motherboard:0"}],
      [MCPlain("x:0", "Other") EXCEPT !.properties = "of_node" :> "A"],
      [MCPlain("x:0", "Network") EXCEPT !.named = "Audio"] }

MCMachines ==
    { {b, f} : b \in MCBoards, f \in MCFirmware }
    \cup { {d} : d \in MCBoards \cup MCFirmware \cup MCDisks }
    \cup { {m, d} : m \in MCMemory, d \in MCOthers }

-----------------------------------------------------------------------------
VARIABLE part

viewsVars == <<part, tuiViewVars, rowsVars, tableVars, pageVars, machine, gui>>

(* The parts that do not run stay where one of their initial states is.    *)
ViewsInit ==
    /\ part \in {"terminal", "rows", "table", "page", "inventory", "window"}
    /\ TuiViewInit /\ RowsInit /\ TableInit /\ PageInit /\ InventoryInit /\ WindowInit
    /\ part # "terminal" => /\ view.shown = "Mixed" /\ ~view.verbose /\ report.lines = <<>>
                            /\ view.height = 0
    /\ part # "rows" => readings = << <<"d", "fan", "y">>, <<"d", "fan", "x">> >>

Elsewhere(p) ==
    /\ part = p
    /\ p # "terminal" => UNCHANGED tuiViewVars
    /\ p # "rows" => UNCHANGED rowsVars
    /\ p # "table" => UNCHANGED tableVars
    /\ p # "page" => UNCHANGED pageVars
    /\ p # "inventory" => UNCHANGED machine
    /\ p # "window" => UNCHANGED gui
    /\ UNCHANGED part

ViewsNext ==
    \/ Elsewhere("terminal") /\ TuiViewNext
    \/ Elsewhere("rows") /\ RowsNext
    \/ Elsewhere("table") /\ TableNext
    \/ Elsewhere("page") /\ PageNext
    \/ Elsewhere("inventory") /\ DevicesChange
    \/ Elsewhere("window") /\ WindowNext

ViewsSpec == ViewsInit /\ [][ViewsNext]_viewsVars

-----------------------------------------------------------------------------
(* Properties of the parts, together where they are about the same thing   *)

(* What is to be seen is what there is now: the marks of the terminal's    *)
(* search are of the report it draws, the labels of the table of the rows  *)
(* they stand for, the details of the page of the device that is selected, *)
(* and the window's view and status of the model; and what is asked for    *)
(* and commanded is about what is seen and selected.                       *)
ShownIsCurrent ==
    /\ TuiViewTypeOK /\ WindowTypeOK
    /\ MatchIsReal /\ TableTrue /\ PageTrue /\ WindowTrue /\ AskedWhenSeen

(* What the user has found or selected stays in view and selected.         *)
KeptInView == [][SelectionKept /\ MatchVisible]_viewsVars
=============================================================================
