---------------------------- MODULE MemoryTelemetry ----------------------------
(***************************************************************************)
(* Where the temperature of a memory module is shown.  Linux reports it on *)
(* a chip (SPD5118, JC42) on the I2C bus, dmidecode reports the modules,   *)
(* and reconcile_memory_telemetry (crates/hwall-core/src/collect/          *)
(* reconcile.rs) moves the chip's sensors to the module it belongs to, in  *)
(* every collection of MonitorCollector (crates/hwall-core/src/monitor.rs). *)
(* dmidecode runs in full collections alone, and may fail in any of them;  *)
(* fast ones find the modules in the snapshot before.                      *)
(*                                                                         *)
(* A chip has one sensor.  A module stands for its DMI record and for the  *)
(* device made of it, a chip for its I2C address and for the device it is  *)
(* when no slot is known.  Values and times are left out, and the labels   *)
(* that a module takes over from its chip; failures of lm-sensors are in   *)
(* ReadingFreshness.                                                       *)
(***************************************************************************)
EXTENDS Naturals, FiniteSets

CONSTANTS Modules, Chips

ASSUME MemoryAssumption ==
    /\ Modules \subseteq Nat /\ IsFiniteSet(Modules)
    /\ Chips \subseteq Nat /\ IsFiniteSet(Chips)
    /\ Modules \cap Chips = {}

Devices == Modules \cup Chips

MemoryFreshness == {"Current", "Stale", "Unavailable"}

(* slot: the module a chip is soldered to; home: the device that hwmon     *)
(* makes of it, the module's own when sysfs names the slot as DMI does;    *)
(* matches: the modules with a label equal to the chip's locator; oneBus:  *)
(* the slots have distinct labels and the chips one bus and one driver.    *)
Machine ==
    [slot : [Chips -> Modules], home : [Chips -> Devices],
     matches : [Chips -> SUBSET Modules], oneBus : BOOLEAN]

(* What the program counts on: firmware never names a wrong slot, a label  *)
(* that several chips match tells nothing, and the I2C addresses of one    *)
(* bus ascend with the DMI records.                                        *)
IsMachine(m) ==
    /\ \A c \in Chips :
          /\ m.home[c] \in {c, m.slot[c]}
          /\ m.matches[c] # {} => m.slot[c] \in m.matches[c]
          /\ m.home[c] # c => m.matches[c] # {}
    /\ \A c, d \in Chips :
          c # d =>
            /\ m.slot[c] # m.slot[d]
            /\ m.matches[c] \cap m.matches[d] # {} =>
                  /\ m.matches[c] = m.matches[d]
                  /\ Cardinality(m.matches[c]) > 1
            /\ m.oneBus /\ c < d => m.slot[c] < m.slot[d]

Machines == { m \in Machine : IsMachine(m) }

VARIABLES
    machine,   \* the hardware and its firmware, which do not change
    memory,    \* the memory devices of the base snapshot
    lastRead,  \* chips that the last collection read, for the properties
    lastFull   \* whether it was a full discovery

memoryVars == <<machine, memory, lastRead, lastFull>>

(* Its devices, those of them that dmidecode described, and their readings, *)
(* a function on pairs of a device and a chip.                              *)
IsMemory(m) ==
    /\ m.dmi \subseteq Modules \cap m.devices
    /\ m.devices \subseteq Devices
    /\ DOMAIN m.shown \subseteq m.devices \X Chips
    /\ \A r \in DOMAIN m.shown : m.shown[r] \in MemoryFreshness

Shown == DOMAIN memory.shown

Homes(chips) == { machine.home[c] : c \in chips }

-----------------------------------------------------------------------------
(* reconcile_memory_telemetry *)

(* is_standalone_memory_telemetry, of the devices found *)
Standalone(found, listed) ==
    { c \in Chips : machine.home[c] \in found \ listed }

(* telemetry_matches_module, and only if one module matches *)
ByLocator(chips, free) ==
    { p \in chips \X free : machine.matches[p[1]] \cap free = {p[2]} }

Rank(x, S) == Cardinality({ y \in S : y < x })

(* Mutant: as many of them as there are, in order. *)
ByOrderUncounted(chips, free) ==
    { p \in chips \X free :
        /\ Cardinality(chips) = 1 \/ machine.oneBus
        /\ Rank(p[1], chips) = Rank(p[2], free) }

(* The single remaining module, or can_pair_by_i2c_order *)
ByOrder(chips, free) ==
    { p \in chips \X free :
        /\ Cardinality(chips) = Cardinality(free)
        /\ Cardinality(chips) = 1 \/ machine.oneBus
        /\ Rank(p[1], chips) = Rank(p[2], free) }

Pairs(chips, listed) ==
    LET located == ByLocator(chips, listed)
    IN located \cup ByOrder(chips \ { p[1] : p \in located },
                            listed \ { p[2] : p \in located })

Remaining(found, pairs) == found \ Homes({ p[1] : p \in pairs })

(* merge_into_module: the chip's sensor replaces what the module has of it. *)
Moved(readings, pairs) ==
    LET Owner(h) == IF h \in Homes({ p[1] : p \in pairs })
                    THEN (CHOOSE p \in pairs : machine.home[p[1]] = h)[2]
                    ELSE h
        To(r) == <<Owner(r[1]), r[2]>>
    IN [q \in { To(r) : r \in DOMAIN readings } |->
          LET from == { r \in DOMAIN readings : To(r) = q }
          IN readings[IF from = {q} THEN q ELSE CHOOSE r \in from : r # q]]

-----------------------------------------------------------------------------
(* The collections.  The files of a chip exist while hwmon lists it; it    *)
(* may be listed and not readable.                                         *)

Read(chips) == [r \in { <<machine.home[c], c>> : c \in chips } |-> "Current"]

(* Mutant: a reading stays current while its source is there. *)
DimmedIfGone(r, present) ==
    IF r[2] \in present THEN "Current" ELSE "Unavailable"

(* missing_freshness: hwmon itself does not fail. *)
Dimmed(r, present) == IF r[2] \in present THEN "Stale" ELSE "Unavailable"

With(f, g) ==
    [r \in DOMAIN f \cup DOMAIN g |-> IF r \in DOMAIN f THEN f[r] ELSE g[r]]

(* collect_full, then reconcile_missing_readings.  A device that is gone   *)
(* comes back with its readings, as dmidecode once described it.           *)
Discovered(before, present, read, listed) ==
    LET found == listed \cup Homes(present)
        pairs == Pairs(Standalone(found, listed), listed)
        fresh == Moved(Read(read), pairs)
        kept == { r \in DOMAIN before.shown \ DOMAIN fresh :
                    Dimmed(r, present) # "Unavailable" }
        shells == { r[1] : r \in kept } \ Remaining(found, pairs)
    IN [shown |-> With(fresh, [r \in kept |-> Dimmed(r, present)]),
        devices |-> Remaining(found, pairs) \cup shells,
        dmi |-> listed \cup (shells \cap before.dmi)]

(* snapshot_telemetry: the overlay of a fast collection.  The readings it  *)
(* observed are listed under the devices they had before they were moved.  *)
Polled(before, present, read) ==
    LET found == before.devices \cup Homes(present)
        pairs == Pairs(Standalone(found, before.dmi), before.dmi)
        merged == Moved(With(Read(read), before.shown), pairs)
        missing == DOMAIN before.shown \ DOMAIN Read(read)
    IN [shown |-> With([r \in missing |-> Dimmed(r, present)], merged),
        devices |-> Remaining(found, pairs) \cup { r[1] : r \in missing },
        dmi |-> before.dmi]

Described == {{}, Modules}   \* what dmidecode describes: nothing or all

NoMemory == [shown |-> <<>>, devices |-> {}, dmi |-> {}]

(* MonitorCollector::new *)
MemoryInit ==
    /\ machine \in Machines
    /\ \E present \in SUBSET Chips, listed \in Described :
        /\ lastRead \in SUBSET present
        /\ memory = Discovered(NoMemory, present, lastRead, listed)
    /\ lastFull = TRUE

MemoryNext ==
    /\ UNCHANGED machine
    /\ \E present \in SUBSET Chips :
        /\ lastRead' \in SUBSET present
        /\ \/ /\ \E listed \in Described :
                    memory' = Discovered(memory, present, lastRead', listed)
              /\ lastFull' = TRUE
           \/ /\ memory' = Polled(memory, present, lastRead')
              /\ lastFull' = FALSE

MemorySpec == MemoryInit /\ [][MemoryNext]_memoryVars

MemoryTypeOK ==
    /\ machine \in Machines
    /\ IsMemory(memory)
    /\ lastRead \subseteq Chips
    /\ lastFull \in BOOLEAN

-----------------------------------------------------------------------------
(* Properties *)

(* A chip's reading is never newly shown under another slot's module, in   *)
(* whatever order chips appear, vanish and are paired, as long as the      *)
(* snapshot describes all modules.                                         *)
RightModule ==
    [][ memory.dmi' = Modules =>
          \A r \in Shown' \ Shown :
              r[1] \in Modules => r[1] = machine.slot[r[2]] ]_memoryVars

(* A full discovery shows every chip that it read as current in exactly    *)
(* one place, wherever earlier collections and failures of dmidecode put   *)
(* its reading.                                                            *)
DiscoveryShows ==
    lastFull => \A c \in lastRead :
        Cardinality({ r \in Shown : r[2] = c /\ memory.shown[r] = "Current" }) = 1

(* README.md:220: a reading is dimmed and marked Stale "When a live        *)
(* collector temporarily fails", so one just read is shown as current.     *)
ReadIsCurrent ==
    \A c \in lastRead :
        \E r \in Shown : r[2] = c /\ memory.shown[r] = "Current"
=============================================================================
