------------------------------- MODULE Telemetry -------------------------------
(***************************************************************************)
(* Rates derived from kernel counters: TelemetryDeriver (crates/hwall-core/ *)
(* src/telemetry.rs) is given every snapshot that MonitorCollector makes,  *)
(* in full and in fast collections, and compares its counters with those   *)
(* of the snapshot before.  The counters of an NVMe drive are listed under *)
(* its namespaces or its controller, as collect/block.rs, collect/nvme.rs  *)
(* and coalesce_single_namespace_nvme (collect/reconcile.rs) name it.      *)
(*                                                                         *)
(* There is one NVMe controller; the other devices are a CPU, a network    *)
(* interface and a hwmon chip with an energy counter.  A device has one    *)
(* counter, the CPU two; a rate is given as the increase that it divides   *)
(* by the interval.                                                        *)
(***************************************************************************)
EXTENDS Integers, FiniteSets

CONSTANTS
    Namespaces,   \* of the NVMe controller
    Partitioned,  \* those of them that have partitions
    CounterSets,  \* sets of counters that a kernel may have
    MaxCount      \* the counters restart beyond it

Controller == "controller"

(* Counters: those of a namespace, of an interface, of a hwmon chip, and   *)
(* cpu_total_ticks and cpu_idle_ticks.                                     *)
Counters == Namespaces \cup {"net", "energy", "total", "idle"}

ASSUME TelemetryAssumption ==
    /\ IsFiniteSet(Namespaces)
    /\ Namespaces \cap {Controller, "net", "hwmon", "cpu", "energy", "total", "idle"} = {}
    /\ Partitioned \subseteq Namespaces
    /\ CounterSets \subseteq SUBSET Counters
    /\ MaxCount \in Nat \ {0}

CounterDevices == Namespaces \cup {Controller, "net", "hwmon", "cpu"}

VARIABLES
    kernel,    \* the counters that this one has
    count,     \* the kernel's counters
    present,   \* the namespaces there are
    devices,   \* namespaces and controller in the base snapshot, and
               \* whether it says of a namespace that it is one
    previous,  \* counters of the snapshot before, of each device
    rates,     \* rates of this one
    sampled    \* what happened since the one before, for the properties

telemetryVars == <<kernel, count, present, devices, previous, rates, sampled>>

DriveDevices == Namespaces \cup {Controller}

TelemetryTypeOK ==
    /\ kernel \in CounterSets
    /\ count \in [kernel -> 0 .. MaxCount]
    /\ present \subseteq Namespaces \cap kernel
    /\ DOMAIN devices \subseteq DriveDevices
    /\ \A d \in DOMAIN devices : devices[d] \in BOOLEAN
    /\ DOMAIN previous \subseteq CounterDevices
    /\ DOMAIN rates \subseteq DOMAIN previous
    /\ sampled \in [load : [kernel -> 0 .. 1], read : SUBSET Counters, named : BOOLEAN,
                    valid : BOOLEAN, due : SUBSET Counters]

-----------------------------------------------------------------------------
(* Counters that a collection finds: a function on devices of functions on *)
(* counters.  What cannot be read is left out.                             *)

KeysOf(d) ==
    CASE d = "hwmon" -> {"energy"}
      [] d = "cpu" -> {"total", "idle"}
      [] OTHER -> {d}

Values(keys) == [k \in keys |-> count'[k]]

OfOthers(read) ==
    [d \in { d \in {"net", "hwmon", "cpu"} : KeysOf(d) \cap read # {} } |->
        Values(KeysOf(d) \cap read)]

(* activity_device_id *)
ActivityDevice(n, names) ==
    IF Cardinality(names) = 1 THEN Controller ELSE n

(* block::collect_dynamic *)
FastDrives(names, read) ==
    [d \in { ActivityDevice(n, names) : n \in names \cap read } |->
        Values({ n \in names \cap read : ActivityDevice(n, names) = d })]

(* block::collect and nvme::collect *)
FullDrives(names, read) == [n \in names \cap read |-> Values({n})]
FullDevices(names, hasController) ==
    [d \in names \cup (IF hasController THEN {Controller} ELSE {}) |-> d # Controller]

(* coalesce_single_namespace_nvme: namespaces that become their controller *)
Coalesced(listed) ==
    LET namespaces == { d \in DOMAIN listed : listed[d] }
    IN IF Controller \in DOMAIN listed /\ Cardinality(namespaces) = 1
       THEN namespaces ELSE {}

StillListed(listed) ==
    [d \in DOMAIN listed \ Coalesced(listed) |-> listed[d]]

(* The namespace's counters are appended to those of the controller. *)
CoalescedCounters(found, listed) ==
    LET moved == Coalesced(listed) \cap DOMAIN found
    IN [d \in (DOMAIN found \ moved) \cup (IF moved = {} THEN {} ELSE {Controller}) |->
           IF d = Controller /\ moved # {} THEN found[CHOOSE n \in moved : TRUE] ELSE found[d]]

(* A mutant: the counters of the base snapshot are not cleared. *)
CarriedCounters == [d \in DOMAIN previous |-> previous[d]]

(* snapshot_telemetry clears the counters of the base snapshot before it   *)
(* lays the dynamic one over it.                                           *)
BaseCounters == <<>>

Overlaid(base, found) ==
    [d \in DOMAIN base \cup DOMAIN found |-> IF d \in DOMAIN found THEN found[d] ELSE base[d]]

-----------------------------------------------------------------------------
(* apply_at *)

(* counter_delta, an option: nothing if either is missing or it went back *)
Delta(d, k) ==
    IF d \in DOMAIN previous /\ k \in DOMAIN previous[d] /\ k \in DOMAIN previous'[d]
       /\ previous'[d][k] >= previous[d][k]
    THEN {previous'[d][k] - previous[d][k]} ELSE {}

(* derive_cpu: the ticks that were not idle *)
DeriveCpu ==
    { total - idle : total \in Delta("cpu", "total") \ {0},
                     idle \in { i \in Delta("cpu", "idle") :
                                  \A t \in Delta("cpu", "total") : i <= t } }

(* derive_hwmon_power: not if the channel has a power reading of its own *)
DerivePower(direct) == IF direct THEN {} ELSE Delta("hwmon", "energy")

(* The derived value, an option; derive_network and derive_storage have a  *)
(* rate of each counter.                                                   *)
Derived(d, direct) ==
    IF d = "cpu" THEN DeriveCpu
    ELSE IF d = "hwmon" THEN DerivePower(direct)
    ELSE UNION { Delta(d, k) : k \in DOMAIN previous'[d] }

(* Nothing is derived over no interval, or one beyond MAX_RATE_INTERVAL;   *)
(* what is compared next is replaced at any rate.                          *)
Apply(found, valid, direct) ==
    /\ previous' = found
    /\ rates' = [d \in { d \in DOMAIN previous' : valid /\ Derived(d, direct) # {} } |->
                    CHOOSE r \in Derived(d, direct) : TRUE]

-----------------------------------------------------------------------------
(* Between two collections the counters go on by the same load, that of    *)
(* the idle time perhaps less, and one namespace may come or go.  Once in  *)
(* an interval something else may happen: a counter starts again, or all   *)
(* do; one cannot be read; the interval is zero or too long; the chip has  *)
(* a power reading; the controller is not found "in restricted             *)
(* environments".                                                          *)
Incidents ==
    [kind : {"restarts", "unread"}, of : { {k} : k \in kernel }]
    \cup [kind : {"restarts", "invalid", "direct", "unnamed", "none"}, of : {kernel}]

Restarted(incident) == IF incident.kind = "restarts" THEN incident.of ELSE {}
ReadNow(incident) == kernel \ (IF incident.kind = "unread" THEN incident.of ELSE {})

Load(k, load, busy) == IF k = "idle" /\ busy THEN 0 ELSE load

Advance(names, load, busy, restart) ==
    LET restarted == restart \cup ((Namespaces \cap kernel) \ names)
    IN /\ Cardinality((names \ present) \cup (present \ names)) <= 1
       /\ present' = names
       /\ \A k \in kernel \ restarted : count[k] + Load(k, load, busy) <= MaxCount
       /\ count' = [k \in kernel |->
                       IF k \in restarted THEN 0 ELSE count[k] + Load(k, load, busy)]

(* For the properties: the increases, and the counters that must give a    *)
(* rate, for they were read twice, in the same namespaces and with the     *)
(* drive's name the same.                                                  *)
Note(names, load, busy, restart, read, valid, named) ==
    sampled' = [load |-> [k \in kernel |-> IF count'[k] >= count[k]
                                              THEN count'[k] - count[k] ELSE 0],
                read |-> read, named |-> named, valid |-> valid,
                due |-> { k \in read \cap sampled.read :
                            /\ valid
                            /\ k \notin restart
                            /\ k \in Namespaces =>
                                  k \in names /\ names = present /\ named /\ sampled.named }]

(* The controller may be missing "in restricted environments". *)
FullCollection(names, read, valid, direct, hasController) ==
    LET listed == FullDevices(names, hasController)
        found == CoalescedCounters(FullDrives(names, read), listed)
    IN /\ devices' = StillListed(listed)
       /\ Apply(Overlaid(OfOthers(read), found), valid, direct)

(* The devices of the dynamic snapshot have no parents. *)
FastCollectionOf(names, read, valid, direct) ==
    LET found == FastDrives(names, read)
        listed == [d \in DOMAIN devices \cup DOMAIN found |->
                      IF d \in DOMAIN devices THEN devices[d] ELSE FALSE]
    IN /\ devices' = StillListed(listed)
       /\ Apply(Overlaid(BaseCounters,
                         Overlaid(OfOthers(read), CoalescedCounters(found, listed))),
                valid, direct)

TelemetryInit ==
    /\ kernel \in CounterSets
    /\ count = [k \in kernel |-> 0]
    /\ present \in SUBSET (Namespaces \cap kernel)
    /\ devices = <<>> /\ previous = <<>> /\ rates = <<>>
    /\ sampled = [load |-> count, read |-> {}, named |-> FALSE, valid |-> FALSE, due |-> {}]

TelemetryNext ==
    /\ UNCHANGED kernel
    /\ \E names \in SUBSET (Namespaces \cap kernel), load \in 0 .. 1, busy \in BOOLEAN,
          incident \in Incidents :
        LET read == ReadNow(incident)
            valid == incident.kind # "invalid"
            direct == incident.kind = "direct"
            named == incident.kind # "unnamed"
        IN /\ busy => load = 1
           /\ Advance(names, load, busy, Restarted(incident))
           /\ Note(names, load, busy, Restarted(incident), read, valid, named)
           /\ \/ FullCollection(names, read, valid, direct, named)
              \/ named /\ FastCollectionOf(names, read, valid, direct)

TelemetrySpec == TelemetryInit /\ [][TelemetryNext]_telemetryVars

-----------------------------------------------------------------------------
(* Properties *)

(* The counter behind a device's rate *)
CounterOf(d) ==
    CASE d = Controller -> CHOOSE n \in present : TRUE
      [] d = "hwmon" -> "energy"
      [] OTHER -> d

(* A rate is of this interval and of this device alone, although drives    *)
(* change their names with their namespaces, counters restart, and         *)
(* collections miss some of them.                                          *)
RatesTrue ==
    \A d \in DOMAIN rates :
        /\ sampled.valid
        /\ rates[d] = IF d = "cpu" THEN sampled.load["total"] - sampled.load["idle"]
                      ELSE sampled.load[CounterOf(d)]

(* A drive that was read twice in a row has its rate, whichever of its     *)
(* names full and fast collections gave it.                                *)
DrivesKeepTheirRates ==
    \A n \in sampled.due \cap Namespaces :
        \E d \in DOMAIN rates \cap DriveDevices : CounterOf(d) = n
=============================================================================
