--------------------------------- MODULE Energy ---------------------------------
(***************************************************************************)
(* Power from energy counters, crates/hwall-core/src/collect/energy.rs: a  *)
(* source per domain, a powercap zone or a perf event, opened in full      *)
(* discoveries and kept, read in every collection; the power is what two   *)
(* reads differ by.  Energy is in units of the counters, power is given as *)
(* the energy of the interval.  The device that shows it is left out.      *)
(***************************************************************************)
EXTENDS Naturals, FiniteSets, FiniteSetsExt

CONSTANTS
    CPUs,         \* logical CPUs; sysfs lists them in ascending order
    Location,     \* their package and core
    Zones,        \* powercap zones, numbered in the order of the traversal
    ZoneName,     \* the kind of domain a zone's name says, an option
    ZoneNumber,   \* the package its name says, an option
    ZoneParent,   \* the zone it is in, an option
    Ranged,       \* zones whose range can be read
    Events,       \* kinds of domain perf has events for
    EventMask,    \* CPUs that the event's PMU lists
    EnergyRange,  \* max_energy_range_uj
    Loads         \* energy that may be used between two samples

Kinds == {"package", "cores", "core", "uncore", "dram", "gpu", "platform"}

EnergyOption(S) == { option \in SUBSET S : \A x, y \in option : x = y }

ASSUME EnergyAssumption ==
    /\ CPUs \subseteq Nat /\ IsFiniteSet(CPUs) /\ CPUs # {}
    /\ Location \in [CPUs -> [package : Nat, core : Nat]]
    /\ Zones \subseteq Nat /\ IsFiniteSet(Zones)
    /\ ZoneName \in [Zones -> EnergyOption(Kinds \ {"core"})]
    /\ ZoneNumber \in [Zones -> SUBSET Nat]
    /\ \A z \in Zones : ZoneNumber[z] \in EnergyOption(ZoneNumber[z])
    /\ ZoneParent \in [Zones -> EnergyOption(Zones)]
    /\ \A z \in Zones : \A p \in ZoneParent[z] : p < z
    /\ Ranged \subseteq Zones
    /\ Events \subseteq Kinds
    /\ EventMask \in [Events -> SUBSET CPUs]
    /\ EnergyRange \in Nat \ {0}
    /\ Loads \subseteq 0 .. EnergyRange - 1 /\ Loads # {}

-----------------------------------------------------------------------------
(* Domains, and the sources discovered for them *)

WholePackage(kind, p) == [kind |-> kind, package |-> p, core |-> 0]
CoreOf(c) == [kind |-> "core", package |-> Location[c].package,
              core |-> Location[c].core]

(* A zone without a number in its name is in the package of its parent. *)
PackageOf[z \in Zones] ==
    LET numbers == ZoneNumber[z]
    IN IF numbers # {} THEN CHOOSE n \in numbers : TRUE
       ELSE IF ZoneParent[z] # {} THEN PackageOf[CHOOSE p \in ZoneParent[z] : TRUE]
       ELSE 0

ZoneDomains(z) == { WholePackage(kind, PackageOf[z]) : kind \in ZoneName[z] }

(* The first CPU of each core, and of each package as far as the PMU lists *)
(* any of it.                                                              *)
PhysicalCores(topology) ==
    { c \in topology : \A d \in topology : CoreOf(d) = CoreOf(c) => c <= d }

Representatives(mask, topology) ==
    LET listed == IF mask = {} THEN topology ELSE topology \cap mask
        firsts == { c \in listed : \A d \in listed :
                      Location[d].package = Location[c].package => c <= d }
    IN IF firsts # {} THEN firsts ELSE {Min(topology)}

EnergySource(backend, at, bounded) ==
    [backend |-> backend, at |-> at, bounded |-> bounded, previous |-> {}]

(* discover_powercap: of a domain's zones the first that can be read *)
PowercapSpecs(readable) ==
    LET domains == UNION { ZoneDomains(z) : z \in readable }
        first(d) == Min({ z \in readable : d \in ZoneDomains(z) })
    IN [d \in domains |-> EnergySource("powercap", first(d), first(d) \in Ranged)]

(* discover_perf *)
PerfDomain(kind, c) ==
    IF kind = "core" THEN CoreOf(c) ELSE WholePackage(kind, Location[c].package)

PerfSpecs(topology) ==
    LET cpus(kind) == IF kind = "core" THEN PhysicalCores(topology)
                      ELSE Representatives(EventMask[kind], topology)
        found == UNION { { <<PerfDomain(kind, c), c>> : c \in cpus(kind) } : kind \in Events }
    IN [d \in { f[1] : f \in found } |->
           EnergySource("perf_event", (CHOOSE f \in found : f[1] = d)[2], FALSE)]

(* Any CPU may stand for its package when others are offline. *)
AllDomains ==
    DOMAIN PowercapSpecs(Zones) \cup { PerfDomain(kind, c) : kind \in Events, c \in CPUs }

VARIABLES
    online,     \* CPUs that are online
    counter,    \* what each domain has used, modulo wrapAt
    wrapAt,     \* the value at which the counters start again
    sources,    \* the open sources and their previous reads
    expected,   \* physical cores of each package
    mapped,     \* the CPUs that the last full discovery found
    shown,      \* energy of the last interval, and the domains it adds up
    interval    \* of the last sample: its length, the energy used, CPUs online

energyVars == <<online, counter, wrapAt, sources, expected, mapped, shown, interval>>

(* average_power takes no interval of no length or beyond MAX_INTERVAL. *)
Lengths == {"valid", "invalid"}

EnergyTypeOK ==
    /\ online \subseteq CPUs /\ mapped \subseteq CPUs
    /\ counter \in [AllDomains -> 0 .. EnergyRange]
    /\ wrapAt \in {EnergyRange, EnergyRange + 1}
    /\ DOMAIN sources \subseteq AllDomains
    /\ \A d \in DOMAIN sources :
          sources[d] \in [backend : {"powercap", "perf_event"}, at : CPUs \cup Zones,
                          bounded : BOOLEAN, previous : EnergyOption(0 .. EnergyRange)]
    /\ \A p \in DOMAIN expected : expected[p] \in Nat \ {0}
    /\ \A d \in DOMAIN shown :
          shown[d] \in [energy : Nat, of : SUBSET DOMAIN sources]
    /\ interval \in [length : Lengths, load : Loads, mask : SUBSET CPUs]

-----------------------------------------------------------------------------
(* refresh_sources *)

PackagesOf(cpus) == { Location[c].package : c \in cpus }
CoresIn(p, topology) == { c \in PhysicalCores(topology) : Location[c].package = p }

ExpectedAfter(topology) ==
    [p \in PackagesOf(topology) |-> Cardinality(CoresIn(p, topology))]

(* Sources that are open stay as they are; of the others, those are opened *)
(* that can be.                                                            *)
SourcesAfter(topology, readable, openable) ==
    LET powercap == PowercapSpecs(readable)
        perf == PerfSpecs(topology)
        new == DOMAIN powercap \cup { d \in DOMAIN perf : perf[d].at \in openable }
    IN [d \in DOMAIN sources \cup new |->
           IF d \in DOMAIN sources THEN sources[d]
           ELSE IF d \in DOMAIN powercap THEN powercap[d] ELSE perf[d]]

-----------------------------------------------------------------------------
(* sample *)

(* counter_delta, an option *)
CounterDelta(previous, current, bounded) ==
    IF current >= previous THEN {current - previous}
    ELSE IF bounded /\ previous <= EnergyRange /\ current <= EnergyRange
    THEN {EnergyRange - previous + current}
    ELSE {}

(* average_power *)
AveragePower(previous, current, bounded, length) ==
    IF length = "valid" THEN CounterDelta(previous, current, bounded) ELSE {}

(* A mutant: what was read before a failure is kept. *)
ReadKeeping(source, current, failed) ==
    IF failed THEN source ELSE [source EXCEPT !.previous = {current}]

ReadSource(source, current, failed) ==
    [source EXCEPT !.previous = IF failed THEN {} ELSE {current}]

SourceEnergy(source, current, failed, length) ==
    IF failed THEN {}
    ELSE UNION { AveragePower(p, current, source.bounded, length) : p \in source.previous }

(* add_core_totals: packages with a reading of every core, and none of all *)
CoreTotals(readings, cores, counted) ==
    { p \in DOMAIN counted :
        /\ cores[p] # {}
        /\ WholePackage("cores", p) \notin DOMAIN readings
        /\ Cardinality(cores[p]) = counted[p] }

WithCoreTotals(readings, counted) ==
    LET cores == [p \in PackagesOf(CPUs) |->
                     { d \in DOMAIN readings : d.kind = "core" /\ d.package = p }]
        totals == CoreTotals(readings, cores, counted)
        energy(p) == MapThenSumSet(LAMBDA d : readings[d].energy, cores[p])
    IN [d \in DOMAIN readings \cup { WholePackage("cores", p) : p \in totals } |->
           IF d \in DOMAIN readings THEN readings[d]
           ELSE [energy |-> energy(d.package), of |-> cores[d.package]]]

(* What may fail: any read, and that of a CPU that is offline must. *)
Unreadable(open) ==
    { d \in DOMAIN open : open[d].backend = "perf_event" /\ open[d].at \notin online }

SampleSources(open, counted, load, length, failing) ==
    LET now == [d \in AllDomains |-> (counter[d] + load) % wrapAt]
        read == [d \in DOMAIN open |-> SourceEnergy(open[d], now[d], d \in failing, length)]
        readings == [d \in { d \in DOMAIN read : read[d] # {} } |->
                       [energy |-> CHOOSE e \in read[d] : TRUE, of |-> {d}]]
    IN /\ Unreadable(open) \subseteq failing /\ failing \subseteq DOMAIN open
       /\ counter' = now
       /\ sources' = [d \in DOMAIN open |-> ReadSource(open[d], now[d], d \in failing)]
       /\ shown' = WithCoreTotals(readings, counted)
       /\ interval' = [length |-> length, load |-> load, mask |-> online]

-----------------------------------------------------------------------------
(* A fast collection samples the sources there are, a full discovery looks *)
(* for others first.                                                       *)
FastEnergy(load, length) ==
    /\ \E failing \in SUBSET DOMAIN sources : SampleSources(sources, expected, load, length, failing)
    /\ UNCHANGED <<online, wrapAt, expected, mapped>>

FullEnergy(load, length) ==
    LET counted == ExpectedAfter(online)
        missing == AllDomains \ DOMAIN sources
        zones == { z \in Zones : ZoneDomains(z) \cap missing # {} }
        perf == PerfSpecs(online)
        cpus == { perf[d].at : d \in DOMAIN perf \cap missing }
    IN /\ mapped' = online
       /\ expected' = counted
       /\ \E readable \in SUBSET zones, openable \in SUBSET cpus :
             LET open == SourcesAfter(online, readable, openable)
             IN \E failing \in SUBSET DOMAIN open :
                   SampleSources(open, counted, load, length, failing)
       /\ UNCHANGED <<online, wrapAt>>

(* CPU 0 cannot be taken offline. *)
HotplugCpu ==
    /\ online' \in { cpus \in SUBSET CPUs : Min(CPUs) \in cpus }
    /\ UNCHANGED <<counter, wrapAt, sources, expected, mapped, shown, interval>>

EnergyInit ==
    /\ online = CPUs /\ mapped = {}
    /\ wrapAt \in {EnergyRange, EnergyRange + 1}
    /\ counter = [d \in AllDomains |-> 0]
    /\ sources = <<>> /\ expected = <<>> /\ shown = <<>>
    /\ interval = [length |-> "invalid", load |-> Min(Loads), mask |-> CPUs]

EnergyNext ==
    \/ HotplugCpu
    \/ \E load \in Loads, length \in Lengths :
          FastEnergy(load, length) \/ FullEnergy(load, length)

EnergySpec == EnergyInit /\ [][EnergyNext]_energyVars

-----------------------------------------------------------------------------
(* Properties *)

(* Power is never shown of anything but this sample's interval: whatever   *)
(* reads failed before, and whether the counter wraps at its range or one  *)
(* beyond, the energy is what each domain used since the sample before, up *)
(* to one unit of a wrap.                                                  *)
EnergyAccounted ==
    \A d \in DOMAIN shown :
        LET used == Cardinality(shown[d].of) * interval.load
        IN /\ interval.length = "valid"
           /\ shown[d].energy <= used
           /\ used <= shown[d].energy + Cardinality(shown[d].of)

(* A total of a package's cores has each of its cores: as long as no CPU   *)
(* came or went since the last full discovery, it adds up the physical     *)
(* cores that are online, although the code only compares their number.    *)
CoreTotalsComplete ==
    \A d \in DOMAIN shown :
        shown[d].of # {d} /\ interval.mask = mapped =>
            shown[d].of = { CoreOf(c) : c \in CoresIn(d.package, mapped) }
=============================================================================
