------------------------------- MODULE MCReadings -------------------------------
(***************************************************************************)
(* Small instances of what becomes of a reading in the collector: how      *)
(* fresh it is, which memory module it belongs to, power from energy       *)
(* counters, rates from kernel counters, and the storage health of drives. *)
(* They run one at a time: a behaviour is of the one that part says.       *)
(***************************************************************************)
EXTENDS ReadingFreshness, MemoryTelemetry, Energy, Telemetry, StorageHealth

(* Sensors: a hwmon temperature that lm-sensors may label, a reading of    *)
(* nvidia-smi, whose source is no sysfs file, and an effective clock.      *)
MCSensors == {"temp", "gpu", "clock"}
MCCollectorOf ==
    [temp |-> "Hwmon", gpu |-> "NvidiaSmi", clock |-> "EffectiveClock"]
MCFiles == {"temp"}
MCEnrichable == {"temp"}
MCClocks == {"clock"}
MCMayFail == {"NvidiaSmi", "EffectiveClock", "LibSensors"}

(* Energy: one package of two cores, one of which has two threads; a zone  *)
(* of all its cores in one that says nothing, and a perf event per core.   *)
MCCPUs == {0, 1, 2}
MCLocation == [c \in MCCPUs |-> [package |-> 0, core |-> c % 2]]
MCZones == {1, 2}
MCZoneName == <<{}, {"cores"}>>
MCZoneNumber == <<{0}, {}>>
MCZoneParent == <<{}, {1}>>
MCEvents == {"core"}
MCMask == [k \in MCEvents |-> {0}]

(* Counters of a kernel: of two namespaces, or of another device. *)
MCCounterSets == {{"n1", "n2"}, {"net"}, {"energy"}, {"total", "idle"}}

(* What may go wrong in a read of storage health. *)
MCProblems == {{}, {"helper", "json"}, {"pkexec"}, {"permission", "fields"},
               {"standby", "support"}, {"status"}}

VARIABLE part

readingsVars == <<part, vars, memoryVars, energyVars, telemetryVars, storageVars>>

ReadingsInit ==
    /\ part \in {"sensors", "memory", "energy", "rates", "health"}
    /\ machine \in IF part = "memory" THEN Machines ELSE {CHOOSE m \in Machines : TRUE}
    /\ part # "memory" => memory = NoMemory
    /\ part # "sensors" => base = <<>>
    /\ wrapAt \in IF part = "energy" THEN {EnergyRange, EnergyRange + 1} ELSE {EnergyRange}
    /\ part # "rates" => kernel = {"net"} /\ present = {}
    /\ part # "health" => storage = <<>>
    /\ Init /\ MemoryInit /\ EnergyInit /\ TelemetryInit /\ StorageInit

ReadingsNext ==
    /\ UNCHANGED part
    /\ \/ /\ part = "sensors" /\ Next
          /\ UNCHANGED <<memoryVars, energyVars, telemetryVars, storageVars>>
       \/ /\ part = "memory" /\ MemoryNext
          /\ UNCHANGED <<vars, energyVars, telemetryVars, storageVars>>
       \/ /\ part = "energy" /\ EnergyNext
          /\ UNCHANGED <<vars, memoryVars, telemetryVars, storageVars>>
       \/ /\ part = "rates" /\ TelemetryNext
          /\ UNCHANGED <<vars, memoryVars, energyVars, storageVars>>
       \/ /\ part = "health" /\ StorageNext
          /\ UNCHANGED <<vars, memoryVars, energyVars, telemetryVars>>

ReadingsSpec == ReadingsInit /\ [][ReadingsNext]_readingsVars

-----------------------------------------------------------------------------
(* Properties of the parts, together where they are about the same thing   *)

(* The collector's data are well formed; a reading is only current when it *)
(* was observed now, and keeps the time it was observed when it is not.    *)
ReadingsConsistent ==
    /\ TypeOK /\ MemoryTypeOK /\ EnergyTypeOK /\ TelemetryTypeOK /\ StorageTypeOK
    /\ CurrentIsNew /\ DimmedKeepsItsTime /\ DiscoveryShows

(* Power is the energy that was used over the time it was used in, and a   *)
(* package's cores are added up only when all of them were measured.       *)
EnergyTrue == EnergyAccounted /\ CoreTotalsComplete

(* A rate is of the counters of one source, and a drive keeps its rates.   *)
DerivedTrue == RatesTrue /\ DrivesKeepTheirRates

(* What is shown of a drive's health is of one read, and a read that fails *)
(* leaves what an earlier one has found.                                   *)
HealthTrue == [][HealthOfOneRead' /\ SuccessKept]_storageVars
=============================================================================
