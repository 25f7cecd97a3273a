SPECIFICATION ReadingsSpec
CONSTANTS
    Sensors <- MCSensors
    CollectorOf <- MCCollectorOf
    Files <- MCFiles
    Enrichable <- MCEnrichable
    Clocks <- MCClocks
    MayFail <- MCMayFail
    MaxTime = 2
    Modules = {1, 2, 3}
    Chips = {11, 12}
    CPUs <- MCCPUs
    Location <- MCLocation
    Zones <- MCZones
    ZoneName <- MCZoneName
    ZoneNumber <- MCZoneNumber
    ZoneParent <- MCZoneParent
    Ranged = {2}
    Events <- MCEvents
    EventMask <- MCMask
    EnergyRange = 2
    Loads = {1}
    Namespaces = {"n1", "n2"}
    Partitioned = {"n1"}
    CounterSets <- MCCounterSets
    MaxCount = 2
    Drives = {"nvme", "disk"}
    Nvme = {"nvme"}
    Rotational = {"disk"}
    Problems <- MCProblems
    MaxReads = 2
INVARIANTS ReadingsConsistent EnergyTrue DerivedTrue
PROPERTIES OnlyConfirmedRemovals RightModule HealthTrue
CHECK_DEADLOCK FALSE
