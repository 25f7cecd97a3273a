SPECIFICATION ClientsSpec
CONSTANTS
    Devices = {d1}
    PeriodicHealth = TRUE
    TuiMayFail = TRUE
    MaxKeys = 3
    WatchMayFail = TRUE
    LineLimit = 3
    Refreshes = 2
    RefreshMayEnd = TRUE
    LogCapacity = 2
    MaxSamples = 5
    MaxLogs = 2
    SearchPath = {"home", "bin"}
    SystemDirs = {"bin"}
    Timeout = 1
    PipeCapacity = 1
    MaxOutput = 1
    MaxWritten = 2
    MaxVersion = 3
    MaxRuns = 3
    Keys = {"title", "enabled"}
    ScopeKeys = {"title"}
    Others = {"other"}
    MaxSyncs = 4
INVARIANTS ClientsConsistent HelperOutcome LogComplete SettingsKept
PROPERTIES TuiPauseHolds ServedInOrder RuleManaged ClientsGoOn
CHECK_DEADLOCK FALSE
