SPECIFICATION SessionFairSpec
CONSTANTS
    Devices = {d1}
    PeriodicHealth = FALSE
    MayFail = TRUE
    MaxEvents = 4
INVARIANTS RequestsTracked HiddenWhenSettled
PROPERTIES PausedSamplesDiscarded LiveKeepsSampling RequestsSettle
CHECK_DEADLOCK FALSE
