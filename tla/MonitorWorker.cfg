SPECIFICATION Spec
CONSTANTS
    Devices = {d1}
    PeriodicHealth = TRUE
    Wishes = {TRUE, FALSE}
    Panics = {"collector", "storage"}
    MaxWakes = 2
INVARIANTS TypeOK BusyHasOneOwner JobFindsStorage NoLostWakeup
PROPERTIES StaysHidden HiddenUpdates ImplementsContract
CHECK_DEADLOCK FALSE
