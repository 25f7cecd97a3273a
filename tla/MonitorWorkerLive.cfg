SPECIFICATION FairSpec
CONSTANTS
    Devices = {d1}
    PeriodicHealth = TRUE
    Wishes = {}
    Panics = {}
    MaxWakes = 1
PROPERTIES AcceptedIsServed DropStopsThreads
CHECK_DEADLOCK FALSE
