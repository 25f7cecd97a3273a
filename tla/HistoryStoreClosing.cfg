SPECIFICATION StoreSpec
CONSTANTS
    Keys = {k1}
    DurationChoices <- TwoChoices
    MinRetention = 1
    MaxRetention = 3
    MaxClock = 4
PROPERTIES ContinuesAfterClosing
CHECK_DEADLOCK FALSE
