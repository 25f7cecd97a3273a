SPECIFICATION RecordsSpec
CONSTANTS
    Values <- MCValues
    Rules <- MCRules
    MaxTime = 7
    Keys = {k1, k2}
    DurationChoices <- TwoChoices
    MinRetention = 1
    MaxRetention = 2
    MaxClock = 3
    SampleValues <- MCSampleValues
    Steps <- MCSteps
    MinPoints = 4
    Points = {3, 5}
    Roundings <- MCRoundings
    Windows = {3, 9}
    MaxSampleTime = 8
    Quantities <- MCQuantities
    Sensors <- MCSensors
    MaxRounds = 4
SYMMETRY KeySymmetry
INVARIANTS RecordsConsistent ChartTrue
PROPERTIES RaisedExactlyWhenSustained NoticesTrue HistoryKept
CHECK_DEADLOCK FALSE
