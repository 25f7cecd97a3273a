SPECIFICATION FairSpec
CONSTANTS
    CPUs <- TwoCPUs
    EventPairs = {e1}
    SoftLimit <- Limit
    Others <- MCOthers
INVARIANTS CountersBounded
PROPERTIES MeasuredWithoutGap Recovers
