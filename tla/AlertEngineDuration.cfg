SPECIFICATION Spec
CONSTANTS
    Values <- MCValues
    Rules <- UpperRules
    MaxTime = 7
PROPERTIES BeyondALimitActivates
