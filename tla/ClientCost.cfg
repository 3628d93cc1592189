SPECIFICATION Spec
CONSTANTS
    Accounts <- SomeAccounts
    Starts <- Priced
    Gaps <- KnownGaps
    MaxCalls = 1
    MaxElsewhere = 1
PROPERTY CostReachesScreen
CHECK_DEADLOCK FALSE
