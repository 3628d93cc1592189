SPECIFICATION Spec
CONSTANTS
    Accounts <- SomeAccounts
    Starts <- Live
    Gaps <- KnownGaps
    MaxCalls = 1
    MaxElsewhere = 1
CHECK_DEADLOCK FALSE
INVARIANT ToldIsShown
PROPERTY PolledCatchesUp
