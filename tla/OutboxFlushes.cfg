SPECIFICATION FairSpec
CONSTANTS
    ticker = ticker
    admin = admin
    Messages <- TwoMessages
    Flushers = {ticker, admin}
    Ticker = ticker
    MaxAttempts = 2
    Limit <- OneOrTwo
    CancelOf <- NoneCancelled
    MaxRetries = 1
    MaxStops = 1
CHECK_DEADLOCK FALSE
INVARIANTS SentWasTaken DeadHasFailed
PROPERTY EveryMessageSettles
