SPECIFICATION FairSpec
CONSTANTS
    blank = blank
    p1 = p1
    p2 = p2
    Ids = {1, 2}
    None = None
    Passports <- Entered
    Complete <- Valid
    Blank = blank
    MaxAttempts = 1
    MaxResubmits = 1
    MaxFaults = 1
INVARIANTS StraysAreExplained NtinIsEarned
PROPERTIES OneRequest CardMovesOn
