CONSTANTS
    d1 = d1
    d2 = d2
    na = na
    nb = nb
    org = org
    NoOne = NoOne
    Docs = {d1, d2}
    HasBin = {org}
    Number <- MCNumber
    Year <- MCYear
    Day <- MCDay
    Row <- MCRow
    PayDay <- MCPayDay
    Amount <- MCAmount
    Copies <- MCCopies
    Printed <- MCPrinted
    Client <- MCClient
    Org <- MCOrg
    ActNumber <- MCAct
    ReleaseNumber <- MCAct
    Paying = {d1, d2}
    MaxRuns = 2
    MaxShop = 1
    MaxExports = 1
    Says = {"CONFIRMED", "CLOSED"}
SPECIFICATION Spec
CHECK_DEADLOCK FALSE
INVARIANTS WipeIsInOrder   CanonicalClientOnce NothingWrittenTwice
 
