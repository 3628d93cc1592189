CONSTANTS
    Lines = {l1}
    Kind <- AllProducts
    Works = {cut}
    Requests = {r1, r2}
    MaxQty = 1
    MaxMade = 1
    MaxLedger = 1
    MaxActs = 0
    OneCConnected = TRUE
    StatusPatched = TRUE
    StagesPatched = FALSE
SPECIFICATION Spec
PROPERTIES CancelTakesBackAll LedgerKept
SYMMETRY RequestSymmetry
