CONSTANTS
    Lines = {l1, l2}
    Kind <- AllProducts
    Works = {cut}
    Requests = {r1, r2}
    MaxQty = 1
    MaxMade = 1
    MaxLedger = 1
    MaxActs = 1
    OneCConnected = FALSE
    StatusPatched = FALSE
    StagesPatched = TRUE
SPECIFICATION Spec
INVARIANTS LedgerAgrees ShippedBackedByActs ClosedHasAct ShippedHasEvidence
PROPERTY MarkRespectsOthers
SYMMETRY Symmetry
