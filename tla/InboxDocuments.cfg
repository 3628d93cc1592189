SPECIFICATION Spec
CONSTANTS
    receipt = receipt
    other = other
    Requests = {w1, w2}
    Orders = {}
    Own = Own
    Slots <- ThreeSlots
    Quantities <- One
    MaxDeaths = 1
    Documents <- WithOther
    Lines <- TwoLines
    Handled = {receipt}
    Unknown <- SecondUnknown
    MaxAttempts = 2
    Limit = 2
    MaxMishaps = 1
SYMMETRY Workers
CHECK_DEADLOCK FALSE
INVARIANTS JournalIsTrue RedeliveryIsHarmless
PROPERTY WarehouseFollowed
