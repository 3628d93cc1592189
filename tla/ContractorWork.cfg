SPECIFICATION Spec
CONSTANTS
    planner = planner
    accountant = accountant
    d1 = d1
    p1 = p1
    p2 = p2
    o1 = o1
    o2 = o2
    d2 = d2
    Nothing = Nothing
    Users = {planner, accountant}
    CanEdit = {planner}
    CanAllocate = {planner}
    CanCancel = {planner}
    CanAccept = {accountant}
    Requests = {p1}
    Orders = {o1, o2}
    Docs = {d1}
    DocSums = {10, 11}
    Shares = {60}
    Amounts = {7}
    MaxQty = 2
    MaxCalls = 4
CHECK_DEADLOCK FALSE
SYMMETRY OrderSymmetry
INVARIANTS OrdersWithinAct MoneyAddsUp WholeWork ShownIsWritten
