SPECIFICATION Spec
CONSTANTS
    Requests = {r1, r2}
    Orders = {o1}
    Own = Own
    Slots <- TwoSlots
    Quantities <- Typed
    MaxDeaths = 1
SYMMETRY Symmetry
CHECK_DEADLOCK FALSE
INVARIANT BooksAgree
PROPERTIES TollingStaysWithOwner TakesInTurn
