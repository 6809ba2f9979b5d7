\* An order with its mandate and its product, and a free order; two requests, at once or one
\* after the other, one fault.
SPECIFICATION Spec
CONSTANTS
    None = None
    o1 = o1
    o2 = o2
    m1 = m1
    p1 = p1
    f1 = f1
    f2 = f2
    h1 = h1
    h2 = h2
    Orders <- MCOrders
    Mandates <- MCMandates
    Products <- MCProducts
    Refunds <- MCRefunds
    Handlers <- MCHandlers
    Items <- MCItems
    Total <- MCTotal
    MaxAmount <- MCMaxAmount
    Counts = {1}
    InitialRows <- MCInitialRows
    MaxRequests = 2
    MaxFaults = 1
INVARIANTS
    TypeOK
    RefundIsBacked
    OneReturnPerOrder
PROPERTIES
    OrderMovesOn
    SettledIsKept
    ReturnIsAnswered
CHECK_DEADLOCK FALSE
