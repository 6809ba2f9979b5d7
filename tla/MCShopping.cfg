\* Two customers, the second without a cart at first, one product, one code
\* and one task; three requests on two handlers, one fault.
SPECIFICATION Spec
CONSTANTS
    None = None
    u1 = u1
    u2 = u2
    c1 = c1
    c2 = c2
    c3 = c3
    p1 = p1
    d1 = d1
    t1 = t1
    n1 = n1
    h1 = h1
    h2 = h2
    Users <- MCUsers
    Carts <- MCCarts
    Products <- MCProducts
    Codes <- MCCodes
    Tasks <- MCTasks
    PushConfigs <- MCPushConfigs
    Handlers <- MCHandlers
    Quantities <- MCQuantities
    Limits <- MCLimits
    InitialRows <- MCInitialRows
    MaxRequests = 3
    MaxFaults = 1
SYMMETRY MCSymmetry
INVARIANTS
    TypeOK
    UsageIsCounted
    TaskTellsTheTruth
PROPERTIES
    CartChangesAsAsked
    TaskEndsOnce
CHECK_DEADLOCK FALSE
