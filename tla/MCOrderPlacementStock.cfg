\* Two checkouts compete for the last units while an administrator changes
\* the stock; one fault, stale caches.
SPECIFICATION Spec
CONSTANTS
    None = None
    c1 = c1
    c2 = c2
    p1 = p1
    p2 = p2
    m1 = m1
    o1 = o1
    o2 = o2
    o3 = o3
    s1 = s1
    s2 = s2
    Checkouts <- MCTwoCheckouts
    Products <- MCProducts
    Mandates <- MCNoMandates
    Servers <- MCServers
    OrderIds <- MCTwoOrderIds
    Items <- MCItems
    MandateOf <- MCNoMandateOf
    ByMandate <- MCNoMandates
    InitialStock <- MCScarce
    StaleCache = TRUE
    Counts <- MCCounts
    MaxUpdates = 1
    MaxFaults = 1
SYMMETRY Symmetry
INVARIANTS
    TypeOK
    ReservedIsHeld
CHECK_DEADLOCK FALSE
