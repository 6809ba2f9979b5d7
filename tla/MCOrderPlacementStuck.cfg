\* No fault, no mandate: a saga that turned round never ends.
SPECIFICATION FairSpec
CONSTANTS
    None = None
    c1 = c1
    c2 = c2
    p1 = p1
    p2 = p2
    m1 = m1
    o1 = o1
    o2 = o2
    o3 = o3
    s1 = s1
    s2 = s2
    Checkouts <- MCOneCheckout
    Products <- MCOneProduct
    Mandates <- MCNoMandates
    Servers <- MCOneServer
    OrderIds <- MCOrderIds
    Items <- MCOneItem
    MandateOf <- MCNoMandateOf
    ByMandate <- MCNoMandates
    InitialStock <- MCPlenty
    StaleCache = FALSE
    Counts <- MCCounts
    MaxUpdates = 0
    MaxFaults = 0
PROPERTIES
    FailedIsCompensated
CHECK_DEADLOCK FALSE
