\* One checkout paid by mandate: its announcements, redeliveries and retries,
\* the order sagas that come of them and the mandate saga; one fault, stale caches.
SPECIFICATION FairSpec
CONSTANTS
    None = None
    c1 = c1
    c2 = c2
    p1 = p1
    p2 = p2
    m1 = m1
    o1 = o1
    o2 = o2
    o3 = o3
    s1 = s1
    s2 = s2
    Checkouts <- MCOneCheckout
    Products <- MCOneProduct
    Mandates <- MCMandates
    Servers <- MCOneServer
    OrderIds <- MCOrderIds
    Items <- MCOneItem
    MandateOf <- MCMandateOf
    ByMandate <- MCByMandate
    InitialStock <- MCPlenty
    StaleCache = TRUE
    Counts <- MCCounts
    MaxUpdates = 0
    MaxFaults = 1
INVARIANTS
    AtMostOneOrder
    OrderWasPaid
    SagaMatchesOrder
PROPERTIES
    AnnouncedIsHandled
CHECK_DEADLOCK FALSE
