\* One request at a time, Redis answers, ids are fresh.
SPECIFICATION Spec
CONSTANTS
    None = None
    u1 = u1
    u2 = u2
    m1 = m1
    r1 = r1
    r2 = r2
    i1 = i1
    i2 = i2
    Users <- MCUsers
    CartTotals <- MCCartTotals
    Costs <- MCCosts
    Mandates <- MCMandates
    StripeIds <- MCOneStripeId
    Requests <- MCOneRequest
    MaxRequests = 5
    MandateOwner <- MCMandateOwner
    MandateLimit <- MCMandateLimit
    StripeConfigured = TRUE
    ClientChosenIds = FALSE
    CacheFaults = FALSE
    InitialRows <- MCEmptyOrFilledIn
INVARIANTS
    TypeOK
    CacheCoherent
PROPERTIES
    ImplementsLifecycle
CHECK_DEADLOCK FALSE
