\* Two requests race, Redis may fail, ids may be reused.
SPECIFICATION Spec
CONSTANTS
    None = None
    u1 = u1
    u2 = u2
    m1 = m1
    r1 = r1
    r2 = r2
    i1 = i1
    i2 = i2
    Users <- MCOneUser
    CartTotals <- MCCartTotals
    Costs <- MCCosts
    Mandates <- MCMandates
    StripeIds <- MCOneStripeId
    Requests <- MCTwoRequests
    MaxRequests = 3
    MandateOwner <- MCMandateOwner
    MandateLimit <- MCMandateLimit
    StripeConfigured = TRUE
    ClientChosenIds = TRUE
    CacheFaults = TRUE
    InitialRows <- MCFilledIn
SYMMETRY Symmetry
INVARIANTS
    AdvancedIsFilledIn
    TotalsAddUp
    IntentSettled
    MandateHonoured
    PublishedWasCommitted
CHECK_DEADLOCK FALSE
