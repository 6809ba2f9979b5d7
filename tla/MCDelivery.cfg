\* One event, of an order or of a subscription; webhooks and a user whose
\* preferences change; two faults, one request.  A delivery posts once and the
\* retry worker takes one entry, so two refusals leave an entry to starve.
SPECIFICATION Spec
CONSTANTS
    None = None
    e1 = e1
    s1 = s1
    w1 = w1
    w2 = w2
    w3 = w3
    c1 = c1
    r1 = r1
    a1 = a1
    n1 = n1
    n2 = n2
    k1 = k1
    d1 = d1
    Orders <- MCOneOrder
    Renewals <- MCRenewals
    Kind <- MCKind
    Webhooks <- MCWebhooks
    Subscribed <- MCSubscribed
    BadURLs <- MCBadURLs
    InitialWebhooks <- MCInitialWebhooks
    Consumers <- MCConsumers
    Retriers <- MCRetriers
    Admins <- MCAdmins
    MaxRetries = 1
    Limit = 1
    Notices <- MCNotices
    Notifiers <- MCNotifiers
    Editors <- MCEditors
    NotificationTypes <- MCTypes
    Changes <- MCChanges
    MaxPublished = 1
    MaxFaults = 2
    MaxRequests = 1
INVARIANTS
    TypeOK
    DeliveredWasReceived
    OnceWithoutFaults
    OptedOutIsSpared
PROPERTIES
    EventIsDelivered
CHECK_DEADLOCK FALSE
