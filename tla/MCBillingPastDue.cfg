\* One replica, no faults, a plan without a trial: the card is refused once.
SPECIFICATION Spec
CONSTANTS
    None = None
    s1 = s1
    p1 = p1
    p2 = p2
    u1 = u1
    u2 = u2
    w1 = w1
    w2 = w2
    r1 = r1
    Subs <- MCSubs
    Plans <- MCOnePlan
    Users <- MCUsers
    Workers <- MCOneWorker
    Requests <- MCRequests
    Intervals = {1}
    Trials = {0, 1}
    InitialPlans <- MCInitialPlans
    InitialSubs <- MCInitialSubs
    MaxTime = 3
    MaxRequests = 0
    MaxFaults = 0
PROPERTY PastDueIsTriedAgain
CHECK_DEADLOCK FALSE
