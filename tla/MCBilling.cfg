\* Two replicas bill one subscription while requests change it and its plans;
\* one save fails or one server dies.
SPECIFICATION Spec
CONSTANTS
    None = None
    s1 = s1
    p1 = p1
    p2 = p2
    u1 = u1
    u2 = u2
    w1 = w1
    w2 = w2
    r1 = r1
    Subs <- MCSubs
    Plans <- MCPlans
    Users <- MCUsers
    Workers <- MCWorkers
    Requests <- MCRequests
    Intervals = {1}
    Trials = {0, 1}
    InitialPlans <- MCInitialPlans
    InitialSubs <- MCInitialSubs
    MaxTime = 3
    MaxRequests = 2
    MaxFaults = 1
INVARIANTS
    TypeOK
    RenewedWasCharged
    OneChargePerPeriod
PROPERTIES
    EndedStaysEnded
    DueIsBilled
    TrialsEnd
CHECK_DEADLOCK FALSE
