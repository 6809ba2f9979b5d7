\* Two users who share an email, with and without capitals; three requests on
\* two handlers, one fault.
SPECIFICATION Spec
CONSTANTS
    None = None
    u1 = u1
    u2 = u2
    e1 = e1
    E1 = E1
    w1 = w1
    w2 = w2
    t1 = t1
    t2 = t2
    c1 = c1
    c2 = c2
    r1 = r1
    r2 = r2
    r3 = r3
    r4 = r4
    h1 = h1
    h2 = h2
    Users <- MCUsers
    Emails <- MCEmails
    Passwords <- MCPasswords
    ResetTokens <- MCResetTokens
    Codes <- MCCodes
    RefreshTokens <- MCRefreshTokens
    Handlers <- MCHandlers
    Lower <- MCLower
    InitialRows <- MCInitialRows
    MaxRequests = 3
    MaxFaults = 1
INVARIANTS
    TypeOK
    SpentOnce
    LoginSeesTheRow
PROPERTIES
    ChangedAsAsked
CHECK_DEADLOCK FALSE
