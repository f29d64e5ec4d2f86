SPECIFICATION AuthSpec
CONSTANTS
    u1 = u1
    u2 = u2
    r1 = r1
    r2 = r2
    f1 = f1
    f2 = f2
    f3 = f3
    t1 = t1
    s1 = s1
    s2 = s2
    s3 = s3
    None = None
    Users = {u1, u2}
    Requests = {r1, r2}
    Flows = {f1, f2, f3}
    Tickets = {t1}
    Sessions = {s1, s2, s3}
    MaxLoginAttempts = 1
    MaxActiveSessions = 2
    MaxActiveFlows = 2
INVARIANTS
    AuthTypeOK
    OneInitialClaim
    OneSessionPerToken
    SessionsAreEarned
PROPERTIES
    AdminRemains
    BlockedStaysBlocked
    BlockedIsLetInNowhere
SYMMETRY Symmetry
CHECK_DEADLOCK FALSE
