SPECIFICATION TrustSpec
CONSTANTS
    m1 = m1
    i1 = i1
    i2 = i2
    d1 = d1
    k1 = k1
    k2 = k2
    c1 = c1
    c2 = c2
    None = None
    Machines = {m1}
    Installations = {i1}
    Identifiers = {d1}
    Observations = {{d1}}
    ObservedStates = {"enabled"}
    OperatorPolicies = {"provision", "blocked"}
    Text <- MCText
    Reports <- MCReports
    Keys = {k1, k2}
    Challenges = {c1, c2}
INVARIANT CancelledNeverReleases
CHECK_DEADLOCK FALSE
