SPECIFICATION ProvisioningSpec
CONSTANTS
    m1 = m1
    i1 = i1
    i2 = i2
    d1 = d1
    r1 = r1
    r2 = r2
    None = None
    Machines = {m1}
    Installations = {i1, i2}
    Identifiers = {d1}
    Observations <- MCObservations
    ObservedStates = {"enabled"}
    OperatorPolicies = {"provision", "blocked"}
    Text <- MCText
    Reports <- ConcurrentReports
    Requests = {r1, r2}
    SecureBootPolicy = "required"
INVARIANTS
    RequestsTypeOK
    OneShotHandoff
    ScheduleMatchesLifecycle
    CredentialGatesProgress
PROPERTIES
    ImplementsOneShotBoot
CHECK_DEADLOCK FALSE
SYMMETRY Symmetry
