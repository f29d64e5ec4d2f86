SPECIFICATION ProvisioningSpec
CONSTANTS
    m1 = m1
    i1 = i1
    i2 = i2
    d1 = d1
    r1 = r1
    r2 = r2
    None = None
    Machines = {m1}
    Installations = {i1}
    Identifiers = {d1}
    Observations <- MCObservations
    ObservedStates = {"enabled", "disabled"}
    OperatorPolicies = {"provision", "blocked"}
    Text <- MCText
    Reports <- ConcurrentReports
    Requests = {r1}
    SecureBootPolicy = "required"
PROPERTY SpentUnderProvisionPolicy
CHECK_DEADLOCK FALSE
