SPECIFICATION ProcessSpec
CONSTANTS
    m1 = m1
    i1 = i1
    d1 = d1
    r1 = r1
    k1 = k1
    k2 = k2
    None = None
    Machines = {m1}
    Installations = {i1}
    Identifiers = {d1}
    Observations <- MCObservations
    ObservedStates = {"enabled", "disabled"}
    OperatorPolicies = {"provision", "blocked"}
    Text <- MCText
    Reports <- MCReports
    Requests = {r1}
    SecureBootPolicy = "required"
    RecoveryKeys = {k1, k2}
    SchemaVersions = {0, 7, 9}
    CurrentSchema = 8
INVARIANTS
    ProcessTypeOK
    ReporterIsDormant
    BootRequestsDrained
    CreatedKeyIsKept
PROPERTIES
    RequestsAreAnswered
    StopsWhole
CHECK_DEADLOCK FALSE
