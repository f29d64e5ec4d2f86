SPECIFICATION Spec
CONSTANTS
    m1 = m1
    m2 = m2
    i1 = i1
    i2 = i2
    d1 = d1
    d2 = d2
    None = None
    Machines = {m1, m2}
    Installations = {i1, i2}
    Identifiers = {d1, d2}
    Observations <- MCObservations
    ObservedStates = {"enabled"}
    OperatorPolicies = {"provision", "blocked"}
    Text <- MCText
    Reports <- MCReports
INVARIANTS
    TypeOK
    ReferentialIntegrity
    OneArmedPerMachine
    LifecycleOrdered
    KeysIdentifyEvents
    ApprovalIsAudited
    AuditAgrees
PROPERTIES
    HistoryIsAppendOnly
SYMMETRY Symmetry
CHECK_DEADLOCK FALSE
