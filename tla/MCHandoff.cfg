SPECIFICATION ReporterSpec
CONSTANTS
    m1 = m1
    i1 = i1
    d1 = d1
    None = None
    Machines = {m1}
    Installations = {i1}
    Identifiers = {d1}
    Observations = {{d1}}
    ObservedStates = {"enabled"}
    OperatorPolicies = {"provision"}
    Text <- MCText
    Reports = {}
    machine = m1
    installation = i1
    Stamps <- MCStamps
    SyslogRuns <- MCRuns
    MaxBoots = 2
    MaxReporterLogRead = 2
    MaxInstallationLogBytes = 3
INVARIANT HandoffWaitsForQueue
CHECK_DEADLOCK FALSE
