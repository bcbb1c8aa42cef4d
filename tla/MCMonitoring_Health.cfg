SPECIFICATION Spec
CONSTANTS
    s1 = s1  s2 = s2
    Watching <- ProbeOrScrapes
    Scrapes = {s1, s2}
    Retries = 2
    MaxOpen = 1
INVARIANTS
    MonitoringTypeOK
    WorkerNeedsSchema
PROPERTIES
    GaugesAreFresh
    OutageIsNoticed
    RecoveryIsNoticed
