SPECIFICATION Spec
CONSTANTS
    Reporters = {p1}
    Responders = {s1}
    Workers = {w1}
    Recovery = Recovery
    Dead = Dead
    Nobody = Nobody
    NoReport = NoReport
    Genesis = Genesis
    MaxOverruns = 0
    MaxStoreFaults = 0
    MaxCrashes = 0
INVARIANTS
    ReportIncludesRestart
CHECK_DEADLOCK FALSE
