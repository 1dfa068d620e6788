SPECIFICATION Spec
CONSTANTS
    Reporters = {p1, p2}
    Responders = {s1, s2}
    Workers = {w1}
    Recovery = Recovery
    Dead = Dead
    Nobody = Nobody
    NoReport = NoReport
    Genesis = Genesis
    MaxOverruns = 1
    MaxStoreFaults = 1
    MaxCrashes = 1
SYMMETRY Symmetry
INVARIANTS
    TypeOK
    ChainVerifies
    ReportsNeverConflict
    ReportDescribesRun
    RestartCallsBounded
CHECK_DEADLOCK FALSE
