SPECIFICATION Spec
CONSTANTS
    process = process
    kafka = kafka
    Runs = {r1}
    Keys = {k1}
    Workers = {w1, w2}
    Recovery = Recovery
    None = None
    Dead = Dead
    PROBE_KINDS <- OneKind
    MaxOverruns = 1
    AdapterFaults = FALSE
    MaxStoreFaults = 0
    MaxCrashes = 0
PROPERTIES
    UnknownIsNeverVerified
