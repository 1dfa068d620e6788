SPECIFICATION FairSpec
CONSTANTS
    process = process
    kafka = kafka
    Runs = {r1}
    Keys = {k1, k2}
    Workers = {w1, w2}
    Recovery = Recovery
    None = None
    Dead = Dead
    PROBE_KINDS <- OneKind
    MaxOverruns = 0
    AdapterFaults = FALSE
    MaxStoreFaults = 0
    MaxCrashes = 1
PROPERTIES
    EveryShutdownTerminates
