SPECIFICATION Spec
CONSTANTS
    process = process
    kafka = kafka
    Runs = {r1}
    Keys = {k1}
    Workers = {w1, w2}
    Recovery = Recovery
    None = None
    Dead = Dead
    PROBE_KINDS <- TwoKinds
    MaxOverruns = 0
    AdapterFaults = TRUE
    MaxStoreFaults = 0
    MaxCrashes = 2
SYMMETRY Slots
INVARIANTS
    TypeOK
    OneWorkerPerRun
    EvidenceInPhaseOrder
    EvidenceLossBounded
    ProbeKindsNotRepeated
PROPERTIES
    ImplementsLifecycle
    UnknownIsNeverVerified
