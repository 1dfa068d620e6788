SPECIFICATION FairSpec
CONSTANTS
    Drills = {d1, d2}
    Actors = {ann, bob}
    Nobody = Nobody
    NoDrill = NoDrill
    MaxStoreFaults = 2
    MaxCrashes = 2
INVARIANTS
    TypeOK
    SeparationOfDuty
    StartedIsDispatched
PROPERTIES
    DecisionsStand
    ApprovedDrillEnds
CHECK_DEADLOCK FALSE
