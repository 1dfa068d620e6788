SPECIFICATION Spec
CONSTANTS
    child = child
    hourly = hourly
    agent = agent
    Jobs = {child}
    CronJobs = {hourly}
    BarePods = {agent}
    Labelled <- Workload
    Configured = {"kafka", "credential", "network"}
    Answers <- FewAnswers
    None = None
    MaxSpawns = 1
    MaxStarts = 1
    MaxErrors = 2
    MaxCrashes = 1
CONSTRAINTS
    MayVerify
    AnyTwoEvents
INVARIANTS
    TypeOK
    FencedBeforeStopped
    VerifiedIsStopped
    VerifiedIsClosed
    NothingElseOverlooked
CHECK_DEADLOCK FALSE
