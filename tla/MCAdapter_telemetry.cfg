SPECIFICATION Spec
CONSTANTS
    child = child
    hourly = hourly
    agent = agent
    Jobs = {child}
    CronJobs = {hourly}
    BarePods = {agent}
    Labelled <- Workload
    Configured = {"kafka", "credential", "network"}
    Answers <- FewAnswers
    None = None
    MaxSpawns = 1
    MaxStarts = 1
    MaxErrors = 0
    MaxCrashes = 0
INVARIANTS
    MissingTelemetryIsUnknown
CHECK_DEADLOCK FALSE
