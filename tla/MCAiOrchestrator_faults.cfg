CONSTANTS
    Ticker = {t1, t2}
    Rule = {r1}
    Context = {c1}
    Answer = {a1, a2}
    NoAnswer = none
    MaxRetries = 1
    MaxQueued = 2
    MaxBatch = 1
    MaxTasks = 3
    MaxFlows = 1
    Cancelable = {"queued", "running", "timed_out"}
    ClientThrows = TRUE
SPECIFICATION FairSpec
INVARIANTS
    TypeOK
    FlowFollowsItsTasks
    OneRunnerPerTask
PROPERTIES
    OnlyRunnersRevive
    FlowsGoForward
    GenerationEnds
