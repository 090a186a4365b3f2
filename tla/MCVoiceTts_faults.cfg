CONSTANTS
    Ticker = {t1, t2}
    Key = {k1, k2, k3}
    NoKey = none
    MaxRetries = 1
    MaxQueued = 3
    MaxCache = 2
    MaxBatch = 2
    MaxTasks = 3
SPECIFICATION Spec
SYMMETRY Symmetry
INVARIANTS
    TypeOK
    TasksGetTheirAudio
    IdsResolveToTheirText
