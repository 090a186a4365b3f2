CONSTANTS
    Ticker = {w1, w2}
    Rule = {}
    Context = {}
    Cancelable = {}
    Answer = {a1, a2}
    NoAnswer = none
    Audio = {au1}
    NoAudio = silence
    MaxRetries = 0
    MaxQueued = 2
    MaxBatch = 2
    MaxTasks = 2
    MaxAfter = 1
    MaxFlows = 1
    AllowWithoutStorage = TRUE
    EnableTts = TRUE
    StorageMayBreak = TRUE
    ClientThrows = FALSE
    MayCrash = FALSE
SPECIFICATION FairGameplaySpec
CHECK_DEADLOCK FALSE
PROPERTIES
    AcceptedAnswersComplete
