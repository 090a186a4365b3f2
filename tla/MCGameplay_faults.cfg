CONSTANTS
    Ticker = {w1, w2}
    Rule = {}
    Context = {}
    Cancelable = {}
    Answer = {a1, a2}
    NoAnswer = none
    Audio = {au1}
    NoAudio = silence
    MaxRetries = 1
    MaxQueued = 2
    MaxBatch = 1
    MaxTasks = 3
    MaxAfter = 1
    MaxFlows = 3
    AllowWithoutStorage = TRUE
    EnableTts = TRUE
    StorageMayBreak = TRUE
    ClientThrows = TRUE
    MayCrash = TRUE
SPECIFICATION GameplaySpec
CHECK_DEADLOCK FALSE
SYMMETRY Symmetry
INVARIANTS
    GameplayTypeOK
    AnswersAgree
    SavedMeansSaved

