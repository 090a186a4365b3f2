CONSTANTS
    Ticker = {w1, w2}
    Rule = {}
    Context = {}
    Cancelable = {}
    Answer = {a1, a2}
    NoAnswer = none
    Audio = {au1}
    NoAudio = silence
    MaxRetries = 0
    MaxQueued = 2
    MaxBatch = 2
    MaxTasks = 3
    MaxAfter = 1
    MaxFlows = 2
    AllowWithoutStorage = TRUE
    EnableTts = TRUE
    StorageMayBreak = FALSE
    ClientThrows = FALSE
    MayCrash = FALSE
SPECIFICATION GameplaySpec
CHECK_DEADLOCK FALSE
INVARIANTS
    PlayersSeeGeneratedTexts
