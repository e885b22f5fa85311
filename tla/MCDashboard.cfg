SPECIFICATION Spec
CONSTANTS
    ReasoningWindow = 3
    EventWindow = 2
    Recent = 1
    MaxCycles = 2
    MaxEvents = 4
    MaxTears = 2
    MaxResets = 1
    MaxMisreads = 1
INVARIANTS TypeOK ReasoningIsCurrent NoFalseSilence
PROPERTIES StaysAvailable AnswerCatchesUp
