SPECIFICATION MCSpec
CONSTANTS
    MaxLines = 2
    MaxCuts = 1
    MaxScans = 2
    MaxClock = 2
    MaxRewinds = 1
INVARIANTS TypeOK EvidenceOnce NothingSkipped ResultNotMissed
