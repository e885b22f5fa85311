CONSTANTS
    Addresses <- VisitorsAndOperator
    Clients = {}
    Scenarios <- FewScenarios
    SubSecond = 1
    MaxDuration = 1
    BatchLimit = 1
    MaxProposals = 1
    MaxLines = 3
    MaxRotations = 1
    MaxCycles = 2
    MaxFaults = 1
    MaxDeaths = 1
    MaxTime = 0
SPECIFICATION Spec
INVARIANTS EvidenceAccounted NotRepeated JournalAhead
