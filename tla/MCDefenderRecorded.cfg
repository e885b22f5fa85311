CONSTANTS
    Addresses <- OneVisitor
    Clients <- OneVisitor
    Scenarios <- FewScenarios
    SubSecond = 1
    MaxDuration = 2
    BatchLimit = 1
    MaxProposals = 1
    MaxLines = 2
    MaxRotations = 0
    MaxCycles = 1
    MaxFaults = 1
    MaxDeaths = 1
    MaxTime = 1
SPECIFICATION Spec
INVARIANTS BlocksAreRecorded
