CONSTANTS
    Addresses <- VisitorAndService
    Clients <- OneVisitor
    Scenarios <- ContainmentScenarios
    SubSecond = 2
    MaxDuration = 2
    BatchLimit = 1
    MaxProposals = 1
    MaxLines = 1
    MaxRotations = 0
    MaxCycles = 2
    MaxFaults = 1
    MaxDeaths = 1
    MaxTime = 3
SPECIFICATION Spec
INVARIANTS TypeOK BlocksAreAuthorised BlocksAreTemporary EnforcedIsPersisted IInv
PROPERTIES BlockedNeverAdmitted ContainmentSpec
