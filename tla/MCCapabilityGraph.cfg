SPECIFICATION Spec
CONSTANTS
    public = public
    attempt = attempt
    flag = flag
    line = line
    finding = finding
    verdict = verdict
    action = action
    Nodes = {public, attempt}
    PublicNode = public
    AttemptNode = attempt
    Flags = {flag}
    Evidence <- MCEvidence
    ActionResults = {action}
    None = None
    Cap = 2
    BatchLimit = 1
    MaxCited = 2
    MaxBuffered = 2
    MaxApplied = 4
INVARIANTS
    TypeOK
    StatusIsEvidenced
    ConfirmedIsVouched
    AppliedOnce
PROPERTIES
    ConfirmedStays
