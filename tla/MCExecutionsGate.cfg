\* One fault between the gate and the row is enough.
CONSTANTS
    Executions = {e1}
    Api = api
    Worker = worker
    None = none
    ScanLimit = 2
    MaxOlder = 0
    MaxFaults = 1
SPECIFICATION Spec
INVARIANTS
    PublishNeedsApproval
CHECK_DEADLOCK FALSE
