\* One execution shows every pause; three faults show faults during a recovery.  Two
\* older entries fill a scan of two.
CONSTANTS
    Executions = {e1}
    Api = api
    Worker = worker
    None = none
    ScanLimit = 2
    MaxOlder = 2
    MaxFaults = 3
SPECIFICATION Spec
INVARIANTS
    OneDriver
    PublishCounted
    CompletedPublished
    ApprovedFirst
PROPERTIES
    EndedStays
    
    StartSettles
CHECK_DEADLOCK FALSE
