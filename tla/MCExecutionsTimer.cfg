\* No fault at all: the entry is met before the row waits.
CONSTANTS
    Executions = {e1}
    Api = api
    Worker = worker
    None = none
    ScanLimit = 2
    MaxOlder = 0
    MaxFaults = 0
SPECIFICATION Spec
INVARIANTS
    HandledIsResumed
CHECK_DEADLOCK FALSE
