\* Two entries of one name are enough, and no fault.
CONSTANTS
    Names = {n1}
    Worker = worker
    Api = api
    MaxPlans = 2
    MaxEntries = 2
    MaxFaults = 0
SPECIFICATION Spec
INVARIANTS
    FiredHasWorkflow
CHECK_DEADLOCK FALSE
