\* Two tasks, of two workflows or of one that asks again after its task ended.
CONSTANTS
    WorkflowIds = {w1, w2}
    MaxRetries = 2
    MaxTools = 2
    MaxTasks = 2
    MaxFaults = 2
SPECIFICATION Spec
INVARIANTS
    AttemptsAccounted
    CompletedRanAllTools
PROPERTIES
    ImplementsBoundedRetries
    TasksEnd
