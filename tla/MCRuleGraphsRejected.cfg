\* One account and no fault are enough.
CONSTANTS
    Accounts = {a1}
    MaxFaults = 0
SPECIFICATION Spec
PROPERTIES
    RejectedNeverPublishes
CHECK_DEADLOCK FALSE
