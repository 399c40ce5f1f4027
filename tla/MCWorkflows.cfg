SPECIFICATION Spec
CONSTANTS
    Creators = {c1, c2}
    Users = {u1}
    Names = {critical, planned}
    CriticalNames = {critical}
    Entities = {e1}
    None = None
    MaxRows = 2
    MaxFaults = 2
INVARIANTS
    AtMostOneTask
    OneActivePerKey
PROPERTIES
    CancellationSettles
    DueRowsLeave
