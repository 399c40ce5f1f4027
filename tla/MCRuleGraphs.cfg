\* Two accounts show a publication that succeeds in part; one fault shows every
\* fault at every place, alone.
CONSTANTS
    Accounts = {a1, a2}
    MaxFaults = 1
SYMMETRY Permutable
SPECIFICATION Spec
INVARIANTS
    ConditionsHold
    RecordTells
    AskedGoesOut
CHECK_DEADLOCK FALSE
