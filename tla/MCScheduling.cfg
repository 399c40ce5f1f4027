\* Three entries: two occurrences of a series and a rival, or a forked series.
CONSTANTS
    Names = {n1}
    Worker = worker
    Api = api
    MaxPlans = 1
    MaxEntries = 3
    MaxFaults = 1
SPECIFICATION Spec
INVARIANTS
    SeriesGoOn
PROPERTIES
    DueFires
CHECK_DEADLOCK FALSE
