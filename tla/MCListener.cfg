\* Two processes change the item, two threads mirror it; one fault at most.
CONSTANTS
    Callers = {api, simulator}
    Quantities = {2}
    Updates <- SetOne
    Inserted <- Echoes
    Threads = {t1, t2}
    BatchLimit = 2
    MaxEvents = 3
    MaxFaults = 1
SPECIFICATION Spec
INVARIANTS
    NothingSkipped
    ActsOnce
    StockConserved
    MirrorAgrees
PROPERTIES
    EveryEventAnswered
CHECK_DEADLOCK FALSE
