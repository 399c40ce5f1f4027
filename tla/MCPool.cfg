\* Three threads and two connections: one thread always waits; either connection
\* may be lost.
CONSTANTS
    Threads = {t1, t2, t3}
    Size = 2
    MaxFaults = 2
SPECIFICATION Spec
PROPERTIES
    NobodyStarves
CHECK_DEADLOCK FALSE
