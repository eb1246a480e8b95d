\* Two calls with the same key at the same time.
CONSTANTS
    Requests = {r1, r2}
    Keys = {k1}
    Bodies = {b1}
    Lease = 1
    Window = 2
    MaxTime = 0
    NULL = NULL
SPECIFICATION FairSpec
PROPERTIES
    SecondCallTold409
