\* Three requests contend for one key; no symmetry, which is unsound for
\* liveness.  MaxTime 2 reaches one reclaim of the key (window 1).
CONSTANTS
    Requests = {r1, r2, r3}
    Keys = {k1}
    Bodies = {b1}
    Lease = 0
    Window = 1
    MaxTime = 2
    NULL = NULL
SPECIFICATION FairSpec
PROPERTIES
    EveryRequestEnds
