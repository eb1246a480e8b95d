\* One request makes the task, another comes back after the window.
CONSTANTS
    Requests = {r1, r2}
    Keys = {k1}
    Bodies = {b1}
    Lease = 1
    Window = 2
    MaxTime = 4
    NULL = NULL
SPECIFICATION Spec
INVARIANTS
    ExpiredKeyMakesTask
