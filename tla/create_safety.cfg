\* Three requests for one key, the fewest that can make the task, reclaim the
\* key after the window and find it in flight.  Lease 0 and Window 1 are told
\* apart (30 s and 24 h); MaxTime 3 lets the key be reclaimed twice.
CONSTANTS
    Requests = {r1, r2, r3}
    Keys = {k1}
    Bodies = {b1, b2}
    Lease = 0
    Window = 1
    MaxTime = 3
    NULL = NULL
SPECIFICATION Spec
SYMMETRY Symmetry
INVARIANTS
    TypeOK
    OneTaskPerWindow
    RepliesNameCommittedTask
    KeyAndTaskTogether
    InFlightOnlyAfterWindow
    MismatchFlagged
PROPERTIES
    RowKeptForItsTerm
    ImplementsContract
