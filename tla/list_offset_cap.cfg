\* An instance whose int32 ends at 7: (7 - 1) * 3 wraps to 2, an offset within
\* the cap.
CONSTANTS
    Tasks = {t1, t2, t3}
    Times = {1, 2, 3}
    RawPages <- MCRawPages
    RawLimits <- MCRawLimits
    MaxInt = 7
    MaxLimit = 3
    DefaultLimit = 2
    MaxOffset = 3
    MaxGone = 2
    NULL = NULL
SPECIFICATION Spec
SYMMETRY Symmetry
INVARIANTS
    CapEnforced
