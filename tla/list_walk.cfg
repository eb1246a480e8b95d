\* Four tasks, of which the last lies past the cap when pages hold one task and
\* may lie before it when pages hold two; three times, so that walks of up to
\* three pages meet no ties and queries meet some.  The limit 3 is clamped to 2.
\* The int32 of the instance ends at 4: (4 - 1) * 2 wraps to an offset below 0.
CONSTANTS
    Tasks = {t1, t2, t3, t4}
    Times = {1, 2, 3}
    RawPages <- MCRawPages
    RawLimits <- MCRawLimits
    MaxInt = 4
    MaxLimit = 2
    DefaultLimit = 2
    MaxOffset = 2
    MaxGone = 2
    NULL = NULL
SPECIFICATION Spec
SYMMETRY Symmetry
INVARIANTS
    TypeOK
    PagesServeOnce
    WithinCapServed
    WalkMissesFew
