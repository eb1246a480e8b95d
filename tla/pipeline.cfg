\* Requests to every route, of which up to three meet in the limiter.
CONSTANTS
    Requests = {r1, r2, r3}
    Addresses = {a1, a2}
    PerMinute = 2
    Minute = 3
    MaxTime = 2
    HandlerErrors = {"VALIDATION_ERROR", "ErrConflict", "other"}
    NULL = NULL
SPECIFICATION PipelineSpec
SYMMETRY Symmetry
INVARIANTS
    PipelineTypeOK
    NeverTooMany
    OneAnswer
    ErrorsInEnvelope
    OnlyAdmittedRun
PROPERTIES
    NeverTooFew
