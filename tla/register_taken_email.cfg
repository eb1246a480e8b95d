\* Two registrations of one email at the same time.
CONSTANTS
    Requests = {r1, r2}
    ann = ann
    bob = bob
    annLower = annLower
    annUpper = annUpper
    bobLower = bobLower
    Addresses = {annLower}
    Emails = {ann}
    Canonical <- MCCanonical
    Passwords = {p1}
    TooLong = {}
    TTL = 1
    MaxTime = 0
    NULL = NULL
SPECIFICATION Spec
INVARIANTS
    TakenEmailTold409
