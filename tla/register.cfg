\* Two requests of any kind, by two people who have two passwords and one that
\* is too long to be hashed: registrations of one email race, each may hold the
\* index entry the other waits for and die with it, and a request logs in after
\* a registration or comes with its token before or after it expired.  No
\* symmetry, which is unsound for liveness.
CONSTANTS
    Requests = {r1, r2}
    ann = ann
    bob = bob
    annLower = annLower
    annUpper = annUpper
    bobLower = bobLower
    Addresses = {annLower, annUpper, bobLower}
    Emails = {ann, bob}
    Canonical <- MCCanonical
    Passwords = {p1, p2, long}
    TooLong = {long}
    TTL = 1
    MaxTime = 2
    NULL = NULL
SPECIFICATION FairSpec
INVARIANTS
    TypeOK
    OneUserPerEmail
    TeamsHaveTheirUser
    TokensNameUsers
PROPERTIES
    LoginAfterRegister
    ImplementsDirectory
    EveryRequestEnds
