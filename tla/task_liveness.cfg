\* Two requests for one task and one connection: the connection is waited for,
\* and whoever waits for a row whose transaction was cut keeps it from the
\* other.  No symmetry, which is unsound for liveness.
CONSTANTS
    Requests = {r1, r2}
    Tasks = {t1}
    ann = ann
    teamA = teamA
    Users = {ann}
    Stranger = Stranger
    Teams = {teamA}
    TeamOf <- MCTeamOf
    Data = {d1}
    Kinds = {"get", "update", "delete", "assign"}
    MaxConns = 1
    NULL = NULL
SPECIFICATION ServerFairSpec
INVARIANTS
    ServerTypeOK
    ConnectionsReturned
    StopsCleanly
    NobodyStuck
PROPERTIES
    EveryRequestEnds
    ShutdownEnds
