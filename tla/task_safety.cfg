\* Two requests of any kind for one task, by members of two teams.
CONSTANTS
    Requests = {r1, r2}
    Tasks = {t1}
    ann = ann
    abe = abe
    bob = bob
    teamA = teamA
    teamB = teamB
    Users = {ann, abe, bob}
    Stranger = Stranger
    Teams <- MCTeams
    TeamOf <- MCTeamOf
    Data = {d1, d2}
    Kinds = {"get", "update", "delete", "assign"}
    NULL = NULL
SPECIFICATION Spec
SYMMETRY Symmetry
INVARIANTS
    TypeOK
    LogChain
    AssignAllOrNothing
    ForeignTaskInvisible
    DeleteIsFinal
PROPERTIES
    WritersEntitled
    ImplementsBook
