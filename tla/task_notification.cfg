\* One assignment whose commit may fail.
CONSTANTS
    Requests = {r1}
    Tasks = {t1}
    ann = ann
    abe = abe
    bob = bob
    teamA = teamA
    teamB = teamB
    Users = {ann, abe}
    Stranger = Stranger
    Teams <- MCTeams
    TeamOf <- MCTeamOf
    Data = {d1}
    Kinds = {"assign"}
    NULL = NULL
SPECIFICATION Spec
INVARIANTS
    NotificationRollsBack
