---------------------------- MODULE MCTaskServer ----------------------------
(* The task endpoints in one process, with fewer connections than requests. *)
EXTENDS TaskServer

CONSTANTS ann, teamA

MCTeamOf == [u \in Users |-> teamA]

=============================================================================
