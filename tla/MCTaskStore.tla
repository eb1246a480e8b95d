---------------------------- MODULE MCTaskStore -----------------------------
(* The task endpoints on small instances: ann and abe of one team, bob (in  *)
(* the instances that have him) of another.                                *)
EXTENDS TaskStore, TLC

CONSTANTS ann, abe, bob, teamA, teamB

MCTeams  == {teamA, teamB}
MCTeamOf == [u \in Users |-> IF u = bob THEN teamB ELSE teamA]

\* ann and abe may be swapped as well, but neither with bob.
Symmetry == Permutations(Requests) \cup Permutations(Data) \cup Permutations({ann, abe})

=============================================================================
