------------------------- MODULE MCIdempotentCreate -------------------------
(* POST /tasks on small instances. *)
EXTENDS IdempotentCreate, TLC

\* Requests and bodies differ in nothing but their names.
Symmetry == Permutations(Requests) \cup Permutations(Bodies)

=============================================================================
