----------------------------- MODULE MCPipeline -----------------------------
(* The pipeline on small instances: two tokens, and as many a minute, for   *)
(* each of two addresses.                                                   *)
EXTENDS Pipeline, TLC

Symmetry == Permutations(Requests) \cup Permutations(Addresses)

=============================================================================
