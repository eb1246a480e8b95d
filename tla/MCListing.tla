------------------------------ MODULE MCListing ------------------------------
(* Listing on small instances: numbers that stay within the int32 of the    *)
(* instance, reach its end and go beyond it.                               *)
EXTENDS Listing, TLC

MCRawPages  == {-1, 2, 5, 7, 9}
MCRawLimits == {0, 1, 3}

Symmetry == Permutations(Tasks)

=============================================================================
