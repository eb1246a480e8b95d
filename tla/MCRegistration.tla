--------------------------- MODULE MCRegistration ----------------------------
(* Registration on small instances: two spellings of ann's email.          *)
EXTENDS Registration

CONSTANTS ann, bob, annLower, annUpper, bobLower

MCCanonical == [a \in Addresses |-> IF a = bobLower THEN bob ELSE ann]

=============================================================================
