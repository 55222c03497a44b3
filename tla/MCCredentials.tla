--------------------------- MODULE MCCredentials ---------------------------
(* Credentials with interchangeable requests and tokens. *)
EXTENDS Credentials, TLC

CONSTANTS r1, r2
MCRequest == {r1, r2}
Symmetry == Permutations(MCRequest)
=============================================================================
