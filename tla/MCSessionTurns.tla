--------------------------- MODULE MCSessionTurns ---------------------------
(* SessionTurns on a small instance.                                       *)
EXTENDS SessionTurns

CONSTANTS p1, r1, s1
=============================================================================
