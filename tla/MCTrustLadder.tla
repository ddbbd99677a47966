--------------------------- MODULE MCTrustLadder ---------------------------
(* TrustLadder on a small roster, for TLC. *)
EXTENDS TrustLadder, TLC
=============================================================================
