--------------------------- MODULE MCMultiSigCard ---------------------------
(* One card with its owner and two co-signers.                             *)
EXTENDS MultiSigCard, TLC

CONSTANTS owner, s1, s2
=============================================================================
