------------------------- MODULE MCAlgorandProvider -------------------------
(* A small instance of AlgorandProvider for TLC.                            *)
EXTENDS AlgorandProvider
=============================================================================
