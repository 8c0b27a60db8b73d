--------------------------- MODULE MCComponentToken ---------------------------
(* ComponentToken with shorter times.                                      *)
EXTENDS ComponentToken, TLC
=============================================================================
