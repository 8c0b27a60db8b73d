------------------------------- MODULE MCMenu -------------------------------
(* Menu on small instances. *)
EXTENDS Menu, TLC

Symmetry == Permutations(Menu) \cup Permutations(Request)
=============================================================================
