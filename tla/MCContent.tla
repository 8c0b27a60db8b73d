----------------------------- MODULE MCContent -----------------------------
(* Content on small instances. *)
EXTENDS Content, TLC

Symmetry == Permutations(Channel) \cup Permutations(Account) \cup Permutations(Request)
=============================================================================
