--------------------------- MODULE MCSessionTokens ---------------------------
(* SessionTokens on a small instance.                                      *)
EXTENDS SessionTokens, TLC

\* Tabs are interchangeable, and so are the calls of a tab.
Symmetry == Permutations(Tab) \cup Permutations(Call)
=============================================================================
