-------------------------- MODULE MCAuthorizerTokens --------------------------
(* AuthorizerTokens on a small instance, with the symmetry TLC may use.    *)
EXTENDS AuthorizerTokens, TLC

\* Keys, apps and invocations are interchangeable.
Symmetry == Permutations(Account) \cup Permutations(Request) \cup Permutations(App)
=============================================================================
