------------------------------ MODULE MCVoting ------------------------------
(* Voting on small instances.                                              *)
EXTENDS Voting, TLC

CONSTANTS v1, v2, o1, o2

TwoVotes == {v1, v2}
TwoOptions == {o1, o2}

\* One option, and two.
Ballots == {<<o1>>, <<o2, o1>>}

Symmetry == Permutations(Voter) \cup Permutations(Slot) \cup Permutations(Editor)
=============================================================================
