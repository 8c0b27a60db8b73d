------------------------------- MODULE BallotBox -------------------------------
(***************************************************************************)
(* What the tables of a vote promise, whoever votes, counts and edits at   *)
(* once: a slip that was cast stays, and so does the option it names; an   *)
(* option belongs to one vote and its id is given once; the options of a   *)
(* vote are withdrawn all together, and only before any of them has a      *)
(* slip; and the two counters only grow, one by one, up to the slips.      *)
(*                                                                         *)
(* Voting is the detailed specification that implements this.              *)
(***************************************************************************)
EXTENDS Naturals, FiniteSets

CONSTANTS Vote, NoVote, Option, Voter

VARIABLES
  offered,   \* the vote an option is offered in, NoVote when it is not
  given,     \* ids of options given out so far
  cast,      \* the slips: vote, option and voter, and a number to tell them apart
  counted,   \* what the counter of each option says
  totals     \* what the counter of each vote says

box == <<offered, given, cast, counted, totals>>

Slips(V, O, W) ==
  {slip \in cast : slip[1][1] \in V /\ slip[1][2] \in O /\ slip[1][3] \in W}

Offer(o, v) ==
  /\ o \notin given
  /\ offered' = [offered EXCEPT ![o] = v]
  /\ given' = given \cup {o}
  /\ UNCHANGED <<cast, counted, totals>>

Withdraw(v) ==
  LET Withdrawn == {o \in Option : offered[o] = v} IN
  /\ offered' = [o \in Option |-> IF o \in Withdrawn THEN NoVote ELSE offered[o]]
  /\ Slips(Vote, Withdrawn, Voter) = {}
  /\ UNCHANGED <<given, cast, counted, totals>>

Cast(v, o, w) ==
  /\ offered[o] # NoVote
  /\ cast' = cast \cup {<<<<v, o, w>>, Cardinality(Slips({v}, {o}, {w})) + 1>>}
  /\ UNCHANGED <<offered, given, counted, totals>>

Count(o) ==
  /\ counted' = [counted EXCEPT ![o] = @ + 1]
  /\ counted[o] < Cardinality(Slips(Vote, {o}, Voter))
  /\ UNCHANGED <<offered, given, cast, totals>>

Total(v) ==
  /\ totals' = [totals EXCEPT ![v] = @ + 1]
  /\ totals[v] < Cardinality(Slips({v}, Option, Voter))
  /\ UNCHANGED <<offered, given, cast, counted>>

Init ==
  /\ offered = [o \in Option |-> NoVote]
  /\ given = {}
  /\ cast = {}
  /\ counted = [o \in Option |-> 0]
  /\ totals = [v \in Vote |-> 0]

Next ==
  \/ \E o \in Option, v \in Vote : Offer(o, v)
  \/ \E v \in Vote : Withdraw(v) \/ Total(v)
  \/ \E o \in Option : Count(o) \/ \E v \in Vote, w \in Voter : Cast(v, o, w)

Spec == Init /\ [][Next]_box
=============================================================================
