\* Two votes that share a voter and options, edited meanwhile; a statement fails.
SPECIFICATION Spec
CONSTANTS
  v1 = v1
  v2 = v2
  o1 = o1
  o2 = o2
  NoVote = NoVote
  Vote <- TwoVotes
  Option <- TwoOptions
  Voter = {w1}
  Slot = {s1, s2}
  Editor = {e1, e2}
  MaxVotes = {2}
  MaxChoices = {2}
  Ballot <- Ballots
  MaxEdit = 2
  MaxFaults = 1
SYMMETRY Symmetry
INVARIANTS VInv CountersFollowRecords RecordsLimited
PROPERTIES ImplementsBallotBox
CHECK_DEADLOCK FALSE
