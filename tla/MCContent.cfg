\* A line of three channels, two accounts, one post of each kind, two updates at once.
SPECIFICATION Spec
CONSTANTS
  None = None
  Account = {a1, a2}
  Channel = {c1, c2, c3}
  Article = {p1}
  News = {p2}
  Rule = {p3}
  Request = {r1, r2}
  MaxLevel = 0
  MaxRequests = 5
SYMMETRY Symmetry
INVARIANTS PostsSound TreeWhole
PROPERTIES LostForGood HiddenStays DeletedStay
CHECK_DEADLOCK FALSE
