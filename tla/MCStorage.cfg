\* Three files on pages of one, two uploads and two settings pages at once.
SPECIFICATION Spec
CONSTANTS
  None = None
  Mask = Mask
  Key = {k1, k2, k3}
  Request = {r1, r2}
  Page = {p1, p2}
  Typing <- TestTyping
  PageSize = 1
  MaxRequests = 4
  MaxFaults = 2
SYMMETRY Symmetry
INVARIANTS UploadsSound FilesCounted PagesComplete SavesWhole
PROPERTIES SecretKept
CHECK_DEADLOCK FALSE
