\* Three requests at once on the menus of an account.
SPECIFICATION Spec
CONSTANTS
  None = None
  Menu = {m1, m2, m3, m4}
  Request = {r1, r2, r3}
  MaxRequests = 6
SYMMETRY Symmetry
INVARIANTS MInv MenusBounded
PROPERTIES PublicationKept
CHECK_DEADLOCK FALSE
