\* Two tabs with two calls each, another browser, two logins, anything may be lost.
SPECIFICATION Spec
CONSTANTS
  Tab = {t1, t2}
  Call = {c1, c2}
  MaxLogin = 2
  MaxExpire = 1
  MaxIssue = 2
  Faults = TRUE
SYMMETRY Symmetry
INVARIANTS SessionInv QueueServed
PROPERTIES SessionKept
CHECK_DEADLOCK FALSE
