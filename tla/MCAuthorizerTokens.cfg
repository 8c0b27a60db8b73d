\* Two rows, two apps, two token issues: every race between two handlers.
SPECIFICATION Spec
CONSTANTS
  Account = {a1, a2}
  App = {wx1, wx2}
  Tenant = {t1}
  Request = {r1, r2}
  None = None
  MaxIssue = 2
  Faults = TRUE
SYMMETRY Symmetry
INVARIANTS IInv
PROPERTIES ImplementsLifecycle
