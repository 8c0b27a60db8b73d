\* One account two tenants want, no symmetry: who deletes it, and what fairness
\* brings about.
SPECIFICATION FairSpec
CONSTANTS
  Account = {a1}
  App = {wx1}
  Tenant = {t1, t2}
  Request = {r1, r2}
  None = None
  MaxIssue = 2
  Faults = TRUE
PROPERTIES OnlyOwnerDeletes DeletedEventuallyUncached
