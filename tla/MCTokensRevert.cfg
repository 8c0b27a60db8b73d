\* One handler at a time, no failures.
SPECIFICATION Spec
CONSTANTS
  Account = {a1}
  App = {wx1}
  Tenant = {t1}
  Request = {r1}
  None = None
  MaxIssue = 3
  Faults = FALSE
PROPERTIES TokensNeverRevert
