\* Admin and another name, two requests at once, a restart and a failure.
SPECIFICATION Spec
CONSTANTS
  Admin = admin
  name = name
  None = None
  Name <- Names
  Id = {t1, t2}
  Phone = {p}
  NoPhone = NoPhone
  Request = {r1, r2}
  MaxTries = 2
  MaxRequests = 3
  MaxStarts = 2
  MaxFaults = 1
INVARIANTS TInv OnlyAdministratorsDecide PasswordsRetired LoginsLimited
PROPERTIES UpdateChangesOnlyAsked LockLifts
CHECK_DEADLOCK FALSE
