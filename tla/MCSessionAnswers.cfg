\* One tab with three calls, of which two queue behind the renewal of the third,
\* anything may be lost: every call comes to an end.
SPECIFICATION FairSpec
CONSTANTS
  Tab = {t1}
  Call = {c1, c2, c3}
  MaxLogin = 1
  MaxExpire = 2
  MaxIssue = 2
  Faults = TRUE
PROPERTIES CallsAnswered
CHECK_DEADLOCK FALSE
