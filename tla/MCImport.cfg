\* Two ids, two runs, one write of the server, one failure.
SPECIFICATION Spec
CONSTANTS
  Id <- TestId
  tenantID = 1
  Legacy <- TestLegacy
  MaxRuns = 2
  MaxEdits = 1
  MaxFaults = 1
INVARIANTS Imported ArticlesKeepText NewsBlock
PROPERTIES StopsForCause DeletedStay
CHECK_DEADLOCK FALSE
