SPECIFICATION Spec
CONSTANTS
  s1 = s1  bachelor = bachelor
  ticker = ticker  admin = admin  d1 = d1  d2 = d2
  None = None
  Students = {s1}
  Degrees = {bachelor}
  MaxCourse <- Lengths
  Bachelor = bachelor
  Runs = {ticker, admin}
  Ticker = ticker
  MaxYear = 3
  MaxCalls = 1
  MaxRollbacks = 1
  Documents = {d1, d2}
  Batch = 2
  MaxAttempts = 2
  MaxLosses = 2
INVARIANTS
  CourseKeepsPace
  ClaimHeld
PROPERTIES
  YearsCatchUp
  EveryUploadAnswered
CHECK_DEADLOCK FALSE
