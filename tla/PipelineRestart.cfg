SPECIFICATION Spec
CONSTANTS
  i1 = i1  i2 = i2
  r1 = r1  r2 = r2  r3 = r3
  Isus = {i1}
  Requests = {r1, r2}
  IsuOf <- MCIsuOf
  TimesOf <- MCTimesOf
  Readers = {}
  InsertChunk = 1
  MaxFailures = 0
  MaxCrashes = 1
INVARIANT WrittenIsReadable
CHECK_DEADLOCK FALSE
