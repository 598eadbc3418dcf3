SPECIFICATION FairSpec
CONSTANTS
  i1 = i1  i2 = i2
  r1 = r1  r2 = r2  r3 = r3
  Isus = {i1}
  Requests = {r1, r2}
  IsuOf <- MCIsuOf
  TimesOf <- MCTimesOf
  Readers = {f1}
  InsertChunk = 2
  MaxFailures = 1
  MaxCrashes = 1
INVARIANTS
  RowLatestInserted
  LatestIsReal
  LatestCoversStore
  RowLatestCoversRows
  MemoryLeads
  QuiescentAgreement
PROPERTIES
  LatestNeverRegresses
  AcceptedIsServed
CHECK_DEADLOCK FALSE
