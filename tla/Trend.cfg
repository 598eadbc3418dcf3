SPECIFICATION FairSpec
CONSTANTS
  Callers = {c1, c2}
  MaxCalls = 2
  MaxVersion = 2
  MaxInits = 1
INVARIANTS
  TypeOK
  OneRefresh
  NeverOlderThanAnswered
PROPERTIES
  TrendNeverGoesBack
  GetAnswered
CHECK_DEADLOCK FALSE
