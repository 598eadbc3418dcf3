SPECIFICATION Spec
CONSTANTS
  NumDays = 3
  HoursPerDay = 2
  TicksPerHour = 2
  Getters = {g1, g2}
  Seed = {4}
  Arriving = {5, 6, 8}
  MaxRequest = 1
  RowLatest = {}
INVARIANTS
  TypeOK
  SealedIsExact
  ResponseComplete
  ResponseIsSnapshot
PROPERTY SealedNeverChanges
