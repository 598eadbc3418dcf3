SPECIFICATION Spec
CONSTANTS
  NumDays = 1
  HoursPerDay = 2
  TicksPerHour = 2
  Getters = {g1}
  Seed = {}
  Arriving = {0, 1, 2, 3}
  MaxRequest = 1
  RowLatest = {}
INVARIANT ResponseComplete
