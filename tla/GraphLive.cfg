SPECIFICATION FairSpec
CONSTANTS
  NumDays = 1
  HoursPerDay = 2
  TicksPerHour = 1
  Getters = {g1, g2}
  Seed = {}
  Arriving = {1}
  MaxRequest = 1
  RowLatest = {0}
PROPERTY EverythingFinishes
