SPECIFICATION FairSpec
CONSTANTS
  Registrars = {u1, u2}
  Posters = {p1}
  Nobody = Nobody
  MaxAttempts = 2
  MaxRestarts = 1
INVARIANTS
  MarkerHeld
  CachesFollowRow
  AnswersJustified
  RegisteredIsActivated
PROPERTIES
  ConflictIsReal
  MarkerReleased
CHECK_DEADLOCK FALSE
