SPECIFICATION Spec
CONSTANTS
  Registrars = {u1}
  Posters = {p1}
  Nobody = Nobody
  MaxAttempts = 1
  MaxRestarts = 0
INVARIANT CreatedIsKnown
CHECK_DEADLOCK FALSE
