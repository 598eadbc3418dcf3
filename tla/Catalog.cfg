SPECIFICATION Spec
CONSTANTS
  u1 = u1  u2 = u2  i1 = i1  i2 = i2  c1 = c1  c2 = c2
  Users = {u1, u2}
  Isus = {i1, i2, i3}
  Clients = {c1, c2}
  Seed <- MCSeed
  Accounts <- MCAccounts
  MaxRequests = 3
  Conditions <- MCConditions
  MaxResets = 1
INVARIANTS
  TypeOK
  ListShowsRegistered
  ListFollowsRows
  OnlyOwnIsus
  DetailIsWhole
  JSONIsFresh
CHECK_DEADLOCK FALSE
