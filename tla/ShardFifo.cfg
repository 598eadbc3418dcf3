SPECIFICATION FairFifoSpec
CONSTANTS
  Requests = {r1, r2, r3, r4}
  BatchWait = TRUE
INVARIANTS
  NoLostWakeup
  Conservation
PROPERTY ImplementsMailbox
CHECK_DEADLOCK FALSE
