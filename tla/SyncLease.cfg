\* One lane, three runs, two restarts.  The lease has no slack over two renewals
\* of two ticks, one of them missed, and a release of one tick.
SPECIFICATION Spec
CONSTANTS
  Runs = {r1, r2, r3}
  Lease = 5
  HbInterval = 2
  MaxMisses = 1
  ReleaseTicks = 1
  Grace = 1
  MaxEpoch = 3
  OperatorClears = TRUE
INVARIANTS
  HolderCovered
  LeaseExclusive
PROPERTIES
  TakesTurns
  LockRecovers
