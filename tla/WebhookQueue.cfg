\* Two rows, the background drain and one cron drain; a batch may outlast its
\* visibility window.
SPECIFICATION Spec
CONSTANTS
  MaxJobs = 2
  Keys = {k1, k2}
  Drains = {bgd, cron}
  Bg = bgd
  BatchSize = 2
  MaxRounds = 1
  MaxAttempts = 2
  Visibility = 2
  Deadline = 2
  MaxLapses = 1
  MaxRequeues = 1
  BackoffBase = 1
  BackoffCap = 2
INVARIANTS
  ClaimHolds
  OneDrainPerJob
  DeadAreExhausted
  NoLostWakeup
PROPERTIES
  FollowsLifecycle
SYMMETRY KeySymmetry
