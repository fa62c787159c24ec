\* The same payload becomes a dead letter twice; no row is open then, and the bulk
\* replay of both meets the unique index.
SPECIFICATION Spec
CONSTANTS
  MaxJobs = 2
  Keys = {k1}
  Drains = {bgd, cron}
  Bg = bgd
  BatchSize = 1
  MaxRounds = 1
  MaxAttempts = 1
  Visibility = 2
  Deadline = 1
  MaxLapses = 0
  MaxRequeues = 0
  BackoffBase = 1
  BackoffCap = 2
INVARIANT DeadLettersReplayable
