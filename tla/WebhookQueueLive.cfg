\* Progress of two rows of one key, with one crash or abandoned batch.
SPECIFICATION Spec
CONSTANTS
  MaxJobs = 2
  Keys = {k1}
  Drains = {bgd, cron}
  Bg = bgd
  BatchSize = 1
  MaxRounds = 2
  MaxAttempts = 2
  Visibility = 1
  Deadline = 1
  MaxLapses = 1
  MaxRequeues = 0
  BackoffBase = 1
  BackoffCap = 1
PROPERTIES
  Settles
  DrainedWithoutCron
