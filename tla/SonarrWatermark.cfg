\* The incremental pass alone, under three changes that may share their times.
SPECIFICATION Spec
CONSTANTS
  Series = {s1, s2}
  Episodes = {s1, s2}
  SeriesOf <- MCSeriesOf
  Lanes = {}
  Incremental = TRUE
  Drains = {}
  MaxFile = 2
  MaxChanges = 3
  MaxFaults = 1
INVARIANT WatermarkCovers
SYMMETRY SeriesSymmetry
