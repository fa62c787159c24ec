\* A full pass of one series whose episodes are answered without their files.
SPECIFICATION Spec
CONSTANTS
  Series = {s1}
  Episodes = {s1}
  SeriesOf <- MCSeriesOf
  Lanes = {"full"}
  Incremental = FALSE
  Drains = {}
  MaxFile = 2
  MaxChanges = 0
  MaxFaults = 1
PROPERTY AbsenceIsNotRemoval
