\* An import and its webhook while a full pass runs.
SPECIFICATION Spec
CONSTANTS
  Series = {s1, s2}
  Episodes = {s1, s2}
  SeriesOf <- MCSeriesOf
  Lanes = {"full"}
  Incremental = FALSE
  Drains = {bg}
  MaxFile = 2
  MaxChanges = 1
  MaxFaults = 0
PROPERTY FilesOnDiskStayLive
