\* Every writer of two series; the library changes once, one thing goes wrong.
SPECIFICATION Spec
CONSTANTS
  Series = {s1, s2}
  Episodes = {s1, s2}
  SeriesOf <- MCSeriesOf
  Lanes = {"full"}
  Incremental = TRUE
  Drains = {bg}
  MaxFile = 2
  MaxChanges = 1
  MaxFaults = 1
PROPERTIES
  SteadyRowsStayLive
  CalmRepairs
  Converges
