\* Two switches of one rule before its list is refetched.
SPECIFICATION RuleModesSpec
CONSTANTS
  MaxPuts = 2
  NoRow = NoRow
PROPERTIES
  LeavesDryRunAsked
CHECK_DEADLOCK FALSE
