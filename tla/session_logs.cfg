CONSTANTS
  Foreign = {l1, l2}
  Versions <- MCVersions
  Configs <- MCConfigs
  Descriptors = {d1}
  DefaultDays = 1
  MaxDays = 3
  MaxPending = 1
  MaxOwn = 1
  MaxSessions = 2
  MaxAge = 1
  MaxLatest = 3
SPECIFICATION SessionSpec
SYMMETRY ForeignSymmetry
INVARIANTS RelayedOnce OutputFollows LogsKept
CHECK_DEADLOCK FALSE
