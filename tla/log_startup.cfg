CONSTANTS
  Loggers = {n1}
  Logs = {l1}
  Bridges = {b1}
  Markers = {k1}
  Emergencies = {e1}
  NoMsg = NoMsg
  Verbose = {k1}
  Noises = {{}, {l1}, {b1}}
  Modes = {"early", "postoep", "late", "none"}
  Levels = {3, 4}
  WritesAllowed = TRUE
  EarlyLimit = 1
  BacklogLimit = 1
  MarkerLimit = 1
SPECIFICATION Spec
INVARIANTS WrittenOnce MissingOnlyOvertaken BridgeBeforeNatives
