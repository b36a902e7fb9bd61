CONSTANTS
  Calls = {c1, c2, c3}
  NoCall = NoCall
  Tokens = {t1, t2, t3}
  NoToken = NoToken
  NestedWait = FALSE
  TitleOps = {"add", "duplicate", "close", "register", "unregister", "getDeferral", "closeDeferral", "exit"}
  CallbackOps = {"getDeferral", "closeDeferral"}
  HookOutcomes = {"installed", "failed"}
  CountLimit = 4
  MaxThreads = 1
  MaxHandles = 2
  MaxHeld = 2
SPECIFICATION Spec
SYMMETRY Symmetry
INVARIANTS QuietMeansSettled
PROPERTIES SignOutsAreHeard ImplementsSession
