CONSTANTS
  Calls = {c1, c2}
  NoCall = NoCall
  Tokens = {t1}
  NoToken = NoToken
  NestedWait = FALSE
  TitleOps = {"add", "register", "unregister", "getDeferral", "exit"}
  CallbackOps = {"getDeferral", "closeDeferral", "unregister"}
  HookOutcomes = {"installed"}
  CountLimit = 4
  MaxThreads = 2
  MaxHandles = 1
  MaxHeld = 1
SPECIFICATION FairSpec
INVARIANTS QuiescedNeverRuns
PROPERTIES ExitProceeds WaitingUnregisterReturns
