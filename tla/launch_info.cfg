SPECIFICATION Spec
CONSTANTS
    t1 = t1
    t2 = t2
    h1 = h1
    h2 = h2
    Threads = {t1, t2}
    Handles = {h1, h2}
    NoFile = NoFile
    NoRequest = NoRequest
    Requests <- MCRequests
    Files <- MCFiles
    Text <- MCText
    Values = {"mojang", "bloader"}
    Launch = "bloader"
    Path <- MCPath
    Unnamed = {"pipe"}
    Names <- MCNames
    LowerCase <- MCLowerCase
    LangNames <- MCLangNames
    TextsDir <- MCTextsDir
    Unreadable = {"locked"}
    MaxPosition = 2
    Hookable <- MCHookable
INVARIANTS
    TableFollowsHandles
PROPERTIES
    ImplementsPlainFile
