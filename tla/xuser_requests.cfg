SPECIFICATION FairSpec
CONSTANTS
    Modes = {"gated", "attached"}
    Plans <- MCPlans
    Faults = 1
    Packages <- MCPackages
    NoSession = NoSession
    MaxNow = 1
    HeaderNames <- MCHeaderNames
    LowerCase <- MCLowerCase
    Values <- MCValues
    BodyLimit = 1
    Limits <- MCLimits
    Blocks = {b1}
    Requests <- MCRequests
    NoRequest = NoRequest
    Nothing = Nothing
    MaxRequests = 2
    MaxHandles = 2
INVARIANTS
    LiveHooksReady
    NothingLeaks
    TokensAsAsked
PROPERTIES
    EveryRequestCompletes
CHECK_DEADLOCK FALSE
