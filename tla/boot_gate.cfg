SPECIFICATION FairSpec
CONSTANTS
    w1 = w1
    w2 = w2
    early = early
    shown = shown
    settled = settled
    Windows = {w1, w2}
    NoWindow = NoWindow
    Unset = Unset
    HotMods = {early, shown, settled}
    Level <- ModLevel
    Delay <- ModDelay
    IoTimeout = 1
    IoDelay = 1
    HotTimeout = 3
    StableFor = 2
    MayFlicker = FALSE
INVARIANTS
    MainOnlyWhenReady
    NoStrayTrap
PROPERTIES
    GameOrExit
    WorkersFinish
