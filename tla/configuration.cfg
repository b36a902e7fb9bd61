SPECIFICATION FairSpec
CONSTANTS
    Configs <- MCConfigs
    p1 = p1
    Peers = {p1}
    NoPeer = NoPeer
    Destinations <- MCDestinations
    NoFile = NoFile
    Torn = Torn
    Writable = {TRUE, FALSE}
    LauncherEdits = 1
INVARIANTS
    SettledMeansApplied
    LauncherFieldsKept
    HooksAsConfigured

    
