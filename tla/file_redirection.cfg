SPECIFICATION FilesSpec
CONSTANTS
    t1 = t1
    t2 = t2
    Threads = {t1, t2}
    Nobody = Nobody
    Disabled = Disabled
    Requests <- MCRequests
    NewContent = "new"
    Contents = {"new"}
    Places <- MCPlaces
    Configs <- MCConfigs
    DataRoots <- MCDataRoots
    Systems <- MCSystems
    Names <- MCNames
    LowerCase <- MCLowerCase
    GameDir <- MCGameDir
INVARIANTS
    CreationsPrepared
PROPERTIES
    ImplementsPlacedFiles
