CONSTANTS
  Mods = {"A", "B"}
  Native = "N"
  Names = {"a", "b", "x", "n"}
  NoName = "none"
  Nobody = "nobody"
  Manifest <- MCManifest
  Runtime <- MCRuntime
  Tags = {"x"}
  Lines <- MCLines
  Locales <- MCLocales
  MaxRegistered = 2
  Limit = 2
  Places <- MCPlaces
  Contents = {"nothing", "letter", "wide", "half", "inner"}
  Says <- MCSays
  Views <- MCViews
  GameDir <- MCGameDir
  ModsName = "mods"
  CacheName = "cache"
  MaxRoom = 4
  MaxText = 5
SPECIFICATION FairSpec
INVARIANT NamedAsItself
INVARIANT ScopesFollowRuns
INVARIANT ServicesKeepWord
INVARIANT PipedAsPrinted
PROPERTY EachIsTold
CHECK_DEADLOCK FALSE
