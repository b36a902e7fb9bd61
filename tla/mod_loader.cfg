SPECIFICATION Spec
CONSTANTS
    pre = pre
    a1 = a1
    a2 = a2
    b = b
    lost = lost
    Dlls = {pre, a1, a2, b, lost}
    NoDll = NoDll
    N = 3
    Manifests <- MCManifests
    Base <- FileName
    PreLoaderDll = "PreLoader.dll"
    Files = {pre, a1, a2, b}
    Present <- MCPresent
    Brings <- MCBrings
    Foreign = {a1}
    TellLimit = 1
INVARIANTS
    VerifiedWasChecked
    FallbackComplete
    RequiredAccounted
    DelegationKept
