SPECIFICATION Spec
CONSTANTS
    Threads = {t1, t2}
    Mods = {m1}
    None = None
    Writable = {TRUE, FALSE}
    Unwinds = TRUE
    MaxTroubles = 2
SYMMETRY ThreadsAndModsAlike
INVARIANTS
    DeathReported
    DialogNamesOwnReport
    CrashedWasBlamed
