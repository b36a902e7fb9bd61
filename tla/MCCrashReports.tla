--------------------------- MODULE MCCrashReports ---------------------------
(* An instance of CrashReports for TLC. *)
EXTENDS CrashReports, TLC

ThreadsAndModsAlike == Permutations(Threads) \cup Permutations(Mods)
=============================================================================
