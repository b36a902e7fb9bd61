---------------------------- MODULE MCBootGate ----------------------------
(* An instance of BootGate for TLC: a mod for each readiness level, and      *)
(* windows that are interchangeable.                                         *)
EXTENDS BootGate, TLC
CONSTANTS w1, w2, early, shown, settled
ModLevel == [m \in HotMods |-> CASE m = early -> 1 [] m = shown -> 2 [] OTHER -> 3]
ModDelay == [m \in HotMods |-> IF m = early THEN 0 ELSE 2]
=============================================================================
