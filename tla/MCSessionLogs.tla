---------------------------- MODULE MCSessionLogs ----------------------------
(* An instance of SessionLogs for TLC. *)
EXTENDS SessionLogs, TLC

MCVersions == {[major |-> 1, minor |-> 18], [major |-> 1, minor |-> 21]}
MCConfigs == {[console |-> TRUE, days |-> 2], [console |-> FALSE, days |-> 0]}
ForeignSymmetry == Permutations(Foreign)
=============================================================================
