--------------------------- MODULE MCConfiguration ---------------------------
(* An instance of Configuration for TLC. *)
EXTENDS Configuration

CONSTANTS p1

Off == [hooks |-> FALSE, detail |-> "brief", p2p |-> FALSE, peer |-> NoPeer]
On == [hooks |-> TRUE, detail |-> "verbose", p2p |-> TRUE, peer |-> p1]
MCConfigs == {Off, On}
(* One that is never rewritten, and one that is, as any of elsewhere would be. *)
MCDestinations == {[ip |-> "127.0.0.1", port |-> "nethernet"], [ip |-> "::1", port |-> "high"]}
==============================================================================
