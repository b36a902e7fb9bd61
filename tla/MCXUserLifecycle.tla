-------------------------- MODULE MCXUserLifecycle --------------------------
(* Small instances of XUserLifecycle for TLC. *)
EXTENDS XUserLifecycle, TLC

Symmetry == Permutations(Calls) \cup Permutations(Tokens)
=============================================================================
