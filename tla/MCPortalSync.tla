---------------------------- MODULE MCPortalSync ----------------------------
(* Small instances of PortalSync for TLC.                                   *)
EXTENDS PortalSync, TLC

Symmetry == Permutations(Writers) \cup Permutations(Syncs)
=============================================================================
