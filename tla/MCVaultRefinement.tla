------------------------- MODULE MCVaultRefinement -------------------------
(* Small instances of VaultRefinement for TLC.                              *)
EXTENDS MCVault, VaultRefinement

EmptyAndTwo == {<<>>, <<b1, b2>>}
=============================================================================
