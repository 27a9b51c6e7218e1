--------------------------- MODULE MCVaultStream ---------------------------
(* Small instances of VaultStream for TLC.                                  *)
EXTENDS VaultStream, TLC

CONSTANTS a, b

EmptyOrOneBlock == {<<>>, <<a, b>>}
BlockAndAHalf == {<<b, a, a>>}
=============================================================================
