------------------------------ MODULE MCVault ------------------------------
(* Small instances of Vault for TLC.                                        *)
EXTENDS Vault, TLC

CONSTANTS b1, b2

OneBlock == {<<b1>>}
TwoBlocks == {<<b1, b2>>}
ShortContents == {<<>>, <<b1>>, <<b1, b2>>}
Symmetry == Permutations(Procs) \cup Permutations(Salts) \cup Permutations(Inodes)
=============================================================================
