--------------------------- MODULE MCAuditReaders ---------------------------
(* Small instances of AuditReaders for TLC.                                 *)
EXTENDS AuditReaders, TLC

GoodKey == <<1, 0>>
OneVaultKey == {<<1, 1>>}
AllKeys == {<<0, 0>>, <<1, 0>>, <<1, 1>>}
Texts == {Unset, NotHex, <<1>>, <<0, 0>>, <<1, 0>>}
Symmetry == Permutations(Writers) \cup Permutations(Names)
=============================================================================
