-------------------------- MODULE MCNonceRegistry --------------------------
(* Small instances of NonceRegistry for TLC.                                *)
EXTENDS NonceRegistry, TLC

CONSTANTS p1, p2, t1, t2, t3, n1, n2

OneProcess == {p1}
TwoProcesses == {p1, p2}
TwoTasks == {t1, t2}
ThreeTasks == {t1, t2, t3}
AllAtHome == (t1 :> p1) @@ (t2 :> p1)
TwoAndOne == (t1 :> p1) @@ (t2 :> p1) @@ (t3 :> p2)
NonceSymmetry == Permutations(Nonces)
=============================================================================
