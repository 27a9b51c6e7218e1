----------------------------- MODULE FreshNonce -----------------------------
(***************************************************************************)
(* What an encryption expects of register_nonce: whenever it answers Ok, no *)
(* Ok was ever given for the same nonce, by any process, before or after a  *)
(* restart.                                                                 *)
(***************************************************************************)
EXTENDS Naturals

CONSTANT Nonces

VARIABLE issued     \* how often each nonce was granted

Init == issued = [n \in Nonces |-> 0]

Issue(n) ==
    /\ issued[n] = 0
    /\ issued' = [issued EXCEPT ![n] = 1]

Next == \E n \in Nonces : Issue(n)

Spec == Init /\ [][Next]_issued
=============================================================================
