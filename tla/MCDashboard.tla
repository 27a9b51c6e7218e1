---------------------------- MODULE MCDashboard ----------------------------
(* Small instances of Dashboard for TLC.                                    *)
EXTENDS Dashboard, TLC

CONSTANTS a1, a2, r1, r2, r3

TwoFromOne == (r1 :> a1) @@ (r2 :> a1) @@ (r3 :> a2)
=============================================================================
