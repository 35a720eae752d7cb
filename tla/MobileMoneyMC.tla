--------------------------- MODULE MobileMoneyMC ---------------------------
(* Values for the constants of MobileMoney. *)
EXTENDS MobileMoney

CONSTANTS m1, f1, f2

OneFeeOwner == f1 :> m1
OneFee == <<f1>>
TwoFeesOwner == (f1 :> m1) @@ (f2 :> m1)
TwoFees == <<f1, f2>>

Symmetry == Permutations(Payments \ Declared) \cup Permutations(Clients)
============================================================================
