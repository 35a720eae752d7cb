-------------------------- MODULE FinanceLedgerMC --------------------------
(* Values for the constants of FinanceLedger. *)
EXTENDS FinanceLedger

CONSTANTS m1, m2, f1, f2, f3

OneMember == (f1 :> m1) @@ (f2 :> m1)
TwoMembers == (f1 :> m1) @@ (f2 :> m1) @@ (f3 :> m2)
TwoFees == <<f1, f2>>
ThreeFees == <<f1, f2, f3>>

PaymentSymmetry == Permutations(Payments)
ClerkSymmetry == Permutations(Payments) \cup Permutations(Clerks)
============================================================================
