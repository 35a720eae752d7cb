--------------------------- MODULE FinanceLedger ---------------------------
(***************************************************************************)
(* The member ledger of EnactSpace: the rows of fees, payments,            *)
(* payment_allocations, financial_accounts and club_transactions, and the  *)
(* handlers of api/routes/finance.py and api/routes/attendance.py that     *)
(* write them.                                                             *)
(*                                                                         *)
(* A handler that takes its rows with SELECT .. FOR UPDATE and holds them  *)
(* to its commit is one action.  cancel_fee reads its fee without a lock,  *)
(* so it is two: the read, and the commit that uses what was read.         *)
(* Every member's financial_accounts row exists from the start: the first  *)
(* handler to need it creates it with both totals at 0.                    *)
(***************************************************************************)
EXTENDS Integers, Sequences, FiniteSets, Functions, SequencesExt

CONSTANTS
  Members,      \* users that owe and pay
  Fees,         \* identities of the fees rows
  Payments,     \* identities of the payments rows
  Declared,     \* bound: the rows kept for payments declared by hand
  Clerks,       \* concurrent cancel_fee requests
  Owner,        \* the member a fee belongs to
  Penalties,    \* the fees that are the penalty of an attendance record
  FeeOrder,     \* the fees in the order of their primary key
  Amounts,      \* amounts a fee or a payment is created with
  MaxAmount     \* bound: no amount is larger

ASSUME LedgerAssumption ==
  /\ IsFiniteSet(Fees) /\ IsFiniteSet(Payments)
  /\ Owner \in [Fees -> Members]
  /\ Penalties \subseteq Fees
  /\ Declared \subseteq Payments
  /\ FeeOrder \in Seq(Fees)
  /\ MaxAmount \in Nat
  /\ Amounts \subseteq 1..MaxAmount

VARIABLES
  fee,          \* fees rows
  account,      \* financial_accounts rows
  payment,      \* payments rows
  alloc,        \* payment_allocations.amount by payment and fee, 0: no row
  income,       \* club_transactions.amount by payment_id, 0: no row
  cancelling    \* what a cancel_fee request holds between read and commit

tableVars == <<fee, account, payment, alloc, income>>
ledgerVars == <<fee, account, payment, alloc, income, cancelling>>

----------------------------------------------------------------------------
(* Rows *)

Cash == 0..MaxAmount

FeeStatuses == {"absent", "unpaid", "partial", "paid", "cancelled"}

FeeRow ==
  [status : FeeStatuses,
   amount : Cash,
   paid : Nat]

AccountRow == [due : Nat, paid : Nat]

PaymentRow ==
  [status : {"absent", "pending", "validated", "rejected", "cancelled"},
   user : Members \cup {"nobody"},
   amount : Cash]

NoFee == [status |-> "absent", amount |-> 0, paid |-> 0]
NoPayment == [status |-> "absent", user |-> "nobody", amount |-> 0]

Idle == [op |-> "idle"]
CancelRequest == {Idle} \cup
  [op : {"cancel_fee"}, fee : Fees, was : FeeStatuses, remaining : Nat]

RowsTypeOK ==
  /\ fee \in [Fees -> FeeRow]
  /\ account \in [Members -> AccountRow]
  /\ payment \in [Payments -> PaymentRow]
  /\ alloc \in [Payments -> [Fees -> Nat]]
  /\ income \in [Payments -> Nat]

LedgerTypeOK ==
  /\ RowsTypeOK
  /\ cancelling \in [Clerks -> CancelRequest]

LedgerInit ==
  /\ fee = [f \in Fees |-> NoFee]
  /\ account = [m \in Members |-> [due |-> 0, paid |-> 0]]
  /\ payment = [p \in Payments |-> NoPayment]
  /\ alloc = [p \in Payments |-> [f \in Fees |-> 0]]
  /\ income = [p \in Payments |-> 0]
  /\ cancelling = [c \in Clerks |-> Idle]

----------------------------------------------------------------------------
(* Amounts *)

\* Mutant: a total may be taken below zero.
Unfloored(n) == n

Floor0(n) == IF n < 0 THEN 0 ELSE n

Least(a, b) == IF a < b THEN a ELSE b

Remaining(row) == Floor0(row.amount - row.paid)

FeeStatus(amount, paid) ==
  IF paid <= 0 THEN "unpaid" ELSE IF paid < amount THEN "partial" ELSE "paid"

\* The loop over the fees rows `order` reaches its i-th row while money of
\* `amount` is left after the rows before it took theirs.
Reached(a, order, i, amount) ==
  SumFunctionOnSet(a, ToSet(SubSeq(order, 1, i - 1))) < amount

\* `a` is what the allocation loop hands out: each row in turn takes the whole
\* of what is left, up to what it still owes.
IsAllocation(a, rows, order, amount) ==
  /\ \A f \in Fees \ ToSet(order) : a[f] = 0
  /\ \A i \in DOMAIN order :
       LET f == order[i] IN
       a[f] = Least(Remaining(rows[f]),
                    amount - SumFunctionOnSet(a, ToSet(SubSeq(order, 1, i - 1))))

Allocations(rows, order, amount) ==
  {a \in [Fees -> Cash] : IsAllocation(a, rows, order, amount)}

\* Mutant: a fee that is reached counts as paid in full.
AllocatedInFull(rows, order, amount, a) ==
  [f \in Fees |->
     IF \E i \in DOMAIN order : order[i] = f /\ Reached(a, order, i, amount)
       THEN [rows[f] EXCEPT !.paid = rows[f].amount, !.status = "paid"]
       ELSE rows[f]]

\* The fees rows after the loop: a row that is reached has its amount_paid
\* raised and its status recomputed from it.
Allocated(rows, order, amount, a) ==
  [f \in Fees |->
     IF \E i \in DOMAIN order : order[i] = f /\ Reached(a, order, i, amount)
       THEN [status |-> FeeStatus(rows[f].amount, rows[f].paid + a[f]),
             amount |-> rows[f].amount, paid |-> rows[f].paid + a[f]]
       ELSE rows[f]]

\* Mutant: only the part that met a fee is counted as paid.
CreditedInPart(row, amount, allocated) ==
  [due |-> Floor0(row.due - allocated), paid |-> row.paid + allocated]

\* The account after a payment of `amount` of which `allocated` met fees.
Credited(row, amount, allocated) ==
  [due |-> Floor0(row.due - allocated), paid |-> row.paid + amount]

\* The member's fees that allocate_payment_to_unpaid_fees selects, by id.
OpenFees(m) ==
  LET isOpen(f) == Owner[f] = m /\ fee[f].status \in {"unpaid", "partial"}
      selected[i \in 0..Len(FeeOrder)] ==
        IF i = 0 THEN <<>>
        ELSE IF isOpen(FeeOrder[i]) THEN Append(selected[i - 1], FeeOrder[i])
        ELSE selected[i - 1]
  IN selected[Len(FeeOrder)]

----------------------------------------------------------------------------
(* Fees *)

CreateFeeRecord(f, amount) ==
  /\ fee' = [fee EXCEPT ![f] = [status |-> "unpaid", amount |-> amount, paid |-> 0]]
  /\ account' = [account EXCEPT ![Owner[f]].due = @ + amount]

CreateFee(f) ==
  /\ f \notin Penalties
  /\ fee[f].status = "absent"
  /\ \E amount \in Amounts : CreateFeeRecord(f, amount)
  /\ UNCHANGED <<payment, alloc, income, cancelling>>

\* The fee is read without a lock and only the status "paid" is refused.
CancelFeeRead(c, f) ==
  /\ cancelling[c] = Idle
  /\ fee[f].status \notin {"absent", "paid"}
  /\ cancelling' = [cancelling EXCEPT ![c] =
       [op |-> "cancel_fee", fee |-> f, was |-> fee[f].status,
        remaining |-> Remaining(fee[f])]]
  /\ UNCHANGED tableVars

\* Mutant: the fee is cancelled and the account forgotten.
CancelFeeKeepsDue(c) ==
  /\ cancelling[c] # Idle
  /\ fee' = [fee EXCEPT ![cancelling[c].fee].status = "cancelled"]
  /\ cancelling' = [cancelling EXCEPT ![c] = Idle]
  /\ UNCHANGED <<account, payment, alloc, income>>

\* The account is locked and read afresh; the fee row is not: the status is
\* written when it differs from the one read, whatever the row holds by now.
CancelFeeCommit(c) ==
  /\ cancelling[c] # Idle
  /\ LET f == cancelling[c].fee IN
       /\ fee' = IF cancelling[c].was = "cancelled" THEN fee
                 ELSE [fee EXCEPT ![f].status = "cancelled"]
       /\ account' = [account EXCEPT
            ![Owner[f]].due = Floor0(@ - cancelling[c].remaining)]
  /\ cancelling' = [cancelling EXCEPT ![c] = Idle]
  /\ UNCHANGED <<payment, alloc, income>>

\* Mutant: the whole penalty leaves the balance, the paid part included.
RemovePenaltyWhole(f) ==
  /\ f \in Penalties
  /\ fee[f].status \notin {"absent", "cancelled"}
  /\ fee' = [fee EXCEPT ![f].status = "cancelled"]
  /\ account' = [account EXCEPT ![Owner[f]].due = Floor0(@ - fee[f].amount)]
  /\ UNCHANGED <<payment, alloc, income, cancelling>>

\* The attendance record of penalty f now deserves no sanction.
RemovePenalty(f) ==
  /\ f \in Penalties
  /\ fee[f].status \notin {"absent", "cancelled"}
  /\ fee' = [fee EXCEPT ![f].status = "cancelled"]
  /\ account' = [account EXCEPT
       ![Owner[f]].due = Floor0(@ - Remaining(fee[f]))]
  /\ UNCHANGED <<payment, alloc, income, cancelling>>

\* Mutant: a penalty may be revised below what was already paid.
SyncPenaltyBelowPaid(f, amount) ==
  /\ f \in Penalties
  /\ fee' = [fee EXCEPT ![f].amount = amount,
                        ![f].status = FeeStatus(amount, fee[f].paid)]
  /\ UNCHANGED <<account, payment, alloc, income, cancelling>>

\* The attendance record of penalty f now deserves a sanction of `amount`:
\* its fee is created, or revised and reopened, never below what was paid.
SyncPenalty(f, amount) ==
  /\ f \in Penalties
  /\ LET row   == fee[f]
         total == IF amount < row.paid THEN row.paid ELSE amount
         was   == IF row.status \in {"absent", "cancelled"}
                    THEN 0 ELSE Remaining(row)
     IN /\ fee' = [fee EXCEPT ![f] =
             [status |-> FeeStatus(total, row.paid),
              amount |-> total, paid |-> row.paid]]
        /\ account' = [account EXCEPT
             ![Owner[f]].due = Floor0(@ - was + Floor0(total - row.paid))]
  /\ UNCHANGED <<payment, alloc, income, cancelling>>

----------------------------------------------------------------------------
(* Payments declared by a member or a financier *)

CreatePayment(p, m) ==
  /\ p \in Declared /\ payment[p].status = "absent"
  /\ \E amount \in Amounts :
       payment' = [payment EXCEPT ![p] =
         [status |-> "pending", user |-> m, amount |-> amount]]
  /\ UNCHANGED <<fee, account, alloc, income, cancelling>>

ValidatePayment(p) ==
  /\ payment[p].status = "pending"
  /\ LET m      == payment[p].user
         amount == payment[p].amount
         order  == OpenFees(m)
     IN \E a \in Allocations(fee, order, amount), got \in Cash :
          /\ got = SumFunction(a)
          /\ fee' = Allocated(fee, order, amount, a)
          /\ alloc' = [alloc EXCEPT ![p] = a]
          /\ account' = [account EXCEPT ![m] = Credited(@, amount, got)]
          /\ income' = [income EXCEPT ![p] = amount]
  /\ payment' = [payment EXCEPT ![p].status = "validated"]
  /\ UNCHANGED cancelling

RejectPayment(p) ==
  /\ payment[p].status = "pending"
  /\ payment' = [payment EXCEPT ![p].status = "rejected"]
  /\ UNCHANGED <<fee, account, alloc, income, cancelling>>

\* Mutant: a validated payment can be cancelled too.
CancelPaymentAny(p) ==
  /\ payment[p].status \notin {"absent", "cancelled"}
  /\ payment' = [payment EXCEPT ![p].status = "cancelled"]
  /\ UNCHANGED <<fee, account, alloc, income, cancelling>>

CancelPayment(p) ==
  /\ payment[p].status \in {"pending", "rejected"}
  /\ payment' = [payment EXCEPT ![p].status = "cancelled"]
  /\ UNCHANGED <<fee, account, alloc, income, cancelling>>

----------------------------------------------------------------------------
LedgerNext ==
  \/ \E f \in Fees : CreateFee(f) \/ RemovePenalty(f)
  \/ \E f \in Fees, amount \in Amounts : SyncPenalty(f, amount)
  \/ \E c \in Clerks, f \in Fees : CancelFeeRead(c, f)
  \/ \E c \in Clerks : CancelFeeCommit(c)
  \/ \E p \in Payments, m \in Members : CreatePayment(p, m)
  \/ \E p \in Payments :
       ValidatePayment(p) \/ RejectPayment(p) \/ CancelPayment(p)

LedgerSpec == LedgerInit /\ [][LedgerNext]_ledgerVars
----------------------------------------------------------------------------
(* Correctness *)

\* What the allocations of a set of payments hand to fee f.
HandedTo(f) == SumFunction([p \in Payments |-> alloc[p][f]])

\* Every franc of a fee's amount_paid (finance.py:217, mobile_money_service.py
\* :240) is backed by payment_allocations rows, a payment hands out no more than
\* it brought, whichever payments, penalty revisions and cancellations met it.
AllocationsBalance ==
  /\ \A f \in Fees : fee[f].paid = HandedTo(f)
  /\ \A p \in Payments : SumFunction(alloc[p]) <= payment[p].amount

\* A fee is never paid beyond its amount, though the amount of a penalty is
\* revised down while payments are being allocated to it (attendance.py:265).
FeesNotOverpaid == \A f \in Fees : fee[f].paid <= fee[f].amount

\* Only a validated payment hands out anything, and it is exactly the validated
\* ones that have their income row in club_transactions, for their whole amount
\* (finance.py:1465-1473, mobile_money_service.py:340-348).
PaymentsBookedOnce ==
  \A p \in Payments :
    /\ payment[p].status # "validated" => \A f \in Fees : alloc[p][f] = 0
    /\ income[p] = IF payment[p].status = "validated"
                     THEN payment[p].amount ELSE 0

\* financial_accounts.total_paid is the sum of the member's validated payments:
\* no handler's update of the account is lost (ensure_financial_account locks
\* the row and reads it afresh, mobile_money_service.py:200-208).
TotalPaidIsValidated ==
  \A m \in Members :
    account[m].paid =
      SumFunction([p \in Payments |->
        IF payment[p].status = "validated" /\ payment[p].user = m
          THEN payment[p].amount ELSE 0])

\* What the member's fees still owe, cancelled fees aside.
Outstanding(m) ==
  SumFunction([f \in Fees |->
    IF Owner[f] = m /\ fee[f].status \notin {"absent", "cancelled"}
      THEN Remaining(fee[f]) ELSE 0])

\* balance_due, kept by increments and decrements in five handlers, is what the
\* open fees owe.  True as long as each cancel_fee commits on a fee that is still
\* as it was read (finance.py:365).
BalanceIsOutstanding ==
  \A m \in Members : account[m].due = Outstanding(m)

\* With cancel_fee in play (its fee read is stale, and a cancelled fee can be
\* cancelled again) balance_due may fall short of the open fees, but it never
\* exceeds them unless a penalty was made dearer under its own cancellation: no
\* member is billed too much.
NeverOverbilled ==
  \A m \in Members : account[m].due <= Outstanding(m)

\* A validated payment is final: no later validation, rejection or cancellation
\* (finance.py:1428-1443, 1538, 1601) changes it, its allocations or its income.
ValidatedIsFinal ==
  [][\A p \in Payments : payment[p].status = "validated" =>
       payment'[p] = payment[p] /\ alloc'[p] = alloc[p] /\ income'[p] = income[p]]_ledgerVars

\* docs/finance_permissions_audit.md:35: "Un frais paye ne peut pas etre annule."
\* Not so for cancel_fee: a payment may be validated between its check of the
\* status and its commit (finance.py:371, 384).
PaidFeeNotCancelled ==
  [][\A f \in Fees : fee[f].status = "paid" => fee'[f].status # "cancelled"]_ledgerVars
============================================================================
