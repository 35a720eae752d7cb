------------------------- MODULE MobileMoneyProofs -------------------------
(***************************************************************************)
(* Mobile-money checkouts, for every number of transactions, clients and   *)
(* callbacks: a checkout is settled once, only with money the provider     *)
(* collected, for good, and the handlers implement SettlementBook.         *)
(*                                                                         *)
(* The inductive invariant is CheckoutInv.  SettledOnce rests on the       *)
(* ledger's invariant (a payments row that is taken is never taken again)  *)
(* and OnlyCollectedMoneyBooked on HonestAnswers: what is on its way to a  *)
(* handler was true when the provider said it, and a collection is never   *)
(* taken back.  For the sums a step is a step of the ledger, a settlement  *)
(* (Settles) or moves no money, and OwnFees says that a checkout is about  *)
(* fees of its member.                                                     *)
(***************************************************************************)
EXTENDS MobileMoney, FinanceLedgerProofs, FiniteSetTheorems

----------------------------------------------------------------------------
(* Types of the helpers *)

LEMMA TxRowStatus ==
  ASSUME NEW row \in TxRow, NEW status \in Answers,
         NEW next, next = [row EXCEPT !.status = status]
  PROVE  /\ next \in TxRow
         /\ next.status = status
         /\ next.payment = row.payment /\ next.member = row.member
         /\ next.amount = row.amount
BY DEF TxRow

LEMMA TxRowPayment ==
  ASSUME NEW row \in TxRow, NEW p \in Payments,
         NEW next, next = [row EXCEPT !.payment = p]
  PROVE  /\ next \in TxRow
         /\ next.payment = p
         /\ next.status = row.status /\ next.member = row.member
         /\ next.amount = row.amount
BY DEF TxRow

LEMMA JournaledType ==
  ASSUME NEW events \in SUBSET Event, NEW type \in EventTypes,
         NEW id \in {"none", "token", "reference"}, NEW dup \in BOOLEAN
  PROVE  Journaled(events, type, id, dup) \in SUBSET Event
<1>1. [type |-> type, id |-> id, dup |-> dup] \in Event
  BY DEF Event
<1>2. \A e \in events : [e EXCEPT !.dup = TRUE] \in Event
  BY DEF Event
<1> QED BY <1>1, <1>2 DEF Journaled

\* What one handler's step can do to the row of transaction t: nothing, a new
\* status short of success, or its settlement by payment p.
LEMMA MarkedStep ==
  ASSUME TypeOK, NEW t \in Txs, NEW status \in Unsettled, NEW id \in {"none", "token", "reference"},
         Commit(Marked(Db, t, status, id))
  PROVE  /\ UNCHANGED tableVars
         /\ journal' \in [Txs -> SUBSET Event]
         /\ \/ tx[t].status = "successful" /\ tx' = tx
            \/ tx[t].status # "successful" /\ tx' = [tx EXCEPT ![t].status = status]
<1>1. CASE tx[t].status = "successful"
  BY <1>1 DEF Commit, Marked, Db, tableVars, TypeOK
<1>2. CASE tx[t].status # "successful"
  <2>1. /\ UNCHANGED tableVars
        /\ tx' = [tx EXCEPT ![t].status = status]
        /\ journal' = [journal EXCEPT ![t] = Journaled(@, "provider_status", id, FALSE)]
    BY <1>2 DEF Commit, Marked, Db, tableVars
  <2>2. Journaled(journal[t], "provider_status", id, FALSE) \in SUBSET Event
    BY JournaledType DEF TypeOK, EventTypes
  <2> QED BY <1>2, <2>1, <2>2 DEF TypeOK
<1> QED BY <1>1, <1>2

LEMMA ConfirmStep ==
  ASSUME TypeOK, NEW t \in Txs, NEW id \in {"none", "token", "reference"},
         NEW d \in ConfirmOutcomes(Db, t, id), Commit(d)
  PROVE  \/ tx[t].payment # "none" /\ UNCHANGED <<tableVars, tx, journal>>
         \/ /\ tx[t].payment = "none"
            /\ journal' \in [Txs -> SUBSET Event]
            /\ \E p \in Payments \ Declared, a \in Allocations(fee, tx[t].fees, tx[t].amount) :
                 /\ payment[p].status = "absent"
                 /\ fee' = Allocated(fee, tx[t].fees, tx[t].amount, a)
                 /\ account' = [account EXCEPT ![tx[t].member] =
                                  Credited(@, tx[t].amount, tx[t].amount)]
                 /\ payment' = [payment EXCEPT ![p] =
                      [status |-> "validated", user |-> tx[t].member,
                       amount |-> tx[t].amount]]
                 /\ alloc' = [alloc EXCEPT ![p] = a]
                 /\ income' = [income EXCEPT ![p] = tx[t].amount]
                 /\ tx' = [tx EXCEPT ![t].status = "successful", ![t].payment = p]
<1>1. CASE tx[t].payment # "none"
  BY <1>1 DEF Commit, ConfirmOutcomes, Db, tableVars
<1>2. CASE tx[t].payment = "none"
  <2>1. PICK p \in {q \in Payments \ Declared : payment[q].status = "absent"},
             a \in Allocations(fee, tx[t].fees, tx[t].amount) :
               d = Confirmed(Db, t, id, p, a)
    BY <1>2 DEF ConfirmOutcomes, Db
  <2>2. /\ fee' = Allocated(fee, tx[t].fees, tx[t].amount, a)
        /\ account' = [account EXCEPT ![tx[t].member] =
                         Credited(@, tx[t].amount, tx[t].amount)]
        /\ payment' = [payment EXCEPT ![p] =
             [status |-> "validated", user |-> tx[t].member,
              amount |-> tx[t].amount]]
        /\ alloc' = [alloc EXCEPT ![p] = a]
        /\ income' = [income EXCEPT ![p] = tx[t].amount]
        /\ tx' = [tx EXCEPT ![t].status = "successful", ![t].payment = p]
        /\ journal' = [journal EXCEPT ![t] = Journaled(@, "confirmed", id, FALSE)]
    BY <2>1 DEF Commit, Confirmed, Db
  <2>3. Journaled(journal[t], "confirmed", id, FALSE) \in SUBSET Event
    BY JournaledType DEF TypeOK, EventTypes
  <2> QED BY <1>2, <2>1, <2>2, <2>3 DEF TypeOK
<1> QED BY <1>1, <1>2

----------------------------------------------------------------------------
(* Settling a checkout *)

\* The part of the invariant that is about the tables.
TablesInv ==
  /\ LedgerTypeOK
  /\ tx \in [Txs -> TxRow]
  /\ journal \in [Txs -> SUBSET Event]
  /\ FeesNotOverpaid
  /\ PaymentsBookedOnce
  /\ PaymentsReal
  /\ SettledOnce
  /\ OnlyCollectedMoneyBooked

\* A step that neither creates nor removes a transaction, nor changes its bill.
BillsKept ==
  \A u \in Txs :
    /\ tx[u].status = "absent" => tx'[u] = tx[u]
    /\ tx[u].status # "absent" => tx'[u].status # "absent"
    /\ tx'[u].member = tx[u].member /\ tx'[u].amount = tx[u].amount

LEMMA MarkedInv ==
  ASSUME CheckoutInv, NEW t \in Txs, NEW status \in Unsettled,
         NEW id \in {"none", "token", "reference"},
         tx[t].status # "absent",
         Commit(Marked(Db, t, status, id)), UNCHANGED <<cancelling, invoice>>
  PROVE  TablesInv' /\ BillsKept
<1>1. /\ UNCHANGED tableVars
      /\ journal' \in [Txs -> SUBSET Event]
      /\ \/ tx[t].status = "successful" /\ tx' = tx
         \/ tx[t].status # "successful" /\ tx' = [tx EXCEPT ![t].status = status]
  BY MarkedStep DEF CheckoutInv
<1>2. /\ LedgerTypeOK' /\ FeesNotOverpaid' /\ PaymentsBookedOnce' /\ PaymentsReal'
      /\ payment' = payment
  BY <1>1 DEF CheckoutInv, TypeOK, LedgerTypeOK, RowsTypeOK, FeesNotOverpaid,
              PaymentsBookedOnce, PaymentsReal, tableVars
<1>3. CASE tx' = tx
  BY <1>1, <1>2, <1>3 DEF CheckoutInv, TypeOK, TablesInv, BillsKept, SettledOnce,
              OnlyCollectedMoneyBooked
<1>4. CASE tx[t].status # "successful" /\ tx' = [tx EXCEPT ![t].status = status]
  <2>1. tx[t] \in TxRow /\ status \in Answers /\ status # "successful" /\ status # "absent"
    BY DEF CheckoutInv, TypeOK, Answers, Unsettled
  <2>2. tx' = [tx EXCEPT ![t] = [tx[t] EXCEPT !.status = status]]
    BY <1>4
  <2>3. /\ tx'[t] = [tx[t] EXCEPT !.status = status]
        /\ \A u \in Txs : u # t => tx'[u] = tx[u]
    BY <2>2 DEF CheckoutInv, TypeOK
  <2>4. /\ tx'[t] \in TxRow
        /\ tx'[t].status = status
        /\ tx'[t].payment = tx[t].payment /\ tx'[t].member = tx[t].member
        /\ tx'[t].amount = tx[t].amount
    BY <2>1, <2>3, TxRowStatus
  <2>5. tx' \in [Txs -> TxRow]
    BY <2>2, <2>3, <2>4 DEF CheckoutInv, TypeOK
  <2>6. BillsKept
    BY <2>1, <2>3, <2>4 DEF BillsKept
  <2>7. SettledOnce'
    <3>1. tx[t].payment = "none"
      BY <1>4 DEF CheckoutInv, SettledOnce
    <3>2. \A u \in Txs :
            /\ tx'[u].payment = tx[u].payment /\ tx'[u].member = tx[u].member
            /\ tx'[u].amount = tx[u].amount
            /\ tx'[u].status = "successful" <=> tx[u].status = "successful"
      BY <1>4, <2>1, <2>3, <2>4
    <3> QED BY <1>2, <3>2 DEF CheckoutInv, SettledOnce
  <2>8. OnlyCollectedMoneyBooked'
    BY <2>1, <2>3, <2>4 DEF CheckoutInv, OnlyCollectedMoneyBooked
  <2> QED BY <1>1, <1>2, <2>5, <2>6, <2>7, <2>8 DEF TablesInv
<1> QED BY <1>1, <1>3, <1>4

\* A success takes a payments row nobody holds, and pays the fees no more than
\* they owe.
LEMMA ConfirmInv ==
  ASSUME CheckoutInv, NEW t \in Txs, NEW id \in {"none", "token", "reference"},
         tx[t].status # "absent", invoice[t] \in {"paid", "refunded"},
         NEW d \in ConfirmOutcomes(Db, t, id), Commit(d),
         UNCHANGED <<cancelling, invoice>>
  PROVE  TablesInv' /\ BillsKept
<1>1. CASE UNCHANGED <<tableVars, tx, journal>>
  BY <1>1 DEF CheckoutInv, TypeOK, LedgerTypeOK, RowsTypeOK, FeesNotOverpaid,
              PaymentsBookedOnce, PaymentsReal, tableVars, TablesInv, BillsKept,
              SettledOnce, OnlyCollectedMoneyBooked
<1>2. CASE tx[t].payment = "none"
  <2> DEFINE m == tx[t].member
             amount == tx[t].amount
  <2>1. PICK p \in Payments \ Declared, a \in Allocations(fee, tx[t].fees, amount) :
          /\ payment[p].status = "absent"
          /\ fee' = Allocated(fee, tx[t].fees, amount, a)
          /\ account' = [account EXCEPT ![m] = Credited(@, amount, amount)]
          /\ payment' = [payment EXCEPT ![p] =
               [status |-> "validated", user |-> m, amount |-> amount]]
          /\ alloc' = [alloc EXCEPT ![p] = a]
          /\ income' = [income EXCEPT ![p] = amount]
          /\ tx' = [tx EXCEPT ![t].status = "successful", ![t].payment = p]
    BY <1>2, ConfirmStep DEF CheckoutInv
  <2>2. journal' \in [Txs -> SUBSET Event]
    BY <1>2, ConfirmStep DEF CheckoutInv
  <2>3. /\ tx[t] \in TxRow /\ m \in Members /\ amount \in Cash /\ amount \in Nat /\ amount > 0
        /\ "successful" \in Answers
    BY LedgerAssumption DEF CheckoutInv, TypeOK, UncommittedRowsHidden, Billed,
              TxRow, Cash, Answers
  <2>4. fee' \in [Fees -> FeeRow] /\ FeesNotOverpaid'
    BY <2>1, AllocatedRows DEF CheckoutInv, TypeOK, LedgerTypeOK, RowsTypeOK,
              FeesNotOverpaid
  <2>5. account' \in [Members -> AccountRow]
    <3>1. account[m] \in AccountRow
      BY <2>3 DEF CheckoutInv, TypeOK, LedgerTypeOK, RowsTypeOK
    <3>2. Credited(account[m], amount, amount) \in AccountRow
      BY <2>3, <3>1, CreditedType
    <3> QED BY <2>1, <3>2 DEF CheckoutInv, TypeOK, LedgerTypeOK, RowsTypeOK
  <2>6. /\ payment' \in [Payments -> PaymentRow]
        /\ payment'[p] = [status |-> "validated", user |-> m, amount |-> amount]
        /\ \A q \in Payments : q # p => payment'[q] = payment[q]
    BY <2>1, <2>3 DEF CheckoutInv, TypeOK, LedgerTypeOK, RowsTypeOK, PaymentRow
  <2>7. /\ alloc' \in [Payments -> [Fees -> Nat]]
        /\ \A q \in Payments : q # p => alloc'[q] = alloc[q]
    BY <2>1, LedgerAssumption DEF CheckoutInv, TypeOK, LedgerTypeOK, RowsTypeOK,
              Allocations, Cash
  <2>8. /\ income' \in [Payments -> Nat]
        /\ income'[p] = amount
        /\ \A q \in Payments : q # p => income'[q] = income[q]
    BY <2>1, <2>3 DEF CheckoutInv, TypeOK, LedgerTypeOK, RowsTypeOK
  <2>9. PaymentsBookedOnce' /\ PaymentsReal'
    <3>1. PaymentsBookedOnce'
      BY <2>3, <2>6, <2>7, <2>8 DEF CheckoutInv, PaymentsBookedOnce
    <3>2. ASSUME NEW q \in Payments, payment'[q].status # "absent"
          PROVE  /\ payment'[q].user \in Members /\ payment'[q].amount > 0
                 /\ q \in Declared \/ payment'[q].status = "validated"
      <4>1. CASE q = p
        BY <2>3, <2>6, <4>1
      <4>2. CASE q # p
        BY <2>6, <3>2, <4>2 DEF CheckoutInv, PaymentsReal
      <4> QED BY <4>1, <4>2
    <3> QED BY <3>1, <3>2 DEF PaymentsReal
  <2>10. /\ tx'[t] \in TxRow
         /\ tx'[t].status = "successful" /\ tx'[t].payment = p
         /\ tx'[t].member = m /\ tx'[t].amount = amount
         /\ \A u \in Txs : u # t => tx'[u] = tx[u]
         /\ tx' \in [Txs -> TxRow]
    <3> DEFINE marked == [tx[t] EXCEPT !.status = "successful"]
               next == [marked EXCEPT !.payment = p]
    <3>1. tx' = [tx EXCEPT ![t] = next]
      BY <2>1 DEF CheckoutInv, TypeOK
    <3>2. /\ marked \in TxRow /\ marked.status = "successful"
          /\ marked.member = m /\ marked.amount = amount
      BY <2>3, TxRowStatus
    <3> HIDE DEF marked
    <3>3. /\ next \in TxRow /\ next.payment = p /\ next.status = "successful"
          /\ next.member = m /\ next.amount = amount
      BY <3>2, TxRowPayment
    <3> HIDE DEF next
    <3> QED BY <3>1, <3>3 DEF CheckoutInv, TypeOK
  <2>11. BillsKept
    BY <2>10 DEF BillsKept
  <2>12. SettledOnce'
    <3>1. p # "none"
      BY <2>1, MobileMoneyAssumption
    <3>2. \A u \in Txs : tx[u].payment # p
      BY <2>1, <3>1 DEF CheckoutInv, SettledOnce
    <3>3. \A u \in Txs : tx[u].payment # "none" =>
            tx[u].payment \in Payments
      BY DEF CheckoutInv, TypeOK, TxRow
    <3> QED BY <2>6, <2>10, <3>1, <3>2, <3>3 DEF CheckoutInv, SettledOnce
  <2>13. OnlyCollectedMoneyBooked'
    BY <2>10 DEF CheckoutInv, OnlyCollectedMoneyBooked
  <2>14. LedgerTypeOK'
    BY <2>4, <2>5, <2>6, <2>7, <2>8 DEF CheckoutInv, TypeOK, LedgerTypeOK, RowsTypeOK
  <2> QED BY <2>2, <2>4, <2>9, <2>10, <2>11, <2>12, <2>13, <2>14 DEF TablesInv
<1> QED BY <1>1, <1>2, ConfirmStep DEF CheckoutInv

LEMMA ApplyAnswerInv ==
  ASSUME CheckoutInv, NEW t \in Txs, NEW answer \in Answers,
         NEW id \in {"none", "token", "reference"},
         invoice[t] # "none",
         answer = "successful" => invoice[t] \in {"paid", "refunded"},
         ApplyAnswer(t, answer, id), UNCHANGED <<cancelling, invoice>>
  PROVE  TablesInv' /\ BillsKept
<1>1. tx[t].status # "absent"
  BY DEF CheckoutInv, UncommittedRowsHidden
<1>2. PICK d \in Outcomes(Db, t, answer, id) : Commit(d)
  BY DEF ApplyAnswer
<1>3. CASE answer = "successful"
  BY <1>1, <1>2, <1>3, ConfirmInv DEF Outcomes
<1>4. CASE answer # "successful"
  <2>1. answer \in Unsettled /\ d = Marked(Db, t, answer, id)
    BY <1>2, <1>4 DEF Outcomes, Answers
  <2> QED BY <1>1, <1>2, <2>1, MarkedInv
<1> QED BY <1>3, <1>4

----------------------------------------------------------------------------
(* Every step keeps the invariant *)

\* A step that applies an answer, and at most ends the request that brought it.
LEMMA RequestEndsInv ==
  ASSUME CheckoutInv, TablesInv', BillsKept, UNCHANGED <<invoice, callbacks>>,
         \/ request' = request
         \/ \E c \in Clients : request' = [request EXCEPT ![c] = Idle]
  PROVE  CheckoutInv'
<1>1. \A c \in Clients : request'[c] = request[c] \/ request'[c] = Idle
  BY DEF CheckoutInv, TypeOK
<1>2. TypeOK'
  BY DEF CheckoutInv, TypeOK, TablesInv, Request
<1>3. HonestAnswers'
  BY <1>1 DEF CheckoutInv, HonestAnswers, Idle
<1>4. UncommittedRowsHidden'
  <2>1. \A t \in Txs : IF tx'[t].status = "absent"
                         THEN tx'[t] = NoTx /\ invoice'[t] = "none"
                         ELSE Billed(tx'[t])
    BY DEF CheckoutInv, UncommittedRowsHidden, BillsKept, Billed
  <2>2. ASSUME NEW c \in Clients, request'[c].op = "initiate"
        PROVE  /\ tx'[request'[c].tx].status = "absent"
               /\ request'[c] = request[c]
    <3>1. request'[c] = request[c]
      BY <1>1, <2>2 DEF Idle
    <3>2. request[c].tx \in Txs /\ tx[request[c].tx].status = "absent"
      BY <2>2, <3>1 DEF CheckoutInv, TypeOK, Request, Idle, UncommittedRowsHidden
    <3> QED BY <3>1, <3>2 DEF BillsKept
  <2>3. \A c, k \in Clients :
          /\ request'[c].op = "initiate" /\ request'[k].op = "initiate"
          /\ request'[k].tx = request'[c].tx
          => k = c
    BY <2>2 DEF CheckoutInv, UncommittedRowsHidden
  <2> QED BY <2>1, <2>2, <2>3 DEF CheckoutInv, UncommittedRowsHidden, Billed
<1> QED BY <1>2, <1>3, <1>4 DEF CheckoutInv, TablesInv

LEMMA AnsweredInv ==
  ASSUME CheckoutInv,
         \/ \E t \in Txs, answer \in Answers, id \in CallbackIds : Callback(t, answer, id)
         \/ \E t \in Txs, id \in CallbackIds : CallbackMismatch(t, id)
         \/ \E t \in Txs : RefreshExpired(t)
         \/ \E c \in Clients : RefreshApply(c) \/ RequestLost(c)
  PROVE  CheckoutInv'
<1>1. CallbackIds \subseteq {"none", "token", "reference"}
  BY MobileMoneyAssumption
<1>2. ASSUME NEW t \in Txs, NEW type \in EventTypes, NEW id \in CallbackIds,
             NEW dup \in BOOLEAN, JournalOnly(t, type, id, dup),
             UNCHANGED <<cancelling, invoice>>
      PROVE  TablesInv' /\ BillsKept
  <2>1. Journaled(journal[t], type, id, dup) \in SUBSET Event
    BY <1>1, JournaledType DEF CheckoutInv, TypeOK
  <2>2. journal' \in [Txs -> SUBSET Event]
    BY <1>2, <2>1 DEF JournalOnly, CheckoutInv, TypeOK
  <2> QED BY <1>2, <2>2 DEF JournalOnly, CheckoutInv, TypeOK, LedgerTypeOK,
             RowsTypeOK, FeesNotOverpaid, PaymentsBookedOnce, PaymentsReal,
             TablesInv, BillsKept, SettledOnce, OnlyCollectedMoneyBooked
<1>3. ASSUME NEW t \in Txs, NEW answer \in Answers, NEW id \in CallbackIds,
             Callback(t, answer, id)
      PROVE  CheckoutInv'
  <2>1. UNCHANGED <<cancelling, invoice, callbacks, request>>
    BY <1>3 DEF Callback
  <2>2. CASE JournalOnly(t, "duplicate_callback", id, TRUE)
    <3>1. "duplicate_callback" \in EventTypes
      BY DEF EventTypes
    <3> QED BY <1>2, <2>1, <2>2, <3>1, RequestEndsInv
  <2>3. CASE ApplyAnswer(t, answer, id)
    <3>1. invoice[t] # "none" /\ (answer = "successful" => invoice[t] \in {"paid", "refunded"})
      BY <1>3 DEF Callback, CheckoutInv, HonestAnswers
    <3>2. TablesInv' /\ BillsKept
      BY <1>1, <2>1, <2>3, <3>1, ApplyAnswerInv
    <3> QED BY <2>1, <3>2, RequestEndsInv
  <2> QED BY <1>3, <2>2, <2>3 DEF Callback
<1>4. ASSUME NEW t \in Txs, NEW id \in CallbackIds, CallbackMismatch(t, id)
      PROVE  CheckoutInv'
  <2>1. "amount_mismatch" \in EventTypes
    BY DEF EventTypes
  <2>2. JournalOnly(t, "amount_mismatch", id, FALSE)
        /\ UNCHANGED <<cancelling, invoice, callbacks, request>>
    BY <1>4 DEF CallbackMismatch
  <2> QED BY <1>2, <2>1, <2>2, RequestEndsInv
<1>5. ASSUME NEW t \in Txs, RefreshExpired(t)
      PROVE  CheckoutInv'
  <2>1. /\ tx[t].status # "absent"
        /\ Commit(Marked(Db, t, "expired", "none"))
        /\ UNCHANGED <<cancelling, invoice, callbacks, request>>
    BY <1>5 DEF RefreshExpired
  <2>2. "expired" \in Unsettled
    BY DEF Unsettled
  <2> QED BY <2>1, <2>2, MarkedInv, RequestEndsInv
<1>6. ASSUME NEW c \in Clients, RefreshApply(c)
      PROVE  CheckoutInv'
  <2> DEFINE t == request[c].tx
             answer == request[c].answer
  <2>1. /\ request[c].op = "apply"
        /\ ApplyAnswer(t, answer, "token")
        /\ request' = [request EXCEPT ![c] = Idle]
        /\ UNCHANGED <<cancelling, invoice, callbacks>>
    BY <1>6 DEF RefreshApply
  <2>2. t \in Txs /\ answer \in Answers
    BY <2>1 DEF CheckoutInv, TypeOK, Request, Idle
  <2>3. invoice[t] # "none" /\ (answer = "successful" => invoice[t] \in {"paid", "refunded"})
    BY <2>1 DEF CheckoutInv, HonestAnswers
  <2>4. TablesInv' /\ BillsKept
    BY <2>1, <2>2, <2>3, ApplyAnswerInv
  <2> QED BY <2>1, <2>4, RequestEndsInv
<1>7. ASSUME NEW c \in Clients, RequestLost(c)
      PROVE  CheckoutInv'
  <2>1. TablesInv' /\ BillsKept
    BY <1>7 DEF RequestLost, CheckoutInv, TypeOK, LedgerTypeOK,
             RowsTypeOK, FeesNotOverpaid, PaymentsBookedOnce, PaymentsReal,
             TablesInv, BillsKept, SettledOnce, OnlyCollectedMoneyBooked
  <2> QED BY <1>7, <2>1, RequestEndsInv DEF RequestLost
<1> QED BY <1>3, <1>4, <1>5, <1>6, <1>7

\* The steps of the provider and of time.
LEMMA ProviderInv ==
  ASSUME CheckoutInv, NEW t \in Txs,
         MemberPays(t) \/ InvoiceCloses(t) \/ ProviderRefunds(t)
  PROVE  CheckoutInv'
<1>1. PICK status \in Invoices, answer \in Unsettled \cup {"successful"} :
        /\ ProviderStep(t, status, answer)
        /\ status # "none" /\ invoice[t] # "none"
        /\ answer = "successful" => status = "paid"
        /\ invoice[t] \in {"paid", "refunded"} => status \in {"paid", "refunded"}
  <2>1. CASE MemberPays(t)
    BY <2>1 DEF MemberPays, Invoices
  <2>2. CASE InvoiceCloses(t)
    BY <2>2 DEF InvoiceCloses, Invoices, Unsettled
  <2>3. CASE ProviderRefunds(t)
    BY <2>3 DEF ProviderRefunds, Invoices, Unsettled
  <2> QED BY <2>1, <2>2, <2>3
<1>2. /\ invoice' = [invoice EXCEPT ![t] = status]
      /\ callbacks' = callbacks \cup {<<t, answer>>}
      /\ UNCHANGED <<fee, account, payment, alloc, income, cancelling, tx, journal, request>>
  BY <1>1 DEF ProviderStep
<1>3. /\ invoice' \in [Txs -> Invoices]
      /\ invoice'[t] = status
      /\ \A u \in Txs : u # t => invoice'[u] = invoice[u]
  BY <1>1, <1>2 DEF CheckoutInv, TypeOK
<1>4. TypeOK'
  <2>1. callbacks' \subseteq (Txs \X Answers)
    BY <1>1, <1>2 DEF CheckoutInv, TypeOK, Answers
  <2> QED BY <1>2, <1>3, <2>1 DEF CheckoutInv, TypeOK, LedgerTypeOK, RowsTypeOK
<1>5. OnlyCollectedMoneyBooked'
  BY <1>1, <1>2, <1>3 DEF CheckoutInv, OnlyCollectedMoneyBooked
<1>6. HonestAnswers'
  BY <1>1, <1>2, <1>3 DEF CheckoutInv, HonestAnswers, TypeOK, Request
<1>7. UncommittedRowsHidden'
  BY <1>1, <1>2, <1>3 DEF CheckoutInv, UncommittedRowsHidden
<1> QED BY <1>2, <1>4, <1>5, <1>6, <1>7
    DEF CheckoutInv, FeesNotOverpaid, PaymentsBookedOnce, PaymentsReal, SettledOnce

LEMMA LapseInv ==
  ASSUME CheckoutInv, NEW t \in Txs, Lapse(t)
  PROVE  CheckoutInv'
<1>1. /\ tx' = [tx EXCEPT ![t].lapsed = TRUE]
      /\ UNCHANGED <<fee, account, payment, alloc, income, cancelling,
                     journal, invoice, callbacks, request>>
      /\ tx[t].status # "absent"
  BY DEF Lapse, CheckoutInv, UncommittedRowsHidden
<1>2. /\ tx' \in [Txs -> TxRow]
      /\ \A u \in Txs : /\ tx'[u].status = tx[u].status
                        /\ tx'[u].payment = tx[u].payment
                        /\ tx'[u].member = tx[u].member
                        /\ tx'[u].amount = tx[u].amount
                        /\ u # t => tx'[u] = tx[u]
  BY <1>1 DEF CheckoutInv, TypeOK, TxRow
<1>3. TablesInv'
  BY <1>1, <1>2 DEF TablesInv, CheckoutInv, TypeOK, LedgerTypeOK, RowsTypeOK,
        FeesNotOverpaid, PaymentsBookedOnce, PaymentsReal, SettledOnce,
        OnlyCollectedMoneyBooked
<1>4. BillsKept
  BY <1>1, <1>2 DEF BillsKept
<1> QED BY <1>1, <1>3, <1>4, RequestEndsInv

\* A step of one request that only changes what the request holds.
LEMMA PollInv ==
  ASSUME CheckoutInv, NEW c \in Clients,
         (\E t \in Txs : RefreshStart(c, t)) \/ RefreshAnswered(c)
  PROVE  CheckoutInv'
<1>1. PICK next \in Request :
        /\ request' = [request EXCEPT ![c] = next]
        /\ next.op \in {"poll", "apply"}
        /\ invoice[next.tx] # "none"
        /\ next.op = "apply" /\ next.answer = "successful" =>
             invoice[next.tx] \in {"paid", "refunded"}
  <2>1. ASSUME NEW t \in Txs, RefreshStart(c, t)
        PROVE  /\ [op |-> "poll", tx |-> t] \in Request
               /\ request' = [request EXCEPT ![c] = [op |-> "poll", tx |-> t]]
               /\ invoice[t] # "none"
    BY <2>1 DEF RefreshStart, Request
  <2>2. ASSUME RefreshAnswered(c)
        PROVE  LET t == request[c].tx IN
               /\ [op |-> "apply", tx |-> t, answer |-> Answer(t)] \in Request
               /\ request' = [request EXCEPT ![c] =
                                [op |-> "apply", tx |-> t, answer |-> Answer(t)]]
               /\ invoice[t] # "none"
               /\ Answer(t) = "successful" => invoice[t] = "paid"
    <3> DEFINE t == request[c].tx
    <3>1. t \in Txs /\ invoice[t] # "none" /\ invoice[t] \in Invoices
      BY <2>2 DEF RefreshAnswered, CheckoutInv, TypeOK, HonestAnswers, Request, Idle
    <3>2. Answer(t) \in Answers /\ (Answer(t) = "successful" => invoice[t] = "paid")
      BY <3>1 DEF Answer, Answers, Unsettled, Invoices
    <3> QED BY <2>2, <3>1, <3>2 DEF RefreshAnswered, Request
  <2> QED BY <2>1, <2>2
<1>2. /\ request'[c] = next /\ request' \in [Clients -> Request]
      /\ \A k \in Clients : k # c => request'[k] = request[k]
  BY <1>1 DEF CheckoutInv, TypeOK
<1>3. UNCHANGED <<fee, account, payment, alloc, income, cancelling,
                  tx, journal, invoice, callbacks>>
  BY DEF RefreshStart, RefreshAnswered
<1>4. TypeOK'
  BY <1>2, <1>3 DEF CheckoutInv, TypeOK, LedgerTypeOK, RowsTypeOK
<1>5. HonestAnswers'
  BY <1>1, <1>2, <1>3 DEF CheckoutInv, HonestAnswers
<1>6. UncommittedRowsHidden'
  BY <1>1, <1>2, <1>3 DEF CheckoutInv, UncommittedRowsHidden
<1> QED BY <1>3, <1>4, <1>5, <1>6 DEF CheckoutInv, FeesNotOverpaid,
           PaymentsBookedOnce, PaymentsReal, SettledOnce, OnlyCollectedMoneyBooked

LEMMA OrderType ==
  ASSUME NEW S \in SUBSET Fees, NEW order \in SetToSeqs(S)
  PROVE  order \in Seq(Fees)
<1>1. IsFiniteSet(S)
  BY LedgerAssumption, FS_Subset
<1>2. Cardinality(S) \in Nat
  BY <1>1, FS_CardinalityType
<1> QED BY <1>2 DEF SetToSeqs

LEMMA InitiateInsertInv ==
  ASSUME CheckoutInv, NEW c \in Clients, NEW m \in Members, NEW channel \in Channels,
         InitiateInsert(c, m, channel)
  PROVE  CheckoutInv'
<1>1. PICK order \in Seq(Fees), amount \in 1..MaxAmount,
           t \in {u \in Txs : tx[u].status = "absent" /\ u \notin Reserved} :
        request' = [request EXCEPT ![c] =
          [op |-> "initiate", tx |-> t,
           row |-> [status |-> "pending", member |-> m, fees |-> order,
                    amount |-> amount, channel |-> channel,
                    payment |-> "none", lapsed |-> FALSE]]]
  <2>1. PICK S \in SUBSET Fees :
          \E order \in SetToSeqs(S), amount \in 1..MaxAmount,
             t \in {u \in Txs : tx[u].status = "absent" /\ u \notin Reserved} :
            request' = [request EXCEPT ![c] =
              [op |-> "initiate", tx |-> t,
               row |-> [status |-> "pending", member |-> m, fees |-> order,
                        amount |-> amount, channel |-> channel,
                        payment |-> "none", lapsed |-> FALSE]]]
    BY ZenonT(60) DEF InitiateInsert
  <2> QED BY <2>1, OrderType
<1> DEFINE row == [status |-> "pending", member |-> m, fees |-> order,
                   amount |-> amount, channel |-> channel,
                   payment |-> "none", lapsed |-> FALSE]
           next == [op |-> "initiate", tx |-> t, row |-> row]
<1>2. request[c] = Idle
      /\ UNCHANGED <<fee, account, payment, alloc, income, cancelling,
                     tx, journal, invoice, callbacks>>
  BY DEF InitiateInsert
<1>3. /\ row \in TxRow /\ Billed(row)
      /\ row.status = "pending" /\ row.payment = "none"
  <2>1. amount \in Cash /\ amount > 0 /\ "pending" \in Answers
    BY LedgerAssumption DEF Cash, Answers, Unsettled
  <2> QED BY <1>1, <2>1 DEF TxRow, Billed
<1> HIDE DEF row
<1>4. next \in Request /\ next.op = "initiate" /\ next.tx = t /\ next.row = row
  BY <1>1, <1>3 DEF Request
<1>5. request' = [request EXCEPT ![c] = next]
  BY <1>1 DEF row
<1> HIDE DEF next
<1>6. /\ request'[c] = next /\ request' \in [Clients -> Request]
      /\ \A k \in Clients : k # c => request'[k] = request[k]
  BY <1>4, <1>5 DEF CheckoutInv, TypeOK
<1>7. TypeOK'
  BY <1>2, <1>6 DEF CheckoutInv, TypeOK, LedgerTypeOK, RowsTypeOK
<1>8. HonestAnswers'
  BY <1>2, <1>4, <1>6 DEF CheckoutInv, HonestAnswers
<1>9. UncommittedRowsHidden'
  <2>1. \A k \in Clients : request[k].op = "initiate" => request[k].tx # t
    BY <1>1 DEF Reserved
  <2>2. \A u \in Txs : IF tx'[u].status = "absent" THEN tx'[u] = NoTx /\ invoice'[u] = "none"
                                                 ELSE Billed(tx'[u])
    BY <1>2 DEF CheckoutInv, UncommittedRowsHidden
  <2>3. ASSUME NEW k \in Clients, request'[k].op = "initiate"
        PROVE  /\ tx'[request'[k].tx].status = "absent"
               /\ request'[k].row.status = "pending" /\ request'[k].row.payment = "none"
               /\ Billed(request'[k].row)
    <3>1. CASE k = c
      BY <1>1, <1>2, <1>3, <1>4, <1>6, <3>1
    <3>2. CASE k # c
      BY <1>2, <1>6, <2>3, <3>2 DEF CheckoutInv, UncommittedRowsHidden
    <3> QED BY <3>1, <3>2
  <2>4. \A j, k \in Clients :
          /\ request'[j].op = "initiate" /\ request'[k].op = "initiate"
          /\ request'[k].tx = request'[j].tx
          => k = j
    BY <1>4, <1>6, <2>1 DEF CheckoutInv, UncommittedRowsHidden
  <2> QED BY <2>2, <2>3, <2>4 DEF UncommittedRowsHidden, Billed
<1> QED BY <1>2, <1>7, <1>8, <1>9 DEF CheckoutInv, FeesNotOverpaid,
           PaymentsBookedOnce, PaymentsReal, SettledOnce, OnlyCollectedMoneyBooked

\* The row of a checkout becomes visible, pending with its invoice or failed.
LEMMA InitiateEndsInv ==
  ASSUME CheckoutInv, NEW c \in Clients, InitiateCommit(c) \/ InitiateFail(c)
  PROVE  CheckoutInv'
<1> DEFINE t == request[c].tx
<1>1. /\ t \in Txs /\ request[c].row \in TxRow /\ request[c].op = "initiate"
      /\ tx[t] = NoTx /\ tx[t].status = "absent" /\ invoice[t] = "none"
      /\ request[c].row.status = "pending" /\ request[c].row.payment = "none"
      /\ Billed(request[c].row)
  <2>1. request[c].op = "initiate"
    BY DEF InitiateCommit, InitiateFail
  <2>2. t \in Txs /\ request[c].row \in TxRow
    BY <2>1 DEF CheckoutInv, TypeOK, Request, Idle
  <2>3. /\ tx[t].status = "absent"
        /\ request[c].row.status = "pending" /\ request[c].row.payment = "none"
        /\ Billed(request[c].row)
    BY <2>1 DEF CheckoutInv, UncommittedRowsHidden
  <2>4. tx[t] = NoTx /\ invoice[t] = "none"
    BY <2>2, <2>3 DEF CheckoutInv, UncommittedRowsHidden
  <2> QED BY <2>1, <2>2, <2>3, <2>4
<1>2. PICK row \in TxRow, type \in {"provider_created", "provider_error"},
           opened \in {"open", "none"} :
        /\ tx' = [tx EXCEPT ![t] = row]
        /\ row.status \in {"pending", "failed"} /\ row.payment = "none" /\ Billed(row)
        /\ journal' = [journal EXCEPT ![t] = Initiated(type)]
        /\ invoice' = [invoice EXCEPT ![t] = opened]
  <2>1. CASE InitiateCommit(c)
    BY <1>1, <2>1 DEF InitiateCommit
  <2>2. CASE InitiateFail(c)
    <3> DEFINE row == [request[c].row EXCEPT !.status = "failed"]
    <3>1. "failed" \in Answers
      BY DEF Answers, Unsettled
    <3>2. row \in TxRow /\ row.status = "failed" /\ row.payment = "none" /\ Billed(row)
      BY <1>1, <3>1, TxRowStatus DEF Billed
    <3>3. invoice' = [invoice EXCEPT ![t] = "none"]
      BY <1>1, <2>2 DEF InitiateFail, CheckoutInv, TypeOK
    <3> HIDE DEF row
    <3>4. tx' = [tx EXCEPT ![t] = row]
      BY <2>2 DEF InitiateFail, row
    <3>5. journal' = [journal EXCEPT ![t] = Initiated("provider_error")]
      BY <2>2 DEF InitiateFail
    <3> QED BY <3>2, <3>3, <3>4, <3>5
  <2> QED BY <2>1, <2>2
<1>3. /\ request' = [request EXCEPT ![c] = Idle]
      /\ UNCHANGED <<fee, account, payment, alloc, income, cancelling, callbacks>>
  BY DEF InitiateCommit, InitiateFail
<1>4. /\ tx' \in [Txs -> TxRow] /\ tx'[t] = row
      /\ invoice' \in [Txs -> Invoices] /\ invoice'[t] = opened
      /\ \A u \in Txs : u # t => tx'[u] = tx[u] /\ invoice'[u] = invoice[u]
  BY <1>1, <1>2 DEF CheckoutInv, TypeOK, Invoices
<1>5. journal' \in [Txs -> SUBSET Event]
  <2>1. type \in EventTypes
    BY DEF EventTypes
  <2>2. Initiated(type) \in SUBSET Event
    BY <1>1, <2>1 DEF Initiated, Event, EventTypes
  <2> QED BY <1>1, <1>2, <2>2 DEF CheckoutInv, TypeOK
<1>6. /\ request' \in [Clients -> Request] /\ request'[c] = Idle
      /\ \A k \in Clients : k # c => request'[k] = request[k]
  BY <1>3 DEF CheckoutInv, TypeOK, Request
<1>7. TypeOK'
  BY <1>3, <1>4, <1>5, <1>6 DEF CheckoutInv, TypeOK, LedgerTypeOK, RowsTypeOK
<1>8. SettledOnce' /\ OnlyCollectedMoneyBooked'
  BY <1>1, <1>2, <1>3, <1>4 DEF CheckoutInv, SettledOnce, OnlyCollectedMoneyBooked
<1>9. HonestAnswers'
  <2>1. \A u \in Txs : invoice[u] # "none" => invoice'[u] = invoice[u]
    BY <1>1, <1>4
  <2>2. \A u \in Txs, answer \in Answers : <<u, answer>> \in callbacks' =>
          /\ invoice'[u] # "none"
          /\ answer = "successful" => invoice'[u] \in {"paid", "refunded"}
    BY <1>3, <2>1 DEF CheckoutInv, HonestAnswers
  <2>3. ASSUME NEW k \in Clients, request'[k].op \in {"poll", "apply"}
        PROVE  /\ invoice'[request'[k].tx] # "none"
               /\ request'[k].op = "apply" /\ request'[k].answer = "successful" =>
                    invoice'[request'[k].tx] \in {"paid", "refunded"}
    <3>1. request'[k] = request[k]
      BY <1>6, <2>3 DEF Idle
    <3>2. request[k].tx \in Txs /\ invoice[request[k].tx] # "none"
      BY <2>3, <3>1 DEF CheckoutInv, TypeOK, Request, Idle, HonestAnswers
    <3> QED BY <2>1, <2>3, <3>1, <3>2 DEF CheckoutInv, HonestAnswers
  <2> QED BY <2>2, <2>3 DEF HonestAnswers
<1>10. UncommittedRowsHidden'
  <2>1. \A k \in Clients : k # c /\ request[k].op = "initiate" => request[k].tx # t
    BY <1>1 DEF CheckoutInv, UncommittedRowsHidden
  <2>2. \A u \in Txs : IF tx'[u].status = "absent" THEN tx'[u] = NoTx /\ invoice'[u] = "none"
                                                 ELSE Billed(tx'[u])
    BY <1>2, <1>4 DEF CheckoutInv, UncommittedRowsHidden
  <2>3. \A k \in Clients : request'[k].op = "initiate" =>
          k # c /\ request'[k] = request[k] /\ request[k].tx \in Txs
    BY <1>6 DEF CheckoutInv, TypeOK, Request, Idle
  <2> QED BY <1>4, <2>1, <2>2, <2>3 DEF CheckoutInv, UncommittedRowsHidden
<1> QED BY <1>3, <1>7, <1>8, <1>9, <1>10 DEF CheckoutInv, FeesNotOverpaid,
           PaymentsBookedOnce, PaymentsReal

\* The handlers that know nothing of mobile money leave a validated payment,
\* hence a settled checkout, alone.
LEMMA LedgerStepInv ==
  ASSUME CheckoutInv, LedgerNext, UNCHANGED mmVars
  PROVE  CheckoutInv'
<1>1. LedgerInv
  BY DEF CheckoutInv, TypeOK, LedgerInv
<1>2. LedgerTypeOK' /\ FeesNotOverpaid' /\ PaymentsBookedOnce'
  BY <1>1, LedgerNextInv DEF LedgerInv
<1>3. UNCHANGED <<tx, journal, invoice, callbacks, request>>
  BY DEF mmVars
<1>4. PaymentsReal'
  <2>1. CASE \E p \in Payments, m \in Members : CreatePayment(p, m)
    BY <2>1, LedgerAssumption DEF CreatePayment, CheckoutInv, PaymentsReal,
          TypeOK, LedgerTypeOK, RowsTypeOK
  <2>2. CASE \E p \in Payments : ValidatePayment(p) \/ RejectPayment(p) \/ CancelPayment(p)
    <3>1. PICK p \in Payments, status \in {"validated", "rejected", "cancelled"} :
            /\ payment' = [payment EXCEPT ![p].status = status]
            /\ payment[p].status \notin {"absent", "validated"}
      BY <2>2 DEF ValidatePayment, RejectPayment, CancelPayment
    <3>2. \A q \in Payments :
            /\ payment'[q].user = payment[q].user /\ payment'[q].amount = payment[q].amount
            /\ payment'[q].status # "absent" => payment[q].status # "absent"
            /\ q # p => payment'[q].status = payment[q].status
      BY <3>1 DEF CheckoutInv, TypeOK, LedgerTypeOK, RowsTypeOK, PaymentRow
    <3>3. p \in Declared
      BY <3>1 DEF CheckoutInv, PaymentsReal
    <3> QED BY <3>2, <3>3 DEF CheckoutInv, PaymentsReal
  <2>3. CASE UNCHANGED payment
    BY <2>3 DEF CheckoutInv, PaymentsReal
  <2> QED BY <2>1, <2>2, <2>3 DEF LedgerNext, CreateFee, CreateFeeRecord, RemovePenalty, SyncPenalty,
             CancelFeeRead, CancelFeeCommit, tableVars
<1>5. SettledOnce'
  <2>1. \A t \in Txs : tx[t].payment # "none" => payment'[tx[t].payment] = payment[tx[t].payment]
    <3>1. \A t \in Txs : tx[t].payment # "none" =>
            tx[t].payment \in Payments /\ payment[tx[t].payment].status = "validated"
      BY DEF CheckoutInv, TypeOK, TxRow, SettledOnce
    <3> QED BY <1>1, <3>1, ValidatedKept
  <2> QED BY <1>3, <2>1 DEF CheckoutInv, SettledOnce
<1> QED BY <1>2, <1>3, <1>4, <1>5 DEF CheckoutInv, TypeOK, OnlyCollectedMoneyBooked,
           HonestAnswers, UncommittedRowsHidden

LEMMA CheckoutInitInv == Init => CheckoutInv
<1> SUFFICES ASSUME Init PROVE CheckoutInv
  OBVIOUS
<1>1. LedgerTypeOK /\ FeesNotOverpaid /\ PaymentsBookedOnce
  BY LedgerInitInv DEF Init, LedgerInv
<1>2. TypeOK
  <2>1. NoTx \in TxRow
    BY LedgerAssumption DEF NoTx, TxRow, Cash
  <2> QED BY <1>1, <2>1 DEF Init, TypeOK, Invoices, Request
<1>3. PaymentsReal
  BY DEF Init, LedgerInit, PaymentsReal, NoPayment
<1>4. SettledOnce /\ OnlyCollectedMoneyBooked
  BY DEF Init, SettledOnce, OnlyCollectedMoneyBooked, NoTx
<1>5. HonestAnswers /\ UncommittedRowsHidden
  BY DEF Init, HonestAnswers, UncommittedRowsHidden, Idle, NoTx
<1> QED BY <1>1, <1>2, <1>3, <1>4, <1>5 DEF CheckoutInv

LEMMA CheckoutNextInv ==
  ASSUME CheckoutInv, [Next]_vars
  PROVE  CheckoutInv'
<1>1. CASE UNCHANGED vars
  <2>1. UNCHANGED <<fee, account, payment, alloc, income, cancelling>>
        /\ UNCHANGED <<tx, journal, invoice, callbacks, request>>
    BY <1>1 DEF vars
  <2>2. BillsKept /\ TablesInv'
    BY <2>1 DEF BillsKept, TablesInv, CheckoutInv, TypeOK, LedgerTypeOK, RowsTypeOK,
        FeesNotOverpaid, PaymentsBookedOnce, PaymentsReal, SettledOnce,
        OnlyCollectedMoneyBooked
  <2> QED BY <2>1, <2>2, RequestEndsInv
<1>2. CASE LedgerNext /\ UNCHANGED mmVars
  BY <1>2, LedgerStepInv
<1>3. CASE CheckoutNext
  BY <1>3, InitiateInsertInv, InitiateEndsInv, PollInv, ProviderInv, LapseInv,
     AnsweredInv DEF CheckoutNext
<1> QED BY <1>1, <1>2, <1>3 DEF Next

----------------------------------------------------------------------------
(* Theorems *)

\* The invariant, and with it the types of all tables, journals, invoices and
\* requests, holds for every number of checkouts, members, fees and requests.
THEOREM CheckoutSafe == Spec => []CheckoutInv
<1>1. Init => CheckoutInv
  BY CheckoutInitInv
<1>2. CheckoutInv /\ [Next]_vars => CheckoutInv'
  BY CheckoutNextInv
<1> QED BY <1>1, <1>2, PTL DEF Spec

\* A checkout is settled by one payment of its own, whatever repeats the news.
THEOREM CheckoutSettledOnce == Spec => []SettledOnce
<1>1. CheckoutInv => SettledOnce
  BY DEF CheckoutInv
<1> QED BY <1>1, CheckoutSafe, PTL

\* No checkout is booked that the provider did not collect.
THEOREM CheckoutOnlyCollected == Spec => []OnlyCollectedMoneyBooked
<1>1. CheckoutInv => OnlyCollectedMoneyBooked
  BY DEF CheckoutInv
<1> QED BY <1>1, CheckoutSafe, PTL

----------------------------------------------------------------------------
(* What a step can do to the checkouts' settlement and to the members' totals *)

CollectedInvoice(i) == i \in {"paid", "refunded"}

Stays(u) ==
  /\ tx'[u].status = "successful" <=> tx[u].status = "successful"
  /\ tx'[u].payment = tx[u].payment
  /\ tx'[u].member = tx[u].member /\ tx'[u].amount = tx[u].amount

InvoiceStays(u) == CollectedInvoice(invoice'[u]) <=> CollectedInvoice(invoice[u])

HandStays ==
  \A p \in Declared : payment'[p].status = "validated" <=> payment[p].status = "validated"

TotalsStay == HandStays /\ \A m \in Members : account'[m].paid = account[m].paid

BooksNothing ==
  TotalsStay /\ \A u \in Txs : Stays(u) /\ InvoiceStays(u)

OpensCheckout(t) ==
  /\ tx[t] = NoTx
  /\ tx'[t].status # "successful" /\ tx'[t].payment = "none"
  /\ tx'[t].member \in Members /\ tx'[t].amount \in 1..MaxAmount
  /\ TotalsStay
  /\ \A u \in Txs : InvoiceStays(u) /\ (u # t => Stays(u))

CollectsCheckout(t) ==
  /\ tx[t].amount > 0
  /\ ~CollectedInvoice(invoice[t]) /\ CollectedInvoice(invoice'[t])
  /\ TotalsStay
  /\ \A u \in Txs : Stays(u) /\ (u # t => InvoiceStays(u))

BooksCheckout(t) ==
  /\ tx[t].status # "successful" /\ CollectedInvoice(invoice[t])
  /\ tx'[t].status = "successful"
  /\ tx'[t].member = tx[t].member /\ tx'[t].amount = tx[t].amount
  /\ tx[t].member \in Members /\ HandStays
  /\ \A m \in Members : account'[m].paid =
       IF m = tx[t].member THEN account[m].paid + tx[t].amount ELSE account[m].paid
  /\ \A u \in Txs : InvoiceStays(u) /\ (u # t => Stays(u))

BooksByHand(p, m) ==
  /\ payment[p].status # "validated" /\ payment'[p].status = "validated"
  /\ \A q \in Declared \ {p} :
       payment'[q].status = "validated" <=> payment[q].status = "validated"
  /\ \E amount \in 1..MaxAmount : \A n \in Members :
       account'[n].paid = IF n = m THEN account[n].paid + amount ELSE account[n].paid
  /\ \A u \in Txs : Stays(u) /\ InvoiceStays(u)

Effect ==
  \/ BooksNothing
  \/ \E t \in Txs : OpensCheckout(t) \/ CollectsCheckout(t) \/ BooksCheckout(t)
  \/ \E p \in Declared, m \in Members : BooksByHand(p, m)

LEMMA MarkedEffect ==
  ASSUME CheckoutInv, NEW t \in Txs, NEW status \in Unsettled,
         NEW id \in {"none", "token", "reference"},
         Commit(Marked(Db, t, status, id)), UNCHANGED invoice
  PROVE  BooksNothing
<1>1. /\ UNCHANGED tableVars
      /\ \/ tx' = tx
         \/ tx[t].status # "successful" /\ tx' = [tx EXCEPT ![t].status = status]
  BY MarkedStep DEF CheckoutInv
<1>2. TotalsStay /\ \A u \in Txs : InvoiceStays(u)
  BY <1>1 DEF TotalsStay, HandStays, InvoiceStays, tableVars
<1>3. CASE tx' = tx
  BY <1>2, <1>3 DEF BooksNothing, Stays
<1>4. CASE tx[t].status # "successful" /\ tx' = [tx EXCEPT ![t].status = status]
  <2>1. tx[t] \in TxRow /\ status \in Answers /\ status # "successful"
    BY DEF CheckoutInv, TypeOK, Answers, Unsettled
  <2>2. /\ tx'[t] = [tx[t] EXCEPT !.status = status]
        /\ \A u \in Txs : u # t => tx'[u] = tx[u]
    BY <1>4 DEF CheckoutInv, TypeOK
  <2>3. /\ tx'[t].status = status
        /\ tx'[t].payment = tx[t].payment /\ tx'[t].member = tx[t].member
        /\ tx'[t].amount = tx[t].amount
    BY <2>1, <2>2, TxRowStatus
  <2>4. \A u \in Txs : Stays(u)
    BY <1>4, <2>1, <2>2, <2>3 DEF Stays
  <2> QED BY <1>2, <2>4 DEF BooksNothing
<1> QED BY <1>1, <1>3, <1>4

LEMMA ConfirmEffect ==
  ASSUME CheckoutInv, NEW t \in Txs, NEW id \in {"none", "token", "reference"},
         tx[t].status # "absent", invoice[t] \in {"paid", "refunded"},
         NEW d \in ConfirmOutcomes(Db, t, id), Commit(d),
         UNCHANGED <<cancelling, invoice>>
  PROVE  BooksNothing \/ BooksCheckout(t)
<1>1. CASE tx[t].payment # "none"
  <2>1. UNCHANGED <<tableVars, tx, journal>>
    BY <1>1, ConfirmStep DEF CheckoutInv
  <2> QED BY <2>1 DEF BooksNothing, Stays, InvoiceStays, TotalsStay, HandStays, tableVars
<1>2. CASE tx[t].payment = "none"
  <2> DEFINE m == tx[t].member
             amount == tx[t].amount
  <2>1. PICK p \in Payments \ Declared :
          /\ account' = [account EXCEPT ![m] = Credited(@, amount, amount)]
          /\ payment' = [payment EXCEPT ![p] =
               [status |-> "validated", user |-> m, amount |-> amount]]
          /\ tx' = [tx EXCEPT ![t].status = "successful", ![t].payment = p]
    BY <1>2, ConfirmStep DEF CheckoutInv
  <2>2. tx'[t].status = "successful" /\ \A u \in Txs : u # t => tx'[u] = tx[u]
    BY <2>1 DEF CheckoutInv, TypeOK, TxRow
  <2>3. tx'[t].member = m /\ tx'[t].amount = amount
    BY ConfirmInv DEF BillsKept
  <2>4. m \in Members /\ amount \in Cash
    BY DEF CheckoutInv, TypeOK, UncommittedRowsHidden, Billed, TxRow
  <2>5. account \in [Members -> AccountRow]
    BY DEF CheckoutInv, TypeOK, LedgerTypeOK, RowsTypeOK
  <2>6. Credited(account[m], amount, amount).paid = account[m].paid + amount
    BY <2>4, <2>5, CreditedType
  <2>7. \A n \in Members : account'[n].paid =
          IF n = m THEN account[n].paid + amount ELSE account[n].paid
    BY <2>1, <2>4, <2>5, <2>6
  <2>8. tx[t].status # "successful"
    BY <1>2 DEF CheckoutInv, SettledOnce
  <2>9. HandStays
    BY <2>1, LedgerAssumption DEF HandStays, CheckoutInv, TypeOK, LedgerTypeOK, RowsTypeOK
  <2> QED BY <2>2, <2>3, <2>4, <2>7, <2>8, <2>9 DEF BooksCheckout, Stays, InvoiceStays,
             CollectedInvoice
<1> QED BY <1>1, <1>2

LEMMA ApplyAnswerEffect ==
  ASSUME CheckoutInv, NEW t \in Txs, NEW answer \in Answers,
         NEW id \in {"none", "token", "reference"},
         invoice[t] # "none",
         answer = "successful" => invoice[t] \in {"paid", "refunded"},
         ApplyAnswer(t, answer, id), UNCHANGED <<cancelling, invoice>>
  PROVE  BooksNothing \/ BooksCheckout(t)
<1>1. tx[t].status # "absent"
  BY DEF CheckoutInv, UncommittedRowsHidden
<1>2. PICK d \in Outcomes(Db, t, answer, id) : Commit(d)
  BY DEF ApplyAnswer
<1>3. CASE answer = "successful"
  BY <1>1, <1>2, <1>3, ConfirmEffect DEF Outcomes
<1>4. CASE answer # "successful"
  <2>1. answer \in Unsettled /\ d = Marked(Db, t, answer, id)
    BY <1>2, <1>4 DEF Outcomes, Answers
  <2> QED BY <1>1, <1>2, <2>1, MarkedEffect
<1> QED BY <1>3, <1>4

LEMMA LedgerEffect ==
  ASSUME CheckoutInv, LedgerNext, UNCHANGED mmVars
  PROVE  Effect
<1>1. \A u \in Txs : Stays(u) /\ InvoiceStays(u)
  BY DEF mmVars, Stays, InvoiceStays
<1>2. account \in [Members -> AccountRow]
  BY DEF CheckoutInv, TypeOK, LedgerTypeOK, RowsTypeOK
<1>3. CASE \E p \in Payments : ValidatePayment(p)
  <2>1. PICK p \in Payments : ValidatePayment(p)
    BY <1>3
  <2> DEFINE m == payment[p].user
             amount == payment[p].amount
  <2>2. PICK got \in Cash : account' = [account EXCEPT ![m] = Credited(@, amount, got)]
    BY <2>1 DEF ValidatePayment
  <2>3. m \in Members /\ amount \in 1..MaxAmount /\ amount \in Cash
    BY <2>1, LedgerAssumption DEF ValidatePayment, CheckoutInv, PaymentsReal, TypeOK,
          LedgerTypeOK, RowsTypeOK, PaymentRow, Cash
  <2>4. Credited(account[m], amount, got).paid = account[m].paid + amount
    BY <1>2, <2>3, CreditedType
  <2>5. \A n \in Members : account'[n].paid =
          IF n = m THEN account[n].paid + amount ELSE account[n].paid
    BY <1>2, <2>2, <2>3, <2>4
  <2>6. /\ p \in Declared
        /\ payment[p].status # "validated" /\ payment'[p].status = "validated"
        /\ \A q \in Declared \ {p} : payment'[q] = payment[q]
    BY <2>1, LedgerAssumption DEF ValidatePayment, CheckoutInv, PaymentsReal, TypeOK,
          LedgerTypeOK, RowsTypeOK, PaymentRow
  <2> QED BY <1>1, <2>3, <2>5, <2>6 DEF Effect, BooksByHand
<1>4. CASE ~\E p \in Payments : ValidatePayment(p)
  <2>8. HandStays
    <3>1. CASE payment' = payment
      BY <3>1 DEF HandStays
    <3>2. CASE \E p \in Payments, status \in {"rejected", "cancelled"} :
                 /\ payment[p].status \in {"pending", "rejected"}
                 /\ payment' = [payment EXCEPT ![p].status = status]
      BY <3>2, LedgerAssumption DEF HandStays, CheckoutInv, TypeOK, LedgerTypeOK,
            RowsTypeOK, PaymentRow
    <3>3. CASE \E p \in Payments, m \in Members : CreatePayment(p, m)
      BY <3>3, LedgerAssumption DEF CreatePayment, HandStays, CheckoutInv, TypeOK,
            LedgerTypeOK, RowsTypeOK, PaymentRow
    <3> QED BY <1>4, <3>1, <3>2, <3>3 DEF LedgerNext, CreateFee, CreateFeeRecord, RemovePenalty,
               SyncPenalty, CancelFeeRead, CancelFeeCommit, RejectPayment,
               CancelPayment, tableVars
  <2>1. CASE account' = account
    BY <1>1, <2>1, <2>8 DEF Effect, BooksNothing, TotalsStay
  <2>2. CASE \E m \in Members : \E n : account' = [account EXCEPT ![m].due = n]
    BY <1>1, <1>2, <2>2, <2>8 DEF Effect, BooksNothing, TotalsStay, AccountRow
  <2>3. \A f \in Fees : Owner[f] \in Members
    BY LedgerAssumption
  <2>4. ASSUME NEW f \in Fees, CreateFee(f) \/ RemovePenalty(f)
        PROVE  \E n : account' = [account EXCEPT ![Owner[f]].due = n]
    BY <2>4 DEF CreateFee, CreateFeeRecord, RemovePenalty
  <2>5. ASSUME NEW f \in Fees, NEW amount \in Amounts, SyncPenalty(f, amount)
        PROVE  \E n : account' = [account EXCEPT ![Owner[f]].due = n]
    BY <2>5 DEF SyncPenalty
  <2>6. ASSUME NEW c \in Clerks, CancelFeeCommit(c)
        PROVE  \E f \in Fees : \E n : account' = [account EXCEPT ![Owner[f]].due = n]
    <3>1. cancelling[c].fee \in Fees
      BY <2>6 DEF CancelFeeCommit, CheckoutInv, TypeOK, LedgerTypeOK, CancelRequest
    <3> QED BY <2>6, <3>1 DEF CancelFeeCommit
  <2>7. ASSUME \/ \E c \in Clerks, f \in Fees : CancelFeeRead(c, f)
               \/ \E p \in Payments, m \in Members : CreatePayment(p, m)
               \/ \E p \in Payments : RejectPayment(p) \/ CancelPayment(p)
        PROVE  account' = account
    BY <2>7 DEF CancelFeeRead, CreatePayment, RejectPayment, CancelPayment, tableVars
  <2> QED BY <1>4, <2>1, <2>2, <2>3, <2>4, <2>5, <2>6, <2>7 DEF LedgerNext
<1> QED BY <1>3, <1>4

LEMMA StepEffect ==
  ASSUME CheckoutInv, [Next]_vars
  PROVE  Effect
<1>1. CASE UNCHANGED vars
  BY <1>1 DEF vars, Effect, BooksNothing, TotalsStay, HandStays, Stays, InvoiceStays
<1>2. CASE LedgerNext /\ UNCHANGED mmVars
  BY <1>2, LedgerEffect
<1>3. CallbackIds \subseteq {"none", "token", "reference"}
  BY MobileMoneyAssumption
<1>4. ASSUME NEW t \in Txs, NEW answer \in Answers, NEW id \in CallbackIds,
             Callback(t, answer, id)
      PROVE  Effect
  <2>1. CASE JournalOnly(t, "duplicate_callback", id, TRUE)
    BY <1>4, <2>1 DEF Callback, JournalOnly, Effect, BooksNothing, TotalsStay,
          HandStays, Stays, InvoiceStays
  <2>2. CASE ApplyAnswer(t, answer, id)
    <3>1. invoice[t] # "none" /\ (answer = "successful" => invoice[t] \in {"paid", "refunded"})
      BY <1>4 DEF Callback, CheckoutInv, HonestAnswers
    <3> QED BY <1>3, <1>4, <2>2, <3>1, ApplyAnswerEffect DEF Callback, Effect
  <2> QED BY <1>4, <2>1, <2>2 DEF Callback
<1>5. ASSUME NEW c \in Clients, RefreshApply(c)
      PROVE  Effect
  <2> DEFINE t == request[c].tx
             answer == request[c].answer
  <2>1. /\ request[c].op = "apply"
        /\ ApplyAnswer(t, answer, "token")
        /\ UNCHANGED <<cancelling, invoice, callbacks>>
    BY <1>5 DEF RefreshApply
  <2>2. t \in Txs /\ answer \in Answers
    BY <2>1 DEF CheckoutInv, TypeOK, Request, Idle
  <2>3. invoice[t] # "none" /\ (answer = "successful" => invoice[t] \in {"paid", "refunded"})
    BY <2>1 DEF CheckoutInv, HonestAnswers
  <2> QED BY <2>1, <2>2, <2>3, ApplyAnswerEffect DEF Effect
<1>6. ASSUME NEW t \in Txs, RefreshExpired(t)
      PROVE  Effect
  <2>1. "expired" \in Unsettled
    BY DEF Unsettled
  <2> QED BY <1>6, <2>1, MarkedEffect DEF RefreshExpired, Effect
<1>7. ASSUME NEW t \in Txs, MemberPays(t) \/ InvoiceCloses(t) \/ ProviderRefunds(t)
      PROVE  Effect
  <2>1. PICK status \in Invoices : invoice' = [invoice EXCEPT ![t] = status]
        /\ (invoice[t] \in {"paid", "refunded"} => status \in {"paid", "refunded"})
    BY <1>7 DEF MemberPays, InvoiceCloses, ProviderRefunds, ProviderStep, Invoices
  <2>2. /\ invoice'[t] = status
        /\ \A u \in Txs : u # t => invoice'[u] = invoice[u]
    BY <2>1 DEF CheckoutInv, TypeOK
  <2>3. TotalsStay /\ \A u \in Txs : Stays(u)
    BY <1>7 DEF MemberPays, InvoiceCloses, ProviderRefunds, ProviderStep,
          TotalsStay, HandStays, Stays
  <2>4. tx[t].amount > 0
    BY <1>7 DEF MemberPays, InvoiceCloses, ProviderRefunds, CheckoutInv,
          UncommittedRowsHidden, Billed
  <2> QED BY <2>1, <2>2, <2>3, <2>4 DEF Effect, BooksNothing, CollectsCheckout,
             InvoiceStays, CollectedInvoice
<1>8. ASSUME NEW t \in Txs, Lapse(t)
      PROVE  Effect
  <2>1. \A u \in Txs : Stays(u)
    BY <1>8 DEF Lapse, CheckoutInv, TypeOK, TxRow, Stays
  <2> QED BY <1>8, <2>1 DEF Lapse, Effect, BooksNothing, TotalsStay, HandStays, InvoiceStays
<1>9. ASSUME NEW c \in Clients, InitiateCommit(c) \/ InitiateFail(c)
      PROVE  Effect
  <2> DEFINE t == request[c].tx
             row == request[c].row
  <2>1. request[c].op = "initiate"
    BY <1>9 DEF InitiateCommit, InitiateFail
  <2>2. t \in Txs /\ row \in TxRow
    BY <2>1 DEF CheckoutInv, TypeOK, Request, Idle
  <2>3. /\ tx[t].status = "absent" /\ row.status = "pending" /\ row.payment = "none"
        /\ Billed(row)
    BY <2>1 DEF CheckoutInv, UncommittedRowsHidden
  <2>4. tx[t] = NoTx /\ invoice[t] = "none"
    BY <2>2, <2>3 DEF CheckoutInv, UncommittedRowsHidden
  <2>5. row.member \in Members /\ row.amount \in 1..MaxAmount
    BY <2>2, <2>3, LedgerAssumption DEF Billed, TxRow, Cash
  <2>6. /\ tx'[t].status # "successful" /\ tx'[t].payment = "none"
        /\ tx'[t].member = row.member /\ tx'[t].amount = row.amount
        /\ \A u \in Txs : u # t => tx'[u] = tx[u]
    <3>1. CASE InitiateCommit(c)
      BY <2>2, <2>3, <3>1 DEF InitiateCommit, CheckoutInv, TypeOK
    <3>2. CASE InitiateFail(c)
      <4> DEFINE next == [row EXCEPT !.status = "failed"]
      <4>1. next.status = "failed" /\ next.payment = row.payment
            /\ next.member = row.member /\ next.amount = row.amount
        BY <2>2 DEF TxRow
      <4>2. tx'[t] = next /\ \A u \in Txs : u # t => tx'[u] = tx[u]
        BY <2>2, <3>2 DEF InitiateFail, CheckoutInv, TypeOK
      <4> QED BY <2>3, <4>1, <4>2
    <3> QED BY <1>9, <3>1, <3>2
  <2>7. \A u \in Txs : InvoiceStays(u)
    BY <1>9, <2>2, <2>4 DEF InitiateCommit, InitiateFail, CheckoutInv, TypeOK,
          InvoiceStays, CollectedInvoice
  <2>8. TotalsStay
    BY <1>9 DEF InitiateCommit, InitiateFail, TotalsStay, HandStays
  <2> QED BY <2>2, <2>4, <2>5, <2>6, <2>7, <2>8 DEF Effect, OpensCheckout, Stays
<1>10. ASSUME \/ \E c \in Clients, m \in Members, channel \in Channels :
                   InitiateInsert(c, m, channel)
              \/ \E c \in Clients, t \in Txs : RefreshStart(c, t)
              \/ \E c \in Clients : RefreshAnswered(c) \/ RequestLost(c)
              \/ \E t \in Txs, id \in CallbackIds : CallbackMismatch(t, id)
       PROVE  Effect
  <2>1. UNCHANGED <<account, payment, tx, invoice>>
    BY <1>10 DEF InitiateInsert, RefreshStart, RefreshAnswered, RequestLost,
          CallbackMismatch, JournalOnly
  <2> QED BY <2>1 DEF Effect, BooksNothing, TotalsStay, HandStays, Stays, InvoiceStays
<1> QED BY <1>1, <1>2, <1>4, <1>5, <1>6, <1>7, <1>8, <1>9, <1>10 DEF Next, CheckoutNext

\* A settled checkout stays settled, by the same payment.
LEMMA SettledKept ==
  ASSUME CheckoutInv, [Next]_vars, NEW t \in Txs, tx[t].status = "successful"
  PROVE  tx'[t].status = "successful" /\ tx'[t].payment = tx[t].payment
<1>1. tx[t] # NoTx
  BY DEF NoTx
<1> QED BY <1>1, StepEffect DEF Effect, BooksNothing, OpensCheckout, CollectsCheckout,
           BooksCheckout, BooksByHand, Stays

\* A settled checkout is final.
THEOREM CheckoutSettledIsFinal == Spec => SettledIsFinal
<1>1. CheckoutInv /\ [Next]_vars =>
        [\A t \in Txs : tx[t].status = "successful" =>
           /\ tx'[t].status = "successful"
           /\ tx'[t].payment = tx[t].payment]_vars
  BY SettledKept
<1> QED BY <1>1, CheckoutSafe, PTL DEF Spec, SettledIsFinal

----------------------------------------------------------------------------
(* The handlers implement SettlementBook *)

Bill == [t \in Txs |-> [member |-> tx[t].member, amount |-> tx[t].amount]]
Collected == {t \in Txs : invoice[t] \in {"paid", "refunded"}}
Settled == {t \in Txs : tx[t].status = "successful"}
Validated == {p \in Declared : payment[p].status = "validated"}
Booked == [m \in Members |-> account[m].paid]

LEMMA InitBook == Init => Book!Init
<1> SUFFICES ASSUME Init PROVE Book!Init
  OBVIOUS
<1>1. Bill = [t \in Txs |-> [member |-> "nobody", amount |-> 0]]
  BY DEF Init, Bill, NoTx
<1>2. Collected = {} /\ Settled = {}
  BY DEF Init, Collected, Settled, NoTx
<1>3. Booked = [m \in Members |-> 0] /\ Validated = {}
  BY LedgerAssumption DEF Init, LedgerInit, Booked, Validated, NoPayment
<1> QED BY <1>1, <1>2, <1>3 DEF Book!Init, Book!NoBill, Bill, Collected, Settled, Validated, Booked

\* A step maps to a step of the book or to a stutter.
LEMMA StepBook ==
  ASSUME CheckoutInv, Effect
  PROVE  [Book!Next]_(Book!bookVars)
<1> USE DEF Book!Next, Book!bookVars
<1>1. (Bill' = Bill /\ Settled' = Settled) \/ ~\A u \in Txs : Stays(u)
  BY DEF Bill, Settled, Stays
<1>2. Collected' = Collected \/ ~\A u \in Txs : InvoiceStays(u)
  BY DEF Collected, InvoiceStays, CollectedInvoice
<1>3. (Booked' = Booked /\ Validated' = Validated) \/ ~TotalsStay
  BY DEF Booked, Validated, TotalsStay, HandStays
<1>4. CASE BooksNothing
  BY <1>1, <1>2, <1>3, <1>4 DEF BooksNothing, Bill, Settled, Collected, Validated, Booked
<1>5. ASSUME NEW t \in Txs, OpensCheckout(t)
      PROVE  Book!Open(t)
  <2>1. Bill[t] = Book!NoBill
    BY <1>5 DEF OpensCheckout, NoTx, Bill, Book!NoBill
  <2>2. /\ tx'[t].member \in Members /\ tx'[t].amount \in 1..MaxAmount
        /\ Bill' = [Bill EXCEPT ![t] = [member |-> tx'[t].member, amount |-> tx'[t].amount]]
    BY <1>5 DEF OpensCheckout, Stays, Bill
  <2>3. Settled' = Settled
    BY <1>5 DEF OpensCheckout, Stays, Settled, NoTx
  <2>4. Collected' = Collected /\ Booked' = Booked /\ Validated' = Validated
    BY <1>2, <1>3, <1>5 DEF OpensCheckout
  <2> QED BY <2>1, <2>2, <2>3, <2>4 DEF Book!Open, Bill, Settled, Collected, Validated, Booked
<1>6. ASSUME NEW t \in Txs, CollectsCheckout(t)
      PROVE  Book!Collect(t)
  <2>1. Bill[t] # Book!NoBill
    <3>1. Bill[t].amount # Book!NoBill.amount
      BY <1>6 DEF CollectsCheckout, Bill, Book!NoBill
    <3> QED BY <3>1
  <2>2. t \notin Collected /\ Collected' = Collected \cup {t}
    BY <1>6 DEF CollectsCheckout, InvoiceStays, CollectedInvoice, Collected
  <2>3. Bill' = Bill /\ Settled' = Settled /\ Booked' = Booked /\ Validated' = Validated
    BY <1>1, <1>3, <1>6 DEF CollectsCheckout
  <2> QED BY <2>1, <2>2, <2>3 DEF Book!Collect, Bill, Settled, Collected, Validated, Booked
<1>7. ASSUME NEW t \in Txs, BooksCheckout(t)
      PROVE  Book!Settle(t)
  <2>1. t \in Collected \ Settled /\ Settled' = Settled \cup {t}
    BY <1>7 DEF BooksCheckout, Stays, CollectedInvoice, Collected, Settled
  <2>2. Bill' = Bill
    BY <1>7 DEF BooksCheckout, Stays, Bill
  <2>3. Collected' = Collected /\ Validated' = Validated
    BY <1>2, <1>7 DEF BooksCheckout, Validated, HandStays
  <2>4. Booked' = [Booked EXCEPT ![Bill[t].member] = @ + Bill[t].amount]
    BY <1>7 DEF BooksCheckout, Booked, Bill
  <2> QED BY <2>1, <2>2, <2>3, <2>4 DEF Book!Settle, Bill, Settled, Collected, Validated, Booked
<1>8. ASSUME NEW p \in Declared, NEW m \in Members, BooksByHand(p, m)
      PROVE  Book!BookByHand(p, m)
  <2>1. PICK amount \in 1..MaxAmount : \A n \in Members :
          account'[n].paid = IF n = m THEN account[n].paid + amount ELSE account[n].paid
    BY <1>8 DEF BooksByHand
  <2>2. Booked' = [Booked EXCEPT ![m] = @ + amount]
    BY <2>1 DEF Booked
  <2>3. Bill' = Bill /\ Settled' = Settled /\ Collected' = Collected
    BY <1>1, <1>2, <1>8 DEF BooksByHand
  <2>4. p \notin Validated /\ Validated' = Validated \cup {p}
    BY <1>8 DEF BooksByHand, Validated
  <2> QED BY <2>2, <2>3, <2>4 DEF Book!BookByHand, Bill, Settled, Collected, Validated, Booked
<1> QED BY <1>4, <1>5, <1>6, <1>7, <1>8 DEF Effect

\* Whatever is lost, late, repeated or reordered, the handlers book each
\* collected checkout at most once and for its bill.
THEOREM CheckoutKeepsTheBook == Spec => KeepsTheBook
<1>1. Init => Book!Init
  BY InitBook
<1>2. CheckoutInv /\ [Next]_vars => [Book!Next]_(Book!bookVars)
  BY StepEffect, StepBook
<1> QED BY <1>1, <1>2, CheckoutSafe, PTL DEF Spec, KeepsTheBook, Book!Spec

----------------------------------------------------------------------------
(* Where the money of a checkout goes *)

\* A checkout asks for fees of its own member.
OwnRow(row) == \A f \in ToSet(row.fees) : Owner[f] = row.member

OwnFees ==
  /\ \A t \in Txs : OwnRow(tx[t])
  /\ \A c \in Clients : request[c].op = "initiate" => OwnRow(request[c].row)

\* A transaction keeps its fees, or is the one its request now opens.
BillsStay ==
  \A u \in Txs :
    \/ /\ tx'[u].fees = tx[u].fees /\ tx'[u].member = tx[u].member
       /\ tx'[u].amount = tx[u].amount /\ tx'[u].payment = tx[u].payment
    \/ /\ tx'[u].payment = "none"
       /\ \E c \in Clients : /\ request[c].op = "initiate"
                             /\ tx'[u].fees = request[c].row.fees
                             /\ tx'[u].member = request[c].row.member

\* The checkout t is settled: a payment of its amount is spent on its fees.
Settles(t) ==
  \E p \in Payments, a \in Allocations(fee, tx[t].fees, tx[t].amount) :
    /\ tx[t].member \in Members
    /\ tx[t].payment = "none" /\ payment[p].status = "absent"
    /\ SumFunction(a) = tx[t].amount
    /\ Spends(p, tx[t].member, tx[t].fees, tx[t].amount, a)
    /\ tx' = [tx EXCEPT ![t].status = "successful", ![t].payment = p]
    /\ UNCHANGED cancelling

MovesNoMoney == UNCHANGED <<fee, account, payment, alloc, cancelling>> /\ BillsStay

LEMMA ConfirmSettles ==
  ASSUME CheckoutInv, NEW t \in Txs, NEW id \in {"none", "token", "reference"},
         tx[t].status # "absent", NEW d \in ConfirmOutcomes(Db, t, id), Commit(d),
         UNCHANGED cancelling
  PROVE  MovesNoMoney \/ Settles(t)
<1>1. CASE tx[t].payment # "none"
  BY <1>1 DEF Commit, ConfirmOutcomes, Db, MovesNoMoney, BillsStay
<1>2. CASE tx[t].payment = "none"
  <2>1. PICK p \in {q \in Payments \ Declared : payment[q].status = "absent"},
             a \in {b \in Allocations(fee, tx[t].fees, tx[t].amount) :
                      SumFunction(b) = tx[t].amount} :
               d = Confirmed(Db, t, id, p, a)
    BY <1>2 DEF ConfirmOutcomes, Db
  <2>2. /\ fee' = Allocated(fee, tx[t].fees, tx[t].amount, a)
        /\ account' = [account EXCEPT ![tx[t].member] =
                         Credited(@, tx[t].amount, tx[t].amount)]
        /\ payment' = [payment EXCEPT ![p] =
             [status |-> "validated", user |-> tx[t].member,
              amount |-> tx[t].amount]]
        /\ alloc' = [alloc EXCEPT ![p] = a]
        /\ tx' = [tx EXCEPT ![t].status = "successful", ![t].payment = p]
    BY <2>1 DEF Commit, Confirmed, Db
  <2>3. SumFunction(a) = tx[t].amount
    BY <2>1
  <2>4. Spends(p, tx[t].member, tx[t].fees, tx[t].amount, a)
    BY <2>2, <2>3 DEF Spends
  <2>5. tx[t].member \in Members
    BY DEF CheckoutInv, UncommittedRowsHidden, Billed
  <2>6. Settles(t)
    BY <1>2, <2>1, <2>2, <2>3, <2>4, <2>5 DEF Settles
  <2> QED BY <2>6
<1> QED BY <1>1, <1>2

LEMMA MarkedMovesNothing ==
  ASSUME CheckoutInv, NEW t \in Txs, NEW status \in Unsettled,
         NEW id \in {"none", "token", "reference"},
         Commit(Marked(Db, t, status, id)), UNCHANGED cancelling
  PROVE  MovesNoMoney
<1>1. /\ UNCHANGED tableVars
      /\ \/ tx' = tx
         \/ tx' = [tx EXCEPT ![t].status = status]
  BY MarkedStep DEF CheckoutInv
<1>2. CASE tx' = tx
  BY <1>1, <1>2 DEF MovesNoMoney, BillsStay, tableVars
<1>3. CASE tx' = [tx EXCEPT ![t].status = status]
  <2>1. tx \in [Txs -> TxRow]
    BY DEF CheckoutInv, TypeOK
  <2>2. \A u \in Txs : /\ tx'[u].fees = tx[u].fees /\ tx'[u].member = tx[u].member
                       /\ tx'[u].amount = tx[u].amount /\ tx'[u].payment = tx[u].payment
    BY <1>3, <2>1 DEF TxRow
  <2> QED BY <1>1, <2>2 DEF MovesNoMoney, BillsStay, tableVars
<1> QED BY <1>1, <1>2, <1>3

LEMMA ApplyAnswerSettles ==
  ASSUME CheckoutInv, NEW t \in Txs, NEW answer \in Answers,
         NEW id \in {"none", "token", "reference"}, invoice[t] # "none",
         ApplyAnswer(t, answer, id), UNCHANGED cancelling
  PROVE  MovesNoMoney \/ Settles(t)
<1>1. tx[t].status # "absent"
  BY DEF CheckoutInv, UncommittedRowsHidden
<1>2. PICK d \in Outcomes(Db, t, answer, id) : Commit(d)
  BY DEF ApplyAnswer
<1>3. CASE answer = "successful"
  BY <1>1, <1>2, <1>3, ConfirmSettles DEF Outcomes
<1>4. CASE answer # "successful"
  <2>1. answer \in Unsettled /\ d = Marked(Db, t, answer, id)
    BY <1>2, <1>4 DEF Outcomes, Answers
  <2> QED BY <1>1, <1>2, <2>1, MarkedMovesNothing
<1> QED BY <1>3, <1>4

\* A step is one of the ledger's own, settles a checkout, or moves no money.
LEMMA StepMoney ==
  ASSUME CheckoutInv, [Next]_vars
  PROVE  \/ LedgerNext /\ UNCHANGED mmVars
         \/ MovesNoMoney
         \/ \E t \in Txs : Settles(t)
<1>1. CASE UNCHANGED vars
  BY <1>1 DEF vars, MovesNoMoney, BillsStay
<1>2. CallbackIds \subseteq {"none", "token", "reference"}
  BY MobileMoneyAssumption
<1>3. ASSUME NEW t \in Txs, NEW answer \in Answers, NEW id \in CallbackIds,
             Callback(t, answer, id)
      PROVE  MovesNoMoney \/ Settles(t)
  <2>1. CASE JournalOnly(t, "duplicate_callback", id, TRUE)
    BY <1>3, <2>1 DEF Callback, JournalOnly, MovesNoMoney, BillsStay
  <2>2. CASE ApplyAnswer(t, answer, id)
    <3>1. invoice[t] # "none"
      BY <1>3 DEF Callback, CheckoutInv, HonestAnswers
    <3> QED BY <1>2, <1>3, <2>2, <3>1, ApplyAnswerSettles DEF Callback
  <2> QED BY <1>3, <2>1, <2>2 DEF Callback
<1>4. ASSUME NEW c \in Clients, RefreshApply(c)
      PROVE  MovesNoMoney \/ \E t \in Txs : Settles(t)
  <2> DEFINE t == request[c].tx
             answer == request[c].answer
  <2>1. /\ request[c].op = "apply"
        /\ ApplyAnswer(t, answer, "token")
        /\ UNCHANGED cancelling
    BY <1>4 DEF RefreshApply
  <2>2. t \in Txs /\ answer \in Answers
    BY <2>1 DEF CheckoutInv, TypeOK, Request, Idle
  <2>3. invoice[t] # "none"
    BY <2>1 DEF CheckoutInv, HonestAnswers
  <2> QED BY <2>1, <2>2, <2>3, ApplyAnswerSettles
<1>5. ASSUME NEW t \in Txs, RefreshExpired(t)
      PROVE  MovesNoMoney
  <2>1. "expired" \in Unsettled
    BY DEF Unsettled
  <2> QED BY <1>5, <2>1, MarkedMovesNothing DEF RefreshExpired
<1>6. ASSUME NEW t \in Txs, MemberPays(t) \/ InvoiceCloses(t) \/ ProviderRefunds(t)
      PROVE  MovesNoMoney
  BY <1>6 DEF MemberPays, InvoiceCloses, ProviderRefunds, ProviderStep, MovesNoMoney, BillsStay
<1>7. ASSUME NEW t \in Txs, Lapse(t)
      PROVE  MovesNoMoney
  BY <1>7 DEF Lapse, CheckoutInv, TypeOK, TxRow, MovesNoMoney, BillsStay
<1>8. ASSUME NEW c \in Clients, InitiateCommit(c) \/ InitiateFail(c)
      PROVE  MovesNoMoney
  <2> DEFINE t == request[c].tx
             row == request[c].row
  <2>1. request[c].op = "initiate"
    BY <1>8 DEF InitiateCommit, InitiateFail
  <2>2. t \in Txs /\ row \in TxRow /\ row.payment = "none"
    BY <2>1 DEF CheckoutInv, TypeOK, Request, Idle, UncommittedRowsHidden
  <2>3. tx' = [tx EXCEPT ![t] = row] \/ tx' = [tx EXCEPT ![t] = [row EXCEPT !.status = "failed"]]
    BY <1>8 DEF InitiateCommit, InitiateFail
  <2>4. tx \in [Txs -> TxRow]
    BY DEF CheckoutInv, TypeOK
  <2>5. /\ tx'[t].payment = "none" /\ tx'[t].fees = row.fees /\ tx'[t].member = row.member
        /\ \A u \in Txs : u # t => tx'[u] = tx[u]
    <3> HIDE DEF t, row
    <3> QED BY <2>2, <2>3, <2>4 DEF TxRow
  <2>6. UNCHANGED <<fee, account, payment, alloc, cancelling>>
    BY <1>8 DEF InitiateCommit, InitiateFail
  <2> QED BY <2>1, <2>5, <2>6 DEF MovesNoMoney, BillsStay
<1>9. ASSUME \/ \E c \in Clients, m \in Members, channel \in Channels :
                  InitiateInsert(c, m, channel)
             \/ \E c \in Clients, t \in Txs : RefreshStart(c, t)
             \/ \E c \in Clients : RefreshAnswered(c) \/ RequestLost(c)
             \/ \E t \in Txs, id \in CallbackIds : CallbackMismatch(t, id)
      PROVE  MovesNoMoney
  <2>1. UNCHANGED <<fee, account, payment, alloc, cancelling, tx>>
    BY <1>9 DEF InitiateInsert, RefreshStart, RefreshAnswered, RequestLost,
          CallbackMismatch, JournalOnly
  <2> QED BY <2>1 DEF MovesNoMoney, BillsStay
<1> QED BY <1>1, <1>3, <1>4, <1>5, <1>6, <1>7, <1>8, <1>9 DEF Next, CheckoutNext

LEMMA SettlesKeepsBills ==
  ASSUME CheckoutInv, NEW t \in Txs, Settles(t)
  PROVE  \A u \in Txs :
           /\ tx'[u].fees = tx[u].fees /\ tx'[u].member = tx[u].member
           /\ tx'[u].amount = tx[u].amount
           /\ u # t => tx'[u] = tx[u]
<1>1. tx \in [Txs -> TxRow]
  BY DEF CheckoutInv, TypeOK
<1>2. PICK p \in Payments :
        tx' = [tx EXCEPT ![t].status = "successful", ![t].payment = p]
  BY DEF Settles
<1>3. tx' = [tx EXCEPT ![t] = [[tx[t] EXCEPT !.status = "successful"] EXCEPT !.payment = p]]
  BY <1>1, <1>2
<1> QED BY <1>1, <1>3 DEF TxRow

\* The request of c, once initiate has inserted a checkout of m for the fees S.
InsertsFor(c, m, channel, S) ==
  \E order \in SetToSeqs(S), amount \in 1..MaxAmount, t \in Txs :
    request' = [request EXCEPT ![c] =
      [op |-> "initiate", tx |-> t,
       row |-> [status |-> "pending", member |-> m, fees |-> order,
                amount |-> amount, channel |-> channel,
                payment |-> "none", lapsed |-> FALSE]]]

LEMMA InsertedRow ==
  ASSUME NEW c, NEW m, NEW channel, InitiateInsert(c, m, channel)
  PROVE  \E S \in SUBSET {f \in Fees : Owner[f] = m
                            /\ fee[f].status \in {"unpaid", "partial"}} :
           InsertsFor(c, m, channel, S)
BY ZenonT(60) DEF InitiateInsert, InsertsFor

LEMMA RequestRows ==
  ASSUME CheckoutInv, OwnFees, [Next]_vars, NEW c \in Clients, request'[c].op = "initiate"
  PROVE  OwnRow(request'[c].row)
<1> USE DEF CheckoutInv, TypeOK
<1>1. CASE request'[c] = request[c]
  BY <1>1 DEF OwnFees
<1>2. ASSUME NEW k \in Clients, NEW m \in Members, NEW channel \in Channels,
             InitiateInsert(k, m, channel), request'[c] # request[c]
      PROVE  OwnRow(request'[c].row)
  <2>1. PICK S \in SUBSET {f \in Fees : Owner[f] = m
                             /\ fee[f].status \in {"unpaid", "partial"}} :
          InsertsFor(k, m, channel, S)
    BY <1>2, InsertedRow
  <2>2. PICK order \in SetToSeqs(S), amount \in 1..MaxAmount, t \in Txs :
          request' = [request EXCEPT ![k] =
            [op |-> "initiate", tx |-> t,
             row |-> [status |-> "pending", member |-> m, fees |-> order,
                      amount |-> amount, channel |-> channel,
                      payment |-> "none", lapsed |-> FALSE]]]
    BY <2>1 DEF InsertsFor
  <2>3. request'[c].row.fees = order /\ request'[c].row.member = m
    BY <1>2, <2>2
  <2>4. \A f \in ToSet(order) : f \in S
    <3>1. IsFiniteSet(S)
      BY <2>1, LedgerAssumption, FS_Subset
    <3>2. Cardinality(S) \in Nat
      BY <3>1, FS_CardinalityType
    <3> QED BY <2>2, <3>2 DEF SetToSeqs, ToSet
  <2> QED BY <2>1, <2>3, <2>4 DEF OwnRow
<1>3. ASSUME NEW k \in Clients,
             \/ \E t \in Txs : RefreshStart(k, t)
             \/ InitiateCommit(k) \/ InitiateFail(k) \/ RefreshAnswered(k)
             \/ RefreshApply(k) \/ RequestLost(k)
      PROVE  request'[c] = request[c]
  <2>1. PICK next : request' = [request EXCEPT ![k] = next] /\ next.op # "initiate"
    BY <1>3 DEF RefreshStart, InitiateCommit, InitiateFail, RefreshAnswered, RefreshApply,
               RequestLost, Idle
  <2> QED BY <2>1
<1>4. ASSUME \/ \E t \in Txs : \/ MemberPays(t) \/ InvoiceCloses(t) \/ ProviderRefunds(t)
                               \/ Lapse(t) \/ RefreshExpired(t)
             \/ \E t \in Txs, answer \in Answers, id \in CallbackIds : Callback(t, answer, id)
             \/ \E t \in Txs, id \in CallbackIds : CallbackMismatch(t, id)
             \/ UNCHANGED mmVars \/ UNCHANGED vars
      PROVE  request' = request
  BY <1>4 DEF MemberPays, InvoiceCloses, ProviderRefunds, ProviderStep, Lapse, RefreshExpired,
             Callback, CallbackMismatch, mmVars, vars
<1> QED BY <1>1, <1>2, <1>3, <1>4 DEF Next, CheckoutNext

LEMMA OwnFeesNext ==
  ASSUME CheckoutInv, OwnFees, [Next]_vars
  PROVE  OwnFees'
<1>1. ASSUME NEW u \in Txs PROVE OwnRow(tx'[u])
  <2>1. CASE LedgerNext /\ UNCHANGED mmVars
    BY <2>1 DEF mmVars, OwnFees
  <2>2. CASE MovesNoMoney
    BY <2>2 DEF MovesNoMoney, BillsStay, OwnFees, OwnRow
  <2>3. CASE \E t \in Txs : Settles(t)
    <3>1. tx'[u].fees = tx[u].fees /\ tx'[u].member = tx[u].member
      BY <2>3, SettlesKeepsBills
    <3> QED BY <3>1 DEF OwnFees, OwnRow
  <2> QED BY <2>1, <2>2, <2>3, StepMoney
<1>2. \A c \in Clients : request'[c].op = "initiate" => OwnRow(request'[c].row)
  BY RequestRows
<1> QED BY <1>1, <1>2 DEF OwnFees, OwnRow

\* What CheckoutInv says of the ledger.
LEMMA CheckoutLedger ==
  ASSUME CheckoutInv
  PROVE  /\ LedgerInv
         /\ \A t \in Txs : /\ tx[t].fees \in Seq(Fees) /\ tx[t].amount \in Cash
                           /\ tx[t].payment # "none" =>
                                /\ tx[t].payment \in Payments
                                /\ payment[tx[t].payment].status = "validated"
BY DEF CheckoutInv, TypeOK, TxRow, SettledOnce, LedgerInv

LEMMA CheckoutLedgerNext ==
  ASSUME CheckoutInv' PROVE LedgerInv'
BY DEF CheckoutInv, TypeOK, LedgerInv

LEMMA SpentNext ==
  ASSUME CheckoutInv, SpentOnSelectedFees, [Next]_vars
  PROVE  SpentOnSelectedFees'
<1> DEFINE Spent(u) ==
      tx'[u].payment # "none" =>
        /\ SumFunction(alloc'[tx'[u].payment]) = tx'[u].amount
        /\ \A f \in Fees : alloc'[tx'[u].payment][f] > 0 => f \in ToSet(tx'[u].fees)
<1> SUFFICES ASSUME NEW u \in Txs PROVE Spent(u)
  BY DEF SpentOnSelectedFees
<1>1. CASE LedgerNext /\ UNCHANGED mmVars
  <2>1. tx'[u] = tx[u]
    BY <1>1 DEF mmVars
  <2>2. tx[u].payment # "none" => alloc'[tx[u].payment] = alloc[tx[u].payment]
    BY <1>1, CheckoutLedger, ValidatedKept
  <2> QED BY <2>1, <2>2 DEF SpentOnSelectedFees
<1>2. CASE MovesNoMoney
  BY <1>2 DEF MovesNoMoney, BillsStay, SpentOnSelectedFees
<1>3. ASSUME NEW t \in Txs, Settles(t)
      PROVE  Spent(u)
  <2>1. PICK p \in Payments, a \in Allocations(fee, tx[t].fees, tx[t].amount) :
          /\ payment[p].status = "absent" /\ SumFunction(a) = tx[t].amount
          /\ alloc' = [alloc EXCEPT ![p] = a]
          /\ tx' = [tx EXCEPT ![t].status = "successful", ![t].payment = p]
    BY <1>3 DEF Settles, Spends
  <2>2. /\ tx'[u].fees = tx[u].fees /\ tx'[u].amount = tx[u].amount
        /\ u # t => tx'[u] = tx[u]
    BY <1>3, SettlesKeepsBills
  <2>3. tx \in [Txs -> TxRow] /\ alloc \in [Payments -> [Fees -> Nat]]
    BY DEF CheckoutInv, TypeOK, LedgerTypeOK, RowsTypeOK
  <2>4. CASE u = t
    <3>1. tx'[u].payment = p /\ alloc'[p] = a
      BY <2>1, <2>3, <2>4 DEF TxRow
    <3>2. \A f \in Fees : a[f] > 0 => f \in ToSet(tx[t].fees)
      BY DEF Allocations, IsAllocation
    <3> QED BY <2>1, <2>2, <2>4, <3>1, <3>2
  <2>5. CASE u # t
    <3>1. tx[u].payment # "none" => tx[u].payment # p
      BY <2>1, CheckoutLedger
    <3>2. tx[u].payment # "none" => alloc'[tx[u].payment] = alloc[tx[u].payment]
      BY <2>1, <2>3, <3>1, CheckoutLedger
    <3> QED BY <2>2, <2>5, <3>2 DEF SpentOnSelectedFees
  <2> QED BY <2>4, <2>5
<1> QED BY <1>1, <1>2, <1>3, StepMoney

\* A settlement, as the ledger sees it.
LEMMA SettlesSpends ==
  ASSUME CheckoutInv, NEW t \in Txs, Settles(t)
  PROVE  \E p \in Payments, a \in Allocations(fee, tx[t].fees, tx[t].amount) :
           /\ payment[p].status # "validated"
           /\ tx[t].fees \in Seq(Fees) /\ tx[t].amount \in Cash /\ tx[t].amount \in Nat
           /\ Spends(p, tx[t].member, tx[t].fees, tx[t].amount, a)
           /\ UNCHANGED cancelling
<1>1. PICK p \in Payments, a \in Allocations(fee, tx[t].fees, tx[t].amount) :
        /\ payment[p].status = "absent" /\ UNCHANGED cancelling
        /\ Spends(p, tx[t].member, tx[t].fees, tx[t].amount, a)
  BY DEF Settles
<1>2. tx[t].fees \in Seq(Fees) /\ tx[t].amount \in Cash /\ Cash \subseteq Nat
  BY CheckoutLedger, LedgerAssumption DEF Cash
<1> QED BY <1>1, <1>2

LEMMA CheckoutBooksNext ==
  ASSUME CheckoutInv, BooksInv, [Next]_vars
  PROVE  BooksInv'
<1>1. LedgerInv
  BY CheckoutLedger
<1>2. CASE LedgerNext /\ UNCHANGED mmVars
  BY <1>1, <1>2, LedgerNextBooks
<1>3. CASE MovesNoMoney
  <2>1. UNCHANGED <<fee, account, payment, alloc>>
    BY <1>3 DEF MovesNoMoney
  <2>2. AbsentUnpaid'
    BY <2>1 DEF BooksInv, AbsentUnpaid
  <2> QED BY <1>1, <2>1, <2>2, StillBooks
<1>4. ASSUME NEW t \in Txs, Settles(t)
      PROVE  BooksInv'
  <2>1. PICK p \in Payments, a \in Allocations(fee, tx[t].fees, tx[t].amount) :
          /\ payment[p].status # "validated"
          /\ tx[t].fees \in Seq(Fees) /\ tx[t].amount \in Cash
          /\ Spends(p, tx[t].member, tx[t].fees, tx[t].amount, a)
    BY <1>4, SettlesSpends
  <2> QED BY <1>1, <2>1, SpendsBooks
<1> QED BY <1>2, <1>3, <1>4, StepMoney

LEMMA SettlesRows ==
  ASSUME CheckoutInv, NEW t \in Txs, Settles(t)
  PROVE  RowsOnlyPaid /\ NotDearer
<1>1. PICK p \in Payments, a \in Allocations(fee, tx[t].fees, tx[t].amount) :
        /\ tx[t].fees \in Seq(Fees) /\ tx[t].amount \in Nat
        /\ fee' = Allocated(fee, tx[t].fees, tx[t].amount, a)
  BY SettlesSpends DEF Spends
<1>2. /\ fee \in [Fees -> FeeRow] /\ \A f \in Fees : fee[f].paid <= fee[f].amount
      /\ \A f \in Fees : fee[f].paid \in Nat /\ fee[f].amount \in Nat
  BY CheckoutLedger, LedgerAssumption
  DEF LedgerInv, LedgerTypeOK, RowsTypeOK, FeesNotOverpaid, FeeRow, Cash
<1> DEFINE order == tx[t].fees
           amount == tx[t].amount
<1> HIDE DEF order, amount
<1>3. order \in Seq(Fees) /\ amount \in Nat /\ a \in Allocations(fee, order, amount)
      /\ fee' = Allocated(fee, order, amount, a)
  BY <1>1 DEF order, amount
<1>4. \A f \in Fees :
        /\ a[f] \in Nat
        /\ Allocated(fee, order, amount, a)[f].amount = fee[f].amount
        /\ Allocated(fee, order, amount, a)[f].paid = fee[f].paid + a[f]
        /\ \/ Allocated(fee, order, amount, a)[f] = fee[f] /\ a[f] = 0
           \/ /\ f \in ToSet(order)
              /\ Allocated(fee, order, amount, a)[f].status \in {"unpaid", "partial", "paid"}
  BY <1>2, <1>3, SpentRows
<1>5. ASSUME NEW f \in Fees, fee[f].status # "absent"
      PROVE  fee'[f].status # "absent" /\ fee[f].paid <= fee'[f].paid
  BY <1>2, <1>3, <1>4, <1>5
<1>6. ASSUME NEW c \in Clerks, cancelling[c] # Idle
      PROVE  fee'[cancelling[c].fee].amount <= fee[cancelling[c].fee].amount
  <2>1. cancelling[c].fee \in Fees
    BY <1>6, CheckoutLedger DEF LedgerInv, LedgerTypeOK, CancelRequest
  <2> QED BY <1>2, <1>3, <1>4, <2>1
<1> QED BY <1>5, <1>6 DEF RowsOnlyPaid, NotDearer

LEMMA CheckoutEnoughNext ==
  ASSUME CheckoutInv, CheckoutInv', BooksInv, CancellingEnough, [Next]_vars, NotDearer
  PROVE  CancellingEnough'
<1>1. LedgerInv /\ LedgerInv'
  BY CheckoutLedger, CheckoutLedgerNext
<1>2. CASE LedgerNext /\ UNCHANGED mmVars
  BY <1>1, <1>2, LedgerNextEnough
<1>3. CASE MovesNoMoney
  BY <1>3 DEF MovesNoMoney, CancellingEnough
<1>4. ASSUME NEW t \in Txs, Settles(t)
      PROVE  CancellingEnough'
  <2>1. RowsOnlyPaid /\ NotDearer /\ UNCHANGED cancelling
    BY <1>4, SettlesRows DEF Settles
  <2> QED BY <1>1, <2>1, StillEnough
<1> QED BY <1>2, <1>3, <1>4, StepMoney

LEMMA CheckoutTrails ==
  ASSUME CheckoutInv, CheckoutInv', OwnFees, CancellingEnough, [Next]_vars
  PROVE  Trails
<1>1. LedgerInv /\ LedgerInv'
  BY CheckoutLedger, CheckoutLedgerNext
<1>2. CASE LedgerNext /\ UNCHANGED mmVars
  BY <1>1, <1>2, LedgerNextTrails
<1>3. CASE MovesNoMoney
  BY <1>1, <1>3, StillFollows, FollowsTrails DEF MovesNoMoney
<1>4. ASSUME NEW t \in Txs, Settles(t)
      PROVE  Trails
  <2>1. PICK p \in Payments, a \in Allocations(fee, tx[t].fees, tx[t].amount) :
          /\ tx[t].fees \in Seq(Fees) /\ tx[t].amount \in Cash
          /\ Spends(p, tx[t].member, tx[t].fees, tx[t].amount, a)
    BY <1>4, SettlesSpends
  <2>2. \A f \in ToSet(tx[t].fees) : Owner[f] = tx[t].member
    BY DEF OwnFees, OwnRow
  <2> QED BY <1>1, <2>1, <2>2, SpendsTrails
<1> QED BY <1>2, <1>3, <1>4, StepMoney

LEMMA CheckoutInitMoney ==
  Init => /\ BooksInv /\ OwnFees /\ SpentOnSelectedFees /\ CancellingEnough /\ NeverOverbilled
<1> SUFFICES ASSUME Init
             PROVE  /\ BooksInv /\ OwnFees /\ SpentOnSelectedFees /\ CancellingEnough
                    /\ NeverOverbilled
  OBVIOUS
<1>1. BooksInv
  BY LedgerInitBooks DEF Init
<1>2. OwnFees
  BY DEF Init, OwnFees, OwnRow, NoTx, Idle, ToSet
<1>3. SpentOnSelectedFees
  BY DEF Init, SpentOnSelectedFees, NoTx
<1>4. CancellingEnough
  BY DEF Init, LedgerInit, CancellingEnough
<1>5. NeverOverbilled
  <2>1. LedgerInv /\ BalanceIsOutstanding
    BY LedgerInitInv, LedgerInitBalance DEF Init
  <2> QED BY <2>1, OutstandingType DEF NeverOverbilled, BalanceIsOutstanding
<1> QED BY <1>1, <1>2, <1>3, <1>4, <1>5

\* The payment of a checkout is spent in full on the fees the member selected.
THEOREM CheckoutSpent == Spec => []SpentOnSelectedFees
<1>1. Init => SpentOnSelectedFees
  BY CheckoutInitMoney
<1>2. CheckoutInv /\ SpentOnSelectedFees /\ [Next]_vars => SpentOnSelectedFees'
  BY SpentNext
<1> QED BY <1>1, <1>2, CheckoutSafe, PTL DEF Spec

\* The books balance with the checkouts, callbacks and polls in play: what fees
\* were paid is what payments handed out, none more than it brought.
THEOREM CheckoutBalances == Spec => []AllocationsBalance
<1>1. Init => BooksInv
  BY CheckoutInitMoney
<1>2. CheckoutInv /\ BooksInv /\ [Next]_vars => BooksInv'
  BY CheckoutBooksNext
<1>3. BooksInv => AllocationsBalance
  BY DEF BooksInv
<1> QED BY <1>1, <1>2, <1>3, CheckoutSafe, PTL DEF Spec

\* A member's total is the sum of the validated payments, checkouts included.
THEOREM CheckoutTotals == Spec => []TotalPaidIsValidated
<1>1. Init => BooksInv
  BY CheckoutInitMoney
<1>2. CheckoutInv /\ BooksInv /\ [Next]_vars => BooksInv'
  BY CheckoutBooksNext
<1>3. BooksInv => TotalPaidIsValidated
  BY DEF BooksInv
<1> QED BY <1>1, <1>2, <1>3, CheckoutSafe, PTL DEF Spec

\* No penalty is revised upwards while a cancel_fee request holds its old amount.
RevisedApart == [][NotDearer]_vars

\* No balance ever exceeds what the member's open fees owe, with penalties created,
\* revised and removed: neither the stale read of cancel_fee, nor its second
\* cancellation of one fee, nor a checkout confirmed meanwhile bills a member too
\* much, as long as no penalty is made dearer between the read and the commit of
\* its own cancellation.
THEOREM CheckoutNeverOverbills == Spec /\ RevisedApart => []NeverOverbilled
<1> DEFINE MoneyInv == BooksInv /\ OwnFees /\ CancellingEnough /\ NeverOverbilled
<1>1. Init => MoneyInv
  BY CheckoutInitMoney
<1>2. CheckoutInv /\ CheckoutInv' /\ MoneyInv /\ [Next]_vars /\ [NotDearer]_vars => MoneyInv'
  <2> SUFFICES ASSUME CheckoutInv, CheckoutInv', MoneyInv, [Next]_vars, [NotDearer]_vars
               PROVE  MoneyInv'
    OBVIOUS
  <2>1. NotDearer
    <3>1. CASE UNCHANGED vars
      <4>1. \A c \in Clerks : cancelling[c] # Idle => fee[cancelling[c].fee].amount \in Nat
        BY CheckoutLedger, LedgerAssumption
        DEF LedgerInv, LedgerTypeOK, RowsTypeOK, CancelRequest, FeeRow, Cash
      <4> QED BY <3>1, <4>1 DEF vars, NotDearer
    <3> QED BY <3>1
  <2>2. BooksInv' /\ OwnFees'
    BY CheckoutBooksNext, OwnFeesNext
  <2>3. CancellingEnough'
    BY <2>1, CheckoutEnoughNext
  <2>4. NeverOverbilled'
    <3>1. Trails /\ LedgerInv /\ LedgerInv'
      BY CheckoutTrails, CheckoutLedger, CheckoutLedgerNext
    <3> QED BY <3>1, TrailsBalance
  <2> QED BY <2>2, <2>3, <2>4
<1>3. MoneyInv => NeverOverbilled
  OBVIOUS
<1> HIDE DEF MoneyInv
<1> QED BY <1>1, <1>2, <1>3, CheckoutSafe, PTL DEF Spec, RevisedApart
============================================================================
