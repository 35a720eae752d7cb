---------------------------- MODULE MobileMoney ----------------------------
(***************************************************************************)
(* Mobile-money checkouts: mobile_money_transactions and their event       *)
(* journal, the invoices the provider (PayDunya) keeps, and the handlers   *)
(* that settle a checkout into the ledger: initiate and refresh            *)
(* (api/routes/finance.py), the provider's callback (api/routes/           *)
(* payments.py) and the service they share (services/                      *)
(* mobile_money_service.py).                                               *)
(*                                                                         *)
(* initiate and refresh await the provider between two pieces of database  *)
(* work, so each is several actions that meet every other handler in       *)
(* between; a request can also die there with its process.  What a handler *)
(* does after it has locked its transaction row, up to its commit, is one  *)
(* step from one state of the tables to the next (ApplyAnswer).            *)
(***************************************************************************)
EXTENDS FinanceLedger

CONSTANTS
  Txs,          \* identities of the transactions, in the order of created_at
  Clients,      \* concurrent initiate and refresh requests
  Channels,     \* channels a checkout can be opened on
  CallbackIds,  \* event ids a callback carries: "token" when it has none
  MayLapse      \* the transactions whose expires_at may pass during a run

ASSUME MobileMoneyAssumption ==
  /\ Txs \subseteq Nat
  /\ MayLapse \subseteq Txs
  /\ "none" \notin Payments
  /\ CallbackIds \subseteq {"token", "reference"}

VARIABLES
  tx,           \* mobile_money_transactions rows
  journal,      \* mobile_money_transaction_events rows of each transaction
  invoice,      \* what the provider holds for each transaction
  callbacks,    \* the callbacks the provider has issued; each may be
                \* delivered late, in any order, again, or never
  request       \* the initiate and refresh requests awaiting the provider

mmVars == <<tx, journal, invoice, callbacks, request>>
vars == <<fee, account, payment, alloc, income, cancelling,
          tx, journal, invoice, callbacks, request>>

----------------------------------------------------------------------------
(* Rows *)

Unsettled == {"pending", "failed", "cancelled", "expired", "refunded"}
Answers == Unsettled \cup {"successful"}
ActiveStatuses == {"created", "pending", "processing"}

TxRow ==
  [status : Answers \cup {"absent"}, member : Members \cup {"nobody"},
   fees : Seq(Fees), amount : Cash, channel : Channels \cup {"none"},
   payment : Payments \cup {"none"}, lapsed : BOOLEAN]

NoTx ==
  [status |-> "absent", member |-> "nobody", fees |-> <<>>, amount |-> 0,
   channel |-> "none", payment |-> "none", lapsed |-> FALSE]

EventTypes ==
  {"created", "provider_created", "provider_error", "provider_status", "confirmed",
   "duplicate_callback", "amount_mismatch"}
Event == [type : EventTypes, id : {"none", "token", "reference"}, dup : BOOLEAN]

Invoices == {"none", "open", "paid", "failed", "cancelled", "expired", "refunded"}

Request == {Idle}
  \cup [op : {"initiate"}, tx : Txs, row : TxRow]
  \cup [op : {"poll"}, tx : Txs]
  \cup [op : {"apply"}, tx : Txs, answer : Answers]

TypeOK ==
  /\ LedgerTypeOK
  /\ tx \in [Txs -> TxRow]
  /\ journal \in [Txs -> SUBSET Event]
  /\ invoice \in [Txs -> Invoices]
  /\ callbacks \subseteq (Txs \X Answers)
  /\ request \in [Clients -> Request]

Init ==
  /\ LedgerInit
  /\ tx = [t \in Txs |-> NoTx]
  /\ journal = [t \in Txs |-> {}]
  /\ invoice = [t \in Txs |-> "none"]
  /\ callbacks = {}
  /\ request = [c \in Clients |-> Idle]

----------------------------------------------------------------------------
(* One database transaction: the tables before it and after it *)

Db == [fee |-> fee, account |-> account, payment |-> payment, alloc |-> alloc,
       income |-> income, tx |-> tx, journal |-> journal]

Commit(d) ==
  /\ fee' = d.fee
  /\ account' = d.account
  /\ payment' = d.payment
  /\ alloc' = d.alloc
  /\ income' = d.income
  /\ tx' = d.tx
  /\ journal' = d.journal

\* create_event: an event id the transaction has already journaled adds no row,
\* it flags the row that is there as a duplicate.
Journaled(events, type, id, dup) ==
  IF id # "none" /\ \E e \in events : e.id = id
    THEN {IF e.id = id THEN [e EXCEPT !.dup = TRUE] ELSE e : e \in events}
    ELSE events \cup {[type |-> type, id |-> id, dup |-> dup]}

\* The journal of a checkout whose initiation ends with an event of this type.
Initiated(type) ==
  {[type |-> "created", id |-> "none", dup |-> FALSE],
   [type |-> type, id |-> "none", dup |-> FALSE]}

\* Mutant: a late answer overwrites a success.
MarkedAnyway(d, t, status, id) ==
  [d EXCEPT !.tx[t].status = status,
            !.journal[t] = Journaled(@, "provider_status", id, FALSE)]

\* mark_not_successful under the row lock.
Marked(d, t, status, id) ==
  IF d.tx[t].status = "successful" THEN d
  ELSE [d EXCEPT !.tx[t].status = status,
                 !.journal[t] = Journaled(@, "provider_status", id, FALSE)]

\* confirm_transaction under the row lock, once p is the new payments row and
\* `a` the allocation of the whole amount to the selected fees.
Confirmed(d, t, id, p, a) ==
  LET m      == d.tx[t].member
      order  == d.tx[t].fees
      amount == d.tx[t].amount
  IN [fee     |-> Allocated(d.fee, order, amount, a),
      account |-> [d.account EXCEPT ![m] = Credited(@, amount, amount)],
      payment |-> [d.payment EXCEPT ![p] =
                     [status |-> "validated", user |-> m, amount |-> amount]],
      alloc   |-> [d.alloc EXCEPT ![p] = a],
      income  |-> [d.income EXCEPT ![p] = amount],
      tx      |-> [d.tx EXCEPT ![t].status = "successful", ![t].payment = p],
      journal |-> [d.journal EXCEPT ![t] = Journaled(@, "confirmed", id, FALSE)]]

\* Mutant: neither the payment the transaction already has nor the amount the
\* fees took is looked at.
ConfirmUnchecked(d, t, id) ==
  {Confirmed(d, t, id, p, a) :
     p \in {q \in Payments \ Declared : d.payment[q].status = "absent"},
     a \in Allocations(d.fee, d.tx[t].fees, d.tx[t].amount)}

\* The states confirm_transaction can commit: none when the fees no longer take
\* the whole amount, for then it raises and its session is rolled back.
ConfirmOutcomes(d, t, id) ==
  IF d.tx[t].payment # "none" THEN {d}
  ELSE {Confirmed(d, t, id, p, a) :
          p \in {q \in Payments \ Declared : d.payment[q].status = "absent"},
          a \in {b \in Allocations(d.fee, d.tx[t].fees, d.tx[t].amount) :
                   SumFunction(b) = d.tx[t].amount}}

Outcomes(d, t, answer, id) ==
  IF answer = "successful" THEN ConfirmOutcomes(d, t, id)
                           ELSE {Marked(d, t, answer, id)}

ApplyAnswer(t, answer, id) ==
  \E d \in Outcomes(Db, t, answer, id) : Commit(d)

----------------------------------------------------------------------------
(* initiate *)

Reserved == {request[c].tx : c \in {k \in Clients : request[k].op = "initiate"}}

\* What idempotency_key is computed from (one five-minute window).
Key(row) == <<row.member, ToSet(row.fees), row.amount, row.channel>>

\* Two rows the reuse check takes for the same checkout: the channel is not
\* compared.
SameCheckout(r, s) ==
  /\ r.member = s.member
  /\ r.amount = s.amount
  /\ ToSet(r.fees) = ToSet(s.fees)

Reusable(row) == row.status \in ActiveStatuses /\ ~row.lapsed

\* The fees are read without a lock, no live checkout for them is found, and
\* the row is inserted; nobody sees it before the provider has answered.  An
\* insert whose key another request holds waits for it and returns its row.
InitiateInsert(c, m, channel) ==
  /\ request[c] = Idle
  /\ \E S \in SUBSET {f \in Fees : Owner[f] = m
                        /\ fee[f].status \in {"unpaid", "partial"}} :
     \E order \in SetToSeqs(S), amount \in 1..MaxAmount,
        t \in {u \in Txs : tx[u].status = "absent" /\ u \notin Reserved} :
       LET row == [status |-> "pending", member |-> m, fees |-> order,
                   amount |-> amount, channel |-> channel,
                   payment |-> "none", lapsed |-> FALSE]
       IN /\ amount = SumFunctionOnSet([f \in Fees |-> Remaining(fee[f])], S)
          /\ \A u \in Txs : u < t => tx[u].status # "absent" \/ u \in Reserved
          /\ ~\E u \in Txs : Reusable(tx[u]) /\ SameCheckout(tx[u], row)
          /\ ~\E k \in Clients : request[k].op = "initiate"
                                  /\ Key(request[k].row) = Key(row)
          /\ request' = [request EXCEPT ![c] =
                           [op |-> "initiate", tx |-> t, row |-> row]]
  /\ UNCHANGED <<fee, account, payment, alloc, income, cancelling,
                 tx, journal, invoice, callbacks>>

\* The provider opened an invoice: the row is committed as pending.
InitiateCommit(c) ==
  /\ request[c].op = "initiate"
  /\ LET t == request[c].tx IN
       /\ tx' = [tx EXCEPT ![t] = request[c].row]
       /\ journal' = [journal EXCEPT ![t] = Initiated("provider_created")]
       /\ invoice' = [invoice EXCEPT ![t] = "open"]
  /\ request' = [request EXCEPT ![c] = Idle]
  /\ UNCHANGED <<fee, account, payment, alloc, income, cancelling, callbacks>>

\* The provider refused or could not be reached: committed as failed.
InitiateFail(c) ==
  /\ request[c].op = "initiate"
  /\ LET t == request[c].tx IN
       /\ tx' = [tx EXCEPT ![t] = [request[c].row EXCEPT !.status = "failed"]]
       /\ journal' = [journal EXCEPT ![t] = Initiated("provider_error")]
  /\ request' = [request EXCEPT ![c] = Idle]
  /\ UNCHANGED <<fee, account, payment, alloc, income, cancelling,
                 invoice, callbacks>>

----------------------------------------------------------------------------
(* The provider *)

\* Mutant: an invoice that is still open passes for paid.
AnswerOptimistic(t) ==
  IF invoice[t] \in {"open", "paid"} THEN "successful" ELSE invoice[t]

\* Mutant: the provider's word is taken over untranslated.
AnswerRaw(t) == invoice[t]

Answer(t) ==
  CASE invoice[t] = "open" -> "pending"
    [] invoice[t] = "paid" -> "successful"
    [] OTHER -> invoice[t]

ProviderStep(t, status, answer) ==
  /\ invoice' = [invoice EXCEPT ![t] = status]
  /\ callbacks' = callbacks \cup {<<t, answer>>}
  /\ UNCHANGED <<fee, account, payment, alloc, income, cancelling,
                 tx, journal, request>>

MemberPays(t) == invoice[t] = "open" /\ ProviderStep(t, "paid", "successful")

InvoiceCloses(t) ==
  /\ invoice[t] = "open"
  /\ \E status \in {"failed", "cancelled"} : ProviderStep(t, status, status)

ProviderRefunds(t) ==
  invoice[t] = "paid" /\ ProviderStep(t, "refunded", "refunded")

\* expires_at passes.
Lapse(t) ==
  /\ t \in MayLapse
  /\ invoice[t] # "none" /\ ~tx[t].lapsed
  /\ tx' = [tx EXCEPT ![t].lapsed = TRUE]
  /\ UNCHANGED <<fee, account, payment, alloc, income, cancelling,
                 journal, invoice, callbacks, request>>

----------------------------------------------------------------------------
(* The callback of the provider *)

JournalOnly(t, type, id, dup) ==
  /\ journal' = [journal EXCEPT ![t] = Journaled(@, type, id, dup)]
  /\ UNCHANGED <<fee, account, payment, alloc, income, tx>>

Callback(t, answer, id) ==
  /\ <<t, answer>> \in callbacks
  /\ IF tx[t].status = "successful" /\ tx[t].payment # "none"
       THEN JournalOnly(t, "duplicate_callback", id, TRUE)
       ELSE ApplyAnswer(t, answer, id)
  /\ UNCHANGED <<cancelling, invoice, callbacks, request>>

\* A callback whose amount is not the transaction's is journaled and refused
\* (so is one in another currency, under its own event type).
CallbackMismatch(t, id) ==
  /\ \E answer \in Answers : <<t, answer>> \in callbacks
  /\ JournalOnly(t, "amount_mismatch", id, FALSE)
  /\ UNCHANGED <<cancelling, invoice, callbacks, request>>

----------------------------------------------------------------------------
(* refresh *)

\* A lapsed transaction is marked expired and the provider is not asked.
RefreshExpired(t) ==
  /\ tx[t].status \notin {"absent", "successful"} /\ tx[t].lapsed
  /\ Commit(Marked(Db, t, "expired", "none"))
  /\ UNCHANGED <<cancelling, invoice, callbacks, request>>

RefreshStart(c, t) ==
  /\ request[c] = Idle
  /\ tx[t].status \notin {"absent", "successful"} /\ ~tx[t].lapsed
  /\ invoice[t] # "none"
  /\ request' = [request EXCEPT ![c] = [op |-> "poll", tx |-> t]]
  /\ UNCHANGED <<fee, account, payment, alloc, income, cancelling,
                 tx, journal, invoice, callbacks>>

\* The provider answers, the handler has not yet resumed.
RefreshAnswered(c) ==
  /\ request[c].op = "poll"
  /\ request' = [request EXCEPT ![c] =
       [op |-> "apply", tx |-> request[c].tx, answer |-> Answer(request[c].tx)]]
  /\ UNCHANGED <<fee, account, payment, alloc, income, cancelling,
                 tx, journal, invoice, callbacks>>

RefreshApply(c) ==
  /\ request[c].op = "apply"
  /\ ApplyAnswer(request[c].tx, request[c].answer, "token")
  /\ request' = [request EXCEPT ![c] = Idle]
  /\ UNCHANGED <<cancelling, invoice, callbacks>>

\* A request ends without a commit: the provider could not be asked, the
\* allocation was refused, or the server stopped.
RequestLost(c) ==
  /\ request[c] # Idle
  /\ request' = [request EXCEPT ![c] = Idle]
  /\ UNCHANGED <<fee, account, payment, alloc, income, cancelling,
                 tx, journal, invoice, callbacks>>

----------------------------------------------------------------------------
CheckoutNext ==
  \/ \E c \in Clients, m \in Members, channel \in Channels :
       InitiateInsert(c, m, channel)
  \/ \E c \in Clients, t \in Txs : RefreshStart(c, t)
  \/ \E c \in Clients : \/ InitiateCommit(c) \/ InitiateFail(c)
                        \/ RefreshAnswered(c) \/ RefreshApply(c)
                        \/ RequestLost(c)
  \/ \E t \in Txs : \/ MemberPays(t) \/ InvoiceCloses(t) \/ ProviderRefunds(t)
                    \/ Lapse(t) \/ RefreshExpired(t)
  \/ \E t \in Txs, answer \in Answers, id \in CallbackIds : Callback(t, answer, id)
  \/ \E t \in Txs, id \in CallbackIds : CallbackMismatch(t, id)

Next == CheckoutNext \/ (LedgerNext /\ UNCHANGED mmVars)

Spec == Init /\ [][Next]_vars

----------------------------------------------------------------------------
(* Correctness *)

\* A checkout is successful exactly when it owns a payment; that payment is
\* validated, is the member's, for the whole amount, and belongs to no other
\* checkout.  However many callbacks, polls and reconciliations report the same
\* success, and in whatever order, the ledger moves once
\* (mobile_money_service.py:311-315).
SettledOnce ==
  \A t \in Txs :
    /\ tx[t].status = "successful" <=> tx[t].payment # "none"
    /\ tx[t].payment # "none" =>
         /\ payment[tx[t].payment].status = "validated"
         /\ payment[tx[t].payment].user = tx[t].member
         /\ payment[tx[t].payment].amount = tx[t].amount
         /\ \A u \in Txs : tx[u].payment = tx[t].payment => u = t

\* Only money the provider collected is booked: no stale, duplicated or crossed
\* answer settles a checkout its member has not paid.
OnlyCollectedMoneyBooked ==
  \A t \in Txs : tx[t].status = "successful" => invoice[t] \in {"paid", "refunded"}

\* The payment of a checkout is spent in full, and on nothing but the fees the
\* member selected (mobile_money_service.py:244-248).
SpentOnSelectedFees ==
  \A t \in Txs : tx[t].payment # "none" =>
    /\ SumFunction(alloc[tx[t].payment]) = tx[t].amount
    /\ \A f \in Fees : alloc[tx[t].payment][f] > 0 => f \in ToSet(tx[t].fees)

\* A settled checkout never changes again, whatever late callback, stale poll or
\* expiry comes after (mobile_money_service.py:265-266).
SettledIsFinal ==
  [][\A t \in Txs : tx[t].status = "successful" =>
       /\ tx'[t].status = "successful"
       /\ tx'[t].payment = tx[t].payment]_vars

\* test_operational_integrity_postgresql.py:1020-1024 (test_20): after a failed
\* checkout and its retry the member has one active transaction.
OneActiveCheckout ==
  \A t, u \in Txs :
    Reusable(tx[t]) /\ Reusable(tx[u]) /\ SameCheckout(tx[t], tx[u]) => t = u

\* docs/V1_1_MOBILE_MONEY_ARCHITECTURE.md:32: the event table is the journal
\* of the provider's duplicates, errors and confirmations.
ConfirmationsJournaled ==
  \A t \in Txs : tx[t].status = "successful" =>
    \E e \in journal[t] : e.type = "confirmed"

----------------------------------------------------------------------------
(* Why they hold *)

\* An answer on its way to a handler is about an opened invoice, and none of
\* them reports a success the provider has not collected.
HonestAnswers ==
  /\ \A t \in Txs, answer \in Answers : <<t, answer>> \in callbacks =>
       /\ invoice[t] # "none"
       /\ answer = "successful" => invoice[t] \in {"paid", "refunded"}
  /\ \A c \in Clients :
       /\ request[c].op \in {"poll", "apply"} => invoice[request[c].tx] # "none"
       /\ request[c].op = "apply" /\ request[c].answer = "successful" =>
            invoice[request[c].tx] \in {"paid", "refunded"}

\* A row that exists is a member's and asks for something.
Billed(row) == row.member \in Members /\ row.amount > 0

\* Between the insert and its commit a checkout belongs to one request and
\* exists for nobody else: neither a row, nor an invoice.
UncommittedRowsHidden ==
  /\ \A t \in Txs : IF tx[t].status = "absent" THEN tx[t] = NoTx /\ invoice[t] = "none"
                                               ELSE Billed(tx[t])
  /\ \A c \in Clients : request[c].op = "initiate" =>
       /\ tx[request[c].tx].status = "absent"
       /\ request[c].row.status = "pending" /\ request[c].row.payment = "none"
       /\ Billed(request[c].row)
       /\ \A k \in Clients :
            request[k].op = "initiate" /\ request[k].tx = request[c].tx => k = c

\* A payments row is a member's, and was declared by hand unless a checkout
\* created it validated.
PaymentsReal ==
  \A p \in Payments : payment[p].status # "absent" =>
    /\ payment[p].user \in Members /\ payment[p].amount > 0
    /\ p \in Declared \/ payment[p].status = "validated"

CheckoutInv ==
  /\ TypeOK
  /\ FeesNotOverpaid
  /\ PaymentsBookedOnce
  /\ PaymentsReal
  /\ SettledOnce
  /\ OnlyCollectedMoneyBooked
  /\ HonestAnswers
  /\ UncommittedRowsHidden

----------------------------------------------------------------------------
(* The promise these handlers keep *)

Book == INSTANCE SettlementBook WITH
  bill <- [t \in Txs |-> [member |-> tx[t].member, amount |-> tx[t].amount]],
  collected <- {t \in Txs : invoice[t] \in {"paid", "refunded"}},
  settled <- {t \in Txs : tx[t].status = "successful"},
  validated <- {p \in Declared : payment[p].status = "validated"},
  booked <- [m \in Members |-> account[m].paid]

\* Whatever is lost, late, duplicated or reordered, the detailed handlers settle
\* each collected checkout at most once and for its bill, and nothing else but
\* the validation of a payment declared by hand, once for each, adds to what a
\* member has paid.
KeepsTheBook == Book!Spec
============================================================================
