--------------------------- MODULE Reconciliation ---------------------------
(***************************************************************************)
(* reconcile_pending_transactions (services/mobile_money_service.py), run  *)
(* by the systemd timer through app/scripts/reconcile_mobile_money.py and  *)
(* by finance managers through POST /finance/mobile-money/reconcile.       *)
(*                                                                         *)
(* A run reads the active transactions, asks the provider about one after  *)
(* the other, and commits once, at the end: the answers are applied in     *)
(* that order as one database transaction.  The row locks a run takes on   *)
(* the way are held to its commit, so what it does to a row is placed at   *)
(* the commit.  An answer that cannot be applied, or a provider error,     *)
(* rolls the whole run back.                                               *)
(***************************************************************************)
EXTENDS MobileMoney

CONSTANTS
  Runs,         \* reconciliation runs that may overlap
  Limit,        \* at most this many transactions in a run
  MaxErrors     \* bound: how often a run dies on the provider or its process

ASSUME ReconciliationAssumption == Limit \in Nat \ {0} /\ MaxErrors \in Nat

VARIABLES
  batch,        \* what each run still has to poll, and the answers it holds
  errors        \* runs that died so far

reconVars == <<vars, batch, errors>>

Resting == [todo |-> <<>>, answers |-> <<>>]
BatchAnswer == [tx : Txs, answer : Answers, id : {"none", "token"}]
Batch == [todo : Seq(Txs), answers : Seq(BatchAnswer)]

ReconTypeOK ==
  /\ TypeOK
  /\ batch \in [Runs -> Batch]
  /\ errors \in 0..MaxErrors

ReconInit ==
  /\ Init
  /\ batch = [r \in Runs |-> Resting]
  /\ errors = 0

----------------------------------------------------------------------------
Active == {t \in Txs : tx[t].status \in ActiveStatuses}

\* Mutant: off by one, the oldest of them is never reached.
OldestSkipped(S) ==
  LET sorted == SetToSortSeq(S, <)
  IN SubSeq(sorted, 2, Least(Limit + 1, Len(sorted)))

\* The oldest `Limit` active transactions, by created_at.
Oldest(S) ==
  LET sorted == SetToSortSeq(S, <)
  IN SubSeq(sorted, 1, Least(Limit, Len(sorted)))

BatchRead(r) ==
  /\ batch[r] = Resting /\ Active # {}
  /\ batch' = [batch EXCEPT ![r].todo = Oldest(Active)]
  /\ UNCHANGED <<vars, errors>>

\* A lapsed transaction is to be marked expired, and the provider is not asked.
PollResult(t) ==
  IF tx[t].lapsed THEN [tx |-> t, answer |-> "expired", id |-> "none"]
                  ELSE [tx |-> t, answer |-> Answer(t), id |-> "token"]

BatchPoll(r) ==
  /\ batch[r].todo # <<>>
  /\ batch' = [batch EXCEPT
       ![r].todo = Tail(@),
       ![r].answers = Append(@, PollResult(Head(batch[r].todo)))]
  /\ UNCHANGED <<vars, errors>>

\* The states a run can commit, applying the answers in order; none when one
\* of them raises.
BatchOutcomes(answers) ==
  FoldLeft(LAMBDA states, a :
             UNION {Outcomes(d, a.tx, a.answer, a.id) : d \in states},
           {Db}, answers)

\* A run whose last answer raises is rolled back: nothing of it remains.
BatchFinish(r) ==
  /\ batch[r].todo = <<>> /\ batch[r].answers # <<>>
  /\ LET outcomes == BatchOutcomes(batch[r].answers) IN
       IF outcomes # {} THEN \E d \in outcomes : Commit(d)
                        ELSE UNCHANGED <<tableVars, tx, journal>>
  /\ batch' = [batch EXCEPT ![r] = Resting]
  /\ UNCHANGED <<cancelling, invoice, callbacks, request, errors>>

BatchDies(r) ==
  /\ batch[r] # Resting
  /\ errors < MaxErrors
  /\ errors' = errors + 1
  /\ batch' = [batch EXCEPT ![r] = Resting]
  /\ UNCHANGED vars

----------------------------------------------------------------------------
RunNext(r) == BatchRead(r) \/ BatchPoll(r) \/ BatchFinish(r)

ReconNext ==
  \/ \E r \in Runs : RunNext(r) \/ BatchDies(r)
  \/ Next /\ UNCHANGED <<batch, errors>>

ReconSpec == ReconInit /\ [][ReconNext]_reconVars

\* The timer starts a run every ten minutes and a started run goes on.
\* Callbacks and refresh requests are owed to nobody.
FairReconSpec == ReconSpec /\ \A r \in Runs : WF_reconVars(RunNext(r))

----------------------------------------------------------------------------
(* Correctness *)

Collected(t) == invoice[t] = "paid" /\ tx[t].status # "successful"

\* Confirming t now would commit: its fees still take the whole amount.
Payable(t) == ConfirmOutcomes(Db, t, "token") # {}

\* The run would confirm t: it still picks t up and asks the provider.
Reconcilable(t) == Collected(t) /\ t \in Active /\ ~tx[t].lapsed /\ Payable(t)

\* A run started now would be rolled back by one of its answers.
Doomed ==
  BatchOutcomes([i \in DOMAIN Oldest(Active) |-> PollResult(Oldest(Active)[i])]) = {}

\* With no callback at all, a checkout that a run of the timer can confirm does
\* not stay unbooked, provided the runs do not all roll back for ever
\* (mobile_money_service.py:440-465).
ReconciledUnlessDoomed ==
  <>[]~Doomed => \A t \in Txs : []<>~Reconcilable(t)

\* docs/V1_1_MOBILE_MONEY_ARCHITECTURE.md:16: "Le refresh ou le rapprochement
\* peut confirmer une transaction si l'IPN est retarde": a confirmable checkout
\* is confirmed whatever the other checkouts of its runs answer.
ReconciledWhateverOthersAnswer == \A t \in Txs : []<>~Reconcilable(t)

\* The same sentence for a checkout on its own: collected, its fees still owed,
\* its callback late.
LateCallbackReconciled == \A t \in Txs : []<>~(Collected(t) /\ Payable(t))
============================================================================
