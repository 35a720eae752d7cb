--------------------------- MODULE SettlementBook ---------------------------
(***************************************************************************)
(* What the mobile-money subsystem promises: a checkout is billed once,    *)
(* the provider collects it at most once, and what the members have paid   *)
(* grows by the bill of a collected checkout exactly once, and by a        *)
(* payment declared by hand when it is validated.  Callbacks, polls, retries,    *)
(* expiry and reconciliation runs do not appear: they may delay a          *)
(* settlement, never repeat, undo or invent one.                           *)
(***************************************************************************)
EXTENDS Integers, FiniteSets, Functions

CONSTANTS
  Members,
  Txs,
  Declared,     \* payments declared by hand
  MaxAmount     \* bound: no amount is larger

VARIABLES
  bill,         \* what each checkout asks for, of whom
  collected,    \* checkouts the provider has collected
  settled,      \* checkouts booked into the ledger
  validated,    \* payments declared by hand and booked into the ledger
  booked        \* what each member has paid in all

bookVars == <<bill, collected, settled, validated, booked>>

NoBill == [member |-> "nobody", amount |-> 0]

Init ==
  /\ bill = [t \in Txs |-> NoBill]
  /\ collected = {}
  /\ settled = {}
  /\ validated = {}
  /\ booked = [m \in Members |-> 0]

Open(t) ==
  /\ bill[t] = NoBill
  /\ \E m \in Members, amount \in 1..MaxAmount :
       bill' = [bill EXCEPT ![t] = [member |-> m, amount |-> amount]]
  /\ UNCHANGED <<collected, settled, validated, booked>>

Collect(t) ==
  /\ bill[t] # NoBill /\ t \notin collected
  /\ collected' = collected \cup {t}
  /\ UNCHANGED <<bill, settled, validated, booked>>

Settle(t) ==
  /\ t \in collected \ settled
  /\ settled' = settled \cup {t}
  /\ booked' = [booked EXCEPT ![bill[t].member] = @ + bill[t].amount]
  /\ UNCHANGED <<bill, collected, validated>>

\* Several checkouts settled by one commit.
SettleBatch(S) ==
  /\ S # {} /\ S \subseteq collected \ settled
  /\ settled' = settled \cup S
  /\ booked' = [m \in Members |->
       booked[m] + SumFunctionOnSet(
         [t \in Txs |-> IF bill[t].member = m THEN bill[t].amount ELSE 0], S)]
  /\ UNCHANGED <<bill, collected, validated>>

BookByHand(p, m) ==
  /\ p \notin validated
  /\ validated' = validated \cup {p}
  /\ \E amount \in 1..MaxAmount : booked' = [booked EXCEPT ![m] = @ + amount]
  /\ UNCHANGED <<bill, collected, settled>>

Next ==
  \/ \E t \in Txs : Open(t) \/ Collect(t) \/ Settle(t)
  \/ \E S \in SUBSET Txs : SettleBatch(S)
  \/ \E p \in Declared, m \in Members : BookByHand(p, m)

Spec == Init /\ [][Next]_bookVars
=============================================================================
