# EnactSpace: specification and verification

EnactSpace is the internal platform of a student team: a FastAPI backend over
PostgreSQL (`src/backend/app`), a Flutter client (`src/frontend`) and a small
deployment (`src/deploy`).  This directory holds TLA+ models of the parts of the
backend where money, access or messages can go wrong between two requests, the
TLC configurations that check them, and TLAPS proofs of what matters most.

Contents

1. The system
2. The modules
3. What is abstracted, and how
4. The runs, their bounds and what they show
5. Fairness
6. What is proved
7. Where the code and its documents disagree
8. What is only model-checked, and what is not modelled
9. The plan


## 1. The system

### How it runs

One uvicorn process serves the API (`deploy/enactspace-api.service` gives no
`--workers`).  Handlers written `def` run in a thread pool, each with a database
session of its own; handlers written `async def` (initiate, refresh,
reconcile, the PayDunya callback) run on the event loop and give it up only
where they await the payment provider.  Two programs run beside it in their own
processes: the reconciliation script, started every ten minutes by
`deploy/enactspace-mobile-money-reconcile.timer`, and the push worker
(`workers/push_worker.py`), for which `deploy/` has no unit.

All state is in PostgreSQL at READ COMMITTED.  `SessionLocal` has
`autoflush=False` (`db/database.py:31-35`), so a handler's writes reach the
database at an explicit flush or at its commit.  Handlers order themselves with
row locks (`lock_row`, `with_for_update`), often after they have read the row
once without one; that gap, and the gap across a call to the provider, are where
most of the hazards lie.

### Components

| component | state | operations | interacts with |
|---|---|---|---|
| member ledger (`api/routes/finance.py`, `attendance.py`, `models/finance.py`) | fees, financial accounts, payments, allocations, income rows | create, cancel a fee; revise a penalty; declare, validate, reject, cancel a payment | checkout (confirms write the same rows), attendance (penalties) |
| mobile-money checkout (`services/mobile_money_service.py`, `api/routes/payments.py`, `finance.py:686-1133`) | `mobile_money_transactions`, their event journal, invoices at the provider | initiate, callback, refresh, expire, confirm, mark not successful | ledger, PayDunya |
| reconciliation (`reconcile_pending_transactions`, `scripts/reconcile_mobile_money.py`) | the batch of a run | read, poll one by one, commit or roll back all | checkout |
| push outbox (`services/push_*.py`, `api/routes/product_services.py`) | installations, tokens, the account switch, deliveries, leases | register, revoke, rotate; enqueue; claim, send, retry, cancel | sessions, notifications, FCM |
| sessions (`services/session_service.py`, `api/routes/auth.py`) | `auth_sessions`, refresh-token hashes, reset codes | login, rotate, revoke, logout-all, password reset | push outbox, every route |
| users, poles, projects (`api/routes/users.py`, `poles.py`, `projects.py`, `services/operational_integrity.py`) | status of an account, role links, positions in teams | approve, suspend, reactivate, make alumni; assign roles; join and leave a team | most routes |
| attendance (`api/routes/attendance*.py`) | the session, its roll, justifications, badges | open, scan, mark, correct, close, archive; enroll a badge | ledger (penalties), memory |
| events, tasks, recruitment | participants; one task; applications, reviews | join up to capacity; move, prove, validate; decide, review, convert | users, attendance |
| impact (`api/routes/impact.py`) | claims and evidence of a project | replace, submit, validate, reject | projects, files |
| memory and archives (`institutional_memory*.py`, `archives.py`) | facts, archive items, statistics | verify, reject, finalise, capture | projects, attendance |
| institutional documents (`institutional_document*.py`) | requests, reference sequences, documents | validate, approve, generate, cancel | files |
| documents and files (`documents.py`, `files.py`, `file_storage_service.py`) | rows, bytes on the disk, references to them | upload, attach, decide, delete, clean | posts, chat, impact |
| release policy, legal texts, deletion, tickets (`product_services.py`, `legal.py`, `account.py`) | releases, version policy, texts in force, requests | publish, withdraw, set a policy, accept, process | client start-up |
| chat, posts, notifications, gamification | threads and participants; publications, reactions, comments; awards | add, remove, write, react, comment, award | realtime, push |
| realtime (`api/routes/realtime.py`) | one coroutine per WebSocket, the registry of sockets | authenticate, poll a snapshot, tell the others | chat, notifications |
| academy (`api/routes/academy.py`) | progress rows, attempts, announcements | complete a lesson, attempt a quiz | notifications |

### What is hard, and what makes each part correct

* **Ledger.**  Five handlers move `balance_due` by increments.  A fee must never
  be paid beyond its amount, allocations must explain every franc of
  `amount_paid`, a payment must be booked once, and the balance must be what the
  open fees owe, whichever handlers interleave.
* **Checkout.**  The same success may be reported by a callback, repeated
  callbacks, refreshes and reconciliation runs, in any order and late.  Money
  collected must be booked exactly once; money not collected never.
* **Reconciliation.**  When callbacks are lost the timer is the only way a
  collected payment is booked, so it must get there, runs dying in between.
* **Push outbox.**  Leases expire while slow workers go on; a disable, revoke or
  logout must fence every send that has not started; a message may repeat only
  when its answer was lost, on the way or with a worker, and a bounded number of times.
* **Sessions.**  One refresh credential yields one successor, whatever
  rotations, revocations and resets run at once.
* **Queries that do not see the handler's own writes.**  With `autoflush=False` a
  query reads the database as it was before the handler's pending changes.
  Responsibility roles are computed without the position just changed, a closing
  session does not see the members it has just added, a course is counted
  without the lesson just completed.
* **Workflows without locks.**  Most of the other handlers read a row, check its
  status, and commit later; SQLAlchemy then writes only the columns that changed,
  over whatever the row has become.  A decision that is final must stay, a
  dated status must keep its date, a reference must not be given twice.
* **Workflows with locks.**  Registration, attendance, recruitment, tasks, claims and
  releases lock a row first.  What matters there is the long sequence: a
  justification decided after a correction, a claim replaced twice, a conversion
  that loses its rows to another one.
* **Realtime.**  A coroutine is interrupted at its awaits only; a client that stays
  must be told, and one that has left must be forgotten, though the send to it
  fails in the coroutine of another member.

`PROJECT.json` lists every component with its status, and the hazards with the
source line where each bites and the properties that cover it.


## 2. The modules

| module | models | extends |
|---|---|---|
| `FinanceLedger` | fees, accounts, payments, allocations, income | |
| `MobileMoney` | checkouts, callbacks, refresh, the provider | `FinanceLedger` |
| `SettlementBook` | abstract: what the two above promise | |
| `Reconciliation` | runs of the timer and of managers | `MobileMoney` |
| `PushOutbox` | installations, tokens, deliveries, workers | |
| `AuthSessions` | sessions, refresh credentials, password resets | |
| `Membership` | accounts, roles, positions in poles and projects | |
| `Attendance` | a session, its roll and penalties, badges | |
| `Recruitment` | campaigns, applications, reviews, conversion | |
| `Tasks`, `Events` | one task; one event and its participants | |
| `Impact` | claims of a project, their replacements and evidence | |
| `Heritage` | facts, archive items, statistics, captured facts | |
| `DocumentRequests` | requests, references, generated documents | |
| `ReleasePolicy` | releases of a platform and its version policy | |
| `StoredFiles` | rows and bytes of files, and who refers to them | |
| `AccountServices` | legal texts, deletion requests, tickets | |
| `ChatThreads`, `Community` | a conversation; posts, reactions, comments, badges | |
| `Academy` | progress of a member in a course | |
| `Realtime` | the WebSocket coroutines | |
| `WorkflowsMC` | the workflows side by side, and their joint properties | `Attendance` ... `Community` |
| `DeliveryMC` | pushed and told notifications, for liveness | `PushOutboxMC`, `Realtime` |
| `*MC` | values of the constants for TLC | the module |
| `FinanceLedgerProofs`, `MobileMoneyProofs` | theorems about the money | `FinanceLedger`, `MobileMoney` |
| `PushOutboxProofs`, `AuthSessionsProofs`, `MembershipProofs` | theorems about the module | the module |
| `ClubProofs` | theorems about sessions, applications, tasks, events, claims | `Attendance`, `Recruitment`, `Tasks`, `Events`, `Impact` |
| `RecordsProofs` | theorems about what is written down and served | `ReleasePolicy`, `DocumentRequests`, `StoredFiles`, `AccountServices`, `ChatThreads`, `Heritage` |
| `WorkflowsProofs` | theorems about publications, and about the workflows together | `WorkflowsMC`, `ClubProofs`, `RecordsProofs` |

`PROJECT.json` maps each definition to its lines.  The correspondence in brief:

**FinanceLedger.**  `fee`, `account`, `payment`, `alloc`, `income` are the rows of
`fees`, `financial_accounts`, `payments`, `payment_allocations` and the payment
rows of `club_transactions`.  Each handler that locks its rows before it reads
them (`validate_payment`, `reject_payment`, `cancel_payment`, `create_fee`, the
attendance penalty) is one action, because its locks are held to its commit.
`cancel_fee` reads the fee without a lock, so it is two: `CancelFeeRead` keeps
what it saw in `cancelling`, `CancelFeeCommit` writes with it.  The
allocation loop is stated as a relation between the order of the fees, the
amount and the result (`IsAllocation`), which the proofs can use.

**MobileMoney.**  `tx` are the transactions, `journal` the event rows,
`invoice` and `callbacks` the provider (external), `request` the coroutines that
await it.  `initiate` is `InitiateInsert` (up to the flush that takes the unique
idempotency key), then `InitiateCommit` or `InitiateFail`; refresh is
`RefreshStart`, `RefreshAnswered`, `RefreshApply`.  A callback is atomic because
it locks the row before it looks at it, and may be delivered any number of
times, at any time, or never.  `ConfirmOutcomes` is `confirm_transaction` with
everything it writes: status, payment, allocations, account, income and journal.

**Reconciliation.**  A run's answers are kept in `batch` and applied together at
its commit; one that raises rolls all of them back (`BatchOutcomes` is empty).

**PushOutbox.**  Every handler takes its user's row lock first, so it is one
action guarded by `UserFree`; a worker holds that lock during the provider
call, so a send is `StartSend`, `ProviderAccepts` and `CommitSent` (or
`SendFails`, `TokenUnknown`).  `SendFails` may also follow `ProviderAccepts`: any exception of
the call, a timeout or an answer lost among them, is a transient failure, and the message is
sent again.  `AnswerLost` counts these answers, and those that die with a worker.
`Admit` is the authentication of a request, which takes no lock and may be long before its handler runs.  A claim leaves
nothing on the row that says whose it is, so an expired lease lets a second
worker into the same delivery: `StillMine` is all that separates them.

**AuthSessions.**  `session` are the rows of `auth_sessions`, `gen` standing for the
hash of the current refresh credential, `code` the row of `password_reset_otps`,
`request` the handlers in progress.  `authenticate_user` keeps the user's row
from the first read to the commit, so a login is `LoginVerify` and `LoginCommit`
with `Locked` between them.  Refresh and logout find their session without a
lock and look again under it: `RefreshLookup` and `Rotate`, `LogoutLookup` and
`Logout`.  The two halves of a password reset work on a row they read without a
lock (`ResetRead`).  `Admit` is the authentication of a request, as in
`PushOutbox`; the devices that a logout from everywhere revokes are there.

**Membership.**  `status`, `profile` and `roles` are the account and its links,
`position` and `inTeam` the membership row of a user in a group; poles and projects
are groups that differ in the names of their positions.  Suspension, the assignment
of roles and the removal from a team keep in `request` what they read before the
rows it depends on are locked: `SuspendRead`, `AssignRead`, `LeaveRead` and their commits.
`Synced` is the responsibility role recomputed from the rows before the
handler's change, unless a notification to the new member flushed them (`flushed`).

**Attendance.**  Every handler locks the session, so each is one step.  `roll` is the
status of the session, `record` the row of each member, `penalty` the type of the
fee that follows it (`SyncPenalty`).  `CloseSession`
reads the expected members without those it has just added.  Badges have a life
of their own (`BadgeNext`).

**Recruitment.**  An application is its campaign and e-mail.  The conversion is the
only handler that can go on after a rollback: it inserts the account, finds the e-mail
taken, loses its locks and looks again (`ConvertBegin`, `ConvertInsert`, `ConvertRetry`).  Reviews are a read and a commit.

**Tasks, Events, Impact.**  Handlers that lock the row of the task, of the event or of
the claim are one step, except a registration, which counts the participants and commits later, the
row in hand (`RegisterBegin`, `RegisterCommit`); withdrawal from an event and the
comings and goings of the people around a task lock nothing.  A claim names the
one it replaces, and `ValidateClaim` moves both.

**Heritage.**  Each handler of facts, items and statistics is a read with its checks
(`curator` keeps the handler a request is in) and a commit.  The end of a project and the
archiving of a session are single steps that insert the captured fact (`FinishWork`).

**DocumentRequests.**  `template` is chosen at the start, and `Rule` says who may create
and who may submit a request of it: the heads of the scope, secretaries, team leaders or
admins submit what others have written, so several submissions, or a submission and an
edit of the author, overlap.  Every handler is a read with its checks (`Read`), perhaps an
allocation (`Allocate`), and a commit, which writes the columns whose value it changed over
whatever the row has become.  The lock of the reference sequence, held from the allocation to
the commit, is what gives a number once; `audited` is what the audit trail says of them.

**ReleasePolicy.**  A policy update is a read, the lock of the releases it ends with,
and a commit of the references it changes; publication and withdrawal are one step.

**StoredFiles.**  A file has a row and bytes, which go separately: deletion by hand
unlinks first, and the cleaning decides on rows it read before.

**AccountServices, ChatThreads, Community.**  Reads and later commits, apart from
the publication of a legal text, which locks the rows of the others.  A message
fails when the row of its author or of its thread is gone by its commit.

**Academy, Realtime.**  `Academy` is a request per click, each a read and a commit.
In `Realtime` a step is what a coroutine does between two awaits, so a send to one
socket is a point where others run; what a coroutine still has to send is kept in it.

`WorkflowsMC` conjoins workflows that share no state.  Its `focus` is chosen in the
initial state and says which of them moves, so that the sizes of the state spaces add
up; `DeliveryMC` does the same with `channel`.


## 3. What is abstracted, and how

* **Amounts** are small naturals; currency, channels' names, labels and dates are
  left out.  `lapsed` stands for `expires_at` having passed, `due` for
  `next_attempt_at` or a lease having passed; both may become true at any time.
* **Rows come from finite supplies** (`Fees`, `Payments`, `Txs`, `Notes`, ...).  When
  all are used up a behaviour may have nothing left to do, which is a bound
  of the model and not a state of the program: the runs concerned say
  `CHECK_DEADLOCK FALSE`.  `ledger` leaves the deadlock check on, since
  penalties can always be revised.
* **A rolled-back transaction** is a step that changes nothing, or is not a step
  at all.  So is the victim PostgreSQL picks when handlers deadlock.
* **The provider** is an invoice that is open until it is paid, fails, is
  cancelled or expires; a paid one may be refunded.  Its callbacks are a set
  from which any element may be delivered again.
* **Audit rows, notifications of the ledger, e-mails and receipts** are left out of
  the money modules: nothing there reads them back.
* **Forms** (names, descriptions, dates that no status depends on) are left out, and so is
  who may see what.  What a request is allowed to do is kept where it depends on
  rows that other requests change (roles, positions, reviewers).
* **One of each.**  A workflow is modelled for one task, event, thread, publication or
  attendance session, with several people at it: rows of two of them meet in no handler.
* **Templates of documents** with the same rule are one (`Rule`), all requests are of one
  scope, and its heads (`Leads`) do not change.
* The synchronisation of a penalty takes the penalty's new amount as an input;
  which attendance produces which amount belongs to the attendance component.


## 4. The runs, their bounds and what they show

| run | specification | bounds | states | shows |
|---|---|---|---|---|
| `ledger` | `LedgerSpec` | 2 members, 3 fees (1 penalty), 2 payments, amounts 1..3 | 66,573 | the sums of the ledger agree whatever interleaves |
| `stale_cancel` | same | 1 member, 2 fees, 1 payment, 1 clerk | violation | a fee that is paid in full is cancelled |
| `checkout` | `Spec` of MobileMoney | 2 checkouts, 2 waiting requests, 1 fee, 1 declared payment, 1 expiry | 671,363 | settled once, only for collected money, for good; refines `SettlementBook` |
| `checkout_fees` | same | 1 checkout, 2 fees, amounts 1..2, 1 declared payment, 1 clerk | 669,230 | allocations meet the selected fees only; what is paid is what was validated; nobody is overbilled |
| `double_checkout` | same | 2 checkouts | violation | two active checkouts of the same fees |
| `reconcile` | `FairReconSpec` | 2 runs, 2 checkouts, 1 death, no callbacks | 328,534 | overlapping runs keep the book; what can be confirmed is confirmed |
| `push` | `Spec` of PushOutbox | 2 members, 3 sessions, 2 devices, 2 tokens, 2 workers, 2 attempts, 1 death | 1,169,196 | fencing, no stray delivery, no repeat but after a lost answer, boundedly often |
| `push_live` | `DeliverySpec` | 1 member, 1 device, 2 tokens, 2 workers, 2 attempts, 1 death; 2 sockets of 2 members, 2 changes | 25,204 | the queue drains; who stays is told, who leaves is forgotten |
| `sessions` | `Spec` of AuthSessions | 1 user, 2 sessions, 2 requests, 2 rotations, 2 resets, 2 rows of codes | 1,625,308 | one pair for one credential, revoked for good, no session outlives its password |
| `members` | `Spec` of Membership | 3 users, 2 of them acting, 1 pole and its leader, actors symmetric | 1,693,245 | teams hold active members, one leader per position; the life of an account runs one way |
| `workflows` | `WorkflowsSpec` | below | 816,738 | penalties follow records; places, references, policies, files and final decisions hold under every overlap |
| `unannounced_course` | `AcademySpec` | 2 lessons, 2 rows, 2 clicks | violation | a finished course announces nothing |

Why the bounds are enough.  The money properties relate one checkout to one
other at most (a payment shared by two, two active at once), one fee to the
payments that met it, and one poll to one other answer; two of each give every
such pair, and three amounts let a payment fall short of, meet and exceed a fee.
`balance_due` is checked with two members so that a mix-up of accounts shows.
In `checkout_fees` two fees are what an allocation order needs.  Two
reconciliation runs give the overlap of the timer with a manager; a batch of two
is the smallest that can fail in part.  In `push`, two tokens and two devices
give rotation, hand-over between members and the unique index; two workers
give the expired lease; two attempts give a retry and a last one; a third
session gives a member a request that outlives a logout from another device.
In `sessions` two requests give every race of two handlers, and whatever a
third would have done before or after them is a state they start from; all of
them meet on one user's row, so one user is enough (the proofs cover several);
two rotations give a credential twice replaced, and two resets a code used up,
a second one in a new row, and a confirmation that still knows the first.

In `members` two requests overlap (an actor has one at a time), and the third
user is the one both act on; one pole with its leading position is enough for a
change of leaders.  In `workflows` the
bounds are those of the races:

| focus | bounds |
|---|---|
| attendance, badges | 2 members expected or not, 3 marks given by hand; 2 badges |
| recruitment, reviews | 2 campaigns and 1 e-mail (so 2 applications for one account), 2 officers; 1 reviewer who reviews, edits and deletes |
| tasks, events | 2 people at a task; 3 guests for 1 or 2 places |
| impact | 3 claims (a chain of two replacements), 1 piece of evidence |
| heritage, statistics | 1 fact, 1 item with 1 enclosure, 2 curators, 1 captured work |
| documents | 2 requests, 2 references, 2 handlers; minutes, which heads submit, or a letter; 3 accounts, one a secretary, admin and head |
| releases | 2 releases with 2 build numbers, 2 managers |
| files | 1 file, 1 validator, one handler of each kind |
| terms, deletion, ticket | 3 versions published by 3 requests; 2 agents |
| chat | 3 members, 1 message, 2 requests |
| posts, reactions, comments, honours | 2 devices, 2 kinds, 2 notifications, 1 season |

The same two people, and the same two rows, stand for those of every workflow, so
`Symmetry` may exchange them everywhere at once.  Each race is between two handlers
over one row, or over one row and the one it names; three where the third is
the one that lost (the replaced claim, the guest left without a place, the
version published in between).

Every passing property has a mutant in `PROJECT.json`: a version of one
definition with a plausible bug (defined beside it with the comment
`Mutant:`), under which TLC finds the property violated with the same bounds.  Where a
property conjoins several workflows (`ClubInv`, `DecisionsStand`), mutants left in the
modules break the conjuncts that `PROJECT.json` does not name.


## 5. Fairness

* **Timer.**  `FairReconSpec` assumes weak fairness of the steps of each
  reconciliation run: the systemd timer starts one every ten minutes and a started
  run goes on polling to its commit.  A run may die (`BatchDies`), boundedly often in the
  model.  Callbacks, refreshes and members' requests are given no fairness: nobody owes them.
* **Push workers.**  `FairSpec` assumes weak fairness of each worker's step and of
  the clock: `workers/push_worker.py:13-19` loops for ever, and a lease or a
  backoff that is set runs out.  A worker that dies is started again (its next
  claim is under the same fairness); deaths are bounded by `MaxCrashes`.
  There is no fairness between outcomes: the provider may fail every time.
* **WebSockets.**  `DeliverySpec` adds weak fairness of each coroutine: the event loop
  resumes what is ready, its receives have timeouts (five seconds for the
  authentication, two for a frame, `realtime.py`), and a send to a peer that
  is gone ends when the server's keepalive gives it up.  Clients and the changes they are
  told of have no fairness.


## 6. What is proved

Proofs are checked by TLAPS for every value of the constants that satisfies the
named assumptions of the modules: any number of members, fees, payments,
checkouts, devices, deliveries, workers, sessions, teams, applications, claims,
files and concurrent requests.  The assumptions say what the source fixes
(amounts are natural numbers, a fee has an owner, an absent value is not a row),
and that the tables are finite; TLC evaluates them in every run.

### Money

* `FinanceLedgerProofs`: **LedgerSafe** (`LedgerSpec => []LedgerInv`), from which
  **LedgerValidatedIsFinal**.  `LedgerInv` joins the types with
  `FeesNotOverpaid` and `PaymentsBookedOnce`.  Neither fact is inductive without
  the other half: the type of `fee` needs `paid <= amount` (a revised penalty
  takes the larger of the two, and `Remaining` must not go negative), and
  overpayment is excluded by `AllocationWithinRemaining`, the lemma about what the
  allocation loop hands to a fee.
* The sums of the ledger: **LedgerBalances** (`AllocationsBalance`) and
  **LedgerTotals** (`TotalPaidIsValidated`).  The invariant is `BooksInv`, with
  `AbsentUnpaid` so that a fee begins with nothing allocated to it.  A handler
  changes one term of a sum, and `SumUpdate`, `SumAdds` and `SumTakesOut` say what
  the sum becomes.  They need no induction theorem with an operator as parameter:
  a claim about the sums over the subsets of a finite set that failed would fail
  for a least subset (`LeastSet`), and there one unfolding of the recursion
  contradicts it.  The allocation loop is treated the same way (`HandsOutAtMost`):
  what it gives to the first fees of an order is at most what is paid.
* The balance: **LedgerBalanceFollows** says that `due` is what the open fees owe
  in every behaviour whose cancellations find their fee as they read it
  (`CancelledAsRead`: `CommitsAsRead` at each commit of one), fees being cancelled or not.
  The restriction is the code's, not the proof's: `cancel_fee` works on a stale row and may
  take the same fee off twice, or take off what was paid meanwhile.  `Moves(m, d, e)` says
  that a step adds `d` to the balance of `m` and `e` to what the open fees owe; every handler
  has `d = e` (`Follows`), a cancellation by `CancelFollows`.
* `MobileMoneyProofs`: **CheckoutSafe** (`Spec => []CheckoutInv`),
  **CheckoutSettledOnce**, **CheckoutOnlyCollected**, **CheckoutSettledIsFinal** and
  **CheckoutKeepsTheBook**, the refinement of `SettlementBook`.  `SettledOnce`
  and `OnlyCollectedMoneyBooked` are not inductive: an answer on its way may be
  stale, so `HonestAnswers` says that a success in flight is about a collected
  invoice; an uncommitted row must be invisible (`UncommittedRowsHidden`); and a
  payment created by a checkout must be validated (`PaymentsReal`), so that no
  declared payment can be taken for it.  Each handler's effect on the ledger is
  stated once (`MarkedStep`, `ConfirmStep`, `ApplyAnswerEffect`) and cited by
  the step lemmas, one per action.
* The sums again, with checkouts: **CheckoutSpent** (`SpentOnSelectedFees`),
  **CheckoutBalances**, **CheckoutTotals**.  A step of `Next` is a step of the
  ledger, a settlement, or moves no money (`StepMoney`).
* **CheckoutNeverOverbills** (`NeverOverbilled`), with any cancellations, stale or
  repeated, and any revisions of penalties but one: no balance exceeds what the owner's open
  fees owe, as long as no penalty is made dearer between the read and the commit of its own
  cancellation (`RevisedApart`).  What makes it inductive is `CancellingEnough`: what a
  cancellation under way will take off is at least what its fee still owes.  The revision
  that is excluded breaks exactly that, in the code too: the cancellation takes the old
  amount off, and the difference stays on the balance.

### Pushes and sessions

* `PushOutboxProofs`: **PushSafe** (`Spec => []PushInv`), from it
  **PushUnsentReachable**, **PushSendsFenced**, **PushSendsBounded**,
  **PushAttemptsLeft** and **PushSentAgainOnlyUnanswered** (the provider is asked again only
  for a message whose answers were all lost), and the action properties **PushTerminalIsFinal** and
  **PushLogoutFencesRegistration**.  `PushInv` adds four facts.
  `AnswersCounted`: the answers lost, and the one that came, are at most the attempts counted
  and the workers that died, from which the bound on repeats follows.
  `WorkersHoldTheirRows`: while a worker sends, its delivery stays `processing` and
  no other worker is at a delivery of the same user, which is all that makes two
  claims of one delivery harmless.  `TokensUnique`: without it the cancellation
  by token hash could reach the delivery another worker is sending.
  `DeliveriesFollowNotes`: a delivery starts with a count of zero.  The handlers
  of members are one argument (`HandlerKeeps`): under its user's lock a handler
  meets no send of that user, and it writes only that user's rows.
* `AuthSessionsProofs`: **AuthSafe** (`Spec => []AuthInv`), then
  **AuthSessionsFollowPassword**, **AuthExchangedOnce**, **AuthRevokedIsFinal**,
  **AuthLogoutEnds**, **AuthSuspendedGetNothing** and **AuthOnlyTheCodeReadIsSpent**.
  `SessionsFollowPassword` needs `VerifiedUnderLock` (what a login in progress verified
  is still the password), and `ExchangedOnce` needs `SpentBeforeCurrent` (an
  exchanged credential is older than the current one).  `AuthLogoutEnds` has a small
  invariant of its own, `LogoutsKnowTheirSession`: what a logout looked up has
  been issued, and its credential is not newer than the session's.

### Members

`MembershipProofs`: **MembersServe** (`Spec => []MembershipInv`) and
**MembersLifecycle** (`LifecycleIsOneWay`).  The inductive invariant adds
`RequestsStand`: the row a suspension or an assignment has locked keeps its lifecycle
until that request commits, and no two of them hold one row.  Without it an
assignment could give a responsibility to a member suspended in between.
`ProfileFollowsStatus` makes the lifecycle one way.

### Workflows

Each workflow has a specification and an invariant of its own; the joint
specification is a behaviour of each of them (**WorkflowsImplement**), so what is proved
of one holds of `WorkflowsSpec`: **WorkflowsSafe** (`ClubInv`), **WorkflowsDecisions**,
**WorkflowsRoll**, **WorkflowsCapacity**, **WorkflowsComments**,
**WorkflowsAttendanceSafe**, **WorkflowsDocuments**, **WorkflowsFiles**,
**WorkflowsReleases**.  For the attendance session it is shown directly, because the run
starts with badges that are already given.

| theorem | what the inductive invariant adds, and why |
|---|---|
| **AttendanceSafe**, **WorkflowsRoll** | the rows only: every handler locks the session |
| **RecruitmentSafe**, **RecruitmentDecisions** | `ApplicationsHaveCampaigns`, `ConversionsStand`: what a conversion that lost its locks may still find when it looks again |
| **TasksSafe**, **TasksCheckedOnce** | the rows: the dates of a task follow its status |
| **EventsSafe**, **EventsCapacity** | `RoomWasSeen`: a registration under way holds the row of the event, so the room it counted is still there |
| **ImpactSafe**, **ImpactVerified** | `OneActiveReplacement`, `VerifiedSupersedes`: one revision of a claim is open at a time, so the verification of it meets no other; chains of any length |
| **ReleasesSafe** | `LockedArePublished`: what an update has locked was published and is withdrawn by nobody before its commit |
| **DocumentsSafe** | `HolderIsAlone`, `ReferencesAreAudited`, `DesksHaveRequests`: the holder of the sequence is the only one to bring a new number, and whatever else a row or a handler bears is in the audit trail |
| **FilesSafe** | `BytesOfUsable`: a file nobody had looked at to clean has its bytes |
| **ServicesSafe** | `LocksApart`, `NobodyWaitsInCircle`, `FoundNotInForce`: two publications hold different rows |
| **ChatSafe** | `OwnerIsHisOwn`, `TargetsTakePart`: what a request read of the participants before its commit |
| **HeritageSafe**, **HeritageFinalised** | `CuratorsShape`: a curator's request is about a row of the members, never about one captured from work |
| **CommunitySafe**, **CommunityHears** | `AuthorWillHear`: a comment on its way has its notification, or the author touched one; `ReactionsBounded` counts the requests that may still insert |

`CheckoutInv`, `PushInv`, `AuthInv`, `MembershipInv` and the invariants of `workflows` are
themselves invariants of the runs, so TLC has looked for a counterexample to
what is proved.  `UnsentReachable` and
`AttemptsLeft` are conjuncts of `PushInv` and are checked as such; `RevokedIsFinal`
and `ValidatedIsFinal` are only proved.


## 7. Where the code and its documents disagree

Three are runs TLC ends with a counterexample; `PROJECT.json` quotes the lines.

* **Two active checkouts** (`double_checkout`).  `mark_not_successful` protects
  only a successful transaction; a late `pending` answer revives a failed one
  after its retry was opened.
* **A paid fee is cancelled** (`stale_cancel`).  `cancel_fee` refuses a paid fee on a row it
  reads without a lock, and then waits for the account: a payment validated in between pays
  the fee, which is cancelled all the same, its payment allocated to it (`PaidFeeNotCancelled`).
* **A finished course is not announced** (`unannounced_course`).  The last lesson is
  counted before it is flushed.

Others are stated in the modules as definitions that do not hold, and have no run:

| definition | what happens |
|---|---|
| `ConfirmationsJournaled` | `mobile_money_service.py:97`: a poll journals the invoice token as event id, so a later event of the same id is not written (`docs/V1_1_MOBILE_MONEY_ARCHITECTURE.md:32`) |
| `ReconciledWhateverOthersAnswer` | `mobile_money_service.py:460`: a refresh that raises ends the run, which commits once, at the end; a collected checkout whose fee another payment paid raises in every run, and the other checkout of its batch is never confirmed |
| `LateCallbackReconciled` | `mobile_money_service.py:404`: a lapsed checkout is expired without asking the provider, and runs read only active ones |
| `RoleLeavesWithPosition` | `projects.py:491`, and the same order in `poles.py`: `remove_project_member` clears the position and asks the database, which does not know yet, whether the member still leads a project; the role is kept, or even granted (`docs/design/ui_projects_team_v1.md:120`) |
| `EveryExpectedMemberRecorded` | `attendance.py:1464`: a member added by the closing itself has no record |
| `OneHolderOfExclusiveRoles` | `users.py:712`: two assignments wait for one another and both give the role (`test_operational_integrity_postgresql.py:165-192` tests one target) |
| `AnAdministratorRemains` | `users.py:868`: the removal of a role counts links, not active accounts |
| `FinalScoreIsAverage` | `recruitment.py:1133`: an edited review is not flushed when the average is read (`docs/design/ui_recruitment_v1_inventory.md:189`) |
| `ValidatedIsSourced` | `archives.py:2057`: the source of a statistic is removed while it is validated |
| `OfficialIsValidated` | `documents.py:871`: a validation and a rejection leave a rejected official document |
| `ProofsOnDisk` | `file_storage_service.py:320`: the cleaning does not ask the tables of payment proofs and evidence |
| `MinimumAtMostCurrent` | `product_services.py:765`: two policy updates of one reference each leave the minimum above the current release |
| `ReferenceStays` | `institutional_document_service.py:623`: two approvals, or two submissions of a secretary's minutes, each allocate a reference, and the later commit replaces the earlier one |
| `CancelledIsNotProcessed` | `account.py:144`: a cancelled deletion is processed all the same |
| `DirectBetweenTwo` | `chat.py`: a private conversation can be given a third participant |
| `OneReactionPerReader` | `posts.py:874`: two devices leave two reactions of different kinds |

Smaller ones met while modelling: two private threads for one pair of members; two
quiz attempts with one number; two verified claims after the revision of a
claim that was never verified; a project created in its last status is not
captured; a badge without a season awarded twice; a WebSocket whose peer died
raises in the coroutine of the member who wrote, which ends with it.


## 8. What is only model-checked, and what is not modelled

Liveness needs fairness, which these proofs do not treat: `ReconciledUnlessDoomed`,
`Drained`, `ToldOfNews` and `GoneAreForgotten` stay with TLC.  So does everything about
`Reconciliation`, whose commit folds a sequence of answers, each over every state the
one before can leave; about `Realtime`; and about `Academy`.  Every invariant and
every
other action property of the passing runs has a theorem.  Two have it
under a restriction that the code imposes (section 6): `BalanceIsOutstanding` as long as
cancellations commit as they read, which in `ledger` is so because nobody cancels, and
`NeverOverbilled` as long as no penalty is made dearer under its own cancellation, which is so
in `checkout_fees`.  `FilesInv` says less of a file the cleaning has looked at: from then to
its unlinking a reference may appear, and `ProofsOnDisk` is what is lost.

Three details of the reset by code are in the model and worth knowing.  Two
confirmations that have both read the code both succeed: the second deletes no
row, which SQLAlchemy only warns about, and sets the password again.  A code
that was renewed in its row meanwhile is deleted with that row.  And a
suspended user may use up a code asked for earlier: the confirmation does not
look at the status.  `SetEligible` stands for all that makes a user eligible for
a session or not; `email_verified` and `is_active` are folded into it, though
the request for a code looks at `is_active` alone.

Not modelled:

* lock waits and the event loop of the money handlers.  A handler that waits for a row
  inside the loop stalls every coroutine: `initiate` (`finance.py:845`), `reconcile`
  (`mobile_money_service.py:460`) and the callback can meet that way.  Database
  deadlocks roll their victim back whole, which the models show as a step not taken;
* sales and expenses, receipts, PDF rendering and previews; the signing and rotation
  of QR tokens; the transport of `PayDunya` and `FCM`;
* alumni and user profiles, administration forms, product feedback, seasons: forms over
  one row; reactions and read positions of the chat; publication flags of a
  course; points and rankings, which reads recompute;
* who may call what, beyond the checks that depend on rows other requests change.
  `/attendance/manual` has the effect of the route of the session and is not an action of its own;
* the Flutter client, migrations, seeding and import scripts.

Hazards that are in the models without a line of their own in `PROJECT.json`: the
first two handlers that need a member's account both insert it, and the unique index fails
one (accounts exist from the start here); an archive statistic validated while
its source goes; two updates of one ticket; two awards of one badge; a document
deleted while a reference appears.  The conjuncts of `ClubInv` and `FilesInv` cover the last three.


## 9. The plan

Order of work, most important behaviour first.

1. Done: `FinanceLedger`, `MobileMoney` with `SettlementBook`, `Reconciliation`, their proofs.
2. Done: `PushOutbox` with its proofs; `AuthSessions` with its proofs.
3. Done: `Membership`; `Attendance` and the other workflows; `Academy`; `Realtime` with its liveness.
4. Done: proofs of `Membership` and of the workflows, one by one and together; the sums of
   the ledger and of the checkout.
   Left: the commit of a reconciliation run as a sequence of settlements, so that
   `Reconciliation` keeps `CheckoutInv` and the book for any number of runs and batches.
5. `EventLoop`: coroutines, threads and row locks of the money handlers; who can wait for whom.
6. The Flutter session client (one refresh at a time, late answers of an older session), composed
   with `AuthSessions`.
