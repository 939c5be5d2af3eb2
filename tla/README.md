# Crestmont bank backend: TLA+ models, checks and proofs

The backend is a Django REST application over PostgreSQL. It keeps money in an
append-only ledger, moves it through Stripe (deposits and withdrawals) and
between accounts (transfers confirmed by a mailed code), has people decide about
withdrawals, adjustments, cards, KYC documents and loans, and lets users in with
a mailed code until staff block them. This directory holds the TLA+ models of
that code, the TLC configurations that check them, and the theorems about them
that TLAPS checks. Paths below are relative to the repository, `views.py` alone
means `apps/banking/views.py`.

    tlc -config withdrawals_concurrent.cfg MCWithdrawals    # a run
    tlapm WithdrawalsProofs.tla                             # a module's proofs

## 1. Inventory

| component | state it keeps | operations that change it | interacts with |
|---|---|---|---|
| ledger (`apps/banking/models.py`) | `LedgerEntry` rows; no balance column, sums are computed | insert, status update, by the owners of the rows' origins | everything that moves money |
| accounts | `Account.status`, row locks | open, freeze, unfreeze | gate of every money view |
| withdrawals | `WithdrawalRequest` rows, Stripe payouts | create, approve, reject, payout webhooks | ledger, Stripe, accounts, mail (a rejection sends one inside its transaction) |
| transfers | `PendingTransfer`, `Transfer`, `EmailDevice` | initiate, confirm, resend | ledger, accounts, mail |
| deposits | `DepositRequest`, Stripe payment intents | create, payment webhooks | ledger, Stripe, accounts |
| manual adjustments | `ManualAdjustment` | create, approve, reject | ledger, staff roles, audit log |
| cards | `Card` | request, approve, reject, block, reactivate | accounts, mail signals, audit log |
| KYC review | `KYCDocument`, `User.kyc_status` | upload, approve, reject | the `can_transact` gate, mail signals, audit log |
| loans | `LoanProduct`, `LoanApplication` | apply, approve, reject, edit products | KYC status, mail signals, audit log |
| users, sessions, login codes | `User.is_frozen`, link tokens, refresh tokens, `EmailDevice` | login with a code, resend, verify, renewal of a session, links that verify an address or reset a password, block, unblock, clear a stuck code | every view's permission check, mail |
| staff roles | `User.role` | promote, demote | the staff views, the mail about a new administrator |
| notifications, mail signals | `Notification`, `Notice`, mails | `post_save` signals, mark read | may fail the statement that triggered them |
| audit log | `AuditLog` | `log_action`, middleware | written after what it records |

**Concurrency.** The settings leave `ATOMIC_REQUESTS` off: each ORM statement
outside `transaction.atomic()` commits alone. Two handlers interleave at every
such statement as soon as there are two request workers. `DEPLOY.md:50` starts
`gunicorn config.wsgi:application` with no `--workers`, that is, one synchronous
worker; a second worker is one environment variable (`WEB_CONCURRENCY`) away.
The models take the workers as a constant: with one worker a request is served
to its end before the next begins, unless the worker is killed; with two, what
the locks and transactions do not order may interleave.

**Failure.** A worker is killed by gunicorn's 30 s timeout (Stripe and SMTP calls
are made inside requests) or by a deploy: what was committed stays, an open
transaction is rolled back and its row locks are freed. A Stripe call may raise
although Stripe acted. Mail may raise: inside a transaction (the rejection of a
withdrawal, the upload of a document), which is rolled back, or in a `post_save`
signal after the row was saved, which ends the request half-way. Stripe repeats
an event until it is answered with 200, and may deliver it more than once.

**What makes each component correct.**

* *Withdrawals*: funds are held while a request is under review or on its way;
  nothing above the auto-approval limit is paid without a review; the debit is
  posted exactly when Stripe paid; a release means nothing was or will be paid;
  at most one payout; no account is overdrawn; a hold does not stay for ever.
* *Transfers*: a code moves money once; no confirmation overdraws an account,
  moves money of a frozen account or of a blocked owner; confirmations never
  deadlock; an executed intent is gone.
* *Deposits*: one credit for each charge, whatever is repeated, late or killed.
* *Adjustments*: an amount above the limit needs a second person; every posting
  has its audit row. (Posted once only where approvals do not overlap: two
  workers post an adjustment twice, a hazard that no property covers.)
* *Cards*: one open card per account; an active card has been issued, once.
* *KYC*: between requests the customer's status follows the last review.
* *Loans*: a final decision stays, an approved loan keeps the rate it was given.
* *All three*: the audit log tells nothing that did not happen.
* *Sessions*: a block ends the sessions of the user and lets nobody start one
  (renewed sessions escape it, see section 4); a user has one device row; a link changes its user once.
* *Roles*: an administrator remains.

`PROJECT.json` lists every hazard at its line, with the properties that would
catch it.

## 2. Plan

| step | modules | what they add | state |
|---|---|---|---|
| 1 | `Ledger`, `AccountTable` | the shared vocabulary: rows, sums, accounts, locks, gate | done |
| 2 | `Withdrawals`, `FundsReservation`, `WithdrawalsRefinement`, `WithdrawalsProofs` | the core, its abstract specification, the first theorems | done |
| 3 | `Transfers`, `Deposits` | the two other money handlers | done |
| 4 | `Adjustments`, `AdjustmentsProofs` | four-eyes approval, races of two approvers, the audit log | done |
| 5 | `Bank` | withdrawals and transfers over one account table: a transfer looks at `balance_cents()` and may spend held funds | done |
| 6 | `Reviews`, `ReviewsProofs` | cards, KYC, loans: one pattern, three instances: read, decide, save, mail, tell, log, each a commit of its own | done |
| 7 | `Access`, `AccessProofs` | sign-in with a code, links, blocks, roles: checks that are stale when they are used | done |
| 8 | `DepositsProofs`, `TransfersProofs` | types, credits, one-time intents, lock order, freezes | done |
| 9 | `WithdrawalsProofs`, second part | the deployed case, one worker: `PostedIsFinal`, `BooksAgree`, `OnePayoutPerWithdrawal`, `ReleasedMeansUnpaid` | done |
| 10 | `LedgerProofs` | sums over the ledger, by induction over finite sets; with it `NoOverdraw`, `NoNegativeBalance`, the refinement with its amounts | done |
| 11 | `BankProofs` | what withdrawals guarantee holds beside transfers; cover of transfers, conservation of money | done |

Abstract specifications: `FundsReservation` (a hold is spent or returned, once)
for withdrawals.

## 3. Modules and the code

A worker `k` has a `pc[k]` that names the statement it executes next and a
`job[k]`, the row its request is about. A statement that commits by itself is an
action. Inside `transaction.atomic()` reads are actions, and the writes appear
together in the action that commits. Row locks are variables. An action whose
name ends in `Begin` (and `InitiateCreates`, `WebhookFinds`) takes a request in.

Beside some definitions stands a second one, just before it, that says what a
plausible slip would make of it (`SeesBalanceOnly` before `SeesFunds`). No
specification uses these; they show what each property would catch.

* **`Ledger`** — `Entry` is a `LedgerEntry` row, its origin (`source_type`,
  `source_id`) a single `id`; `BalanceCents`, `HeldCents` are the sums of
  `Account.balance_cents()` and `held_cents()`; `SetStatus` is the
  `filter(...).update(status=...)` that several handlers issue.
* **`AccountTable`** — account status, locks, ledger, and `can_transact` of the
  owner, with the requests that change them from outside: freeze, unfreeze,
  block, unblock and KYC decisions (`GateChanges`).
* **`Withdrawals`** — `WithdrawalListCreateView.post` (`Create*`), the payout call
  and both ways it ends (`PayoutStarts`, `KeepPayout`; `PayoutRefused`,
  `PayoutReplyLost`, `MarkFailed`, `ReleaseHold`), `AdminWithdrawalApproveView`
  (`ApproveBegin`, `ApproveSaves`), `AdminWithdrawalRejectView` (`RejectBegin`,
  `RejectCommits`, `RejectRollsBack`), the webhook (`WebhookFinds`,
  `WebhookSettles`, `WebhookFindsNothing`), Stripe (`PayoutSettles`) and `Crash`.
  `available_cents()` is two queries and so two actions: `CreateLocksAccount`
  reads the balance, the next step reads the holds.
* **`Transfers`** — initiate (`InitiateCreates`, `CodeIsSaved`, `CodeIsMailed`,
  `CodeIsTakenBack`, `InitiateDiscards`), resend (`ResendBegin` and the same mail
  steps), confirm (`ConfirmBegin`, `ConfirmVerifies`, `ConfirmLocks`,
  `ConfirmLocksMore`, `ConfirmRechecks` or `ConfirmRefuses`, `ConfirmMoves`), the
  two expiries. The re-check, which queries the balance, and the commit are two
  steps: settlements of withdrawals, which take no lock, may come between.
  `django_otp`'s `EmailDevice` is not in the repository; it is modelled as
  `apps/users/utils.py` and the views use it: a code is saved, mailed, matched on
  a row that was read, and cleared by a save of that whole row.
* **`Deposits`** — create (`CreateBegin`, `IntentStarts`, `IntentRefused`,
  `KeepIntent`, `MarkFailed`), the customer at Stripe (`CustomerPays`), the webhook.
* **`Adjustments`** — create (`RequestIsServed`, one transaction and so one
  action), approve (`ApproveBegin` reads without a lock, `ApproveCommits`), reject
  (`RejectBegin`, `RejectSaves`, `RejectLogs`: no transaction, two commits). The
  audit log is a sequence of rows per adjustment; the n-th row that records a
  posting and the `LedgerEntry` of the same transaction carry the same number.
* **`Reviews`** — `CardListCreateView.post` (`CardRequestBegin` checks,
  `RequestCreates` inserts), `LoanApplicationListCreateView.post`
  (`LoanApplyBegin`, the same insert), `KYCDocumentListCreateView.post`
  (`UploadBegin`; `UploadCommits` or `UploadRollsBack`, one transaction with the
  mail inside), and the eight decisions of the `Admin...View`s for cards, loans
  and documents. `Rule` says what each accepts, saves and mails; the steps are
  shared: `DecideBegin` (the row is read and checked), `LoanIsPriced`,
  `StatusIsStashed` (`pre_save`), `DecisionIsSaved`, `MailIsSent` or `MailFails`
  (`post_save`), `UserIsSaved` (`kyc_status`), `CustomerIsTold`,
  `DecisionIsLogged`. Each is a statement that commits alone. `PatchBegin` and
  `ProductIsSaved` are `AdminLoanProductDetailView.patch`, which reads a product
  and saves every column. History variables: `done` (decisions that were saved),
  `cleared` (customers with a document whose approval was saved), `did` (what a
  worker's own request has committed, so that a decision taken twice is told
  apart) and `log` (the audit rows, each with the `did` of its request), `review` (the last decision about a customer's documents, `"cut"` if its request
  ended before `kyc_status` was saved), `raced` (rows about which two requests
  overlapped: rows of one subject, that is, one loan, the cards of one account or
  the documents of one customer).
* **`Access`** — `LoginView` (`LoginBegin`, `DeviceIsCreated`) and
  `LoginOtpResendView` (`ResendBegin`), which share `CodeIsSaved`, `CodeIsMailed`
  and `CodeIsTakenBack`; `LoginOtpVerifyView` (`VerifyBegin`, `CodeIsUsed`,
  `SessionIsIssued`, `SecondFactorFails`); the library's `TokenRefreshView` at
  `token/refresh` (`RefreshBegin`, `SessionIsRenewed`), which with
  `ROTATE_REFRESH_TOKENS` and `BLACKLIST_AFTER_ROTATION` blacklists the token it
  is shown and gives another, of which simplejwt makes no `OutstandingToken` row
  (`renewed`); the links of registration and password
  reset (`Link*`, `ConfirmBegin`, `LinkIsUsed`); `AdminUserBlockView` and
  `AdminUserUnblockView` (`BlockBegin`, then `SessionsAreListed`,
  `SessionIsRevoked` one by one, `BlockEnds`); `AdminUserClearLoginOtpView`
  (`ClearBegin`, `DevicesAreCleared`); `PromoteBegin`, `DemoteBegin`. Whatever
  saves a `User` goes through its signals (`RoleIsStashed`, `UserIsSaved`,
  `AdminIsNotified`, `NotifyFails`). Two history variables: `raced` (topic and
  user of requests that overlapped) and `doubt` (users whose last block met a
  sign-in that had passed the check of `is_frozen`, or was cut short).
* **`Bank`** — `Withdrawals`, which it extends, and `Transfers`, which it takes as
  an instance, over the same accounts, ledger, locks and workers; it adds only
  that a worker serves one request at a time (`Idle`). `pc` and `job` are a
  worker's withdrawal, `tpc` and `tjob` its transfer.
* **`FundsReservation`** — what withdrawals promise, in three atomic actions;
  **`WithdrawalsRefinement`** maps a withdrawal's ledger row to its funds.
* **`MC*`** — small instances. **`*Proofs`** — the theorems.

A property with a condition on `raced`, `doubt` or `"cut"` says exactly when the
code keeps its promise: TLC finds it violated without the condition, since
nothing in the code orders two such requests. What such requests do then is
listed as a hazard.

## 4. Runs

| run | instance | shows |
|---|---|---|
| `withdrawals_concurrent` | 2 workers, 2 requests (one auto-approved, one under review), 3 payouts, crashes, lost replies | what holds in spite of everything: types, `PendingReviewIsHeld`, `ReviewBeforePayout`, `PostedMeansPaid` |
| `withdrawals_serial` | 1 worker, 3 requests on one account, 2 payouts, crashes, lost replies | `NoOverdraw`, `ReleasedMeansUnpaid`, `OnePayoutPerWithdrawal`, `BooksAgree`, `PostedIsFinal`, `ProcessingIsSettled`, and the refinement `ReservesFunds` |
| `transfers_concurrent` | 2 workers, 2 accounts that pay each other, crashes | `NoNegativeBalance`, `NoCircularWait`, `ExecutedIsGone`, `OnlyActiveAccountsMove`, `ConfirmEnds` |
| `deposits` | 2 workers, 2 deposits, 2 intents, crashes, lost replies, repeated and late events | `CreditedOnceIfCharged`, `SucceededMeansCredited`, `SettledIsFinal`, `ChargedIsCredited` |
| `adjustments` | 2 workers, 2 staff, a small and two large adjustments (credit, debit), crashes | `PostingsAreAudited`, `FourEyes`, `WaitingIsUnposted` |
| `reviews` | 2 workers, 2 rows of one customer, each a card, a loan or a document, 2 rates, 6 requests, mails that raise, crashes | `DecisionsAreWhole`, `LogIsTrue`, `KycFollowsReviews`, `OneOpenCard`, `DecidedIsFinal` |
| `access` | 2 workers, 2 users of any roles, 4 requests (renewals of sessions among them), mails that raise, crashes | `AnAdminRemains`, `BlockEndsSessions`, `OneLoginDevice`, `LinkUsedOnce` |
| `bank` | 2 workers, an auto-approved withdrawal and 2 transfers (one abroad) from one account, crashes, lost replies | `BankTypeOK`, `MoneyIsConserved`, `TransfersAreCovered` |
| `bank_holds` | 1 worker | **violated**: `HeldFundsStay` |
| `withdrawals_posted` | 2 workers | **violated**: `PostedIsFinal` |
| `transfers_otp` | 2 workers | **violated**: `ExecutedAtMostOnce` |
| `transfers_gate` | 1 worker | **violated**: `GateHeld` |

The violated ones state what a comment or a message of the code says:

* *Funds held "so a concurrent withdrawal or transfer can't spend the same
  balance"* (`views.py:442`), against transfers: `TransferConfirmView` looks at
  `balance_cents()`, not at `available_cents()`. Without any race a transfer
  spends what a withdrawal under review holds, and the payout overdraws.
* *"append-only … nothing can silently overwrite history"* (`models.py:22`). Two
  approvals of one withdrawal both find it pending. One is paid and posted; Stripe
  refuses the other, whose error path sets all of the request's rows to failed.
* *"can only be used once"* (`config/settings.py:178`). Two confirmations of one
  code both read it before either clears it; nothing under the account locks
  looks at the intent again.
* *"Central gate every money-movement view should check"*
  (`apps/users/models.py:62`). Confirming a transfer does not.

Three more disagreements are known and described as hazards, without a run: a
block "blacklists every outstanding refresh token so already-issued sessions
can't silently keep working" (`apps/users/views.py:343`), but it finds tokens by
their `OutstandingToken` rows, and a session that was renewed has none, so it
survives the block one request after another, with no race, crash or failure
(`BlockEndsSessions` excepts just these);
`available_cents()` is a balance query and a holds query, and a payout that is
settled between the two is in neither sum, so that with two workers a withdrawal
may be accepted against funds that are gone (`NoOverdraw` is checked with one
worker for that reason); and rejections and reviews are committed before their
audit row, so that a worker killed in between leaves no trail (`LogIsTrue` is the
direction that holds).

### Bounds

`Workers`, `Withdrawals`, `Transfers`, `Deposits`, `Adjustments`, `Staff`, `Payouts`,
`Intents` and `Accounts` are finite sets; the modules about money have no other bound, since every
counter is bounded by them (a transfer executes at most once per worker that read its code, plus
once per code; each execution deletes the intent). Two workers are enough for
every race named above, each of which has two actors. Amounts are one to three
cents and balances chosen so that any two requests are too much or just enough,
so that both outcomes of each check of funds occur. With three payouts
(`withdrawals_concurrent`) each request can have a payout and one of them a
second; two (`withdrawals_serial`) are enough for a second one of a request. Two members of staff are
enough for one who asks and one who approves. An adjustment's trail is bounded
by its workers: each decision needs the status pending at its first read. In
`bank` the withdrawal and each transfer are two cents of three, so that a
settlement between a transfer's re-check and its commit overdraws; the withdrawal
needs no review, since two overlapping reviews break the books by themselves
(`withdrawals_posted`). Symmetry is used
for payouts and workers in `withdrawals_concurrent` and `bank`, for workers and
staff in `adjustments`, for workers and rows in `reviews` and for
workers and users in `access`, all runs without liveness. The
60 s cool-down, expiry and Stripe's delays are actions that may happen at any
time.

`Reviews` and `Access` serve customers and staff who may go on for ever, so they
count the requests that arrive. Six (`MaxRequests` of `reviews`) let two
workers race on a row twice and leave two to look at the outcome, take a card
through request, approval, block, another request and reactivation, or decide
about a document twice with an upload before and between; four (of
`access`) let a user be blocked, unblocked, signed in and blocked again.
`MaxDevices` is 2, one row more than there should be, and `MaxSessions` is 3: one
from before, one that is issued or renewed during a block, one after it. A worker
that would need another stops there; the theorems hold for every bound.

### Fairness

* A worker goes on with its request (`WF`, or `SF` where it waits for a row lock:
  PostgreSQL queues the waiters of a lock, none is passed over for ever).
* Stripe settles every payout (`WF`) and repeats an event until it is answered
  with 200 (`SF` on the delivery).
* Of the webhook attempts that are begun, not every one is killed: `SF` on
  `WebhookSettles`. Without it a worker that always dies in the webhook would be
  a counterexample that says nothing about the code.
* `Reviews` and `Access` have no liveness property and assume no fairness: a request
  that dies there is simply asked for again.
* Nothing is assumed of customers, reviewers, freezes, crashes or lost replies.

`ProcessingIsSettled` is checked with one worker. With two, a webhook may arrive
between the payout call and the save of the payout's id; it finds no request, is
answered with 200 and never repeated, and the request stays in processing.

## 5. Proofs

`WithdrawalsProofs` proves, for every set of workers, accounts, requests and
payouts, every limit, with crashes and lost replies:

| theorem | states |
|---|---|
| `Inductive` | `Spec => []IInv` |
| `SumsCorrect` | `Spec => []SumsOK`: balance and holds are sums of integers, and so is what a worker read of them |
| `TypeCorrect` | `Spec => []TypeOK` |
| `ReviewHoldsFunds` | `Spec => []PendingReviewIsHeld` |
| `ReviewComesFirst` | `Spec => []ReviewBeforePayout` |
| `DebitsArePaid` | `Spec => []PostedMeansPaid` |

`AdjustmentsProofs` proves, for every set of adjustments, staff and workers, every
amount and every limit, with crashes:

| theorem | states |
|---|---|
| `Inductive` | `Spec => []IInv` |
| `TypeCorrect` | `Spec => []TypeOK` |
| `PostingsLeaveATrail` | `Spec => []PostingsAreAudited` |
| `TwoPeople` | `Spec => []FourEyes` |
| `NothingMovesEarly` | `Spec => []WaitingIsUnposted` |

`ReviewsProofs` proves, for every set of rows, customers, rates and workers:

| theorem | states |
|---|---|
| `Inductive` | `Spec => []IInv` |
| `TypeCorrect` | `Spec => []TypeOK` |
| `RowsAreWhole` | `Spec => []DecisionsAreWhole` |
| `TheLogIsTrue` | `Spec => []LogIsTrue` |
| `OneCardIsOpen` | `Spec => []OneOpenCard` |
| `StatusFollowsReviews` | `Spec => []KycFollowsReviews` |
| `DecisionsAreFinal` | `Spec => DecidedIsFinal`, an action property |

`AccessProofs` proves, for every set of users and workers and all bounds:

| theorem | states |
|---|---|
| `Inductive` | `Spec => []IInv` |
| `TypeCorrect` | `Spec => []TypeOK` |
| `AdministratorRemains` | `Spec => []AnAdminRemains` |
| `BlockedUsersAreOut` | `Spec => []BlockEndsSessions` |
| `OneDevice` | `Spec => []OneLoginDevice` |
| `LinksAreUsedOnce` | `Spec => []LinkUsedOnce` |

`DepositsProofs` proves, for every set of deposits, intents, accounts and workers,
with crashes, lost replies and events that Stripe repeats or delivers late:

| theorem | states |
|---|---|
| `Inductive` | `Spec => []IInv` |
| `TypeCorrect` | `Spec => []TypeOK` |
| `CreditedOnce` | `Spec => []CreditedOnceIfCharged` |
| `StatusTellsOfCredit` | `Spec => []SucceededMeansCredited` |
| `SettlementsAreFinal` | `Spec => SettledIsFinal`, an action property |

`TransfersProofs` proves, for every set of transfers, accounts and workers and
every order of the accounts' ids, with crashes:

| theorem | states |
|---|---|
| `Inductive` | `Spec => []IInv` |
| `TypeCorrect` | `Spec => []TypeOK` |
| `ExecutedIntentsAreGone` | `Spec => []ExecutedIsGone` |
| `NobodyWaitsInACircle` | `Spec => []NoCircularWait` |
| `MovesAreExclusive` | `Spec => []MoversAreApart`: two workers between their re-checks and their commits have no account in common |
| `RechecksStay` | `Spec => []RechecksHold`: what the re-check saw is so until the commit |
| `FrozenAccountsStay` | `Spec => OnlyActiveAccountsMove`, an action property |
| `BalancesStay` | `Spec => []NoNegativeBalance` |

The second part of `WithdrawalsProofs` proves, for every set of accounts, requests
and payouts, with crashes and lost replies, what needs that no two requests deal
with one withdrawal at a time: there is one worker (`OneWorker`, what
`withdrawals_serial` runs), or any number and no withdrawal above the limit
(`Serial` allows both). The one is the deployment as documented, the other shows
that it is reviews, and nothing else, that two workers must not overlap in:

| theorem | states |
|---|---|
| `SerialInductive` | `Serial` implies `Spec => []SerialInv` |
| `StatusFitsLedger` | `Serial` implies `Spec => []BooksAgree` |
| `PaidOutOnce` | `Serial` implies `Spec => []OnePayoutPerWithdrawal` |
| `ReleasedFundsAreUnpaid` | `Serial` implies `Spec => []ReleasedMeansUnpaid` |
| `DebitsStay` | `Serial` implies `Spec => PostedIsFinal`, an action property |
| `FundsInductive` | `OneWorker` implies `Spec => [](SeenFits /\ SumsFit)` |
| `NothingIsOverdrawn` | `OneWorker` implies `Spec => []NoOverdraw` |
| `ImplementsReservation` | `OneWorker` implies `Spec => ReservesFunds`, the refinement of `FundsReservation` |

`BankProofs` proves, for every set of accounts, withdrawals, transfers and payouts
and all amounts, of withdrawals and transfers that share accounts, ledger, locks
and workers, with crashes:

| theorem | states |
|---|---|
| `BankInductive` | `BankSpec => []BankIInv`; it contains the `IInv` of withdrawals |
| `BankTypes` | `BankSpec => []BankTypeOK` |
| `TransfersDoNotOverdraw` | `BankSpec => []TransfersAreCovered` |
| `MoneyStays` | `Serial` implies `BankSpec => []MoneyIsConserved` |

`LedgerProofs` holds the lemmas about sums that these proofs share.

The assumptions are those the modules state of their constants (`OpeningAssumption`
and `NoOneAssumption` of `AccountTable`, `RequestAssumption`, `TransferAssumption`,
`DepositAssumption`, `ReviewAssumption`, `AccessAssumption`, `BankAssumption` and those
of `Adjustments`): amounts and rates are positive, ids of different kinds differ, the
tables summed over in `Bank` are finite. TLC evaluates them in each run, and each inductive invariant was checked with TLC on
the run's instance before it was proved.

None of the three properties of withdrawals is inductive. A review that was begun long
ago may still write to a request another worker has decided, so what has to be
known is the position of every worker. `IInv` says it in parts:
`CreatorsAreAlone` (a request being created has no row, and one creator),
`HandlersFollowDecisions` (a handler past its first save deals with a request
that was decided, and no step undoes a decision), `PayoutsAreOfDecided` (payouts
and the ids workers carry belong to decided requests, each to its own),
`ReviewedIfDecided`, `PendingHasHold`, and `PostedMeansPaid`. The three
properties follow: a pending request is not decided, so it has no payout and no
handler that could touch its hold; a payout is of a decided request, and a
decided one above the limit was reviewed. The step theorem has one step per
action and under it one per part that the action can disturb.

For adjustments the three properties are inductive together once it is known
what a reviewer who read the row long ago may assume (`ReviewersAreApart`): the
row exists, and an approver is not the one who asked. `FourEyes` would otherwise
fail in `ApproveCommits`, which looks at neither again. `PostFacts` and
`LogKeepsPostings` say once what the two ways to write an audit row do to the set
of postings; every step lemma uses them.

For reviews, what a worker checked when it began is used several commits later.
`ChecksStillHold` says that it is still so for a row nobody else dealt with, and
`OverlapsAreKnown` that everybody else who did is in `raced`, together with all
rows of the subject. `CreatorsAreAlone` is about rows that are being inserted,
`ClosersHaveDone` about what a worker past its save has committed (`LogIsTrue` is
what remains of it when the worker is done), `KycIsInStep` joins a customer's
status, the last review and whoever is between the two saves of a review.
`DecisionsAreWhole` needs none of this: a save writes a status together with its
terms, and a worker that blocks or reactivates a card knows that it was issued
(`DecidersKnow`). `DecidedIsFinal` follows from `ChecksStillHold`: the status an
undisturbed decision finds is one it accepts, so not a final one.

For access there are four arguments that do not need each other, and `IInv` has a
part for each. `AdminsAreSafe`: as long as no two requests
about roles have overlapped there is at most one at a time, and a lone demotion
was asked for by another administrator, who is still one when it saves. `BlocksHold`: from the moment a
user is frozen nobody is past the check (or the user is in doubt), so no
sign-in gives another session, and each that one gave is revoked or in some
block's list, or a block has yet to make its list; sessions given in renewals are
on no list. `LinksAreWhole` and `DevicesAreSingle` follow the
one request that is under way. That the first of a user's device rows exists is
a fact about the naturals (`FirstFact`, from the library's least-element theorem).

For deposits, a worker about to settle holds the row's lock, and knows of an
event that did happen to the intent the row names (`SettlersHoldTheRow`); the
creator, which saves without a lock, could only disturb that if it saved twice,
and the id is the last thing it saves (`IdsComeLate`). A deposit is credited in the
step that makes it succeed, so one credit is all it gets (`CreditsAreCharged`).

For transfers, an intent is known to nobody but its creator until the creator is
done with it (`CreatorsAreAlone`, `ConfirmersAreLate`), so no late save makes an
executed intent live again. `LocksAreHeldInOrder` says that a worker that waits for
its second account holds the one that comes first and no other. Two that wait for
each other would each hold the account that comes first for both, which is why
`order_by("id")` is enough. The same invariant makes the movers disjoint: a worker
that has checked again holds the locks of all its accounts until it commits
(`Locked`). A freeze takes the lock too, so between the re-check of the statuses
and the commit none comes through (`RechecksHold`).

For withdrawals under `Serial` a withdrawal is dealt with by one worker at a time
(`HandledAlone`; the webhook locks the row and finds none before the payout's id
is saved, which ends the creation), so what a handler has read is still so at its
next statement (`StatementsFit`), whatever the others do (`FitsStays`). Hence every request has exactly the ledger row its
status calls for (`RowsFit`) and at most one payout, which its status tells of
(`PayoutsFit`). Crashes are why these are not simpler: a worker killed between the
save of `failed` and the release of the hold leaves a failed request with its hold
for ever, one killed after the payout call an approved request with a payout.
A lost reply leaves a failed request whose payout exists and whose id nobody saved
(`Unheard`): the one way in which funds are released that were, or will be, paid,
which `ReleasedMeansUnpaid` states as its exception. `RowsFit` and `PayoutsFit`
allow just that. Four lemmas (`...Moves`) say what the
four statements that write to the ledger do to the rows of one request;
`LedgerSteps` puts them together; `PostedIsFinal` and the refinement follow from it.

**Sums.** A balance is a fold of the library, defined by recursion over finite sets,
and the provers cannot instantiate the library's induction theorems, which take
an operator. `LedgerProofs` therefore does the induction with sets in place of
operators: the subsets of a finite set for which a fact holds are a set, a set of
subsets that has each one whose proper subsets it has contains them all
(`SubsetsByInduction`, from the library's theorem that strict inclusion is well
founded there), and the recursive function that the fold chooses exists for that
reason (`SumRecursion`). What follows are the laws the proofs use: a sum changes by
the row that is added, removed or written (`SumAdds`, `RowIsAdded`, `RowIsRemoved`,
`RowIsWritten`), sums over equal amounts are equal (`SumOfSame`), leaving out debits
does not lower a sum (`DebitsAreLeftOut`). `Countable` says of an account that its
rows are finitely many and their amounts integers, without which a sum says
nothing; it is part of every invariant about money. `TypeOK` of withdrawals is
split for these proofs: `RowsOK` about the ledger, which others write too,
`VariablesOK` about the rest.

With one worker, what a creator read of the balance is still the balance when it
reads the holds (`SeenFits`; it fails with two, which is the hazard at
`views.py:430`). The funds free on an account by the rows are those free by the
states of the requests (`SumsFit`): a hold lowers both by the amount, a settlement
neither, a release raises both. So the code's check of `available_cents()` is the
guard of the abstract `Hold`, and `NoOverdraw` is a part of the invariant.

For transfers, the re-check of the balance and the rows that spend it are two
steps. Between them every other transfer from the account waits for its lock, so
the balance can only have grown (`RechecksNext`); a balance that covers the amount
covers the debit (`BooksAreCovered`, `PairIsCovered`).

**Composition.** A step of withdrawals in `Bank` is a step of `Withdrawals`
(`StepsOfWithdrawals`), and the step theorem of `Withdrawals` applies to it. A step
of transfers changes no variable of withdrawals but the ledger, and there adds rows
whose ids are no withdrawals' (`RowsHaveOwners`, which also says that the rows of a
transfer's next execution are not there yet). `IInv` and, under
`Serial`, `SerialInv` look at no rows but those of withdrawals (beyond their type),
so they carry over. `SumsFit` looks at the available funds and does not:
`bank_holds` shows why. For
`TransfersAreCovered` the withdrawals' rows are left out of the sums; leaving them
out does not lower a balance, so what the code checks is more than enough, and
what a withdrawal settles between the re-check and the commit does not count
(`CoveredByOthers`, the form `RechecksHold` takes here). For
`MoneyIsConserved`, one step changes one row or a transfer's two rows:
`TotalOfRow` says what a row does to the total, `WithdrawalsBalance` that the total
falls exactly when a request becomes succeeded (under `Serial` `RowsFit` says
that a request has succeeded exactly if its row is posted), `TransfersBalance` that
debit and credit cancel, or the debit is what `SentAbroad` gains.

Left to TLC: liveness alone (`ConfirmEnds`, `ProcessingIsSettled`,
`ChargedIsCredited`), since fairness and `ENABLED` are out of the prover's reach.
Every other property of a passing run is a theorem for every value of the
constants. Of `MoneyIsConserved` with several workers and reviews nothing is claimed: an
approval raced by another turns a posted debit into a failed one
(`withdrawals_posted`), and the total with it.

## 6. Not modelled, and why

* *Authenticator apps* (set up, disable): the library does the work; a second
  factor is only a request that fails (`SecondFactorFails`).
* *Registration and account opening*: rows inserted with nobody else about; of
  registration its link is modelled. The mail about a new account likewise.
* *Notices, read flags, the list of notifications*: rows of one user, set once.
* *Products of loans* but for their rate: bounds of amount and term are checks of
  an application's input; creating a product is an insert. Repayments have a
  table and no code.
* *Audit rows of the handlers in `Access` and of freezes, the request log of the
  middleware*: written after, and outside, what they record, as in `Reviews`.
* *Expiry of codes and links in `Access`*: an expired one is one nobody uses.
* *A withdrawal approved although its account was frozen meanwhile*: the code does
  this (`Withdrawals` shows it); whether an approver may is the bank's decision.
* *Serializers*: pure checks of a request's format. The amounts they accept are
  positive integers, as in the models.
* *Configuration, routing, migrations, templates of mails*: declarative or wording.
* *Foreign-key locks*: inserting a row that refers to an account takes a
  `KEY SHARE` lock on it, which waits for `FOR UPDATE`. Modelled where it can
  matter (the credit of a deposit); a withdrawal's and a transfer's inserts are
  made by the holder of the account lock itself.
* *`payout.failed` after `payout.paid`* (a bank that returns a payout days later):
  the webhook ignores settled requests; a payout has one final state here.
* *Throttling, cool-down*: they only make requests fail early. *Wrong codes*: the
  library counts them with a save of the whole device row as it was read, which
  may put an older code back; requests with a wrong code are left out, and no
  property is about which of two codes a customer may use.
* *Reads*: lists and details change nothing.
