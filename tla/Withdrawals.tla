---------------------------- MODULE Withdrawals ----------------------------
(***************************************************************************)
(* Withdrawals: WithdrawalListCreateView.post, AdminWithdrawalApproveView, *)
(* AdminWithdrawalRejectView and StripeWebhookView._settle_withdrawal, run *)
(* by concurrent request workers, against Stripe's payouts.                *)
(*                                                                         *)
(* A request holds the funds (a pending ledger row), is approved by amount *)
(* or by a person, starts a payout at Stripe, keeps the payout's id, and   *)
(* is settled by the webhook.  A pc label names the statement a worker     *)
(* executes next:                                                          *)
(*    lock, check      create: lock the account; check funds and hold them *)
(*    save             approve: save the status that was read as pending   *)
(*    reject           reject: the transaction after the status was read   *)
(*    call, keep       create and approve: call Stripe; save the payout id *)
(*    fail, release    create and approve, when Stripe raised an error     *)
(*    settle           webhook: the row is locked, its hold was read       *)
(*    settle_bare      webhook: the same, and no pending hold was found    *)
(***************************************************************************)
EXTENDS AccountTable

CONSTANTS Withdrawals,       \* withdrawal requests, by id
          AccountOf,         \* the account a request draws on
          AmountOf,          \* its amount in cents
          AutoApproveLimit,  \* AUTO_APPROVE_LIMIT_CENTS
          Payouts,           \* ids Stripe gives to payouts (the bound on them)
          LostReplies,       \* whether Stripe may act on a call it seems to fail
          WorkersCrash       \* whether a worker may die within a request

ASSUME RequestAssumption ==
    /\ AccountOf \in [Withdrawals -> Accounts]
    /\ AmountOf \in [Withdrawals -> Nat \ {0}]
    /\ AutoApproveLimit \in Nat
    /\ Withdrawals \cap Accounts = {}
    /\ NoOne \notin Withdrawals \cup Payouts
    /\ LostReplies \in BOOLEAN
    /\ WorkersCrash \in BOOLEAN

VARIABLES status,       \* WithdrawalRequest.status ("none": no row yet)
          reviewed,     \* WithdrawalRequest.reviewed_by is set
          payoutId,     \* WithdrawalRequest.stripe_payout_id
          rowLock,      \* the worker that holds the row's FOR UPDATE lock
          payoutState,  \* Stripe: a payout's state
          payoutFor,    \* Stripe: the withdrawal_request_id in its metadata
          delivered,    \* payouts whose webhook was answered with 200
          pc, job,      \* a worker's next statement and the request it is about
          seen,         \* its balance_cents() result
          ref           \* the payout it was given, or is told about

requestVars == <<status, reviewed, payoutId, rowLock>>
stripeVars  == <<payoutState, payoutFor, delivered>>
workerVars  == <<pc, job, seen, ref>>
vars        == <<accountVars, requestVars, stripeVars, workerVars>>

Statuses == {"none", "pending", "approved", "processing",
             "succeeded", "rejected", "failed"}
Settled  == {"succeeded", "failed"}
Labels   == {"idle", "lock", "check", "save", "reject", "call", "keep",
             "fail", "release", "settle", "settle_bare"}

Init ==
    /\ AccountInit
    /\ status      = [w \in Withdrawals |-> "none"]
    /\ reviewed    = [w \in Withdrawals |-> FALSE]
    /\ payoutId    = [w \in Withdrawals |-> NoOne]
    /\ rowLock     = [w \in Withdrawals |-> NoOne]
    /\ payoutState = [p \in Payouts |-> "unused"]
    /\ payoutFor   = [p \in Payouts |-> NoOne]
    /\ delivered   = {}
    /\ pc   = [k \in Workers |-> "idle"]
    /\ job  = [k \in Workers |-> NoOne]
    /\ seen = [k \in Workers |-> 0]
    /\ ref  = [k \in Workers |-> NoOne]

Goto(k, label) == pc' = [pc EXCEPT ![k] = label]

\* The response is sent (or the connection died) and the worker forgets.
Respond(k) ==
    /\ pc'   = [pc EXCEPT ![k] = "idle"]
    /\ job'  = [job EXCEPT ![k] = NoOne]
    /\ seen' = [seen EXCEPT ![k] = 0]
    /\ ref'  = [ref EXCEPT ![k] = NoOne]

SetRequestStatus(w, s) == status' = [status EXCEPT ![w] = s]

\* The payout a handler was given by Stripe or is told about by an event.
RememberNothing(k, p) == UNCHANGED ref
Remember(k, p) == ref' = [ref EXCEPT ![k] = p]

-----------------------------------------------------------------------------
(* WithdrawalListCreateView.post                                           *)

\* The can_transact gate passed; the user was loaded with the request.
CreateBegin(k, w) ==
    /\ pc[k] = "idle"
    /\ status[w] = "none"
    /\ \A j \in Workers : pc[j] \in {"lock", "check"} => job[j] # w
    /\ canTransact[AccountOf[w]]
    /\ Goto(k, "lock")
    /\ job' = [job EXCEPT ![k] = w]
    /\ UNCHANGED <<accountVars, requestVars, stripeVars, seen, ref>>

\* SELECT ... FOR UPDATE, the status check, and the first of the two SUM
\* queries of available_cents().
CreateLocksAccount(k) ==
    LET a == AccountOf[job[k]] IN
    /\ pc[k] = "lock"
    /\ accountStatus[a] = "active"
    /\ LockAccount(k, a)
    /\ seen' = [seen EXCEPT ![k] = BalanceCents(ledger, a)]
    /\ Goto(k, "check")
    /\ UNCHANGED <<accountStatus, ledger, canTransact, requestVars, stripeVars,
                   job, ref>>

CreateFindsInactive(k) ==
    /\ pc[k] = "lock"
    /\ Unlocked(AccountOf[job[k]])
    /\ accountStatus[AccountOf[job[k]]] # "active"
    /\ Respond(k)
    /\ UNCHANGED <<accountVars, requestVars, stripeVars>>

\* available_cents() >= amount.  held_cents() is the second query: it may see
\* a later ledger than the first.
SeesBalanceOnly(k) == seen[k] >= AmountOf[job[k]]
SeesFunds(k) ==
    seen[k] + HeldCents(ledger, AccountOf[job[k]]) >= AmountOf[job[k]]

CreateFindsTooLittle(k) ==
    /\ pc[k] = "check"
    /\ ~SeesFunds(k)
    /\ ReleaseAccountLocks(k)
    /\ Respond(k)
    /\ UNCHANGED <<accountStatus, ledger, canTransact, requestVars, stripeVars>>

AutoApprovedOffByOne(w) == AmountOf[w] <= AutoApproveLimit + 1
AutoApproved(w) == AmountOf[w] <= AutoApproveLimit

DebitAtOnce(w) == Entry(w, AccountOf[w], -AmountOf[w], "posted")
HoldEntry(w) == Entry(w, AccountOf[w], -AmountOf[w], "pending")

\* The commit: the request's row and the hold, in one transaction.  A request
\* that needs review is answered here.
CreateHolds(k) ==
    LET w == job[k] IN
    /\ pc[k] = "check"
    /\ SeesFunds(k)
    /\ SetRequestStatus(w, IF AutoApproved(w) THEN "approved" ELSE "pending")
    /\ ledger' = ledger \cup {HoldEntry(w)}
    /\ ReleaseAccountLocks(k)
    /\ IF AutoApproved(w)
       THEN Goto(k, "call") /\ seen' = [seen EXCEPT ![k] = 0] /\ UNCHANGED <<job, ref>>
       ELSE Respond(k)
    /\ UNCHANGED <<accountStatus, canTransact, reviewed, payoutId, rowLock, stripeVars>>

-----------------------------------------------------------------------------
(* create_withdrawal_payout and what follows it in create and in approve   *)

\* Stripe creates the payout and its reply arrives.
PayoutStarts(k) ==
    /\ pc[k] = "call"
    /\ \E p \in Payouts :
        /\ payoutState[p] = "unused"
        /\ payoutState' = [payoutState EXCEPT ![p] = "created"]
        /\ payoutFor' = [payoutFor EXCEPT ![p] = job[k]]
        /\ Remember(k, p)
    /\ Goto(k, "keep")
    /\ UNCHANGED <<accountVars, requestVars, delivered, job, seen>>

\* Stripe refuses: StripeError, and no payout exists.
PayoutRefused(k) ==
    /\ pc[k] = "call"
    /\ Goto(k, "fail")
    /\ UNCHANGED <<accountVars, requestVars, stripeVars, job, seen, ref>>

\* The connection fails after Stripe acted: StripeError, and a payout exists.
PayoutReplyLost(k) ==
    /\ LostReplies
    /\ pc[k] = "call"
    /\ \E p \in Payouts :
        /\ payoutState[p] = "unused"
        /\ payoutState' = [payoutState EXCEPT ![p] = "created"]
        /\ payoutFor' = [payoutFor EXCEPT ![p] = job[k]]
    /\ Goto(k, "fail")
    /\ UNCHANGED <<accountVars, requestVars, delivered, job, seen, ref>>

\* save(update_fields=["stripe_payout_id", "status"]), whatever they are now.
KeepPayout(k) ==
    LET w == job[k] IN
    /\ pc[k] = "keep"
    /\ rowLock[w] = NoOne
    /\ payoutId' = [payoutId EXCEPT ![w] = ref[k]]
    /\ SetRequestStatus(w, "processing")
    /\ Respond(k)
    /\ UNCHANGED <<accountVars, reviewed, rowLock, stripeVars>>

MarkFailed(k) ==
    /\ pc[k] = "fail"
    /\ rowLock[job[k]] = NoOne
    /\ SetRequestStatus(job[k], "failed")
    /\ Goto(k, "release")
    /\ UNCHANGED <<accountVars, reviewed, payoutId, rowLock, stripeVars, job, seen, ref>>

\* update(status=FAILED) of the request's rows, with no filter on their status.
ReleaseHold(k) ==
    /\ pc[k] = "release"
    /\ ledger' = SetStatus(ledger, job[k], EntryStatus, "failed")
    /\ Respond(k)
    /\ UNCHANGED <<accountStatus, accountLock, canTransact, requestVars, stripeVars>>

-----------------------------------------------------------------------------
(* AdminWithdrawalApproveView and AdminWithdrawalRejectView                *)

\* get_object_or_404(..., status=PENDING): a read, with no lock.
ReviewableInAnyStatus(w) == status[w] # "none"
Reviewable(w) == status[w] = "pending"

ReviewBegin(k, w, label) ==
    /\ pc[k] = "idle"
    /\ Reviewable(w)
    /\ job' = [job EXCEPT ![k] = w]
    /\ Goto(k, label)
    /\ UNCHANGED <<accountVars, requestVars, stripeVars, seen, ref>>

ApproveBegin(k, w) == ReviewBegin(k, w, "save")
RejectBegin(k, w)  == ReviewBegin(k, w, "reject")

ApproveSaves(k) ==
    LET w == job[k] IN
    /\ pc[k] = "save"
    /\ rowLock[w] = NoOne
    /\ SetRequestStatus(w, "approved")
    /\ reviewed' = [reviewed EXCEPT ![w] = TRUE]
    /\ Goto(k, "call")
    /\ UNCHANGED <<accountVars, payoutId, rowLock, stripeVars, job, seen, ref>>

\* One transaction; the update of the ledger takes pending rows only.
RejectCommits(k) ==
    LET w == job[k] IN
    /\ pc[k] = "reject"
    /\ rowLock[w] = NoOne
    /\ SetRequestStatus(w, "rejected")
    /\ reviewed' = [reviewed EXCEPT ![w] = TRUE]
    /\ ledger' = SetStatus(ledger, w, {"pending"}, "failed")
    /\ Respond(k)
    /\ UNCHANGED <<accountStatus, accountLock, canTransact, payoutId, rowLock, stripeVars>>

\* The declined-withdrawal mail is sent from post_save inside the transaction
\* (fail_silently=False): an SMTP error rolls everything back.
RejectRollsBack(k) ==
    /\ pc[k] = "reject"
    /\ Respond(k)
    /\ UNCHANGED <<accountVars, requestVars, stripeVars>>

-----------------------------------------------------------------------------
(* Stripe, and StripeWebhookView._settle_withdrawal                        *)

PayoutSettles(p) ==
    /\ payoutState[p] = "created"
    /\ \E outcome \in {"paid", "failed"} :
          payoutState' = [payoutState EXCEPT ![p] = outcome]
    /\ UNCHANGED <<accountVars, requestVars, payoutFor, delivered, workerVars>>

EventOf(p) == payoutState[p] \in {"paid", "failed"}

\* The rows the query of the webhook selects.
UnsettledInReview(p) ==
    {w \in Withdrawals : payoutId[w] = p /\ status[w] \in {"pending", "approved"}}
Unsettled(p) == {w \in Withdrawals : payoutId[w] = p /\ status[w] \notin Settled}

\* select_for_update() and the read of the pending hold.
WebhookFinds(k, p) ==
    /\ pc[k] = "idle"
    /\ EventOf(p)
    /\ \E w \in Unsettled(p) :
        /\ rowLock[w] = NoOne
        /\ rowLock' = [rowLock EXCEPT ![w] = k]
        /\ job' = [job EXCEPT ![k] = w]
        /\ Goto(k, IF HasEntry(ledger, w, "pending") THEN "settle" ELSE "settle_bare")
    /\ Remember(k, p)
    /\ UNCHANGED <<accountVars, status, reviewed, payoutId, stripeVars, seen>>

\* "if not withdrawal: return" - and the endpoint answers 200.
WebhookFindsNothing(k, p) ==
    /\ pc[k] = "idle"
    /\ EventOf(p)
    /\ Unsettled(p) = {}
    /\ delivered' = delivered \cup {p}
    /\ UNCHANGED <<accountVars, requestVars, payoutState, payoutFor, workerVars>>

\* What a hold becomes.
PostedWhateverTheEvent(p) == "posted"
SettledAs(p) == IF payoutState[p] = "paid" THEN "posted" ELSE "failed"

\* The commit.  The hold is the row read before: it is saved by its key.
WebhookSettles(k) ==
    LET w == job[k] IN
    /\ pc[k] \in {"settle", "settle_bare"}
    /\ SetRequestStatus(w, IF payoutState[ref[k]] = "paid" THEN "succeeded" ELSE "failed")
    /\ ledger' = IF pc[k] = "settle"
                 THEN SetStatus(ledger, w, EntryStatus, SettledAs(ref[k]))
                 ELSE ledger
    /\ rowLock' = [rowLock EXCEPT ![w] = NoOne]
    /\ delivered' = delivered \cup {ref[k]}
    /\ Respond(k)
    /\ UNCHANGED <<accountStatus, accountLock, canTransact, reviewed, payoutId,
                   payoutState, payoutFor>>

-----------------------------------------------------------------------------
\* The freeze, unfreeze, block and KYC requests of AccountTable, each served
\* by a worker that is free.
OtherRequest(a) ==
    /\ \E k \in Workers : pc[k] = "idle"
    /\ AccountRequest(a)
    /\ UNCHANGED <<requestVars, stripeVars, workerVars>>

\* The worker is killed (the 30 s timeout, a deploy): the database rolls its
\* open transaction back and frees its locks; what it committed stays.
Crash(k) ==
    /\ WorkersCrash
    /\ pc[k] # "idle"
    /\ ReleaseAccountLocks(k)
    /\ rowLock' = [w \in Withdrawals |-> IF rowLock[w] = k THEN NoOne ELSE rowLock[w]]
    /\ Respond(k)
    /\ UNCHANGED <<accountStatus, ledger, canTransact, status, reviewed, payoutId, stripeVars>>

\* The statements a worker goes on with once a request has begun.
WorkerStep(k) ==
    \/ CreateLocksAccount(k) \/ CreateFindsInactive(k)
    \/ CreateFindsTooLittle(k) \/ CreateHolds(k)
    \/ PayoutStarts(k) \/ PayoutRefused(k) \/ PayoutReplyLost(k)
    \/ KeepPayout(k) \/ MarkFailed(k) \/ ReleaseHold(k)
    \/ ApproveSaves(k) \/ RejectCommits(k) \/ RejectRollsBack(k)
    \/ WebhookSettles(k)

Webhook(k, p) == WebhookFinds(k, p) \/ WebhookFindsNothing(k, p)

Next ==
    \/ \E k \in Workers : WorkerStep(k) \/ Crash(k)
    \/ \E k \in Workers, w \in Withdrawals :
          CreateBegin(k, w) \/ ApproveBegin(k, w) \/ RejectBegin(k, w)
    \/ \E k \in Workers, p \in Payouts : Webhook(k, p)
    \/ \E p \in Payouts : PayoutSettles(p)
    \/ \E a \in Accounts : OtherRequest(a)

Spec == Init /\ [][Next]_vars

\* A worker goes on with its request; Stripe settles every payout and repeats
\* an event until it is answered with 200, and not every attempt to settle is
\* killed: one of those that are begun commits.
Fairness ==
    /\ \A k \in Workers : WF_vars(WorkerStep(k)) /\ SF_vars(WebhookSettles(k))
    /\ \A p \in Payouts :
          /\ WF_vars(PayoutSettles(p))
          /\ SF_vars(p \notin delivered /\ \E k \in Workers : Webhook(k, p))

FairSpec == Spec /\ Fairness

-----------------------------------------------------------------------------
(* Properties                                                              *)

\* Rows are of their type, whoever else writes to the ledger, and those of a
\* request are on its account, over its amount.
RowsOK(rows) ==
    \A e \in rows :
        /\ e \in EntriesOf({e.id}, Accounts)
        /\ e.id \in Withdrawals => e = Entry(e.id, AccountOf[e.id], -AmountOf[e.id], e.status)

VariablesOK ==
    /\ AccountTypeOK
    /\ RowsOK(ledger)
    /\ status \in [Withdrawals -> Statuses]
    /\ reviewed \in [Withdrawals -> BOOLEAN]
    /\ payoutId \in [Withdrawals -> Payouts \cup {NoOne}]
    /\ rowLock \in [Withdrawals -> Workers \cup {NoOne}]
    /\ payoutState \in [Payouts -> {"unused", "created", "paid", "failed"}]
    /\ payoutFor \in [Payouts -> Withdrawals \cup {NoOne}]
    /\ delivered \subseteq Payouts
    /\ pc \in [Workers -> Labels]
    /\ job \in [Workers -> Withdrawals \cup {NoOne}]
    /\ ref \in [Workers -> Payouts \cup {NoOne}]
    /\ \A k \in Workers : pc[k] # "idle" => job[k] \in Withdrawals
    /\ \A k \in Workers :
          pc[k] \in {"keep", "settle", "settle_bare"} => ref[k] \in Payouts

\* Every variable keeps its type, a worker within a request has a job, and
\* nobody else's rows are in the ledger.
TypeOK ==
    /\ VariablesOK
    /\ ledger \subseteq EntriesOf(Accounts \cup Withdrawals, Accounts)
    /\ seen \in [Workers -> Int]

\* While a request waits for its review its funds are held and Stripe has no
\* payout for it, whatever other reviewers and webhooks are doing.
PendingReviewIsHeld ==
    \A w \in Withdrawals : status[w] = "pending" =>
        /\ HasEntry(ledger, w, "pending")
        /\ \A p \in Payouts : payoutFor[p] # w

\* Stripe is never asked to pay out more than the auto-approval limit for a
\* request nobody reviewed.
ReviewBeforePayout ==
    \A p \in Payouts, w \in Withdrawals :
        payoutFor[p] = w /\ AmountOf[w] > AutoApproveLimit => reviewed[w]

\* A withdrawal is debited for good only when Stripe paid a payout of it.
PostedMeansPaid ==
    \A w \in Withdrawals : HasEntry(ledger, w, "posted") =>
        \E p \in Payouts : payoutFor[p] = w /\ payoutState[p] = "paid"

\* Why the three above hold, as parts of one inductive invariant.  A request is
\* decided once it was approved or rejected; no step undoes that.
Decided(w) == status[w] \notin {"none", "pending"}

\* A request that is being created has no row yet, and one creator.
CreatorsAreAlone ==
    \A k \in Workers : pc[k] \in {"lock", "check"} =>
        /\ status[job[k]] = "none"
        /\ \A j \in Workers :
              pc[j] \in {"lock", "check"} /\ job[j] = job[k] => j = k

\* Past its first save a handler deals with a decided request, however long
\* ago it read the row.
HandlersFollowDecisions ==
    \A k \in Workers :
        /\ pc[k] \in {"save", "reject"} => status[job[k]] # "none"
        /\ pc[k] \in {"call", "keep", "fail", "release", "settle", "settle_bare"}
              => Decided(job[k])

\* Payouts, and the ids of payouts that rows and workers carry, belong to
\* decided requests, each to its own.
PayoutsAreOfDecided ==
    /\ \A p \in Payouts :
          /\ payoutState[p] = "unused" => payoutFor[p] = NoOne
          /\ payoutFor[p] # NoOne => Decided(payoutFor[p])
    /\ \A w \in Withdrawals :
          payoutId[w] # NoOne => payoutFor[payoutId[w]] = w
    /\ \A k \in Workers :
          pc[k] \in {"keep", "settle", "settle_bare"} => payoutFor[ref[k]] = job[k]

ReviewedIfDecided ==
    \A w \in Withdrawals : Decided(w) /\ ~AutoApproved(w) => reviewed[w]

PendingHasHold ==
    \A w \in Withdrawals : status[w] = "pending" => HasEntry(ledger, w, "pending")

\* The inductive invariant: the parts above, the types, and PostedMeansPaid.
\* It says nothing of rows of others, and so holds beside them too.
IInv ==
    /\ VariablesOK
    /\ CreatorsAreAlone
    /\ HandlersFollowDecisions
    /\ PayoutsAreOfDecided
    /\ ReviewedIfDecided
    /\ PendingHasHold
    /\ PostedMeansPaid

\* No account's holds and debits exceed its credits.
NoOverdraw == \A a \in Accounts : AvailableCents(ledger, a) >= 0

\* "append-only": a posted row is never removed, changed or un-posted.
PostedIsFinal ==
    [][\A e \in ledger : e.status = "posted" => e \in ledger']_vars

\* Where Stripe's reply was lost, the request fails and knows of no payout: no
\* webhook will find it again.
Unheard(w) == LostReplies /\ payoutId[w] = NoOne

\* Funds go back to the customer only when no payout of the request was or
\* can still be paid, with one exception: the error path after a lost reply,
\* whose request has failed without the id of the payout that Stripe made.
ReleasedMeansUnpaid ==
    \A w \in Withdrawals : HasEntry(ledger, w, "failed") =>
        \A p \in Payouts : payoutFor[p] = w =>
            payoutState[p] = "failed" \/ (status[w] = "failed" /\ Unheard(w))

\* Stripe is asked at most once to pay a withdrawal.
OnePayoutPerWithdrawal ==
    \A p, q \in Payouts :
        payoutFor[p] = payoutFor[q] /\ payoutFor[p] # NoOne => p = q

\* The request's status and its ledger row tell the same story.
BooksAgree ==
    \A w \in Withdrawals :
        /\ status[w] = "succeeded" <=> HasEntry(ledger, w, "posted")
        /\ HasEntry(ledger, w, "failed") => status[w] \in {"rejected", "failed"}

\* Once the payout's id was saved its webhook finds the request: the hold ends
\* as a debit or is given back, although workers are killed on the way.
ProcessingIsSettled ==
    \A w \in Withdrawals :
        status[w] = "processing" ~> ~HasEntry(ledger, w, "pending")
=============================================================================
