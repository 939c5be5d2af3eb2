------------------------------ MODULE Deposits ------------------------------
(***************************************************************************)
(* Deposits: DepositListCreateView.post and                                *)
(* StripeWebhookView._settle_deposit, run by concurrent request workers,   *)
(* against Stripe's payment intents.                                       *)
(*                                                                         *)
(* A pc label names the statement a worker executes next:                  *)
(*    call, keep, fail   create: call Stripe; save the intent's id; save   *)
(*                       the failure                                       *)
(*    settle             webhook: the deposit's row is locked              *)
(***************************************************************************)
EXTENDS AccountTable

CONSTANTS Deposits,      \* deposit requests, by id
          AccountOf,     \* the account a deposit funds
          AmountOf,      \* its amount in cents
          Intents,       \* ids Stripe gives to payment intents (their bound)
          LostReplies,   \* whether Stripe may act on a call it seems to fail
          WorkersCrash   \* whether a worker may die within a request

ASSUME DepositAssumption ==
    /\ AccountOf \in [Deposits -> Accounts]
    /\ AmountOf \in [Deposits -> Nat \ {0}]
    /\ NoOne \notin Deposits \cup Intents
    /\ \A a \in Accounts : a \notin Deposits \X Nat
    /\ LostReplies \in BOOLEAN
    /\ WorkersCrash \in BOOLEAN

\* The webhooks: payment_intent.succeeded and payment_intent.payment_failed.
Events == {"succeeded", "failed"}

VARIABLES status,     \* DepositRequest.status ("none": no row yet)
          intentId,   \* DepositRequest.stripe_payment_intent_id
          rowLock,    \* the worker that holds the row's FOR UPDATE lock
          intentFor,  \* Stripe: the deposit_request_id of an intent
          happened,   \* Stripe: the events of an intent so far
          delivered,  \* the pairs of intent and event answered with 200
          pc, job,    \* a worker's next statement and the deposit it is about
          ref, event  \* the intent it was given or is told about; the event

requestVars == <<status, intentId, rowLock>>
stripeVars  == <<intentFor, happened, delivered>>
workerVars  == <<pc, job, ref, event>>
vars        == <<accountVars, requestVars, stripeVars, workerVars>>

Settled == {"succeeded", "failed"}

Init ==
    /\ AccountInit
    /\ status    = [d \in Deposits |-> "none"]
    /\ intentId  = [d \in Deposits |-> NoOne]
    /\ rowLock   = [d \in Deposits |-> NoOne]
    /\ intentFor = [i \in Intents |-> NoOne]
    /\ happened  = [i \in Intents |-> {}]
    /\ delivered = {}
    /\ pc    = [k \in Workers |-> "idle"]
    /\ job   = [k \in Workers |-> NoOne]
    /\ ref   = [k \in Workers |-> NoOne]
    /\ event = [k \in Workers |-> "none"]

Goto(k, label) == pc' = [pc EXCEPT ![k] = label]

Respond(k) ==
    /\ pc'    = [pc EXCEPT ![k] = "idle"]
    /\ job'   = [job EXCEPT ![k] = NoOne]
    /\ ref'   = [ref EXCEPT ![k] = NoOne]
    /\ event' = [event EXCEPT ![k] = "none"]

SetRequestStatus(d, s) == status' = [status EXCEPT ![d] = s]

-----------------------------------------------------------------------------
(* DepositListCreateView.post                                              *)

\* The gate, the account's status (read without a lock) and the new row.
CreateBegin(k, d) ==
    /\ pc[k] = "idle"
    /\ status[d] = "none"
    /\ canTransact[AccountOf[d]]
    /\ accountStatus[AccountOf[d]] = "active"
    /\ SetRequestStatus(d, "pending")
    /\ Goto(k, "call")
    /\ job' = [job EXCEPT ![k] = d]
    /\ UNCHANGED <<accountVars, intentId, rowLock, stripeVars, ref, event>>

\* Stripe creates an intent; its reply arrives, or the call seems to fail.
IntentStarts(k) ==
    /\ pc[k] = "call"
    /\ \E i \in Intents :
        /\ intentFor[i] = NoOne
        /\ intentFor' = [intentFor EXCEPT ![i] = job[k]]
        /\ \/ Goto(k, "keep") /\ ref' = [ref EXCEPT ![k] = i]
           \/ LostReplies /\ Goto(k, "fail") /\ UNCHANGED ref
    /\ UNCHANGED <<accountVars, requestVars, happened, delivered, job, event>>

IntentRefused(k) ==
    /\ pc[k] = "call"
    /\ Goto(k, "fail")
    /\ UNCHANGED <<accountVars, requestVars, stripeVars, job, ref, event>>

\* The id is saved before the response hands the client_secret out.
KeepsWrongId(d, i) == intentId' = [intentId EXCEPT ![d] = d]
KeepsId(d, i) == intentId' = [intentId EXCEPT ![d] = i]

KeepIntent(k) ==
    /\ pc[k] = "keep"
    /\ rowLock[job[k]] = NoOne
    /\ KeepsId(job[k], ref[k])
    /\ SetRequestStatus(job[k], "processing")
    /\ Respond(k)
    /\ UNCHANGED <<accountVars, rowLock, stripeVars>>

MarkFailed(k) ==
    /\ pc[k] = "fail"
    /\ rowLock[job[k]] = NoOne
    /\ SetRequestStatus(job[k], "failed")
    /\ Respond(k)
    /\ UNCHANGED <<accountVars, intentId, rowLock, stripeVars>>

-----------------------------------------------------------------------------
(* The customer at Stripe, and StripeWebhookView._settle_deposit           *)

\* With the client_secret the customer pays: the charge is declined, and may
\* be tried again, or it succeeds.
CustomerPays(i, e) ==
    /\ intentFor[i] # NoOne
    /\ status[intentFor[i]] \notin {"none", "pending"}
    /\ intentId[intentFor[i]] = i
    /\ "succeeded" \notin happened[i]
    /\ happened' = [happened EXCEPT ![i] = @ \cup {e}]
    /\ UNCHANGED <<accountVars, requestVars, intentFor, delivered, workerVars>>

\* The rows the query of the webhook selects.
PendingOnly(i) == {d \in Deposits : intentId[d] = i /\ status[d] = "pending"}
SettledOrNot(i) == {d \in Deposits : intentId[d] = i}
Unsettled(i) == {d \in Deposits : intentId[d] = i /\ status[d] \notin Settled}

WebhookFinds(k, i, e) ==
    /\ pc[k] = "idle"
    /\ e \in happened[i]
    /\ \E d \in Unsettled(i) :
        /\ rowLock[d] = NoOne
        /\ rowLock' = [rowLock EXCEPT ![d] = k]
        /\ job' = [job EXCEPT ![k] = d]
    /\ ref' = [ref EXCEPT ![k] = i]
    /\ event' = [event EXCEPT ![k] = e]
    /\ Goto(k, "settle")
    /\ UNCHANGED <<accountVars, status, intentId, stripeVars>>

\* "already settled (Stripe retries webhooks) or an intent we didn't create"
WebhookFindsNothing(k, i, e) ==
    /\ pc[k] = "idle"
    /\ e \in happened[i]
    /\ Unsettled(i) = {}
    /\ delivered' = delivered \cup {<<i, e>>}
    /\ UNCHANGED <<accountVars, requestVars, intentFor, happened, workerVars>>

CreditsOf(d) == {c \in ledger : c.id \in {d} \X Nat}

\* The n-th credit of a deposit.
CreditEntry(d, n) == Entry(<<d, n>>, AccountOf[d], AmountOf[d], "posted")

\* What the event asks for: a credit if the charge succeeded.
CreditsAnyEvent(d, e) == ledger' = ledger \cup {CreditEntry(d, Cardinality(CreditsOf(d)))}
CreditsIfCharged(d, e) ==
    ledger' = IF e = "succeeded"
              THEN ledger \cup {CreditEntry(d, Cardinality(CreditsOf(d)))} ELSE ledger

\* The commit.  The INSERT of a row that refers to the account waits for a
\* SELECT ... FOR UPDATE of the account to be released.
WebhookSettles(k) ==
    LET d == job[k] IN
    /\ pc[k] = "settle"
    /\ event[k] = "succeeded" => Unlocked(AccountOf[d])
    /\ SetRequestStatus(d, event[k])
    /\ CreditsIfCharged(d, event[k])
    /\ rowLock' = [rowLock EXCEPT ![d] = NoOne]
    /\ delivered' = delivered \cup {<<ref[k], event[k]>>}
    /\ Respond(k)
    /\ UNCHANGED <<accountStatus, accountLock, canTransact, intentId, intentFor, happened>>

-----------------------------------------------------------------------------
\* The freeze, unfreeze, block and KYC requests of AccountTable.
OtherRequest(a) ==
    /\ \E k \in Workers : pc[k] = "idle"
    /\ AccountRequest(a)
    /\ UNCHANGED <<requestVars, stripeVars, workerVars>>

Crash(k) ==
    /\ WorkersCrash
    /\ pc[k] # "idle"
    /\ rowLock' = [d \in Deposits |-> IF rowLock[d] = k THEN NoOne ELSE rowLock[d]]
    /\ Respond(k)
    /\ UNCHANGED <<accountVars, status, intentId, stripeVars>>

WorkerStep(k) ==
    \/ IntentStarts(k) \/ IntentRefused(k) \/ KeepIntent(k) \/ MarkFailed(k)
    \/ WebhookSettles(k)

Webhook(k, i, e) == WebhookFinds(k, i, e) \/ WebhookFindsNothing(k, i, e)

Next ==
    \/ \E k \in Workers : WorkerStep(k) \/ Crash(k)
    \/ \E k \in Workers, d \in Deposits : CreateBegin(k, d)
    \/ \E i \in Intents, e \in Events :
          CustomerPays(i, e) \/ \E k \in Workers : Webhook(k, i, e)
    \/ \E a \in Accounts : OtherRequest(a)

Spec == Init /\ [][Next]_vars

\* Stripe repeats an event until it is answered with 200, and not every
\* attempt to settle is killed: one of those that are begun commits.
Fairness ==
    /\ \A k \in Workers : SF_vars(WorkerStep(k))
    /\ \A i \in Intents, e \in Events :
          SF_vars(<<i, e>> \notin delivered /\ \E k \in Workers : Webhook(k, i, e))

FairSpec == Spec /\ Fairness

-----------------------------------------------------------------------------
(* Properties                                                              *)

\* Every variable keeps its type.
TypeOK ==
    /\ AccountTypeOK
    /\ ledger \subseteq EntriesOf(Accounts \cup (Deposits \X Nat), Accounts)
    /\ status \in [Deposits -> {"none", "pending", "processing"} \cup Settled]
    /\ intentId \in [Deposits -> Intents \cup {NoOne}]
    /\ rowLock \in [Deposits -> Workers \cup {NoOne}]
    /\ intentFor \in [Intents -> Deposits \cup {NoOne}]
    /\ happened \in [Intents -> SUBSET Events]
    /\ delivered \subseteq Intents \X Events
    /\ pc \in [Workers -> {"idle", "call", "keep", "fail", "settle"}]
    /\ job \in [Workers -> Deposits \cup {NoOne}]
    /\ ref \in [Workers -> Intents \cup {NoOne}]
    /\ event \in [Workers -> Events \cup {"none"}]

\* However often an event is delivered, and to how many workers at once, a
\* deposit is credited once, and only if the card was charged for it.
CreditedOnceIfCharged ==
    \A d \in Deposits : CreditsOf(d) # {} =>
        /\ Cardinality(CreditsOf(d)) = 1
        /\ "succeeded" \in happened[intentId[d]]

\* The deposit's status tells whether the account was credited.
SucceededMeansCredited ==
    \A d \in Deposits : status[d] = "succeeded" <=> CreditsOf(d) # {}

\* A settled deposit stays as it is, whatever event comes late or twice.
SettledIsFinal ==
    [][\A d \in Deposits : status[d] \in Settled => status'[d] = status[d]]_vars

\* A charge that was not declined before reaches the account, although
\* workers are killed while they handle the webhook.
ChargedIsCredited ==
    \A i \in Intents :
        [](happened[i] = {"succeeded"} => <>(CreditsOf(intentFor[i]) # {}))
=============================================================================
