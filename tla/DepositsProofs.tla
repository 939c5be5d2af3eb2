--------------------------- MODULE DepositsProofs ---------------------------
(***************************************************************************)
(* Proofs about Deposits, for every set of deposits, accounts, intents and *)
(* workers, every amount, with crashes, lost replies and events that are   *)
(* repeated, late or delivered to several workers at once.                 *)
(*                                                                         *)
(* The argument: until a deposit is settled, nobody has credited it, and   *)
(* who is about to settle it holds its row and was told of an event that   *)
(* happened to the intent the row names (SettlersHoldTheRow).  A deposit   *)
(* has an intent only when its creator has finished (IdsComeLate), so the  *)
(* creator never saves over a webhook (CreatorsAreAlone).                  *)
(***************************************************************************)
EXTENDS Deposits, FiniteSetTheorems, TLAPS

-----------------------------------------------------------------------------
(* The inductive invariant                                                 *)

Creating == {"call", "keep", "fail"}

\* A deposit that is being created is pending, and has one creator.
CreatorsAreAlone ==
    \A k \in Workers : pc[k] \in Creating =>
        /\ job[k] \in Deposits
        /\ status[job[k]] = "pending"
        /\ pc[k] = "keep" => ref[k] \in Intents
        /\ \A j \in Workers : j # k /\ pc[j] \in Creating => job[j] # job[k]

\* The id of its intent is the last thing a creator saves.
IdsComeLate ==
    \A d \in Deposits : status[d] \in {"none", "pending"} => intentId[d] = NoOne

\* A worker about to settle a deposit holds its row, which is not settled
\* yet, and knows of an event that happened to its intent.
SettlersHoldTheRow ==
    \A k \in Workers : pc[k] = "settle" =>
        /\ job[k] \in Deposits
        /\ rowLock[job[k]] = k
        /\ status[job[k]] = "processing"
        /\ ref[k] \in Intents
        /\ intentId[job[k]] = ref[k]
        /\ event[k] \in happened[ref[k]]

\* A credited deposit has one credit, and an intent that was charged.
CreditsAreCharged ==
    \A d \in Deposits : CreditsOf(d) # {} =>
        /\ \E c \in ledger : CreditsOf(d) = {c}
        /\ intentId[d] \in Intents
        /\ "succeeded" \in happened[intentId[d]]

IInv ==
    /\ TypeOK
    /\ CreatorsAreAlone
    /\ IdsComeLate
    /\ SettlersHoldTheRow
    /\ SucceededMeansCredited
    /\ CreditsAreCharged

-----------------------------------------------------------------------------
(* What the credit of a deposit does to the ledger                         *)

\* No row but a credit of the deposit has a pair with it as its origin.
LEMMA CreditFacts ==
    ASSUME NEW d \in Deposits, CreditsOf(d) = {}, CreditsIfCharged(d, "succeeded")
    PROVE  /\ ledger' = ledger \cup {CreditEntry(d, 0)}
           /\ CreditsOf(d)' = {CreditEntry(d, 0)}
           /\ \A e \in Deposits : e # d => CreditsOf(e)' = CreditsOf(e)
           /\ CreditEntry(d, 0) \in EntriesOf(Deposits \X Nat, Accounts)
<1>1. Cardinality(CreditsOf(d)) = 0
  BY FS_EmptySet
<1>2. ledger' = ledger \cup {CreditEntry(d, 0)}
  BY <1>1 DEF CreditsIfCharged
<1>3. CreditEntry(d, 0).id = <<d, 0>>
  BY DEF CreditEntry, Entry
<1>4. CreditsOf(d)' = {CreditEntry(d, 0)}
  BY <1>2, <1>3 DEF CreditsOf
<1>5. \A e \in Deposits : e # d => CreditsOf(e)' = CreditsOf(e)
  BY <1>2, <1>3 DEF CreditsOf
<1>6. CreditEntry(d, 0) \in EntriesOf(Deposits \X Nat, Accounts)
  BY DepositAssumption DEF CreditEntry, Entry, EntriesOf, EntryStatus
<1> QED
  BY <1>2, <1>4, <1>5, <1>6

\* Where the ledger stays, the credits do.
LEMMA CreditsStay ==
    ASSUME UNCHANGED ledger
    PROVE  \A d \in Deposits : CreditsOf(d)' = CreditsOf(d)
BY DEF CreditsOf

\* A step that keeps the ledger, and of every deposit with a credit the
\* status, the id and the charge, keeps what is known about credits.
LEMMA CreditsUndisturbed ==
    ASSUME TypeOK, SucceededMeansCredited, CreditsAreCharged, UNCHANGED ledger,
           \A d \in Deposits : status'[d] = "succeeded" <=> status[d] = "succeeded",
           \A d \in Deposits : status[d] = "succeeded" => intentId'[d] = intentId[d],
           \A i \in Intents : happened[i] \subseteq happened'[i]
    PROVE  SucceededMeansCredited' /\ CreditsAreCharged'
<1>1. \A d \in Deposits : CreditsOf(d)' = CreditsOf(d)
  BY CreditsStay
<1>2. SucceededMeansCredited'
  BY <1>1 DEF SucceededMeansCredited
<1>3. CreditsAreCharged'
  BY <1>1 DEF SucceededMeansCredited, CreditsAreCharged
<1> QED
  BY <1>2, <1>3

-----------------------------------------------------------------------------
(* The initial states                                                      *)

\* The opening credits belong to no deposit.
LEMMA InitInvariant == Init => IInv
<1> SUFFICES ASSUME Init PROVE IInv
  OBVIOUS
<1> USE DEF Init, AccountInit
<1>1. ledger \subseteq EntriesOf(Accounts, Accounts)
  BY OpeningAssumption DEF OpeningLedger, Entry, EntriesOf, EntryStatus
<1>2. TypeOK
  <2>1. EntriesOf(Accounts, Accounts) \subseteq EntriesOf(Accounts \cup (Deposits \X Nat), Accounts)
    BY DEF EntriesOf
  <2>2. ledger \subseteq EntriesOf(Accounts \cup (Deposits \X Nat), Accounts)
    BY <1>1, <2>1
  <2> QED
    BY <2>2 DEF TypeOK, AccountTypeOK, Settled, Events
<1>3. \A d \in Deposits : CreditsOf(d) = {}
  BY <1>1, DepositAssumption DEF CreditsOf, EntriesOf
<1>4. CreatorsAreAlone /\ IdsComeLate /\ SettlersHoldTheRow
  BY DEF CreatorsAreAlone, Creating, IdsComeLate, SettlersHoldTheRow
<1>5. SucceededMeansCredited /\ CreditsAreCharged
  BY <1>3 DEF SucceededMeansCredited, CreditsAreCharged
<1> QED
  BY <1>2, <1>4, <1>5 DEF IInv

-----------------------------------------------------------------------------
(* The step lemmas: creating a deposit                                     *)

LEMMA CreateBeginInvariant ==
    ASSUME IInv, NEW k \in Workers, NEW d \in Deposits, CreateBegin(k, d)
    PROVE  IInv'
<1> USE DEF IInv, CreateBegin, Goto, SetRequestStatus, accountVars, stripeVars
<1>1. TypeOK'
  BY DEF TypeOK, AccountTypeOK
<1>2. CreatorsAreAlone'
  BY DEF CreatorsAreAlone, Creating, TypeOK
<1>3. IdsComeLate'
  BY DEF IdsComeLate, TypeOK
<1>4. SettlersHoldTheRow'
  BY DEF SettlersHoldTheRow, TypeOK
<1>5. SucceededMeansCredited' /\ CreditsAreCharged'
  BY CreditsUndisturbed DEF TypeOK
<1> QED
  BY <1>1, <1>2, <1>3, <1>4, <1>5

LEMMA IntentStartsInvariant ==
    ASSUME IInv, NEW k \in Workers, IntentStarts(k)
    PROVE  IInv'
<1> USE DEF IInv, accountVars, requestVars
<1>1. PICK i \in Intents :
         /\ pc[k] = "call"
         /\ intentFor' = [intentFor EXCEPT ![i] = job[k]]
         /\ \/ Goto(k, "keep") /\ ref' = [ref EXCEPT ![k] = i]
            \/ Goto(k, "fail") /\ UNCHANGED ref
         /\ UNCHANGED <<accountVars, requestVars, happened, delivered, job, event>>
  BY DEF IntentStarts
<1>2. TypeOK'
  BY <1>1 DEF TypeOK, AccountTypeOK, Goto
<1>3. CreatorsAreAlone'
  BY <1>1 DEF CreatorsAreAlone, Creating, TypeOK, Goto
<1>4. IdsComeLate'
  BY <1>1 DEF IdsComeLate
<1>5. SettlersHoldTheRow'
  BY <1>1 DEF SettlersHoldTheRow, TypeOK, Goto
<1>6. SucceededMeansCredited' /\ CreditsAreCharged'
  BY <1>1, CreditsUndisturbed
<1> QED
  BY <1>2, <1>3, <1>4, <1>5, <1>6

LEMMA IntentRefusedInvariant ==
    ASSUME IInv, NEW k \in Workers, IntentRefused(k)
    PROVE  IInv'
<1> USE DEF IInv, IntentRefused, Goto, accountVars, requestVars, stripeVars
<1>1. TypeOK'
  BY DEF TypeOK, AccountTypeOK
<1>2. CreatorsAreAlone'
  BY DEF CreatorsAreAlone, Creating, TypeOK
<1>3. IdsComeLate'
  BY DEF IdsComeLate
<1>4. SettlersHoldTheRow'
  BY DEF SettlersHoldTheRow, TypeOK
<1>5. SucceededMeansCredited' /\ CreditsAreCharged'
  BY CreditsUndisturbed
<1> QED
  BY <1>1, <1>2, <1>3, <1>4, <1>5

\* The creator's last save: the deposit it finds is still pending, so it has
\* no credit, and nobody is about to settle it.
LEMMA CreatorSavesInvariant ==
    ASSUME IInv, NEW k \in Workers, KeepIntent(k) \/ MarkFailed(k)
    PROVE  IInv'
<1> USE DEF IInv, SetRequestStatus, Respond, accountVars, stripeVars
<1> DEFINE d == job[k]
<1>1. /\ d \in Deposits /\ status[d] = "pending"
      /\ pc[k] \in Creating
      /\ pc[k] = "keep" => ref[k] \in Intents
      /\ \A j \in Workers : j # k /\ pc[j] \in Creating => job[j] # d
  BY DEF KeepIntent, MarkFailed, CreatorsAreAlone, Creating
<1>2. /\ \E s \in {"processing", "failed"} :
            /\ status' = [status EXCEPT ![d] = s]
            /\ intentId' = [intentId EXCEPT ![d] = ref[k]] \/ UNCHANGED intentId
      /\ UNCHANGED <<accountVars, rowLock, stripeVars>>
      /\ Respond(k)
  BY DEF KeepIntent, MarkFailed, KeepsId
<1> HIDE DEF d
<1>3. TypeOK'
  <2>1. AccountTypeOK' /\ UNCHANGED ledger
    BY <1>2 DEF TypeOK, AccountTypeOK
  <2>2. /\ status' \in [Deposits -> {"none", "pending", "processing"} \cup Settled]
        /\ intentId' \in [Deposits -> Intents \cup {NoOne}]
    BY <1>1, <1>2 DEF TypeOK, Settled
  <2>3. /\ pc' \in [Workers -> {"idle", "call", "keep", "fail", "settle"}]
        /\ job' \in [Workers -> Deposits \cup {NoOne}]
        /\ ref' \in [Workers -> Intents \cup {NoOne}]
        /\ event' \in [Workers -> Events \cup {"none"}]
    BY <1>2 DEF TypeOK
  <2> QED
    BY <1>2, <2>1, <2>2, <2>3 DEF TypeOK
<1>4. CreatorsAreAlone'
  BY <1>1, <1>2 DEF CreatorsAreAlone, Creating, TypeOK
<1>5. IdsComeLate'
  BY <1>1, <1>2 DEF IdsComeLate, TypeOK
<1>6. SettlersHoldTheRow'
  BY <1>1, <1>2 DEF SettlersHoldTheRow, TypeOK
<1>7. SucceededMeansCredited' /\ CreditsAreCharged'
  BY <1>1, <1>2, CreditsUndisturbed DEF TypeOK
<1> QED
  BY <1>3, <1>4, <1>5, <1>6, <1>7

-----------------------------------------------------------------------------
(* The step lemmas: Stripe and its webhook                                 *)

LEMMA CustomerPaysInvariant ==
    ASSUME IInv, NEW i \in Intents, NEW e \in Events, CustomerPays(i, e)
    PROVE  IInv'
<1> USE DEF IInv, CustomerPays, accountVars, requestVars, workerVars
<1>1. TypeOK'
  BY DEF TypeOK, AccountTypeOK
<1>2. \A n \in Intents : happened[n] \subseteq happened'[n]
  BY DEF TypeOK
<1>3. CreatorsAreAlone'
  BY DEF CreatorsAreAlone
<1>4. IdsComeLate'
  BY DEF IdsComeLate
<1>5. SettlersHoldTheRow'
  BY <1>2 DEF SettlersHoldTheRow
<1>6. SucceededMeansCredited' /\ CreditsAreCharged'
  BY <1>2, CreditsUndisturbed
<1> QED
  BY <1>1, <1>3, <1>4, <1>5, <1>6

LEMMA WebhookFindsInvariant ==
    ASSUME IInv, NEW k \in Workers, NEW i \in Intents, NEW e \in Events,
           WebhookFinds(k, i, e)
    PROVE  IInv'
<1> USE DEF IInv, accountVars, stripeVars
<1>1. PICK d \in Unsettled(i) :
         /\ pc[k] = "idle" /\ e \in happened[i] /\ rowLock[d] = NoOne
         /\ rowLock' = [rowLock EXCEPT ![d] = k]
         /\ job' = [job EXCEPT ![k] = d]
         /\ ref' = [ref EXCEPT ![k] = i]
         /\ event' = [event EXCEPT ![k] = e]
         /\ Goto(k, "settle")
         /\ UNCHANGED <<accountVars, status, intentId, stripeVars>>
  BY DEF WebhookFinds
<1>2. /\ d \in Deposits /\ intentId[d] = i
      /\ status[d] = "processing"
  BY <1>1, DepositAssumption DEF Unsettled, IdsComeLate, TypeOK
<1>3. TypeOK'
  BY <1>1, <1>2 DEF TypeOK, AccountTypeOK, Goto
<1>4. CreatorsAreAlone'
  BY <1>1 DEF CreatorsAreAlone, Creating, TypeOK, Goto
<1>5. IdsComeLate'
  BY <1>1 DEF IdsComeLate
<1>6. SettlersHoldTheRow'
  BY <1>1, <1>2, NoOneAssumption DEF SettlersHoldTheRow, TypeOK, Goto
<1>7. SucceededMeansCredited' /\ CreditsAreCharged'
  BY <1>1, CreditsUndisturbed
<1> QED
  BY <1>3, <1>4, <1>5, <1>6, <1>7

LEMMA WebhookFindsNothingInvariant ==
    ASSUME IInv, NEW k \in Workers, NEW i \in Intents, NEW e \in Events,
           WebhookFindsNothing(k, i, e)
    PROVE  IInv'
<1> USE DEF IInv, WebhookFindsNothing, accountVars, requestVars, workerVars
<1>1. TypeOK'
  <2>1. delivered' \subseteq Intents \X Events
    BY DEF TypeOK
  <2>2. AccountTypeOK'
    BY DEF TypeOK, AccountTypeOK
  <2> QED
    BY <2>1, <2>2 DEF TypeOK
<1>2. CreatorsAreAlone' /\ IdsComeLate' /\ SettlersHoldTheRow'
  BY DEF CreatorsAreAlone, IdsComeLate, SettlersHoldTheRow
<1>3. SucceededMeansCredited' /\ CreditsAreCharged'
  BY CreditsUndisturbed
<1> QED
  BY <1>1, <1>2, <1>3

\* The commit: the row it holds has no credit yet, and nobody else holds it.
LEMMA WebhookSettlesInvariant ==
    ASSUME IInv, NEW k \in Workers, WebhookSettles(k)
    PROVE  IInv'
<1> USE DEF IInv
<1>1. PICK d \in Deposits : d = job[k]
  BY DEF WebhookSettles, SettlersHoldTheRow
<1>2. PICK e \in Events : e = event[k]
  BY DEF WebhookSettles, SettlersHoldTheRow, TypeOK
<1>3. /\ pc[k] = "settle"
      /\ rowLock[d] = k /\ status[d] = "processing"
      /\ ref[k] \in Intents /\ intentId[d] = ref[k] /\ e \in happened[ref[k]]
  BY <1>1, <1>2 DEF WebhookSettles, SettlersHoldTheRow
<1>4. /\ status' = [status EXCEPT ![d] = e]
      /\ CreditsIfCharged(d, e)
      /\ rowLock' = [rowLock EXCEPT ![d] = NoOne]
      /\ delivered' = delivered \cup {<<ref[k], e>>}
      /\ Respond(k)
      /\ UNCHANGED <<accountStatus, accountLock, canTransact, intentId, intentFor, happened>>
  BY <1>1, <1>2 DEF WebhookSettles, SetRequestStatus
<1>5. CreditsOf(d) = {}
  BY <1>3 DEF SucceededMeansCredited
<1>6. /\ e = "succeeded" => CreditsOf(d)' = {CreditEntry(d, 0)} /\ CreditEntry(d, 0) \in ledger'
      /\ e # "succeeded" => CreditsOf(d)' = {}
      /\ \A c \in Deposits : c # d => CreditsOf(c)' = CreditsOf(c)
      /\ ledger \subseteq ledger'
      /\ ledger' \subseteq ledger \cup EntriesOf(Deposits \X Nat, Accounts)
  <2>1. CASE e = "succeeded"
    BY <1>4, <1>5, <2>1, CreditFacts
  <2>2. CASE e # "succeeded"
    <3>1. UNCHANGED ledger
      BY <1>4, <2>2 DEF CreditsIfCharged
    <3> QED
      BY <1>5, <2>2, <3>1, CreditsStay
  <2> QED
    BY <2>1, <2>2
<1>7. TypeOK'
  <2>1. ledger' \subseteq EntriesOf(Accounts \cup (Deposits \X Nat), Accounts)
    <3>1. EntriesOf(Deposits \X Nat, Accounts) \subseteq EntriesOf(Accounts \cup (Deposits \X Nat), Accounts)
      BY DEF EntriesOf
    <3> QED
      BY <1>6, <3>1 DEF TypeOK
  <2>2. AccountTypeOK'
    BY <1>4 DEF TypeOK, AccountTypeOK
  <2>3. /\ status' \in [Deposits -> {"none", "pending", "processing"} \cup Settled]
        /\ rowLock' \in [Deposits -> Workers \cup {NoOne}]
    BY <1>4 DEF TypeOK, Settled, Events
  <2>4. delivered' \subseteq Intents \X Events
    BY <1>3, <1>4 DEF TypeOK
  <2>5. /\ pc' \in [Workers -> {"idle", "call", "keep", "fail", "settle"}]
        /\ job' \in [Workers -> Deposits \cup {NoOne}]
        /\ ref' \in [Workers -> Intents \cup {NoOne}]
        /\ event' \in [Workers -> Events \cup {"none"}]
    BY <1>4 DEF TypeOK, Respond
  <2> QED
    BY <1>4, <2>1, <2>2, <2>3, <2>4, <2>5 DEF TypeOK
<1>8. CreatorsAreAlone'
  BY <1>3, <1>4 DEF CreatorsAreAlone, Creating, TypeOK, Respond
<1>9. IdsComeLate'
  BY <1>3, <1>4 DEF IdsComeLate, TypeOK, Events
<1>10. SettlersHoldTheRow'
  BY <1>3, <1>4 DEF SettlersHoldTheRow, TypeOK, Respond
<1>11. SucceededMeansCredited'
  BY <1>3, <1>4, <1>6 DEF SucceededMeansCredited, TypeOK
<1>12. CreditsAreCharged'
  BY <1>3, <1>4, <1>6 DEF CreditsAreCharged
<1> QED
  BY <1>7, <1>8, <1>9, <1>10, <1>11, <1>12

-----------------------------------------------------------------------------
(* The step lemmas: the rest                                               *)

LEMMA OtherRequestInvariant ==
    ASSUME IInv, NEW a \in Accounts, OtherRequest(a)
    PROVE  IInv'
<1> USE DEF IInv, OtherRequest, requestVars, stripeVars, workerVars
<1>1. AccountTypeOK' /\ UNCHANGED ledger
  BY DEF AccountRequest, FreezeAccount, UnfreezeAccount, GateChanges, AccountTypeOK, TypeOK
<1>2. TypeOK'
  BY <1>1 DEF TypeOK
<1>3. CreatorsAreAlone' /\ IdsComeLate' /\ SettlersHoldTheRow'
  BY DEF CreatorsAreAlone, IdsComeLate, SettlersHoldTheRow
<1>4. SucceededMeansCredited' /\ CreditsAreCharged'
  BY <1>1, CreditsUndisturbed
<1> QED
  BY <1>2, <1>3, <1>4

\* The row locks of a killed worker are freed; those of others stay.
LEMMA CrashInvariant ==
    ASSUME IInv, NEW k \in Workers, Crash(k)
    PROVE  IInv'
<1> USE DEF IInv, Crash, Respond, accountVars, stripeVars
<1>1. TypeOK'
  BY DEF TypeOK, AccountTypeOK, Events
<1>2. CreatorsAreAlone'
  BY DEF CreatorsAreAlone, Creating, TypeOK
<1>3. IdsComeLate'
  BY DEF IdsComeLate
<1>4. SettlersHoldTheRow'
  BY DEF SettlersHoldTheRow, TypeOK
<1>5. SucceededMeansCredited' /\ CreditsAreCharged'
  BY CreditsUndisturbed
<1> QED
  BY <1>1, <1>2, <1>3, <1>4, <1>5

LEMMA StutterInvariant == IInv /\ UNCHANGED vars => IInv'
<1> SUFFICES ASSUME IInv, UNCHANGED vars PROVE IInv'
  OBVIOUS
<1> USE DEF IInv, vars, accountVars, requestVars, stripeVars, workerVars
<1>1. TypeOK'
  BY DEF TypeOK, AccountTypeOK
<1>2. CreatorsAreAlone' /\ IdsComeLate' /\ SettlersHoldTheRow'
  BY DEF CreatorsAreAlone, IdsComeLate, SettlersHoldTheRow
<1>3. SucceededMeansCredited' /\ CreditsAreCharged'
  BY CreditsUndisturbed
<1> QED
  BY <1>1, <1>2, <1>3

LEMMA NextInvariant == IInv /\ [Next]_vars => IInv'
<1> SUFFICES ASSUME IInv, [Next]_vars PROVE IInv'
  OBVIOUS
<1>1. CASE \E k \in Workers : WorkerStep(k) \/ Crash(k)
  BY <1>1, IntentStartsInvariant, IntentRefusedInvariant, CreatorSavesInvariant,
     WebhookSettlesInvariant, CrashInvariant DEF WorkerStep
<1>2. CASE \E k \in Workers, d \in Deposits : CreateBegin(k, d)
  BY <1>2, CreateBeginInvariant
<1>3. CASE \E i \in Intents, e \in Events :
              CustomerPays(i, e) \/ \E k \in Workers : Webhook(k, i, e)
  BY <1>3, CustomerPaysInvariant, WebhookFindsInvariant, WebhookFindsNothingInvariant
     DEF Webhook
<1>4. CASE \E a \in Accounts : OtherRequest(a)
  BY <1>4, OtherRequestInvariant
<1>5. CASE UNCHANGED vars
  BY <1>5, StutterInvariant
<1> QED
  BY <1>1, <1>2, <1>3, <1>4, <1>5 DEF Next

-----------------------------------------------------------------------------
(* Theorems                                                                *)

\* The strengthening is an invariant of the specification.
THEOREM Inductive == Spec => []IInv
<1>1. Init => IInv
  BY InitInvariant
<1>2. IInv /\ [Next]_vars => IInv'
  BY NextInvariant
<1> QED
  BY <1>1, <1>2, PTL DEF Spec

\* Every variable keeps its type.
THEOREM TypeCorrect == Spec => []TypeOK
<1>1. IInv => TypeOK
  BY DEF IInv
<1> QED
  BY <1>1, Inductive, PTL

\* Whatever Stripe repeats and however many workers hear of it, the webhook
\* credits a deposit once, and none whose card was not charged.
THEOREM CreditedOnce == Spec => []CreditedOnceIfCharged
<1>1. \A c : Cardinality({c}) = 1
  BY FS_Singleton
<1>2. IInv => CreditedOnceIfCharged
  BY <1>1 DEF IInv, CreditsAreCharged, CreditedOnceIfCharged
<1> QED
  BY <1>2, Inductive, PTL

\* The webhook commits the status together with the credit, and no other
\* handler says that a deposit has succeeded.
THEOREM StatusTellsOfCredit == Spec => []SucceededMeansCredited
<1>1. IInv => SucceededMeansCredited
  BY DEF IInv
<1> QED
  BY <1>1, Inductive, PTL

\* A save of the status finds a deposit that is pending (its creator) or
\* processing (the webhook), never one that is settled.
LEMMA SettledStays ==
    ASSUME IInv, Next, NEW d \in Deposits, status[d] \in Settled
    PROVE  status'[d] = status[d]
<1>1. CASE \E k \in Workers : WorkerStep(k) \/ Crash(k)
  <2>1. PICK k \in Workers : WorkerStep(k) \/ Crash(k)
    BY <1>1
  <2>2. pc[k] \in Creating \cup {"settle"} => job[k] # d
    BY DEF IInv, CreatorsAreAlone, SettlersHoldTheRow, Settled
  <2>3. CASE KeepIntent(k) \/ MarkFailed(k) \/ WebhookSettles(k)
    BY <2>2, <2>3 DEF KeepIntent, MarkFailed, WebhookSettles, SetRequestStatus,
       Creating, IInv, TypeOK
  <2>4. CASE IntentStarts(k) \/ IntentRefused(k) \/ Crash(k)
    BY <2>4 DEF IntentStarts, IntentRefused, Crash, requestVars
  <2> QED
    BY <2>1, <2>3, <2>4 DEF WorkerStep
<1>2. CASE \E k \in Workers, c \in Deposits : CreateBegin(k, c)
  BY <1>2 DEF CreateBegin, SetRequestStatus, Settled, IInv, TypeOK
<1>3. CASE \E i \in Intents, e \in Events :
              CustomerPays(i, e) \/ \E k \in Workers : Webhook(k, i, e)
  BY <1>3 DEF CustomerPays, Webhook, WebhookFinds, WebhookFindsNothing, requestVars
<1>4. CASE \E a \in Accounts : OtherRequest(a)
  BY <1>4 DEF OtherRequest, requestVars
<1> QED
  BY <1>1, <1>2, <1>3, <1>4 DEF Next

\* A late or repeated event, and a slow creator, leave a settled deposit as
\* it is.
THEOREM SettlementsAreFinal == Spec => SettledIsFinal
<1>1. IInv /\ [Next]_vars => [\A d \in Deposits : status[d] \in Settled => status'[d] = status[d]]_vars
  BY SettledStays
<1> QED
  BY <1>1, Inductive, PTL DEF Spec, SettledIsFinal
=============================================================================
