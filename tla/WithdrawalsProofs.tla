-------------------------- MODULE WithdrawalsProofs --------------------------
(***************************************************************************)
(* Proofs about Withdrawals, for every set of accounts, requests and       *)
(* payouts, every amount and limit, with or without crashes and lost       *)
(* replies.  First what holds with any number of workers; then what holds  *)
(* where no two of them deal with one withdrawal (Serial): with the one    *)
(* worker of the deployment, or where no request needs a review, since     *)
(* only reviewers meet.  Sums of an account need the one worker.           *)
(*                                                                         *)
(* The argument of the second part: who deals with a withdrawal is alone   *)
(* (HandledAlone: a creator has its row from the start, a webhook locks    *)
(* it), so what it has read is still so when it writes (StatementsFit,     *)
(* SeenFits); thus a request has the ledger row its status calls for       *)
(* (RowsFit) and at most one payout, of which its status tells (Payouts-   *)
(* Fit), and the sums over the rows are what the reservation reckons with  *)
(* (SumsFit).  A crash is no exception: it may leave a failed request with *)
(* its hold, or an approved one with a payout, for ever, and the invariant *)
(* says so, as it says what a lost reply leaves (Unheard).                 *)
(***************************************************************************)
EXTENDS WithdrawalsRefinement, LedgerProofs

-----------------------------------------------------------------------------
(* The ledger operators                                                    *)

\* An update of the rows of one origin keeps the rows' type, account and
\* amount, leaves the rows of other origins alone, and gives its own rows no
\* status but the new one.
LEMMA SetStatusFacts ==
    ASSUME NEW rows, RowsOK(rows), NEW id, NEW from, NEW to \in EntryStatus
    PROVE  LET new == SetStatus(rows, id, from, to) IN
           /\ RowsOK(new)
           /\ \A i, s : i # id => (HasEntry(new, i, s) <=> HasEntry(rows, i, s))
           /\ \A s : HasEntry(new, id, s) => s = to \/ HasEntry(rows, id, s)
<1> DEFINE upd(e) == IF e.id = id /\ e.status \in from
                     THEN [e EXCEPT !.status = to] ELSE e
           new    == SetStatus(rows, id, from, to)
<1>1. new = {upd(e) : e \in rows}
  BY DEF SetStatus
<1>2. \A e \in rows : /\ upd(e).id = e.id
                      /\ upd(e).status \in {to, e.status}
                      /\ e.id # id => upd(e) = e
  BY DEF RowsOK, EntriesOf
<1>3. RowsOK(new)
  <2> DEFINE good(e) ==
               /\ e \in EntriesOf({e.id}, Accounts)
               /\ e.id \in Withdrawals => e = Entry(e.id, AccountOf[e.id], -AmountOf[e.id], e.status)
  <2>1. \A e \in rows : good(upd(e))
    BY DEF RowsOK, EntriesOf, Entry
  <2>2. RowsOK(new) <=> \A e \in new : good(e)
    BY DEF RowsOK
  <2> HIDE DEF upd, new, good
  <2> QED
    BY <1>1, <2>1, <2>2
<1> HIDE DEF upd, new
<1>4. ASSUME NEW i, NEW s, i # id
      PROVE  HasEntry(new, i, s) <=> HasEntry(rows, i, s)
  BY <1>1, <1>2, <1>4 DEF HasEntry
<1>5. ASSUME NEW s, HasEntry(new, id, s)
      PROVE  s = to \/ HasEntry(rows, id, s)
  BY <1>1, <1>2, <1>5 DEF HasEntry
<1> QED
  BY <1>3, <1>4, <1>5 DEF new

\* Recording a row adds that row.
LEMMA AddEntryFacts ==
    ASSUME NEW rows, RowsOK(rows), NEW w \in Withdrawals
    PROVE  LET new == rows \cup {HoldEntry(w)} IN
           /\ RowsOK(new)
           /\ HasEntry(new, w, "pending")
           /\ \A i, s : HasEntry(rows, i, s) => HasEntry(new, i, s)
           /\ \A i, s : HasEntry(new, i, s) /\ s # "pending" => HasEntry(rows, i, s)
<1>1. /\ HoldEntry(w).id = w /\ HoldEntry(w).status = "pending"
      /\ HoldEntry(w) \in EntriesOf({w}, Accounts)
      /\ HoldEntry(w) = Entry(w, AccountOf[w], -AmountOf[w], "pending")
  BY RequestAssumption DEF HoldEntry, EntriesOf, Entry, EntryStatus
<1> QED
  BY <1>1 DEF HasEntry, RowsOK

\* The opening credits are rows of accounts, not of withdrawals.
LEMMA OpeningFacts ==
    /\ RowsOK(OpeningLedger)
    /\ OpeningLedger \subseteq EntriesOf(Accounts \cup Withdrawals, Accounts)
    /\ \A w \in Withdrawals : \A s : ~HasEntry(OpeningLedger, w, s)
<1>1. \A a \in Accounts : OpeningBalance[a] \in Int /\ a \notin Withdrawals
  BY OpeningAssumption, RequestAssumption
<1>2. \A e \in OpeningLedger :
         /\ e.id \in Accounts /\ e.id \notin Withdrawals
         /\ e \in EntriesOf({e.id}, Accounts)
         /\ e \in EntriesOf(Accounts \cup Withdrawals, Accounts)
  BY <1>1 DEF OpeningLedger, EntriesOf, Entry, EntryStatus
<1> QED
  BY <1>2 DEF RowsOK, HasEntry

-----------------------------------------------------------------------------
(* The inductive invariant                                                 *)

LEMMA InitInvariant == Init => IInv
<1> SUFFICES ASSUME Init PROVE IInv
  OBVIOUS
<1> USE DEF Init, AccountInit
<1>1. VariablesOK
  BY OpeningFacts DEF VariablesOK, AccountTypeOK, Statuses, Labels
<1>2. CreatorsAreAlone /\ HandlersFollowDecisions
  BY DEF CreatorsAreAlone, HandlersFollowDecisions
<1>3. PayoutsAreOfDecided
  BY DEF PayoutsAreOfDecided
<1>4. ReviewedIfDecided /\ PendingHasHold
  BY DEF ReviewedIfDecided, Decided, PendingHasHold
<1>5. PostedMeansPaid
  BY OpeningFacts DEF PostedMeansPaid
<1> QED
  BY <1>1, <1>2, <1>3, <1>4, <1>5 DEF IInv

\* Three parts of IInv are about requests, rows and payouts only: a step that
\* leaves those alone keeps them.
LEMMA DataFrame ==
    ASSUME IInv, UNCHANGED <<ledger, status, reviewed, payoutState, payoutFor>>
    PROVE  ReviewedIfDecided' /\ PendingHasHold' /\ PostedMeansPaid'
BY DEF IInv, ReviewedIfDecided, Decided, AutoApproved, PendingHasHold,
       HasEntry, PostedMeansPaid

-----------------------------------------------------------------------------
(* WithdrawalListCreateView.post                                           *)

LEMMA CreateBeginInvariant ==
    ASSUME IInv, NEW k \in Workers, NEW w \in Withdrawals, CreateBegin(k, w)
    PROVE  IInv'
<1> USE DEF IInv, CreateBegin, Goto, accountVars, requestVars, stripeVars
<1>1. VariablesOK'
  BY DEF VariablesOK, AccountTypeOK, Labels, Statuses
<1>2. CreatorsAreAlone' /\ HandlersFollowDecisions'
  BY DEF VariablesOK, CreatorsAreAlone, HandlersFollowDecisions, Decided
<1>3. PayoutsAreOfDecided'
  BY DEF VariablesOK, PayoutsAreOfDecided, Decided
<1>4. ReviewedIfDecided' /\ PendingHasHold' /\ PostedMeansPaid'
  BY DataFrame
<1> QED
  BY <1>1, <1>2, <1>3, <1>4

LEMMA CreateLocksAccountInvariant ==
    ASSUME IInv, NEW k \in Workers, CreateLocksAccount(k)
    PROVE  IInv'
<1> USE DEF IInv, CreateLocksAccount, Goto, LockAccount, requestVars, stripeVars
<1>1. VariablesOK'
  BY DEF VariablesOK, AccountTypeOK, Labels, Statuses
<1>2. CreatorsAreAlone' /\ HandlersFollowDecisions'
  BY DEF VariablesOK, CreatorsAreAlone, HandlersFollowDecisions, Decided
<1>3. PayoutsAreOfDecided'
  BY DEF VariablesOK, PayoutsAreOfDecided, Decided
<1>4. ReviewedIfDecided' /\ PendingHasHold' /\ PostedMeansPaid'
  BY DataFrame
<1> QED
  BY <1>1, <1>2, <1>3, <1>4

LEMMA CreateFindsInactiveInvariant ==
    ASSUME IInv, NEW k \in Workers, CreateFindsInactive(k)
    PROVE  IInv'
<1> USE DEF IInv, CreateFindsInactive, Respond, accountVars, requestVars, stripeVars
<1>1. VariablesOK'
  BY DEF VariablesOK, AccountTypeOK, Labels, Statuses
<1>2. CreatorsAreAlone' /\ HandlersFollowDecisions'
  BY DEF VariablesOK, CreatorsAreAlone, HandlersFollowDecisions, Decided
<1>3. PayoutsAreOfDecided'
  BY DEF VariablesOK, PayoutsAreOfDecided, Decided
<1>4. ReviewedIfDecided' /\ PendingHasHold' /\ PostedMeansPaid'
  BY DataFrame
<1> QED
  BY <1>1, <1>2, <1>3, <1>4

LEMMA CreateFindsTooLittleInvariant ==
    ASSUME IInv, NEW k \in Workers, CreateFindsTooLittle(k)
    PROVE  IInv'
<1> USE DEF IInv, CreateFindsTooLittle, Respond, ReleaseAccountLocks, requestVars, stripeVars
<1>1. VariablesOK'
  BY DEF VariablesOK, AccountTypeOK, Labels, Statuses
<1>2. CreatorsAreAlone' /\ HandlersFollowDecisions'
  BY DEF VariablesOK, CreatorsAreAlone, HandlersFollowDecisions, Decided
<1>3. PayoutsAreOfDecided'
  BY DEF VariablesOK, PayoutsAreOfDecided, Decided
<1>4. ReviewedIfDecided' /\ PendingHasHold' /\ PostedMeansPaid'
  BY DataFrame
<1> QED
  BY <1>1, <1>2, <1>3, <1>4

-----------------------------------------------------------------------------
(* The call to Stripe and what follows it                                  *)

LEMMA PayoutStartsInvariant ==
    ASSUME IInv, NEW k \in Workers, PayoutStarts(k)
    PROVE  IInv'
<1> USE DEF IInv, PayoutStarts, Remember, Goto, accountVars, requestVars, stripeVars
<1>1. VariablesOK'
  <2>1. PICK p \in Payouts :
            /\ payoutState' = [payoutState EXCEPT ![p] = "created"]
            /\ payoutFor' = [payoutFor EXCEPT ![p] = job[k]]
            /\ ref' = [ref EXCEPT ![k] = p]
    OBVIOUS
  <2>2. /\ job[k] \in Withdrawals
        /\ pc' \in [Workers -> Labels]
        /\ payoutState' \in [Payouts -> {"unused", "created", "paid", "failed"}]
        /\ payoutFor' \in [Payouts -> Withdrawals \cup {NoOne}]
        /\ ref' \in [Workers -> Payouts \cup {NoOne}]
    BY <2>1 DEF VariablesOK, Labels
  <2>3. \A j \in Workers :
            /\ pc'[j] # "idle" => job'[j] \in Withdrawals
            /\ pc'[j] \in {"keep", "settle", "settle_bare"} => ref'[j] \in Payouts
    BY <2>1 DEF VariablesOK, Labels
  <2> QED
    BY <2>2, <2>3 DEF VariablesOK, AccountTypeOK
<1>2. CreatorsAreAlone' /\ HandlersFollowDecisions'
  BY DEF VariablesOK, CreatorsAreAlone, HandlersFollowDecisions, Decided
<1>3. PayoutsAreOfDecided'
  BY RequestAssumption DEF VariablesOK, PayoutsAreOfDecided, HandlersFollowDecisions, Decided
<1>4. ReviewedIfDecided' /\ PendingHasHold'
  BY DEF VariablesOK, ReviewedIfDecided, Decided, AutoApproved, PendingHasHold, HasEntry
<1>5. PostedMeansPaid'
  BY DEF VariablesOK, PostedMeansPaid, HasEntry
<1> QED
  BY <1>1, <1>2, <1>3, <1>4, <1>5

LEMMA PayoutRefusedInvariant ==
    ASSUME IInv, NEW k \in Workers, PayoutRefused(k)
    PROVE  IInv'
<1> USE DEF IInv, PayoutRefused, Goto, accountVars, requestVars, stripeVars
<1>1. VariablesOK'
  BY DEF VariablesOK, AccountTypeOK, Labels, Statuses
<1>2. CreatorsAreAlone' /\ HandlersFollowDecisions'
  BY DEF VariablesOK, CreatorsAreAlone, HandlersFollowDecisions, Decided
<1>3. PayoutsAreOfDecided'
  BY DEF VariablesOK, PayoutsAreOfDecided, Decided
<1>4. ReviewedIfDecided' /\ PendingHasHold' /\ PostedMeansPaid'
  BY DataFrame
<1> QED
  BY <1>1, <1>2, <1>3, <1>4

LEMMA PayoutReplyLostInvariant ==
    ASSUME IInv, NEW k \in Workers, PayoutReplyLost(k)
    PROVE  IInv'
<1> USE DEF IInv, PayoutReplyLost, Goto, accountVars, requestVars, stripeVars
<1>1. VariablesOK'
  BY DEF VariablesOK, AccountTypeOK, Labels, Statuses
<1>2. CreatorsAreAlone' /\ HandlersFollowDecisions'
  BY DEF VariablesOK, CreatorsAreAlone, HandlersFollowDecisions, Decided
<1>3. PayoutsAreOfDecided'
  BY RequestAssumption DEF VariablesOK, PayoutsAreOfDecided, HandlersFollowDecisions, Decided
<1>4. ReviewedIfDecided' /\ PendingHasHold'
  BY DEF VariablesOK, ReviewedIfDecided, Decided, AutoApproved, PendingHasHold, HasEntry
<1>5. PostedMeansPaid'
  BY DEF VariablesOK, PostedMeansPaid, HasEntry
<1> QED
  BY <1>1, <1>2, <1>3, <1>4, <1>5

LEMMA KeepPayoutInvariant ==
    ASSUME IInv, NEW k \in Workers, KeepPayout(k)
    PROVE  IInv'
<1> USE DEF IInv, KeepPayout, Respond, SetRequestStatus, accountVars, stripeVars
<1>1. VariablesOK'
  BY DEF VariablesOK, AccountTypeOK, Labels, Statuses
<1>2. CreatorsAreAlone' /\ HandlersFollowDecisions'
  BY DEF VariablesOK, CreatorsAreAlone, HandlersFollowDecisions, Decided
<1>3. PayoutsAreOfDecided'
  BY DEF VariablesOK, PayoutsAreOfDecided, Decided
<1>4. ReviewedIfDecided' /\ PendingHasHold'
  BY DEF VariablesOK, ReviewedIfDecided, HandlersFollowDecisions, Decided, AutoApproved,
         PendingHasHold, HasEntry
<1>5. PostedMeansPaid'
  BY DEF PostedMeansPaid, HasEntry
<1> QED
  BY <1>1, <1>2, <1>3, <1>4, <1>5

LEMMA MarkFailedInvariant ==
    ASSUME IInv, NEW k \in Workers, MarkFailed(k)
    PROVE  IInv'
<1> USE DEF IInv, MarkFailed, Goto, SetRequestStatus, accountVars, stripeVars
<1>1. VariablesOK'
  BY DEF VariablesOK, AccountTypeOK, Labels, Statuses
<1>2. CreatorsAreAlone' /\ HandlersFollowDecisions'
  BY DEF VariablesOK, CreatorsAreAlone, HandlersFollowDecisions, Decided
<1>3. PayoutsAreOfDecided'
  BY DEF VariablesOK, PayoutsAreOfDecided, Decided
<1>4. ReviewedIfDecided' /\ PendingHasHold'
  BY DEF VariablesOK, ReviewedIfDecided, HandlersFollowDecisions, Decided, AutoApproved,
         PendingHasHold, HasEntry
<1>5. PostedMeansPaid'
  BY DEF PostedMeansPaid, HasEntry
<1> QED
  BY <1>1, <1>2, <1>3, <1>4, <1>5

-----------------------------------------------------------------------------
(* Review                                                                  *)

LEMMA ReviewBeginInvariant ==
    ASSUME IInv, NEW k \in Workers, NEW w \in Withdrawals,
           NEW label \in {"save", "reject"}, ReviewBegin(k, w, label)
    PROVE  IInv'
<1> USE DEF IInv, ReviewBegin, Reviewable, Goto, accountVars, requestVars, stripeVars
<1>1. VariablesOK'
  BY DEF VariablesOK, AccountTypeOK, Labels, Statuses
<1>2. CreatorsAreAlone' /\ HandlersFollowDecisions'
  BY DEF VariablesOK, CreatorsAreAlone, HandlersFollowDecisions, Decided
<1>3. PayoutsAreOfDecided'
  BY DEF VariablesOK, PayoutsAreOfDecided, Decided
<1>4. ReviewedIfDecided' /\ PendingHasHold' /\ PostedMeansPaid'
  BY DataFrame
<1> QED
  BY <1>1, <1>2, <1>3, <1>4

LEMMA ApproveSavesInvariant ==
    ASSUME IInv, NEW k \in Workers, ApproveSaves(k)
    PROVE  IInv'
<1> USE DEF IInv, ApproveSaves, Goto, SetRequestStatus, accountVars, stripeVars
<1>1. VariablesOK'
  BY DEF VariablesOK, AccountTypeOK, Labels, Statuses
<1>2. CreatorsAreAlone' /\ HandlersFollowDecisions'
  BY DEF VariablesOK, CreatorsAreAlone, HandlersFollowDecisions, Decided
<1>3. PayoutsAreOfDecided'
  BY DEF VariablesOK, PayoutsAreOfDecided, Decided
<1>4. ReviewedIfDecided' /\ PendingHasHold'
  BY DEF VariablesOK, ReviewedIfDecided, HandlersFollowDecisions, Decided, AutoApproved,
         PendingHasHold, HasEntry
<1>5. PostedMeansPaid'
  BY DEF PostedMeansPaid, HasEntry
<1> QED
  BY <1>1, <1>2, <1>3, <1>4, <1>5

LEMMA RejectRollsBackInvariant ==
    ASSUME IInv, NEW k \in Workers, RejectRollsBack(k)
    PROVE  IInv'
<1> USE DEF IInv, RejectRollsBack, Respond, accountVars, requestVars, stripeVars
<1>1. VariablesOK'
  BY DEF VariablesOK, AccountTypeOK, Labels, Statuses
<1>2. CreatorsAreAlone' /\ HandlersFollowDecisions'
  BY DEF VariablesOK, CreatorsAreAlone, HandlersFollowDecisions, Decided
<1>3. PayoutsAreOfDecided'
  BY DEF VariablesOK, PayoutsAreOfDecided, Decided
<1>4. ReviewedIfDecided' /\ PendingHasHold' /\ PostedMeansPaid'
  BY DataFrame
<1> QED
  BY <1>1, <1>2, <1>3, <1>4

-----------------------------------------------------------------------------
(* Steps that change the ledger                                            *)

LEMMA CreateHoldsInvariant ==
    ASSUME IInv, NEW k \in Workers, CreateHolds(k)
    PROVE  IInv'
<1> DEFINE w == job[k]
<1>1. w \in Withdrawals /\ status[w] = "none" /\ RowsOK(ledger)
  BY DEF IInv, VariablesOK, CreatorsAreAlone, CreateHolds
<1>2. /\ RowsOK(ledger')
      /\ HasEntry(ledger', w, "pending")
      /\ \A i, s : HasEntry(ledger, i, s) => HasEntry(ledger', i, s)
      /\ \A i, s : HasEntry(ledger', i, s) /\ s # "pending" => HasEntry(ledger, i, s)
  BY <1>1, AddEntryFacts DEF CreateHolds
<1>3. /\ status' = [status EXCEPT ![w] = IF AutoApproved(w) THEN "approved" ELSE "pending"]
      /\ UNCHANGED <<accountStatus, canTransact, reviewed, payoutId, rowLock,
                     payoutState, payoutFor, delivered>>
  BY DEF CreateHolds, SetRequestStatus, stripeVars
<1>4. /\ pc[k] = "check"
      /\ accountLock' = [a \in Accounts |-> IF accountLock[a] = k THEN NoOne ELSE accountLock[a]]
      /\ \/ /\ AutoApproved(w)
            /\ pc' = [pc EXCEPT ![k] = "call"]
            /\ UNCHANGED <<job, ref>>
         \/ /\ pc' = [pc EXCEPT ![k] = "idle"]
            /\ job' = [job EXCEPT ![k] = NoOne]
            /\ ref' = [ref EXCEPT ![k] = NoOne]
  BY DEF CreateHolds, ReleaseAccountLocks, Goto, Respond
<1> USE DEF IInv
<1>5. VariablesOK'
  BY <1>1, <1>2, <1>3, <1>4 DEF VariablesOK, AccountTypeOK, Labels, Statuses
<1>6. CreatorsAreAlone' /\ HandlersFollowDecisions'
  BY <1>1, <1>3, <1>4 DEF VariablesOK, CreatorsAreAlone, HandlersFollowDecisions, Decided
<1>7. PayoutsAreOfDecided'
  BY <1>1, <1>3, <1>4, RequestAssumption DEF VariablesOK, PayoutsAreOfDecided, Decided
<1>8. ReviewedIfDecided' /\ PendingHasHold'
  BY <1>1, <1>2, <1>3 DEF VariablesOK, ReviewedIfDecided, Decided, AutoApproved, PendingHasHold
<1>9. PostedMeansPaid'
  BY <1>2, <1>3 DEF PostedMeansPaid
<1> QED
  BY <1>5, <1>6, <1>7, <1>8, <1>9

LEMMA ReleaseHoldInvariant ==
    ASSUME IInv, NEW k \in Workers, ReleaseHold(k)
    PROVE  IInv'
<1> USE DEF IInv
<1>1. job[k] \in Withdrawals /\ Decided(job[k]) /\ RowsOK(ledger)
  BY DEF ReleaseHold, VariablesOK, HandlersFollowDecisions
<1>2. /\ RowsOK(ledger')
      /\ \A i, s : i # job[k] => (HasEntry(ledger', i, s) <=> HasEntry(ledger, i, s))
      /\ \A s : HasEntry(ledger', job[k], s) => s = "failed" \/ HasEntry(ledger, job[k], s)
  BY <1>1, SetStatusFacts DEF ReleaseHold, EntryStatus
<1> USE DEF ReleaseHold, Respond, requestVars, stripeVars
<1>3. VariablesOK'
  BY <1>2 DEF VariablesOK, AccountTypeOK, Labels
<1>4. CreatorsAreAlone' /\ HandlersFollowDecisions' /\ PayoutsAreOfDecided'
  BY DEF VariablesOK, CreatorsAreAlone, HandlersFollowDecisions, PayoutsAreOfDecided, Decided
<1>5. ReviewedIfDecided'
  BY DEF ReviewedIfDecided, Decided, AutoApproved
<1>6. PendingHasHold' /\ PostedMeansPaid'
  BY <1>1, <1>2 DEF PendingHasHold, PostedMeansPaid, Decided
<1> QED
  BY <1>3, <1>4, <1>5, <1>6

LEMMA RejectCommitsInvariant ==
    ASSUME IInv, NEW k \in Workers, RejectCommits(k)
    PROVE  IInv'
<1> USE DEF IInv
<1>1. job[k] \in Withdrawals /\ status[job[k]] # "none" /\ RowsOK(ledger)
  BY DEF RejectCommits, VariablesOK, HandlersFollowDecisions
<1>2. /\ RowsOK(ledger')
      /\ \A i, s : i # job[k] => (HasEntry(ledger', i, s) <=> HasEntry(ledger, i, s))
      /\ \A s : HasEntry(ledger', job[k], s) => s = "failed" \/ HasEntry(ledger, job[k], s)
  BY <1>1, SetStatusFacts DEF RejectCommits, EntryStatus
<1>3. /\ status' = [status EXCEPT ![job[k]] = "rejected"]
      /\ reviewed' = [reviewed EXCEPT ![job[k]] = TRUE]
  BY DEF RejectCommits, SetRequestStatus
<1> USE DEF RejectCommits, Respond, stripeVars
<1>4. VariablesOK'
  <2>1. /\ status' \in [Withdrawals -> Statuses]
        /\ reviewed' \in [Withdrawals -> BOOLEAN]
    BY <1>1, <1>3 DEF VariablesOK, Statuses
  <2>2. /\ pc' \in [Workers -> Labels]
        /\ job' \in [Workers -> Withdrawals \cup {NoOne}]
        /\ ref' \in [Workers -> Payouts \cup {NoOne}]
        /\ \A j \in Workers : pc'[j] # "idle" => job'[j] \in Withdrawals
        /\ \A j \in Workers :
              pc'[j] \in {"keep", "settle", "settle_bare"} => ref'[j] \in Payouts
    BY DEF VariablesOK, Labels
  <2> QED
    BY <1>2, <2>1, <2>2 DEF VariablesOK, AccountTypeOK
<1>5. CreatorsAreAlone' /\ HandlersFollowDecisions' /\ PayoutsAreOfDecided'
  BY <1>1, <1>3 DEF VariablesOK, CreatorsAreAlone, HandlersFollowDecisions,
                    PayoutsAreOfDecided, Decided
<1>6. ReviewedIfDecided'
  BY <1>1, <1>3 DEF VariablesOK, ReviewedIfDecided, Decided, AutoApproved
<1>7. PendingHasHold' /\ PostedMeansPaid'
  BY <1>1, <1>2, <1>3 DEF VariablesOK, PendingHasHold, PostedMeansPaid
<1> QED
  BY <1>4, <1>5, <1>6, <1>7

LEMMA WebhookFindsInvariant ==
    ASSUME IInv, NEW k \in Workers, NEW p \in Payouts, WebhookFinds(k, p)
    PROVE  IInv'
<1> USE DEF IInv, WebhookFinds, Remember, Goto, Unsettled, accountVars, stripeVars
<1>1. VariablesOK'
  <2>1. PICK w \in Unsettled(p) :
            /\ rowLock' = [rowLock EXCEPT ![w] = k]
            /\ job' = [job EXCEPT ![k] = w]
            /\ pc' = [pc EXCEPT ![k] = IF HasEntry(ledger, w, "pending")
                                      THEN "settle" ELSE "settle_bare"]
    OBVIOUS
  <2> QED
    BY <2>1 DEF VariablesOK, AccountTypeOK, Labels, Statuses
<1>2. CreatorsAreAlone' /\ HandlersFollowDecisions'
  BY RequestAssumption DEF VariablesOK, CreatorsAreAlone, HandlersFollowDecisions,
                           PayoutsAreOfDecided, Decided
<1>3. PayoutsAreOfDecided'
  BY RequestAssumption DEF VariablesOK, PayoutsAreOfDecided, Decided
<1>4. ReviewedIfDecided' /\ PendingHasHold' /\ PostedMeansPaid'
  BY DataFrame
<1> QED
  BY <1>1, <1>2, <1>3, <1>4

LEMMA WebhookSettlesInvariant ==
    ASSUME IInv, NEW k \in Workers, WebhookSettles(k)
    PROVE  IInv'
<1> DEFINE w       == job[k]
           outcome == SettledAs(ref[k])
<1> USE DEF IInv
<1>1. /\ w \in Withdrawals /\ Decided(w) /\ RowsOK(ledger)
      /\ ref[k] \in Payouts /\ payoutFor[ref[k]] = w
  BY DEF WebhookSettles, VariablesOK, HandlersFollowDecisions, PayoutsAreOfDecided
<1>2. /\ RowsOK(ledger')
      /\ \A i, s : i # w => (HasEntry(ledger', i, s) <=> HasEntry(ledger, i, s))
      /\ \A s : HasEntry(ledger', w, s) => s = outcome \/ HasEntry(ledger, w, s)
  <2>1. CASE pc[k] = "settle"
    <3>1. ledger' = SetStatus(ledger, w, EntryStatus, outcome) /\ outcome \in EntryStatus
      BY <2>1 DEF WebhookSettles, SettledAs, EntryStatus
    <3> QED
      BY <3>1, <1>1, SetStatusFacts
  <2>2. CASE pc[k] # "settle"
    BY <2>2, <1>1 DEF WebhookSettles
  <2> QED
    BY <2>1, <2>2
<1>3. status' = [status EXCEPT ![w] = IF payoutState[ref[k]] = "paid"
                                       THEN "succeeded" ELSE "failed"]
  BY DEF WebhookSettles, SetRequestStatus
<1>4. /\ rowLock' = [rowLock EXCEPT ![w] = NoOne]
      /\ delivered' = delivered \cup {ref[k]}
      /\ UNCHANGED <<accountStatus, accountLock, canTransact, reviewed, payoutId,
                     payoutState, payoutFor>>
  BY DEF WebhookSettles
<1>5. /\ pc' = [pc EXCEPT ![k] = "idle"]
      /\ job' = [job EXCEPT ![k] = NoOne]
      /\ ref' = [ref EXCEPT ![k] = NoOne]
  BY DEF WebhookSettles, Respond
<1>6. VariablesOK'
  BY <1>1, <1>2, <1>3, <1>4, <1>5 DEF VariablesOK, AccountTypeOK, Labels, Statuses
<1>7. CreatorsAreAlone' /\ HandlersFollowDecisions' /\ PayoutsAreOfDecided'
  BY <1>1, <1>3, <1>4, <1>5 DEF VariablesOK, CreatorsAreAlone, HandlersFollowDecisions,
                                PayoutsAreOfDecided, Decided
<1>8. ReviewedIfDecided'
  BY <1>1, <1>3, <1>4 DEF VariablesOK, ReviewedIfDecided, Decided, AutoApproved
<1>9. PendingHasHold' /\ PostedMeansPaid'
  BY <1>1, <1>2, <1>3, <1>4 DEF VariablesOK, PendingHasHold, PostedMeansPaid, SettledAs, Decided
<1> QED
  BY <1>6, <1>7, <1>8, <1>9

-----------------------------------------------------------------------------
(* Stripe, the other requests and crashes                                  *)

LEMMA WebhookFindsNothingInvariant ==
    ASSUME IInv, NEW k \in Workers, NEW p \in Payouts, WebhookFindsNothing(k, p)
    PROVE  IInv'
<1> USE DEF IInv, WebhookFindsNothing, accountVars, requestVars, workerVars
<1>1. VariablesOK'
  BY DEF VariablesOK, AccountTypeOK, Labels, Statuses
<1>2. CreatorsAreAlone' /\ HandlersFollowDecisions'
  BY DEF VariablesOK, CreatorsAreAlone, HandlersFollowDecisions, Decided
<1>3. PayoutsAreOfDecided'
  BY DEF VariablesOK, PayoutsAreOfDecided, Decided
<1>4. ReviewedIfDecided' /\ PendingHasHold' /\ PostedMeansPaid'
  BY DataFrame
<1> QED
  BY <1>1, <1>2, <1>3, <1>4

LEMMA PayoutSettlesInvariant ==
    ASSUME IInv, NEW p \in Payouts, PayoutSettles(p)
    PROVE  IInv'
<1> USE DEF IInv, PayoutSettles, accountVars, requestVars, workerVars
<1>1. VariablesOK'
  BY DEF VariablesOK, AccountTypeOK
<1>2. CreatorsAreAlone' /\ HandlersFollowDecisions' /\ PayoutsAreOfDecided'
  BY DEF VariablesOK, CreatorsAreAlone, HandlersFollowDecisions, PayoutsAreOfDecided, Decided
<1>3. ReviewedIfDecided' /\ PendingHasHold'
  BY DEF ReviewedIfDecided, Decided, AutoApproved, PendingHasHold, HasEntry
<1>4. PostedMeansPaid'
  BY DEF VariablesOK, PostedMeansPaid, HasEntry
<1> QED
  BY <1>1, <1>2, <1>3, <1>4

LEMMA OtherRequestInvariant ==
    ASSUME IInv, NEW a \in Accounts, OtherRequest(a)
    PROVE  IInv'
<1> USE DEF IInv, OtherRequest, AccountRequest, FreezeAccount, UnfreezeAccount, GateChanges, requestVars, stripeVars, workerVars
<1>1. VariablesOK'
  BY DEF VariablesOK, AccountTypeOK, Labels, Statuses
<1>2. CreatorsAreAlone' /\ HandlersFollowDecisions'
  BY DEF VariablesOK, CreatorsAreAlone, HandlersFollowDecisions, Decided
<1>3. PayoutsAreOfDecided'
  BY DEF VariablesOK, PayoutsAreOfDecided, Decided
<1>4. ReviewedIfDecided' /\ PendingHasHold' /\ PostedMeansPaid'
  BY DataFrame
<1> QED
  BY <1>1, <1>2, <1>3, <1>4

LEMMA CrashInvariant ==
    ASSUME IInv, NEW k \in Workers, Crash(k)
    PROVE  IInv'
<1> USE DEF IInv, Crash, Respond, ReleaseAccountLocks, stripeVars
<1>1. VariablesOK'
  BY DEF VariablesOK, AccountTypeOK, Labels, Statuses
<1>2. CreatorsAreAlone' /\ HandlersFollowDecisions'
  BY DEF VariablesOK, CreatorsAreAlone, HandlersFollowDecisions, Decided
<1>3. PayoutsAreOfDecided'
  BY DEF VariablesOK, PayoutsAreOfDecided, Decided
<1>4. ReviewedIfDecided' /\ PendingHasHold' /\ PostedMeansPaid'
  BY DataFrame
<1> QED
  BY <1>1, <1>2, <1>3, <1>4

LEMMA StutterInvariant ==
    ASSUME IInv, UNCHANGED vars
    PROVE  IInv'
<1> USE DEF IInv, vars, accountVars, requestVars, stripeVars, workerVars
<1>1. VariablesOK'
  BY DEF VariablesOK, AccountTypeOK, Labels, Statuses
<1>2. CreatorsAreAlone' /\ HandlersFollowDecisions'
  BY DEF VariablesOK, CreatorsAreAlone, HandlersFollowDecisions, Decided
<1>3. PayoutsAreOfDecided'
  BY DEF VariablesOK, PayoutsAreOfDecided, Decided
<1>4. ReviewedIfDecided' /\ PendingHasHold' /\ PostedMeansPaid'
  BY DataFrame
<1> QED
  BY <1>1, <1>2, <1>3, <1>4

LEMMA WorkerStepInvariant ==
    ASSUME IInv, NEW k \in Workers, WorkerStep(k)
    PROVE  IInv'
BY CreateLocksAccountInvariant, CreateFindsInactiveInvariant,
   CreateFindsTooLittleInvariant, CreateHoldsInvariant, PayoutStartsInvariant,
   PayoutRefusedInvariant, PayoutReplyLostInvariant, KeepPayoutInvariant,
   MarkFailedInvariant, ReleaseHoldInvariant, ApproveSavesInvariant,
   RejectCommitsInvariant, RejectRollsBackInvariant, WebhookSettlesInvariant
   DEF WorkerStep

LEMMA NextInvariant == IInv /\ [Next]_vars => IInv'
<1> SUFFICES ASSUME IInv, [Next]_vars PROVE IInv'
  OBVIOUS
<1>1. CASE \E k \in Workers : WorkerStep(k) \/ Crash(k)
  BY <1>1, WorkerStepInvariant, CrashInvariant
<1>2. CASE \E k \in Workers, w \in Withdrawals :
              CreateBegin(k, w) \/ ApproveBegin(k, w) \/ RejectBegin(k, w)
  BY <1>2, CreateBeginInvariant, ReviewBeginInvariant DEF ApproveBegin, RejectBegin
<1>3. CASE \E k \in Workers, p \in Payouts : Webhook(k, p)
  BY <1>3, WebhookFindsInvariant, WebhookFindsNothingInvariant DEF Webhook
<1>4. CASE \E p \in Payouts : PayoutSettles(p)
  BY <1>4, PayoutSettlesInvariant
<1>5. CASE \E a \in Accounts : OtherRequest(a)
  BY <1>5, OtherRequestInvariant
<1>6. CASE UNCHANGED vars
  BY <1>6, StutterInvariant
<1> QED
  BY <1>1, <1>2, <1>3, <1>4, <1>5, <1>6 DEF Next

\* Four statements write to the ledger.
LEMMA FourWrite ==
    ASSUME [Next]_vars
    PROVE  \/ UNCHANGED ledger
           \/ \E k \in Workers : \/ CreateHolds(k) \/ ReleaseHold(k)
                                 \/ RejectCommits(k) \/ WebhookSettles(k)
<1> USE DEF accountVars
<1>1. ASSUME NEW k \in Workers,
             \/ CreateLocksAccount(k) \/ CreateFindsInactive(k) \/ CreateFindsTooLittle(k)
             \/ PayoutStarts(k) \/ PayoutRefused(k) \/ PayoutReplyLost(k)
             \/ KeepPayout(k) \/ MarkFailed(k) \/ ApproveSaves(k) \/ RejectRollsBack(k)
             \/ Crash(k)
      PROVE  UNCHANGED ledger
  BY <1>1 DEF CreateLocksAccount, CreateFindsInactive, CreateFindsTooLittle, PayoutStarts,
     PayoutRefused, PayoutReplyLost, KeepPayout, MarkFailed, ApproveSaves,
     RejectRollsBack, Crash
<1>2. ASSUME NEW k \in Workers,
             \/ \E w \in Withdrawals : CreateBegin(k, w) \/ ApproveBegin(k, w) \/ RejectBegin(k, w)
             \/ \E p \in Payouts : Webhook(k, p)
      PROVE  UNCHANGED ledger
  BY <1>2 DEF CreateBegin, ApproveBegin, RejectBegin, ReviewBegin, Webhook, WebhookFinds,
     WebhookFindsNothing
<1>3. ASSUME NEW p \in Payouts, PayoutSettles(p)
      PROVE  UNCHANGED ledger
  BY <1>3 DEF PayoutSettles
<1>4. ASSUME NEW a \in Accounts, OtherRequest(a)
      PROVE  UNCHANGED ledger
  BY <1>4 DEF OtherRequest, AccountRequest, FreezeAccount, UnfreezeAccount, GateChanges
<1>5. CASE UNCHANGED vars
  BY <1>5 DEF vars
<1>6. CASE \E k \in Workers : WorkerStep(k) \/ Crash(k)
  BY <1>1, <1>6 DEF WorkerStep
<1> QED
  BY <1>2, <1>3, <1>4, <1>5, <1>6 DEF Next

\* They add a hold, or give the rows of one request another status.
LEMMA LedgerWrites ==
    ASSUME IInv, [Next]_vars
    PROVE  \/ UNCHANGED ledger
           \/ \E w \in Withdrawals :
                 \/ ledger' = ledger \cup {HoldEntry(w)}
                 \/ \E from \in SUBSET EntryStatus, to \in EntryStatus :
                       ledger' = SetStatus(ledger, w, from, to)
<1>1. ASSUME NEW k \in Workers, CreateHolds(k)
      PROVE  \E w \in Withdrawals : ledger' = ledger \cup {HoldEntry(w)}
  BY <1>1 DEF CreateHolds, IInv, VariablesOK
<1>2. ASSUME NEW k \in Workers, ReleaseHold(k) \/ RejectCommits(k) \/ WebhookSettles(k)
      PROVE  \/ UNCHANGED ledger
             \/ \E w \in Withdrawals, from \in SUBSET EntryStatus, to \in EntryStatus :
                   ledger' = SetStatus(ledger, w, from, to)
  BY <1>2 DEF ReleaseHold, RejectCommits, WebhookSettles, SettledAs, IInv, VariablesOK, EntryStatus
<1> QED
  BY <1>1, <1>2, FourWrite

-----------------------------------------------------------------------------
(* Theorems, for any number of workers                                     *)

\* The strengthening is an invariant of the specification.
THEOREM Inductive == Spec => []IInv
<1>1. Init => IInv
  BY InitInvariant
<1>2. IInv /\ [Next]_vars => IInv'
  BY NextInvariant
<1> QED
  BY <1>1, <1>2, PTL DEF Spec

\* The rows of an account can be summed up, and what a worker read of them is
\* a number.
SumsOK ==
    /\ \A a \in Accounts : Countable(ledger, a)
    /\ seen \in [Workers -> Int]

LEMMA SumsNext == IInv /\ SumsOK /\ [Next]_vars => SumsOK'
<1> SUFFICES ASSUME IInv, SumsOK, [Next]_vars PROVE SumsOK'
  OBVIOUS
<1>1. ASSUME NEW a \in Accounts
      PROVE  Countable(ledger', a)
  <2>1. Countable(ledger, a)
    BY DEF SumsOK
  <2>2. ASSUME NEW w \in Withdrawals, ledger' = ledger \cup {HoldEntry(w)}
        PROVE  Countable(ledger', a)
    <3>1. HoldEntry(w).amount \in Int
      BY RequestAssumption DEF HoldEntry, Entry
    <3> QED
      BY <2>1, <2>2, <3>1, RowIsWritten
  <2>3. ASSUME NEW w \in Withdrawals, NEW from, NEW to, ledger' = SetStatus(ledger, w, from, to)
        PROVE  Countable(ledger', a)
    <3>1. \A e \in ledger : e \in EntriesOf({e.id}, Accounts)
      BY DEF IInv, VariablesOK, RowsOK
    <3> QED
      BY <2>1, <2>3, <3>1, UpdateIsCountable
  <2> QED
    BY <2>1, <2>2, <2>3, LedgerWrites
<1>2. seen' \in [Workers -> Int]
  <2> USE DEF SumsOK, Respond, workerVars
  <2>1. ASSUME NEW k \in Workers, CreateLocksAccount(k)
        PROVE  seen' \in [Workers -> Int]
    <3>1. AccountOf[job[k]] \in Accounts
      BY <2>1, RequestAssumption DEF CreateLocksAccount, IInv, VariablesOK
    <3>2. BalanceCents(ledger, AccountOf[job[k]]) \in Int
      BY <3>1, StatusSumFacts DEF BalanceCents
    <3> QED
      BY <2>1, <3>2 DEF CreateLocksAccount
  <2>2. ASSUME NEW k \in Workers,
               \/ CreateFindsInactive(k) \/ CreateFindsTooLittle(k) \/ CreateHolds(k)
               \/ PayoutStarts(k) \/ PayoutRefused(k) \/ PayoutReplyLost(k)
               \/ KeepPayout(k) \/ MarkFailed(k) \/ ReleaseHold(k) \/ ApproveSaves(k)
               \/ RejectCommits(k) \/ RejectRollsBack(k) \/ WebhookSettles(k) \/ Crash(k)
        PROVE  seen' \in [Workers -> Int]
    BY <2>2 DEF CreateFindsInactive, CreateFindsTooLittle, CreateHolds, PayoutStarts,
       PayoutRefused, PayoutReplyLost, KeepPayout, MarkFailed, ReleaseHold, ApproveSaves,
       RejectCommits, RejectRollsBack, WebhookSettles, Crash
  <2>3. ASSUME NEW k \in Workers,
               \/ \E w \in Withdrawals : CreateBegin(k, w) \/ ApproveBegin(k, w) \/ RejectBegin(k, w)
               \/ \E p \in Payouts : Webhook(k, p)
        PROVE  seen' \in [Workers -> Int]
    BY <2>3 DEF CreateBegin, ApproveBegin, RejectBegin, ReviewBegin, Webhook, WebhookFinds,
       WebhookFindsNothing
  <2>4. ASSUME NEW p \in Payouts, PayoutSettles(p)
        PROVE  seen' \in [Workers -> Int]
    BY <2>4 DEF PayoutSettles
  <2>5. ASSUME NEW a \in Accounts, OtherRequest(a)
        PROVE  seen' \in [Workers -> Int]
    BY <2>5 DEF OtherRequest
  <2>6. CASE UNCHANGED vars
    BY <2>6 DEF vars
  <2>7. CASE \E k \in Workers : WorkerStep(k) \/ Crash(k)
    BY <2>7, <2>1, <2>2 DEF WorkerStep
  <2> QED
    BY <2>3, <2>4, <2>5, <2>6, <2>7 DEF Next
<1> QED
  BY <1>1, <1>2 DEF SumsOK

LEMMA SumsInit == Init => SumsOK
BY OpeningSums DEF Init, AccountInit, SumsOK

\* The sums are defined in every reachable state.
THEOREM SumsCorrect == Spec => []SumsOK
BY SumsInit, SumsNext, Inductive, PTL DEF Spec

\* Type correctness, for every size of the system.
THEOREM TypeCorrect == Spec => []TypeOK
<1> DEFINE Ours == \A e \in ledger : e.id \in Accounts \cup Withdrawals
<1>1. Init => Ours
  BY DEF Init, AccountInit, OpeningLedger, Entry
<1>2. IInv /\ Ours /\ [Next]_vars => Ours'
  <2> SUFFICES ASSUME IInv, Ours, [Next]_vars PROVE Ours'
    OBVIOUS
  <2>1. ASSUME NEW w \in Withdrawals, ledger' = ledger \cup {HoldEntry(w)}
        PROVE  Ours'
    BY <2>1 DEF HoldEntry, Entry
  <2>2. ASSUME NEW w \in Withdrawals, NEW from, NEW to \in EntryStatus,
               ledger' = SetStatus(ledger, w, from, to)
        PROVE  Ours'
    BY <2>2 DEF SetStatus, IInv, VariablesOK, RowsOK, EntriesOf
  <2> QED
    BY <2>1, <2>2, LedgerWrites
<1>3. IInv /\ Ours /\ SumsOK => TypeOK
  BY DEF IInv, VariablesOK, TypeOK, RowsOK, EntriesOf, SumsOK
<1> QED
  BY <1>1, <1>2, <1>3, Inductive, SumsCorrect, PTL DEF Spec

\* A request under review keeps its hold, and has no payout, however many
\* workers serve reviewers, customers and webhooks at the same time.
THEOREM ReviewHoldsFunds == Spec => []PendingReviewIsHeld
<1>1. IInv => PendingReviewIsHeld
  BY RequestAssumption DEF IInv, VariablesOK, PendingHasHold, PayoutsAreOfDecided, Decided,
                           PendingReviewIsHeld
<1> QED
  BY <1>1, Inductive, PTL

\* Nothing above the limit is paid out without a review, however the reviews
\* of a request interleave.
THEOREM ReviewComesFirst == Spec => []ReviewBeforePayout
<1>1. IInv => ReviewBeforePayout
  BY RequestAssumption DEF IInv, PayoutsAreOfDecided, ReviewedIfDecided, AutoApproved,
                           ReviewBeforePayout
<1> QED
  BY <1>1, Inductive, PTL

\* A debit is final only for money that Stripe did pay.
THEOREM DebitsArePaid == Spec => []PostedMeansPaid
<1>1. IInv => PostedMeansPaid
  BY DEF IInv
<1> QED
  BY <1>1, Inductive, PTL

-----------------------------------------------------------------------------
(* One worker per withdrawal: the inductive invariant                      *)

OneWorker == \A j, k \in Workers : j = k

NoReviews == \A w \in Withdrawals : AutoApproved(w)

\* Where no two requests can be about one withdrawal: only reviewers meet.
Serial == OneWorker \/ NoReviews

\* The rows of a withdrawal are all in one status, and there is one.
OnlyRow(w, s) == \A t \in EntryStatus : HasEntry(ledger, w, t) <=> t = s

Unpaid(w) == \A p \in Payouts : payoutFor[p] # w

\* A withdrawal is dealt with by one worker at a time.
HandledAlone ==
    \A j, k \in Workers : pc[j] # "idle" /\ pc[k] # "idle" /\ job[j] = job[k] => j = k

\* What the worker has read, or has done, is still so at its next statement.
Fits(k) ==
    /\ pc[k] \in {"save", "reject"} => status[job[k]] = "pending"
    /\ pc[k] \in {"call", "keep", "fail"} => status[job[k]] = "approved"
    /\ pc[k] = "release" => status[job[k]] = "failed" /\ OnlyRow(job[k], "pending")
    /\ pc[k] = "call" => Unpaid(job[k])
    /\ pc[k] \in {"fail", "release"} => Unpaid(job[k]) \/ Unheard(job[k])
    /\ pc[k] = "settle" => /\ status[job[k]] = "processing"
                           /\ payoutId[job[k]] = ref[k]
                           /\ EventOf(ref[k])
                           /\ rowLock[job[k]] = k
    /\ pc[k] # "settle_bare"

StatementsFit == \A k \in Workers : Fits(k)

\* The ledger row a request's status calls for.  A worker that was killed
\* before it released the hold leaves a failed request with its hold.  Only a
\* request above the limit waits for a review.
RowsFit ==
    \A w \in Withdrawals :
        /\ status[w] = "pending" => ~AutoApproved(w)
        /\ status[w] = "none" => \A t \in EntryStatus : ~HasEntry(ledger, w, t)
        /\ status[w] \in {"pending", "approved", "processing"} => OnlyRow(w, "pending")
        /\ status[w] = "succeeded" => OnlyRow(w, "posted")
        /\ status[w] = "rejected" => OnlyRow(w, "failed")
        /\ status[w] = "failed" => OnlyRow(w, "failed") \/ OnlyRow(w, "pending")

\* Of a payout its request's status tells; the id is saved with "processing".
PayoutsFit ==
    /\ OnePayoutPerWithdrawal
    /\ \A p \in Payouts, w \in Withdrawals : payoutFor[p] = w =>
          /\ status[w] # "rejected"
          /\ status[w] = "failed" => payoutState[p] = "failed" \/ Unheard(w)
    /\ \A w \in Withdrawals : payoutId[w] # NoOne =>
          status[w] \in {"processing", "succeeded", "failed"}

SerialInv ==
    /\ HandledAlone
    /\ StatementsFit
    /\ RowsFit
    /\ PayoutsFit

-----------------------------------------------------------------------------
(* What the writes to the ledger do                                        *)

\* From one step to the next, the rows of w are all in status to, the rows of
\* other withdrawals are as they were, what was posted is still there, and
\* that is all: the row of w takes the place of its hold.
RowMoves(w, to) ==
    /\ \A t \in EntryStatus : HasEntry(ledger', w, t) <=> t = to
    /\ \A v \in Withdrawals \ {w}, t \in EntryStatus :
          HasEntry(ledger', v, t) <=> HasEntry(ledger, v, t)
    /\ \A e \in ledger : e.status = "posted" => e \in ledger'
    /\ ledger' = (ledger \ {HoldEntry(w)}) \cup
                 {Entry(w, AccountOf[w], -AmountOf[w], to)}

\* An update that covers pending rows moves a withdrawal whose rows are pending.
LEMMA UpdateMoves ==
    ASSUME RowsOK(ledger), NEW w \in Withdrawals, OnlyRow(w, "pending"),
           NEW from, "pending" \in from, NEW to \in EntryStatus,
           ledger' = SetStatus(ledger, w, from, to)
    PROVE  RowMoves(w, to)
<1> DEFINE upd(e) == IF e.id = w /\ e.status \in from
                     THEN [e EXCEPT !.status = to] ELSE e
<1>1. ledger' = {upd(e) : e \in ledger}
  BY DEF SetStatus
<1>2. \A e \in ledger : e.status \in EntryStatus
  BY DEF RowsOK, EntriesOf
<1>3. \A e \in ledger : e.id = w => e.status = "pending"
  BY <1>2 DEF OnlyRow, HasEntry
<1>4. \A e \in ledger : /\ upd(e).id = e.id
                        /\ e.id = w => upd(e).status = to
                        /\ e.id # w => upd(e) = e
  BY <1>3 DEF RowsOK, EntriesOf
<1>5. \E e \in ledger : e.id = w
  BY DEF OnlyRow, HasEntry, EntryStatus
<1> HIDE DEF upd
<1>6. \A t \in EntryStatus : HasEntry(ledger', w, t) <=> t = to
  BY <1>1, <1>4, <1>5 DEF HasEntry
<1>7. \A v \in Withdrawals \ {w}, t \in EntryStatus :
         HasEntry(ledger', v, t) <=> HasEntry(ledger, v, t)
  BY <1>1, <1>4 DEF HasEntry
<1>8. \A e \in ledger : e.status = "posted" => e \in ledger'
  BY <1>1, <1>3, <1>4
<1>9. ledger' = (ledger \ {HoldEntry(w)}) \cup {Entry(w, AccountOf[w], -AmountOf[w], to)}
  <2>1. \A e \in ledger : e.id = w <=> e = HoldEntry(w)
    <3>1. \A e \in ledger : e.id = w => e = Entry(w, AccountOf[w], -AmountOf[w], e.status)
      BY DEF RowsOK
    <3>2. HoldEntry(w).id = w
      BY DEF HoldEntry, Entry
    <3> QED
      BY <1>3, <3>1, <3>2 DEF HoldEntry
  <2>2. upd(HoldEntry(w)) = Entry(w, AccountOf[w], -AmountOf[w], to)
    BY DEF upd, HoldEntry, Entry
  <2>3. HoldEntry(w) \in ledger
    BY <1>5, <2>1
  <2>4. \A e \in ledger : upd(e) = IF e = HoldEntry(w) THEN upd(HoldEntry(w)) ELSE e
    BY <1>4, <2>1
  <2> QED
    BY <1>1, <2>2, <2>3, <2>4
<1> QED
  BY <1>6, <1>7, <1>8, <1>9 DEF RowMoves

\* The first row of a withdrawal is its hold.
LEMMA HoldMoves ==
    ASSUME NEW w \in Withdrawals, \A t \in EntryStatus : ~HasEntry(ledger, w, t),
           ledger' = ledger \cup {HoldEntry(w)}
    PROVE  RowMoves(w, "pending")
<1>1. HoldEntry(w).id = w /\ HoldEntry(w).status = "pending"
  BY DEF HoldEntry, Entry
<1>2. ledger' = (ledger \ {HoldEntry(w)}) \cup {Entry(w, AccountOf[w], -AmountOf[w], "pending")}
  BY DEF HoldEntry
<1> QED
  BY <1>1, <1>2 DEF RowMoves, HasEntry

-----------------------------------------------------------------------------
(* The four statements that write to the ledger                            *)

LEMMA CreateHoldsMoves ==
    ASSUME IInv, SerialInv, NEW k \in Workers, CreateHolds(k)
    PROVE  \E w \in Withdrawals :
              /\ w = job[k] /\ status[w] = "none"
              /\ \A t \in EntryStatus : ~HasEntry(ledger, w, t)
              /\ RowMoves(w, "pending")
<1>1. PICK w \in Withdrawals : w = job[k] /\ status[w] = "none"
  BY DEF CreateHolds, IInv, VariablesOK, CreatorsAreAlone
<1>2. \A t \in EntryStatus : ~HasEntry(ledger, w, t)
  BY <1>1 DEF SerialInv, RowsFit
<1>3. RowMoves(w, "pending")
  BY <1>1, <1>2, HoldMoves DEF CreateHolds
<1> QED
  BY <1>1, <1>2, <1>3

LEMMA ReleaseHoldMoves ==
    ASSUME IInv, SerialInv, NEW k \in Workers, ReleaseHold(k)
    PROVE  \E w \in Withdrawals :
              /\ w = job[k] /\ status[w] = "failed"
              /\ OnlyRow(w, "pending") /\ RowMoves(w, "failed")
<1>1. PICK w \in Withdrawals :
         w = job[k] /\ status[w] = "failed" /\ OnlyRow(w, "pending")
  BY DEF ReleaseHold, IInv, VariablesOK, SerialInv, StatementsFit, Fits
<1>2. RowMoves(w, "failed")
  BY <1>1, UpdateMoves DEF ReleaseHold, IInv, VariablesOK, EntryStatus
<1> QED
  BY <1>1, <1>2

LEMMA RejectCommitsMoves ==
    ASSUME IInv, SerialInv, NEW k \in Workers, RejectCommits(k)
    PROVE  \E w \in Withdrawals :
              /\ w = job[k] /\ status[w] = "pending"
              /\ OnlyRow(w, "pending") /\ RowMoves(w, "failed")
<1>1. PICK w \in Withdrawals : w = job[k] /\ status[w] = "pending"
  BY DEF RejectCommits, IInv, VariablesOK, SerialInv, StatementsFit, Fits
<1>2. OnlyRow(w, "pending")
  BY <1>1 DEF SerialInv, RowsFit
<1>3. RowMoves(w, "failed")
  BY <1>1, <1>2, UpdateMoves DEF RejectCommits, IInv, VariablesOK, EntryStatus
<1> QED
  BY <1>1, <1>2, <1>3

LEMMA WebhookSettlesMoves ==
    ASSUME IInv, SerialInv, NEW k \in Workers, WebhookSettles(k)
    PROVE  \E w \in Withdrawals :
              /\ w = job[k] /\ status[w] = "processing"
              /\ pc[k] = "settle"
              /\ ref[k] \in Payouts /\ payoutFor[ref[k]] = w
              /\ OnlyRow(w, "pending")
              /\ \/ /\ payoutState[ref[k]] = "paid"
                    /\ status' = [status EXCEPT ![w] = "succeeded"]
                    /\ RowMoves(w, "posted")
                 \/ /\ payoutState[ref[k]] = "failed"
                    /\ status' = [status EXCEPT ![w] = "failed"]
                    /\ RowMoves(w, "failed")
<1>1. PICK w \in Withdrawals : w = job[k] /\ status[w] = "processing"
  BY DEF WebhookSettles, IInv, VariablesOK, SerialInv, StatementsFit, Fits
<1>2. pc[k] = "settle" /\ EventOf(ref[k])
  BY DEF WebhookSettles, SerialInv, StatementsFit, Fits
<1>3. ref[k] \in Payouts /\ payoutFor[ref[k]] = w
  BY <1>1, <1>2 DEF IInv, VariablesOK, PayoutsAreOfDecided
<1>4. OnlyRow(w, "pending")
  BY <1>1 DEF SerialInv, RowsFit
<1>5. ledger' = SetStatus(ledger, w, EntryStatus, SettledAs(ref[k]))
  BY <1>1, <1>2 DEF WebhookSettles
<1>6. SettledAs(ref[k]) \in EntryStatus /\ "pending" \in EntryStatus
  BY DEF SettledAs, EntryStatus
<1>7. RowMoves(w, SettledAs(ref[k]))
  BY <1>4, <1>5, <1>6, UpdateMoves DEF IInv, VariablesOK
<1>8. CASE payoutState[ref[k]] = "paid"
  BY <1>1, <1>2, <1>3, <1>4, <1>7, <1>8 DEF WebhookSettles, SetRequestStatus, SettledAs
<1>9. CASE payoutState[ref[k]] = "failed"
  BY <1>1, <1>2, <1>3, <1>4, <1>7, <1>9 DEF WebhookSettles, SetRequestStatus, SettledAs
<1> QED
  BY <1>2, <1>8, <1>9 DEF EventOf

-----------------------------------------------------------------------------
(* The parts that a step does not disturb                                  *)

\* Rows are about statuses and the ledger only, payouts about statuses, the
\* ids that were saved, and Stripe.
LEMMA DataStays ==
    ASSUME SerialInv, UNCHANGED <<ledger, status, payoutId, payoutState, payoutFor>>
    PROVE  RowsFit' /\ PayoutsFit'
<1>1. RowsFit'
  BY DEF SerialInv, RowsFit, OnlyRow, HasEntry, AutoApproved
<1>2. PayoutsFit'
  BY DEF SerialInv, PayoutsFit, OnePayoutPerWithdrawal, Unheard
<1> QED
  BY <1>1, <1>2

\* What a step of k leaves to the workers that deal with v.
LeftAlone(v, k) ==
    /\ status'[v] = status[v] /\ payoutId'[v] = payoutId[v]
    /\ \A t \in EntryStatus : HasEntry(ledger', v, t) <=> HasEntry(ledger, v, t)
    /\ \A p \in Payouts : payoutFor'[p] = v => payoutFor[p] = v
    /\ rowLock[v] # k => rowLock'[v] = rowLock[v]

LEMMA FitsStays ==
    ASSUME IInv, NEW j \in Workers, Fits(j), NEW k \in Workers, k # j,
           pc'[j] = pc[j], job'[j] = job[j], ref'[j] = ref[j],
           pc[j] # "idle" => LeftAlone(job[j], k),
           \A p \in Payouts : EventOf(p) => EventOf(p)'
    PROVE  Fits(j)'
<1>1. pc[j] = "settle" => ref[j] \in Payouts
  BY DEF IInv, VariablesOK
<1>2. CASE pc[j] = "idle"
  BY <1>2 DEF Fits
<1>3. CASE pc[j] # "idle"
  <2> DEFINE w == job[j]
  <2>1. /\ OnlyRow(w, "pending") => OnlyRow(w, "pending")'
        /\ Unpaid(w) => Unpaid(w)'
        /\ Unheard(w) => Unheard(w)'
    BY <1>3 DEF LeftAlone, OnlyRow, Unpaid, Unheard
  <2> QED
    BY <1>1, <1>3, <2>1 DEF Fits, LeftAlone
<1> QED
  BY <1>2, <1>3

\* A step of a request changes what its own withdrawal is about only, and no
\* other worker deals with that one.
LEMMA StatementsMove ==
    ASSUME IInv, SerialInv, NEW k \in Workers, pc[k] # "idle",
           \A j \in Workers \ {k} : pc'[j] = pc[j] /\ job'[j] = job[j] /\ ref'[j] = ref[j],
           pc'[k] = "idle" \/ job'[k] = job[k],
           \A v \in Withdrawals \ {job[k]} : LeftAlone(v, k),
           \A p \in Payouts : EventOf(p) => EventOf(p)',
           Fits(k)'
    PROVE  HandledAlone' /\ StatementsFit'
<1>1. HandledAlone'
  BY DEF SerialInv, HandledAlone
<1>2. ASSUME NEW j \in Workers, j # k
      PROVE  Fits(j)'
  <2>1. pc[j] # "idle" => job[j] \in Withdrawals \ {job[k]}
    BY <1>2 DEF SerialInv, HandledAlone, IInv, VariablesOK
  <2> QED
    BY <1>2, <2>1, FitsStays DEF SerialInv, StatementsFit
<1> QED
  BY <1>1, <1>2 DEF StatementsFit

\* Where one withdrawal gets a status and the rows it calls for, the others
\* keep theirs.
LEMMA RowsMoveAlong ==
    ASSUME IInv, SerialInv, NEW w \in Withdrawals, NEW s, NEW to \in EntryStatus,
           status' = [status EXCEPT ![w] = s] \/ (UNCHANGED status /\ s = status[w]),
           RowMoves(w, to),
           s = "pending" => ~AutoApproved(w),
           \/ s \in {"pending", "approved"} /\ to = "pending"
           \/ s = "succeeded" /\ to = "posted"
           \/ s \in {"rejected", "failed"} /\ to = "failed"
    PROVE  RowsFit'
<1>1. /\ status'[w] = s
      /\ \A v \in Withdrawals : v # w => status'[v] = status[v]
  BY DEF IInv, VariablesOK
<1>2. \A v \in Withdrawals : v # w =>
         \A t \in EntryStatus : HasEntry(ledger', v, t) <=> HasEntry(ledger, v, t)
  BY DEF RowMoves
<1>3. \A t \in EntryStatus : HasEntry(ledger', w, t) <=> t = to
  BY DEF RowMoves
<1>4. SUFFICES ASSUME NEW v \in Withdrawals
               PROVE  /\ status'[v] = "pending" => ~AutoApproved(v)
                      /\ status'[v] = "none" => \A t \in EntryStatus : ~HasEntry(ledger', v, t)
                      /\ status'[v] \in {"pending", "approved", "processing"} => OnlyRow(v, "pending")'
                      /\ status'[v] = "succeeded" => OnlyRow(v, "posted")'
                      /\ status'[v] = "rejected" => OnlyRow(v, "failed")'
                      /\ status'[v] = "failed" => OnlyRow(v, "failed")' \/ OnlyRow(v, "pending")'
  BY DEF RowsFit, AutoApproved
<1>5. CASE v = w
  BY <1>1, <1>3, <1>5 DEF OnlyRow
<1>6. CASE v # w
  <2>1. \A t \in EntryStatus : HasEntry(ledger', v, t) <=> HasEntry(ledger, v, t)
    BY <1>2, <1>6
  <2>2. \A s2 : OnlyRow(v, s2)' <=> OnlyRow(v, s2)
    BY <2>1 DEF OnlyRow
  <2> QED
    BY <1>1, <1>6, <2>1, <2>2 DEF SerialInv, RowsFit
<1> QED
  BY <1>5, <1>6

-----------------------------------------------------------------------------
(* The initial states                                                      *)

LEMMA SerialInit == Init => SerialInv
<1> SUFFICES ASSUME Init PROVE SerialInv
  OBVIOUS
<1>1. \A w \in Withdrawals, t \in EntryStatus : ~HasEntry(ledger, w, t)
  BY OpeningFacts DEF Init, AccountInit
<1>2. HandledAlone /\ StatementsFit
  BY DEF HandledAlone, StatementsFit, Fits, Init
<1>3. RowsFit
  BY <1>1 DEF RowsFit, Init
<1>4. PayoutsFit
  BY RequestAssumption DEF PayoutsFit, OnePayoutPerWithdrawal, Init
<1> QED
  BY <1>2, <1>3, <1>4 DEF SerialInv

-----------------------------------------------------------------------------
(* The steps that change no data                                           *)

\* A worker takes a request or an event about w, and no other deals with w.
LEMMA StatementsBegin ==
    ASSUME IInv, SerialInv, NEW k \in Workers, pc[k] = "idle", NEW w \in Withdrawals,
           UNCHANGED <<ledger, status, payoutId, payoutState, payoutFor>>,
           \A v \in Withdrawals \ {w} : rowLock'[v] = rowLock[v],
           job' = [job EXCEPT ![k] = w],
           \A j \in Workers \ {k} : pc'[j] = pc[j] /\ ref'[j] = ref[j],
           \A j \in Workers \ {k} : pc[j] # "idle" => job[j] # w,
           Fits(k)'
    PROVE  HandledAlone' /\ StatementsFit'
<1>1. /\ job'[k] = w
      /\ \A j \in Workers \ {k} : job'[j] = job[j]
  BY DEF IInv, VariablesOK
<1>2. HandledAlone'
  BY <1>1 DEF SerialInv, HandledAlone
<1>3. ASSUME NEW j \in Workers, j # k
      PROVE  Fits(j)'
  <2>1. pc[j] # "idle" => job[j] \in Withdrawals /\ LeftAlone(job[j], k)
    BY <1>3 DEF LeftAlone, HasEntry, IInv, VariablesOK
  <2>2. \A p \in Payouts : EventOf(p) => EventOf(p)'
    BY DEF EventOf
  <2> QED
    BY <1>1, <1>3, <2>1, <2>2, FitsStays DEF SerialInv, StatementsFit
<1> QED
  BY <1>2, <1>3 DEF StatementsFit

LEMMA CreateBeginSerial ==
    ASSUME IInv, SerialInv, NEW k \in Workers, NEW w \in Withdrawals, CreateBegin(k, w)
    PROVE  SerialInv'
<1> USE DEF CreateBegin, accountVars, requestVars, stripeVars, Goto
<1>1. \A j \in Workers \ {k} : pc[j] # "idle" => job[j] # w
  BY DEF SerialInv, StatementsFit, Fits, IInv, VariablesOK, Labels
<1>2. pc'[k] = "lock" /\ \A j \in Workers \ {k} : pc'[j] = pc[j] /\ ref'[j] = ref[j]
  BY DEF IInv, VariablesOK
<1>3. Fits(k)'
  BY <1>2 DEF Fits
<1>4. HandledAlone' /\ StatementsFit'
  BY <1>1, <1>2, <1>3, StatementsBegin
<1> QED
  BY <1>4, DataStays DEF SerialInv

\* Where a request waits for its review there is but one worker.
LEMMA ReviewBeginSerial ==
    ASSUME Serial, IInv, SerialInv, NEW k \in Workers, NEW w \in Withdrawals,
           ApproveBegin(k, w) \/ RejectBegin(k, w)
    PROVE  SerialInv'
<1> USE DEF accountVars, requestVars, stripeVars, Goto
<1>1. PICK label \in {"save", "reject"} : ReviewBegin(k, w, label)
  BY DEF ApproveBegin, RejectBegin
<1> USE DEF ReviewBegin, Reviewable
<1>2. \A j \in Workers : j = k
  BY <1>1 DEF Serial, OneWorker, NoReviews, SerialInv, RowsFit
<1>3. pc'[k] = label /\ job'[k] = w
  BY <1>1 DEF IInv, VariablesOK
<1>4. Fits(k)'
  BY <1>1, <1>3 DEF Fits
<1>5. HandledAlone' /\ StatementsFit'
  BY <1>2, <1>4 DEF HandledAlone, StatementsFit
<1> QED
  BY <1>1, <1>5, DataStays DEF SerialInv

\* The event is about a request that is processing.  Who deals with it already
\* is another delivery of the event, and holds the row.
LEMMA WebhookSerial ==
    ASSUME IInv, SerialInv, NEW k \in Workers, NEW p \in Payouts, Webhook(k, p)
    PROVE  SerialInv'
<1> USE DEF accountVars, requestVars, stripeVars, workerVars, Goto
<1>1. UNCHANGED <<ledger, status, payoutId, payoutState, payoutFor>>
  BY DEF Webhook, WebhookFinds, WebhookFindsNothing
<1>2. CASE WebhookFinds(k, p)
  <2>1. PICK w \in Unsettled(p) :
           /\ pc[k] = "idle" /\ EventOf(p)
           /\ rowLock[w] = NoOne
           /\ rowLock' = [rowLock EXCEPT ![w] = k]
           /\ job' = [job EXCEPT ![k] = w]
           /\ pc' = [pc EXCEPT ![k] = IF HasEntry(ledger, w, "pending")
                                      THEN "settle" ELSE "settle_bare"]
           /\ ref' = [ref EXCEPT ![k] = p]
    BY <1>2 DEF WebhookFinds, Remember
  <2>2. w \in Withdrawals /\ payoutId[w] = p /\ status[w] = "processing"
    BY <2>1, RequestAssumption DEF Unsettled, Settled, SerialInv, PayoutsFit
  <2>3. HasEntry(ledger, w, "pending")
    BY <2>2 DEF SerialInv, RowsFit, OnlyRow, EntryStatus
  <2>4. pc'[k] = "settle" /\ job'[k] = w /\ ref'[k] = p /\ rowLock'[w] = k
    BY <2>1, <2>2, <2>3 DEF IInv, VariablesOK
  <2>5. Fits(k)'
    BY <1>1, <2>1, <2>2, <2>4 DEF Fits, EventOf
  <2>6. \A j \in Workers \ {k} : pc[j] # "idle" => job[j] # w
    <3> SUFFICES ASSUME NEW j \in Workers, pc[j] # "idle", job[j] = w
                 PROVE  FALSE
      OBVIOUS
    <3>1. pc[j] \notin {"lock", "check"} /\ pc[j] \in Labels
      BY <2>2 DEF IInv, CreatorsAreAlone, VariablesOK
    <3>2. pc[j] = "settle"
      BY <2>2, <3>1 DEF SerialInv, StatementsFit, Fits, Labels
    <3> QED
      BY <2>1, <3>2, NoOneAssumption DEF SerialInv, StatementsFit, Fits
  <2>7. /\ \A v \in Withdrawals \ {w} : rowLock'[v] = rowLock[v]
        /\ \A j \in Workers \ {k} : pc'[j] = pc[j] /\ ref'[j] = ref[j]
    BY <2>1 DEF IInv, VariablesOK
  <2>8. HandledAlone' /\ StatementsFit'
    BY <1>1, <2>1, <2>2, <2>5, <2>6, <2>7, StatementsBegin
  <2> QED
    BY <1>1, <2>8, DataStays DEF SerialInv
<1>3. CASE WebhookFindsNothing(k, p)
  <2>1. HandledAlone' /\ StatementsFit'
    BY <1>3 DEF WebhookFindsNothing, SerialInv, HandledAlone, StatementsFit, Fits, OnlyRow,
       HasEntry, Unpaid, Unheard, EventOf
  <2> QED
    BY <1>1, <2>1, DataStays DEF SerialInv
<1> QED
  BY <1>2, <1>3 DEF Webhook

\* A request ends without a write of its own, or goes on in its creation.
LEMMA QuietStepsSerial ==
    ASSUME IInv, SerialInv, NEW k \in Workers,
           \/ CreateLocksAccount(k) \/ CreateFindsInactive(k) \/ CreateFindsTooLittle(k)
           \/ RejectRollsBack(k) \/ Crash(k)
    PROVE  SerialInv'
<1> USE DEF accountVars, requestVars, stripeVars
<1>1. UNCHANGED <<ledger, status, payoutId, payoutState, payoutFor>>
  BY DEF CreateLocksAccount, CreateFindsInactive, CreateFindsTooLittle, RejectRollsBack, Crash
<1>2. /\ pc[k] # "idle"
      /\ pc'[k] = "idle" \/ (pc'[k] = "check" /\ job'[k] = job[k])
      /\ \A j \in Workers \ {k} : pc'[j] = pc[j] /\ job'[j] = job[j] /\ ref'[j] = ref[j]
  BY DEF CreateLocksAccount, CreateFindsInactive, CreateFindsTooLittle, RejectRollsBack, Crash,
         Goto, Respond, IInv, VariablesOK
<1>3. \A v \in Withdrawals : rowLock[v] # k => rowLock'[v] = rowLock[v]
  BY DEF CreateLocksAccount, CreateFindsInactive, CreateFindsTooLittle, RejectRollsBack, Crash
<1>4. \A v \in Withdrawals : LeftAlone(v, k)
  BY <1>1, <1>3 DEF LeftAlone, HasEntry
<1>5. Fits(k)' /\ \A p \in Payouts : EventOf(p) => EventOf(p)'
  BY <1>1, <1>2 DEF Fits, EventOf
<1>6. HandledAlone' /\ StatementsFit'
  BY <1>2, <1>4, <1>5, StatementsMove
<1> QED
  BY <1>1, <1>6, DataStays DEF SerialInv

\* Stripe has created no payout.
LEMMA PayoutRefusedSerial ==
    ASSUME IInv, SerialInv, NEW k \in Workers, PayoutRefused(k)
    PROVE  SerialInv'
<1> USE DEF accountVars, requestVars, stripeVars, PayoutRefused, Goto
<1>1. /\ pc[k] = "call"
      /\ UNCHANGED <<ledger, status, payoutId, payoutState, payoutFor, rowLock, job, ref>>
  OBVIOUS
<1>2. pc'[k] = "fail" /\ \A j \in Workers \ {k} : pc'[j] = pc[j]
  BY DEF IInv, VariablesOK
<1>3. Fits(k)'
  BY <1>1, <1>2 DEF SerialInv, StatementsFit, Fits, Unpaid
<1>4. /\ \A v \in Withdrawals : LeftAlone(v, k)
      /\ \A p \in Payouts : EventOf(p) => EventOf(p)'
  BY <1>1 DEF LeftAlone, HasEntry, EventOf
<1>5. HandledAlone' /\ StatementsFit'
  BY <1>1, <1>2, <1>3, <1>4, StatementsMove
<1> QED
  BY <1>1, <1>5, DataStays DEF SerialInv

LEMMA OtherRequestSerial ==
    ASSUME SerialInv, NEW a \in Accounts, OtherRequest(a)
    PROVE  SerialInv'
<1>1. UNCHANGED <<ledger, requestVars, stripeVars, workerVars>>
  BY DEF OtherRequest, AccountRequest, FreezeAccount, UnfreezeAccount, GateChanges
<1>2. HandledAlone' /\ StatementsFit'
  BY <1>1 DEF requestVars, stripeVars, workerVars, SerialInv, HandledAlone, StatementsFit,
     Fits, OnlyRow, HasEntry, Unpaid, Unheard, EventOf
<1> QED
  BY <1>1, <1>2, DataStays DEF requestVars, stripeVars, SerialInv

LEMMA StutterSerial ==
    ASSUME SerialInv, UNCHANGED vars
    PROVE  SerialInv'
<1> USE DEF vars, accountVars, requestVars, stripeVars, workerVars
<1>1. HandledAlone' /\ StatementsFit'
  BY DEF SerialInv, HandledAlone, StatementsFit, Fits, OnlyRow, HasEntry, Unpaid, Unheard,
     EventOf
<1> QED
  BY <1>1, DataStays DEF SerialInv

-----------------------------------------------------------------------------
(* The steps that change data                                              *)

LEMMA CreateHoldsSerial ==
    ASSUME IInv, SerialInv, NEW k \in Workers, CreateHolds(k)
    PROVE  SerialInv'
<1>1. PICK w \in Withdrawals :
         w = job[k] /\ status[w] = "none" /\ RowMoves(w, "pending")
  BY CreateHoldsMoves
<1>2. PICK s \in {"pending", "approved"} : status' = [status EXCEPT ![w] = s]
                                         /\ (s = "approved" <=> AutoApproved(w))
  BY <1>1 DEF CreateHolds, SetRequestStatus
<1>3. /\ pc[k] = "check"
      /\ UNCHANGED <<payoutId, payoutState, payoutFor, rowLock>>
  BY DEF CreateHolds, stripeVars
<1>4. /\ status'[w] = s
      /\ \A v \in Withdrawals : v # w => status'[v] = status[v]
  BY <1>2 DEF IInv, VariablesOK
<1>5. Unpaid(w)
  BY <1>1, RequestAssumption DEF Unpaid, IInv, VariablesOK, PayoutsAreOfDecided, Decided
<1>6. /\ pc'[k] = "idle" \/ (pc'[k] = "call" /\ job'[k] = w /\ s = "approved")
      /\ \A j \in Workers \ {k} : pc'[j] = pc[j] /\ job'[j] = job[j] /\ ref'[j] = ref[j]
  BY <1>1, <1>2 DEF CreateHolds, Goto, Respond, IInv, VariablesOK
<1>7. Fits(k)'
  BY <1>3, <1>4, <1>5, <1>6 DEF Fits, Unpaid
<1>8. HandledAlone' /\ StatementsFit'
  <2>1. /\ \A v \in Withdrawals \ {w} : LeftAlone(v, k)
        /\ \A p \in Payouts : EventOf(p) => EventOf(p)'
    BY <1>1, <1>3, <1>4 DEF LeftAlone, RowMoves, EventOf
  <2> QED
    BY <1>1, <1>3, <1>6, <1>7, <2>1, StatementsMove
<1>9. RowsFit'
  BY <1>1, <1>2, RowsMoveAlong DEF EntryStatus
<1>10. PayoutsFit'
  BY <1>1, <1>3, <1>4, <1>5
     DEF SerialInv, PayoutsFit, OnePayoutPerWithdrawal, Unpaid, Unheard
<1> QED
  BY <1>8, <1>9, <1>10 DEF SerialInv

\* The payout is the request's first and only one, also if nobody is told.
LEMMA PayoutStartsSerial ==
    ASSUME IInv, SerialInv, NEW k \in Workers, PayoutStarts(k) \/ PayoutReplyLost(k)
    PROVE  SerialInv'
<1>1. PICK w \in Withdrawals : w = job[k]
  BY DEF PayoutStarts, PayoutReplyLost, IInv, VariablesOK
<1>2. PICK p \in Payouts :
         /\ payoutState[p] = "unused"
         /\ payoutState' = [payoutState EXCEPT ![p] = "created"]
         /\ payoutFor' = [payoutFor EXCEPT ![p] = w]
  BY <1>1 DEF PayoutStarts, PayoutReplyLost
<1>3. /\ pc[k] = "call" /\ status[w] = "approved" /\ Unpaid(w)
      /\ payoutId[w] = NoOne
      /\ UNCHANGED <<ledger, status, payoutId, rowLock, job>>
  BY <1>1 DEF PayoutStarts, PayoutReplyLost, SerialInv, StatementsFit, Fits, PayoutsFit,
     accountVars, requestVars
<1>4. /\ pc'[k] = "keep" \/ (pc'[k] = "fail" /\ LostReplies)
      /\ \A j \in Workers \ {k} : pc'[j] = pc[j] /\ ref'[j] = ref[j]
  BY DEF PayoutStarts, PayoutReplyLost, Goto, Remember, IInv, VariablesOK
<1>5. /\ payoutFor'[p] = w
      /\ \A q \in Payouts : q # p => payoutFor'[q] = payoutFor[q] /\ payoutState'[q] = payoutState[q]
  BY <1>2 DEF IInv, VariablesOK
<1>6. Fits(k)'
  BY <1>1, <1>3, <1>4 DEF Fits, Unheard
<1>7. HandledAlone' /\ StatementsFit'
  <2>1. \A v \in Withdrawals \ {w} : LeftAlone(v, k)
    BY <1>3, <1>5 DEF LeftAlone, HasEntry
  <2>2. \A q \in Payouts : EventOf(q) => EventOf(q)'
    BY <1>2, <1>5 DEF EventOf
  <2> QED
    BY <1>1, <1>3, <1>4, <1>6, <2>1, <2>2, StatementsMove
<1>8. RowsFit'
  BY <1>3 DEF SerialInv, RowsFit, OnlyRow, HasEntry, AutoApproved
<1>9. PayoutsFit'
  <2>1. OnePayoutPerWithdrawal'
    BY <1>3, <1>5 DEF SerialInv, PayoutsFit, OnePayoutPerWithdrawal, Unpaid
  <2>2. \A q \in Payouts, v \in Withdrawals : payoutFor'[q] = v =>
           /\ status'[v] # "rejected"
           /\ status'[v] = "failed" => payoutState'[q] = "failed" \/ Unheard(v)
    BY <1>3, <1>5 DEF SerialInv, PayoutsFit
  <2> QED
    BY <1>3, <2>1, <2>2 DEF SerialInv, PayoutsFit, Unheard
<1> QED
  BY <1>7, <1>8, <1>9 DEF SerialInv

\* The status changes, nothing else does, and the worker goes on or is done.
LEMMA KeepPayoutSerial ==
    ASSUME IInv, SerialInv, NEW k \in Workers, KeepPayout(k)
    PROVE  SerialInv'
<1>1. PICK w \in Withdrawals : w = job[k] /\ status[w] = "approved"
  BY DEF KeepPayout, IInv, VariablesOK, SerialInv, StatementsFit, Fits
<1>2. /\ payoutId' = [payoutId EXCEPT ![w] = ref[k]]
      /\ status' = [status EXCEPT ![w] = "processing"]
      /\ UNCHANGED <<ledger, payoutState, payoutFor, rowLock>>
  BY <1>1 DEF KeepPayout, SetRequestStatus, accountVars, stripeVars
<1>3. /\ pc[k] = "keep" /\ pc'[k] = "idle"
      /\ \A j \in Workers \ {k} : pc'[j] = pc[j] /\ job'[j] = job[j] /\ ref'[j] = ref[j]
  BY DEF KeepPayout, Respond, IInv, VariablesOK
<1>4. /\ status'[w] = "processing"
      /\ \A v \in Withdrawals : v # w => status'[v] = status[v] /\ payoutId'[v] = payoutId[v]
  BY <1>2 DEF IInv, VariablesOK
<1>5. HandledAlone' /\ StatementsFit'
  <2>1. /\ \A v \in Withdrawals \ {w} : LeftAlone(v, k)
        /\ \A p \in Payouts : EventOf(p) => EventOf(p)'
        /\ Fits(k)'
    BY <1>2, <1>3, <1>4 DEF LeftAlone, HasEntry, EventOf, Fits
  <2> QED
    BY <1>1, <1>3, <2>1, StatementsMove
<1>6. RowsFit'
  BY <1>1, <1>2, <1>4 DEF SerialInv, RowsFit, OnlyRow, HasEntry, AutoApproved
<1>7. PayoutsFit'
  BY <1>1, <1>2, <1>4 DEF SerialInv, PayoutsFit, OnePayoutPerWithdrawal, Unheard
<1> QED
  BY <1>5, <1>6, <1>7 DEF SerialInv

LEMMA MarkFailedSerial ==
    ASSUME IInv, SerialInv, NEW k \in Workers, MarkFailed(k)
    PROVE  SerialInv'
<1>1. PICK w \in Withdrawals :
         w = job[k] /\ status[w] = "approved" /\ (Unpaid(w) \/ Unheard(w))
  BY DEF MarkFailed, IInv, VariablesOK, SerialInv, StatementsFit, Fits
<1>2. /\ status' = [status EXCEPT ![w] = "failed"]
      /\ UNCHANGED <<ledger, payoutId, payoutState, payoutFor, rowLock, job, ref>>
  BY <1>1 DEF MarkFailed, SetRequestStatus, accountVars, stripeVars
<1>3. /\ pc[k] = "fail" /\ pc'[k] = "release"
      /\ \A j \in Workers \ {k} : pc'[j] = pc[j]
  BY DEF MarkFailed, Goto, IInv, VariablesOK
<1>4. /\ status'[w] = "failed"
      /\ \A v \in Withdrawals : v # w => status'[v] = status[v]
  BY <1>2 DEF IInv, VariablesOK
<1>5. OnlyRow(w, "pending")
  BY <1>1 DEF SerialInv, RowsFit
<1>6. HandledAlone' /\ StatementsFit'
  <2>1. Fits(k)'
    BY <1>1, <1>2, <1>3, <1>4, <1>5 DEF Fits, Unpaid, Unheard, OnlyRow, HasEntry
  <2>2. /\ \A v \in Withdrawals \ {w} : LeftAlone(v, k)
        /\ \A p \in Payouts : EventOf(p) => EventOf(p)'
    BY <1>2, <1>4 DEF LeftAlone, HasEntry, EventOf
  <2> QED
    BY <1>1, <1>2, <1>3, <2>1, <2>2, StatementsMove
<1>7. RowsFit'
  BY <1>2, <1>4, <1>5 DEF SerialInv, RowsFit, OnlyRow, HasEntry, AutoApproved
<1>8. PayoutsFit'
  BY <1>1, <1>2, <1>4 DEF SerialInv, PayoutsFit, OnePayoutPerWithdrawal, Unpaid, Unheard
<1> QED
  BY <1>6, <1>7, <1>8 DEF SerialInv

LEMMA ReleaseHoldSerial ==
    ASSUME IInv, SerialInv, NEW k \in Workers, ReleaseHold(k)
    PROVE  SerialInv'
<1>1. PICK w \in Withdrawals : w = job[k] /\ status[w] = "failed" /\ RowMoves(w, "failed")
  BY ReleaseHoldMoves
<1>2. UNCHANGED <<status, payoutId, payoutState, payoutFor, rowLock>>
  BY DEF ReleaseHold, requestVars, stripeVars
<1>3. /\ pc[k] = "release" /\ pc'[k] = "idle"
      /\ \A j \in Workers \ {k} : pc'[j] = pc[j] /\ job'[j] = job[j] /\ ref'[j] = ref[j]
  BY DEF ReleaseHold, Respond, IInv, VariablesOK
<1>4. HandledAlone' /\ StatementsFit'
  <2>1. /\ \A v \in Withdrawals \ {w} : LeftAlone(v, k)
        /\ \A p \in Payouts : EventOf(p) => EventOf(p)'
        /\ Fits(k)'
    BY <1>1, <1>2, <1>3 DEF LeftAlone, RowMoves, EventOf, Fits
  <2> QED
    BY <1>1, <1>3, <2>1, StatementsMove
<1>5. RowsFit'
  BY <1>1, <1>2, RowsMoveAlong DEF EntryStatus
<1>6. PayoutsFit'
  BY <1>2 DEF SerialInv, PayoutsFit, OnePayoutPerWithdrawal, Unheard
<1> QED
  BY <1>4, <1>5, <1>6 DEF SerialInv

LEMMA ApproveSavesSerial ==
    ASSUME IInv, SerialInv, NEW k \in Workers, ApproveSaves(k)
    PROVE  SerialInv'
<1>1. PICK w \in Withdrawals : w = job[k] /\ status[w] = "pending"
  BY DEF ApproveSaves, IInv, VariablesOK, SerialInv, StatementsFit, Fits
<1>2. /\ status' = [status EXCEPT ![w] = "approved"]
      /\ UNCHANGED <<ledger, payoutId, payoutState, payoutFor, rowLock, job, ref>>
  BY <1>1 DEF ApproveSaves, SetRequestStatus, accountVars, stripeVars
<1>3. /\ pc[k] = "save" /\ pc'[k] = "call"
      /\ \A j \in Workers \ {k} : pc'[j] = pc[j]
  BY DEF ApproveSaves, Goto, IInv, VariablesOK
<1>4. /\ status'[w] = "approved"
      /\ \A v \in Withdrawals : v # w => status'[v] = status[v]
  BY <1>2 DEF IInv, VariablesOK
<1>5. Unpaid(w)
  BY <1>1, RequestAssumption DEF Unpaid, IInv, VariablesOK, PayoutsAreOfDecided, Decided
<1>6. HandledAlone' /\ StatementsFit'
  <2>1. Fits(k)'
    BY <1>1, <1>2, <1>3, <1>4, <1>5 DEF Fits, Unpaid
  <2>2. /\ \A v \in Withdrawals \ {w} : LeftAlone(v, k)
        /\ \A p \in Payouts : EventOf(p) => EventOf(p)'
    BY <1>2, <1>4 DEF LeftAlone, HasEntry, EventOf
  <2> QED
    BY <1>1, <1>2, <1>3, <2>1, <2>2, StatementsMove
<1>7. RowsFit'
  BY <1>1, <1>2, <1>4 DEF SerialInv, RowsFit, OnlyRow, HasEntry, AutoApproved
<1>8. PayoutsFit'
  BY <1>1, <1>2, <1>4, <1>5
     DEF SerialInv, PayoutsFit, OnePayoutPerWithdrawal, Unpaid, Unheard
<1> QED
  BY <1>6, <1>7, <1>8 DEF SerialInv

LEMMA RejectCommitsSerial ==
    ASSUME IInv, SerialInv, NEW k \in Workers, RejectCommits(k)
    PROVE  SerialInv'
<1>1. PICK w \in Withdrawals : w = job[k] /\ status[w] = "pending" /\ RowMoves(w, "failed")
  BY RejectCommitsMoves
<1>2. /\ status' = [status EXCEPT ![w] = "rejected"]
      /\ UNCHANGED <<payoutId, payoutState, payoutFor, rowLock>>
  BY <1>1 DEF RejectCommits, SetRequestStatus, stripeVars
<1>3. /\ pc[k] = "reject" /\ pc'[k] = "idle"
      /\ \A j \in Workers \ {k} : pc'[j] = pc[j] /\ job'[j] = job[j] /\ ref'[j] = ref[j]
  BY DEF RejectCommits, Respond, IInv, VariablesOK
<1>4. /\ status'[w] = "rejected"
      /\ \A v \in Withdrawals : v # w => status'[v] = status[v]
  BY <1>2 DEF IInv, VariablesOK
<1>5. HandledAlone' /\ StatementsFit'
  <2>1. /\ \A v \in Withdrawals \ {w} : LeftAlone(v, k)
        /\ \A p \in Payouts : EventOf(p) => EventOf(p)'
        /\ Fits(k)'
    BY <1>1, <1>2, <1>3, <1>4 DEF LeftAlone, RowMoves, EventOf, Fits
  <2> QED
    BY <1>1, <1>3, <2>1, StatementsMove
<1>6. RowsFit'
  <2>1. PICK s \in {"rejected"} : status' = [status EXCEPT ![w] = s]
    BY <1>2
  <2> QED
    BY <1>1, <2>1, RowsMoveAlong DEF EntryStatus
<1>7. Unpaid(w) /\ payoutId[w] = NoOne
  BY <1>1, RequestAssumption
     DEF Unpaid, IInv, VariablesOK, PayoutsAreOfDecided, Decided, SerialInv, PayoutsFit
<1>8. PayoutsFit'
  BY <1>1, <1>2, <1>4, <1>7
     DEF SerialInv, PayoutsFit, OnePayoutPerWithdrawal, Unpaid, Unheard
<1> QED
  BY <1>5, <1>6, <1>8 DEF SerialInv

LEMMA WebhookSettlesSerial ==
    ASSUME IInv, SerialInv, NEW k \in Workers, WebhookSettles(k)
    PROVE  SerialInv'
<1>1. PICK w \in Withdrawals :
         /\ w = job[k] /\ status[w] = "processing"
         /\ ref[k] \in Payouts /\ payoutFor[ref[k]] = w
         /\ \/ /\ payoutState[ref[k]] = "paid"
               /\ status' = [status EXCEPT ![w] = "succeeded"]
               /\ RowMoves(w, "posted")
            \/ /\ payoutState[ref[k]] = "failed"
               /\ status' = [status EXCEPT ![w] = "failed"]
               /\ RowMoves(w, "failed")
  BY WebhookSettlesMoves
<1>2. /\ UNCHANGED <<payoutId, payoutState, payoutFor>>
      /\ \A v \in Withdrawals : v # w => rowLock'[v] = rowLock[v]
  BY <1>1 DEF WebhookSettles, IInv, VariablesOK
<1>3. /\ pc[k] # "idle" /\ pc'[k] = "idle"
      /\ \A j \in Workers \ {k} : pc'[j] = pc[j] /\ job'[j] = job[j] /\ ref'[j] = ref[j]
  BY DEF WebhookSettles, Respond, IInv, VariablesOK
<1>4. \A v \in Withdrawals : v # w => status'[v] = status[v]
  BY <1>1 DEF IInv, VariablesOK
<1>5. HandledAlone' /\ StatementsFit'
  <2>1. \A v \in Withdrawals \ {w}, t \in EntryStatus :
           HasEntry(ledger', v, t) <=> HasEntry(ledger, v, t)
    BY <1>1 DEF RowMoves
  <2>2. /\ \A v \in Withdrawals \ {w} : LeftAlone(v, k)
        /\ \A p \in Payouts : EventOf(p) => EventOf(p)'
        /\ Fits(k)'
    BY <1>2, <1>3, <1>4, <2>1 DEF LeftAlone, EventOf, Fits
  <2> QED
    BY <1>1, <1>3, <2>2, StatementsMove
<1>6. RowsFit'
  BY <1>1, RowsMoveAlong DEF EntryStatus
<1>7. \A p \in Payouts : payoutFor[p] = w => p = ref[k]
  BY <1>1, RequestAssumption DEF SerialInv, PayoutsFit, OnePayoutPerWithdrawal
<1>8. PayoutsFit'
  BY <1>1, <1>2, <1>7
     DEF SerialInv, PayoutsFit, OnePayoutPerWithdrawal, Unheard, IInv, VariablesOK
<1> QED
  BY <1>5, <1>6, <1>8 DEF SerialInv

\* Stripe settles a payout that was not settled before.
LEMMA PayoutSettlesSerial ==
    ASSUME SerialInv, IInv, NEW p \in Payouts, PayoutSettles(p)
    PROVE  SerialInv'
<1>1. PICK outcome \in {"paid", "failed"} : payoutState' = [payoutState EXCEPT ![p] = outcome]
  BY DEF PayoutSettles
<1>2. /\ payoutState[p] = "created"
      /\ UNCHANGED <<accountVars, requestVars, payoutFor, workerVars>>
  BY DEF PayoutSettles
<1>3. \A q \in Payouts : payoutState[q] \in {"paid", "failed"} => payoutState'[q] = payoutState[q]
  BY <1>1, <1>2 DEF IInv, VariablesOK
<1>4. HandledAlone' /\ StatementsFit'
  <2>1. \A k \in Workers : pc[k] = "settle" => ref[k] \in Payouts
    BY DEF IInv, VariablesOK
  <2> QED
    BY <1>2, <1>3, <2>1 DEF SerialInv, HandledAlone, StatementsFit, Fits, OnlyRow, HasEntry,
       Unpaid, Unheard, EventOf, accountVars, requestVars, workerVars
<1>5. RowsFit'
  BY <1>2 DEF SerialInv, RowsFit, OnlyRow, HasEntry, AutoApproved, accountVars, requestVars
<1>6. PayoutsFit'
  BY <1>2, <1>3 DEF SerialInv, PayoutsFit, OnePayoutPerWithdrawal, Unheard, requestVars
<1> QED
  BY <1>4, <1>5, <1>6 DEF SerialInv

LEMMA SerialNext == Serial /\ IInv /\ SerialInv /\ [Next]_vars => SerialInv'
<1> SUFFICES ASSUME Serial, IInv, SerialInv, [Next]_vars PROVE SerialInv'
  OBVIOUS
<1>1. CASE \E k \in Workers : WorkerStep(k) \/ Crash(k)
  BY <1>1, QuietStepsSerial, PayoutRefusedSerial, CreateHoldsSerial, PayoutStartsSerial,
     KeepPayoutSerial, MarkFailedSerial, ReleaseHoldSerial, ApproveSavesSerial,
     RejectCommitsSerial, WebhookSettlesSerial DEF WorkerStep
<1>2. CASE \E k \in Workers, w \in Withdrawals :
              CreateBegin(k, w) \/ ApproveBegin(k, w) \/ RejectBegin(k, w)
  BY <1>2, CreateBeginSerial, ReviewBeginSerial
<1>3. CASE \E k \in Workers, p \in Payouts : Webhook(k, p)
  BY <1>3, WebhookSerial
<1>4. CASE \E p \in Payouts : PayoutSettles(p)
  BY <1>4, PayoutSettlesSerial
<1>5. CASE \E a \in Accounts : OtherRequest(a)
  BY <1>5, OtherRequestSerial
<1>6. CASE UNCHANGED vars
  BY <1>6, StutterSerial
<1> QED
  BY <1>1, <1>2, <1>3, <1>4, <1>5, <1>6 DEF Next

-----------------------------------------------------------------------------
(* Theorems, for one worker, or where nothing needs a review               *)

\* A step leaves the ledger alone, holds the funds of a withdrawal that has no
\* row, or turns a hold into a debit or a released hold.
LEMMA LedgerSteps ==
    ASSUME IInv, SerialInv, [Next]_vars
    PROVE  \/ UNCHANGED ledger
           \/ \E w \in Withdrawals :
                 \/ /\ \A t \in EntryStatus : ~HasEntry(ledger, w, t)
                    /\ RowMoves(w, "pending")
                 \/ /\ OnlyRow(w, "pending")
                    /\ RowMoves(w, "posted") \/ RowMoves(w, "failed")
<1>1. ASSUME NEW k \in Workers, CreateHolds(k)
      PROVE  \E w \in Withdrawals : /\ \A t \in EntryStatus : ~HasEntry(ledger, w, t)
                                    /\ RowMoves(w, "pending")
  BY <1>1, CreateHoldsMoves
<1>2. ASSUME NEW k \in Workers, ReleaseHold(k) \/ RejectCommits(k) \/ WebhookSettles(k)
      PROVE  \E w \in Withdrawals : /\ OnlyRow(w, "pending")
                                    /\ RowMoves(w, "posted") \/ RowMoves(w, "failed")
  BY <1>2, ReleaseHoldMoves, RejectCommitsMoves, WebhookSettlesMoves
<1> QED
  BY <1>1, <1>2, FourWrite

\* Where no two requests are about one withdrawal what a handler read is still
\* so when it writes, and rows, payouts and statuses fit: in every reachable
\* state, crashes and lost replies included.
THEOREM SerialInductive ==
    ASSUME Serial
    PROVE  Spec => []SerialInv
<1>1. Init => SerialInv
  BY SerialInit
<1>2. IInv /\ SerialInv /\ [Next]_vars => SerialInv'
  BY SerialNext
<1> QED
  BY <1>1, <1>2, Inductive, PTL DEF Spec

\* Status and ledger row of a withdrawal tell the same story.
THEOREM StatusFitsLedger ==
    ASSUME Serial
    PROVE  Spec => []BooksAgree
<1>1. IInv /\ SerialInv => BooksAgree
  BY DEF IInv, VariablesOK, Statuses, SerialInv, RowsFit, BooksAgree, OnlyRow, EntryStatus
<1> QED
  BY <1>1, SerialInductive, Inductive, PTL

\* Stripe is asked at most once per withdrawal.
THEOREM PaidOutOnce ==
    ASSUME Serial
    PROVE  Spec => []OnePayoutPerWithdrawal
<1>1. SerialInv => OnePayoutPerWithdrawal
  BY DEF SerialInv, PayoutsFit
<1> QED
  BY <1>1, SerialInductive, PTL

\* Funds are given back only where no payout was or can still be paid; a request
\* whose payout Stripe made and did not tell of is the one exception.
THEOREM ReleasedFundsAreUnpaid ==
    ASSUME Serial
    PROVE  Spec => []ReleasedMeansUnpaid
<1>1. SerialInv /\ BooksAgree => ReleasedMeansUnpaid
  BY DEF SerialInv, PayoutsFit, BooksAgree, ReleasedMeansUnpaid
<1> QED
  BY <1>1, SerialInductive, StatusFitsLedger, PTL

\* The ledger is append-only where money moved: no step removes, changes or
\* takes back a posted row.
THEOREM DebitsStay ==
    ASSUME Serial
    PROVE  Spec => PostedIsFinal
<1>1. IInv /\ SerialInv /\ [Next]_vars =>
         [\A e \in ledger : e.status = "posted" => e \in ledger']_vars
  BY LedgerSteps DEF RowMoves
<1> QED
  BY <1>1, SerialInductive, Inductive, PTL DEF Spec, PostedIsFinal

\* The row of a withdrawal tells what became of its funds.
LEMMA FundsFollowRows ==
    ASSUME NEW w \in Withdrawals
    PROVE  /\ (\A t \in EntryStatus : ~HasEntry(ledger, w, t)) => FundsOf(w) = "none"
           /\ OnlyRow(w, "pending") => FundsOf(w) = "held"
           /\ OnlyRow(w, "posted") => FundsOf(w) = "spent"
           /\ OnlyRow(w, "failed") => FundsOf(w) = "returned"
BY DEF FundsOf, OnlyRow, EntryStatus

\* The same after a step that moves the rows of w; the funds of the others
\* are left alone.
LEMMA FundsFollowMoves ==
    ASSUME NEW w \in Withdrawals, NEW to \in EntryStatus, RowMoves(w, to)
    PROVE  /\ to = "pending" => FundsOf(w)' = "held"
           /\ to = "posted" => FundsOf(w)' = "spent"
           /\ to = "failed" => FundsOf(w)' = "returned"
           /\ \A v \in Withdrawals \ {w} : FundsOf(v)' = FundsOf(v)
<1>1. \A t \in EntryStatus : HasEntry(ledger', w, t) <=> t = to
  BY DEF RowMoves
<1>2. \A v \in Withdrawals \ {w}, t \in EntryStatus :
         HasEntry(ledger', v, t) <=> HasEntry(ledger, v, t)
  BY DEF RowMoves
<1>3. \A v \in Withdrawals \ {w} : FundsOf(v)' = FundsOf(v)
  BY <1>2 DEF FundsOf, EntryStatus
<1>4. /\ to = "pending" => FundsOf(w)' = "held"
      /\ to = "posted" => FundsOf(w)' = "spent"
      /\ to = "failed" => FundsOf(w)' = "returned"
  BY <1>1 DEF FundsOf, EntryStatus
<1> QED
  BY <1>3, <1>4

-----------------------------------------------------------------------------
(* What the moves of a row do to the sums                                  *)

\* A hold lowers what is held on its account, and nothing else.
LEMMA HoldSums ==
    ASSUME NEW w \in Withdrawals, \A t \in EntryStatus : ~HasEntry(ledger, w, t),
           RowMoves(w, "pending"), NEW a \in Accounts, Countable(ledger, a)
    PROVE  /\ Countable(ledger', a)
           /\ BalanceCents(ledger', a) = BalanceCents(ledger, a)
           /\ HeldCents(ledger', a) = HeldCents(ledger, a)
                 - (IF AccountOf[w] = a THEN AmountOf[w] ELSE 0)
<1> DEFINE hold == HoldEntry(w)
<1>1. /\ hold.id = w /\ hold.status = "pending"
      /\ hold.account = AccountOf[w] /\ hold.amount = -AmountOf[w]
  BY DEF HoldEntry, Entry
<1>2. hold \notin ledger
  BY <1>1 DEF HasEntry, EntryStatus
<1>3. ledger' = ledger \cup {hold}
  BY <1>2 DEF RowMoves, HoldEntry
<1>4. AmountOf[w] \in Nat /\ hold.amount \in Int
  BY <1>1, RequestAssumption
<1>5. BalanceCents(ledger, a) \in Int /\ HeldCents(ledger, a) \in Int
  BY StatusSumFacts DEF BalanceCents, HeldCents
<1> HIDE DEF hold
<1>6. /\ Countable(ledger \cup {hold}, a)
      /\ \A s : SumOfStatus(ledger \cup {hold}, a, s) = SumOfStatus(ledger, a, s)
                   + (IF hold.account = a /\ hold.status = s THEN hold.amount ELSE 0)
  BY <1>2, <1>4, RowIsAdded
<1>7. BalanceCents(ledger \cup {hold}, a) = BalanceCents(ledger, a) + 0
  BY <1>1, <1>6 DEF BalanceCents
<1>8. HeldCents(ledger \cup {hold}, a) = HeldCents(ledger, a)
         + (IF hold.account = a THEN hold.amount ELSE 0)
  BY <1>1, <1>6 DEF HeldCents
<1> QED
  BY <1>1, <1>3, <1>4, <1>5, <1>6, <1>7, <1>8

\* Where a hold becomes a debit or is released, it is no longer held; a debit
\* lowers the balance.
LEMMA SettlementSums ==
    ASSUME RowsOK(ledger), NEW w \in Withdrawals, OnlyRow(w, "pending"),
           NEW to \in {"posted", "failed"}, RowMoves(w, to),
           NEW a \in Accounts, Countable(ledger, a)
    PROVE  /\ Countable(ledger', a)
           /\ BalanceCents(ledger', a) = BalanceCents(ledger, a)
                 - (IF AccountOf[w] = a /\ to = "posted" THEN AmountOf[w] ELSE 0)
           /\ HeldCents(ledger', a) = HeldCents(ledger, a)
                 + (IF AccountOf[w] = a THEN AmountOf[w] ELSE 0)
<1> DEFINE hold == HoldEntry(w)
           row  == Entry(w, AccountOf[w], -AmountOf[w], to)
           rest == ledger \ {hold}
<1>1. /\ hold.id = w /\ hold.status = "pending"
      /\ hold.account = AccountOf[w] /\ hold.amount = -AmountOf[w]
      /\ row.id = w /\ row.status = to
      /\ row.account = AccountOf[w] /\ row.amount = -AmountOf[w]
  BY DEF HoldEntry, Entry
<1>2. hold \in ledger
  <2>1. PICK e \in ledger : e.id = w /\ e.status = "pending"
    BY DEF OnlyRow, HasEntry, EntryStatus
  <2> QED
    BY <2>1 DEF RowsOK, HoldEntry
<1>3. row \notin rest
  BY <1>1 DEF OnlyRow, HasEntry, EntryStatus
<1>4. ledger' = rest \cup {row}
  BY DEF RowMoves
<1>5. AmountOf[w] \in Nat /\ row.amount \in Int
  BY <1>1, RequestAssumption
<1>6. BalanceCents(ledger, a) \in Int /\ HeldCents(ledger, a) \in Int
  BY StatusSumFacts DEF BalanceCents, HeldCents
<1> HIDE DEF hold, row
<1>7. /\ Countable(rest, a)
      /\ \A s : SumOfStatus(rest, a, s) = SumOfStatus(ledger, a, s)
                   - (IF hold.account = a /\ hold.status = s THEN hold.amount ELSE 0)
  BY <1>2, RowIsRemoved
<1> HIDE DEF rest
<1>8. /\ Countable(rest \cup {row}, a)
      /\ \A s : SumOfStatus(rest \cup {row}, a, s) = SumOfStatus(rest, a, s)
                   + (IF row.account = a /\ row.status = s THEN row.amount ELSE 0)
  BY <1>3, <1>5, <1>7, RowIsAdded
<1>9. /\ BalanceCents(rest, a) = BalanceCents(ledger, a) - 0
      /\ HeldCents(rest, a) = HeldCents(ledger, a)
            - (IF hold.account = a THEN hold.amount ELSE 0)
  BY <1>1, <1>7 DEF BalanceCents, HeldCents
<1>10. BalanceCents(rest \cup {row}, a) = BalanceCents(rest, a)
          + (IF row.account = a /\ to = "posted" THEN row.amount ELSE 0)
  BY <1>1, <1>8 DEF BalanceCents
<1>11. HeldCents(rest \cup {row}, a) = HeldCents(rest, a) + 0
  BY <1>1, <1>8 DEF HeldCents
<1> QED
  BY <1>1, <1>4, <1>5, <1>6, <1>8, <1>9, <1>10, <1>11

-----------------------------------------------------------------------------
(* One worker holds only what is there                                     *)

\* The balance that the one worker has read is still the balance when it comes
\* to its check.
SeenFits ==
    \A k \in Workers : pc[k] = "check" => seen[k] = BalanceCents(ledger, AccountOf[job[k]])

LEMMA SeenNext == OneWorker /\ IInv /\ SumsOK /\ SeenFits /\ [Next]_vars => SeenFits'
<1> SUFFICES ASSUME OneWorker, IInv, SumsOK, SeenFits, [Next]_vars,
                    NEW k \in Workers, pc'[k] = "check"
             PROVE  seen'[k] = BalanceCents(ledger', AccountOf[job'[k]])
  BY DEF SeenFits
<1>1. \A j \in Workers : j = k
  BY DEF OneWorker
<1>2. CASE CreateLocksAccount(k)
  <2>1. UNCHANGED <<ledger, job>>
    BY <1>2 DEF CreateLocksAccount
  <2>2. seen'[k] = BalanceCents(ledger, AccountOf[job[k]])
    BY <1>2 DEF CreateLocksAccount, SumsOK
  <2> QED
    BY <2>1, <2>2
<1>3. CASE pc[k] = "check" /\ UNCHANGED <<ledger, job, seen>>
  BY <1>3 DEF SeenFits
<1>4. CASE \E j \in Workers : WorkerStep(j) \/ Crash(j)
  <2>1. WorkerStep(k) \/ Crash(k)
    BY <1>1, <1>4
  <2>2. pc \in [Workers -> Labels]
    BY DEF IInv, VariablesOK
  <2>3. ~ \/ CreateFindsInactive(k) \/ CreateFindsTooLittle(k) \/ KeepPayout(k)
          \/ ReleaseHold(k) \/ RejectCommits(k) \/ RejectRollsBack(k)
          \/ WebhookSettles(k) \/ Crash(k)
    BY <2>2 DEF CreateFindsInactive, CreateFindsTooLittle, KeepPayout, ReleaseHold,
       RejectCommits, RejectRollsBack, WebhookSettles, Crash, Respond
  <2>4. ~ \/ CreateHolds(k) \/ PayoutStarts(k) \/ PayoutRefused(k)
          \/ PayoutReplyLost(k) \/ MarkFailed(k) \/ ApproveSaves(k)
    BY <2>2 DEF CreateHolds, PayoutStarts, PayoutRefused, PayoutReplyLost, MarkFailed,
       ApproveSaves, Respond, Goto
  <2> QED
    BY <1>2, <2>1, <2>3, <2>4 DEF WorkerStep
<1>5. ASSUME NEW j \in Workers,
             \/ \E w \in Withdrawals : CreateBegin(j, w) \/ ApproveBegin(j, w) \/ RejectBegin(j, w)
             \/ \E p \in Payouts : WebhookFinds(j, p)
      PROVE  FALSE
  <2>1. j = k /\ pc \in [Workers -> Labels]
    BY <1>1 DEF IInv, VariablesOK
  <2> QED
    BY <1>5, <2>1 DEF CreateBegin, ApproveBegin, RejectBegin, ReviewBegin, WebhookFinds, Goto
<1>6. ASSUME NEW j \in Workers, NEW p \in Payouts, WebhookFindsNothing(j, p)
      PROVE  pc[k] = "check" /\ UNCHANGED <<ledger, job, seen>>
  BY <1>6 DEF WebhookFindsNothing, accountVars, workerVars
<1>7. ASSUME NEW p \in Payouts, PayoutSettles(p)
      PROVE  pc[k] = "check" /\ UNCHANGED <<ledger, job, seen>>
  BY <1>7 DEF PayoutSettles, accountVars, workerVars
<1>8. ASSUME NEW a \in Accounts, OtherRequest(a)
      PROVE  pc[k] = "check" /\ UNCHANGED <<ledger, job, seen>>
  BY <1>8 DEF OtherRequest, AccountRequest, FreezeAccount, UnfreezeAccount, GateChanges,
     workerVars
<1>9. CASE UNCHANGED vars
  BY <1>3, <1>9 DEF vars, accountVars, workerVars
<1> QED
  BY <1>3, <1>4, <1>5, <1>6, <1>7, <1>8, <1>9 DEF Next, Webhook

\* Hence what it holds is available.
LEMMA HoldsAreCovered ==
    ASSUME IInv, SeenFits, NEW k \in Workers, CreateHolds(k)
    PROVE  AmountOf[job[k]] <= AvailableCents(ledger, AccountOf[job[k]])
BY DEF CreateHolds, SeesFunds, SeenFits, AvailableCents

-----------------------------------------------------------------------------
(* The refinement                                                          *)

\* The withdrawals that claim funds of a, and what they leave free.
ClaimsOn(a) == {w \in Withdrawals : FundsOf(w) \in {"held", "spent"} /\ AccountOf[w] = a}

FreeOn(a) == OpeningBalance[a] - SumFunctionOnSet(AmountOf, ClaimsOn(a))

\* The sums over ledger rows are what the reservation reckons with.
SumsFit ==
    \A a \in Accounts :
        /\ IsFiniteSet(ClaimsOn(a))
        /\ AvailableCents(ledger, a) = FreeOn(a)
        /\ AvailableCents(ledger, a) >= 0

LEMMA FreeIsFreeOn ==
    ASSUME NEW a \in Accounts
    PROVE  Reservation!Free(a) = FreeOn(a)
<1>1. {w \in Reservation!Claimed : AccountOf[w] = a} = ClaimsOn(a)
  BY DEF Reservation!Claimed, ClaimsOn
<1> QED
  BY <1>1 DEF Reservation!Free, FreeOn, SumFunctionOnSet, FoldFunctionOnSet, MapThenFoldSet,
     Reservation!FoldFunctionOnSet, Reservation!MapThenFoldSet

\* A hold is the first claim of its withdrawal.
LEMMA HoldFits ==
    ASSUME SumsOK, SumsFit, NEW w \in Withdrawals,
           \A t \in EntryStatus : ~HasEntry(ledger, w, t), RowMoves(w, "pending"),
           AmountOf[w] <= AvailableCents(ledger, AccountOf[w])
    PROVE  SumsFit'
<1> SUFFICES ASSUME NEW a \in Accounts
             PROVE  /\ IsFiniteSet(ClaimsOn(a))'
                    /\ AvailableCents(ledger, a)' = FreeOn(a)'
                    /\ AvailableCents(ledger, a)' >= 0
  BY DEF SumsFit
<1> DEFINE claims == ClaimsOn(a)
           amount == IF AccountOf[w] = a THEN AmountOf[w] ELSE 0
<1>1. /\ IsFiniteSet(claims)
      /\ AvailableCents(ledger, a) = OpeningBalance[a] - SumFunctionOnSet(AmountOf, claims)
      /\ AvailableCents(ledger, a) >= 0
  BY DEF SumsFit, FreeOn
<1>2. AmountOf[w] \in Nat /\ \A v \in claims : AmountOf[v] \in Int
  BY RequestAssumption DEF ClaimsOn
<1>3. OpeningBalance[a] \in Int /\ SumFunctionOnSet(AmountOf, claims) \in Int
  <2> HIDE DEF claims
  <2>1. SumFunctionOnSet(AmountOf, claims) \in Int
    BY <1>1, <1>2, SumRecursion
  <2> QED
    BY <2>1, OpeningAssumption
<1>4. AvailableCents(ledger', a) = AvailableCents(ledger, a) - amount
  <2>1. Countable(ledger, a)
    BY DEF SumsOK
  <2>2. BalanceCents(ledger, a) \in Int /\ HeldCents(ledger, a) \in Int
    BY <2>1, StatusSumFacts DEF BalanceCents, HeldCents
  <2> QED
    BY <1>2, <2>1, <2>2, HoldSums DEF AvailableCents
<1>5. /\ FundsOf(w) = "none" /\ FundsOf(w)' = "held"
      /\ \A v \in Withdrawals \ {w} : FundsOf(v)' = FundsOf(v)
  BY FundsFollowRows, FundsFollowMoves DEF EntryStatus
<1>6. ClaimsOn(a)' = IF AccountOf[w] = a THEN claims \cup {w} ELSE claims
  BY <1>5 DEF ClaimsOn
<1>7. w \notin claims
  BY <1>5 DEF ClaimsOn
<1> HIDE DEF claims
<1>8. /\ IsFiniteSet(claims \cup {w})
      /\ SumFunctionOnSet(AmountOf, claims \cup {w}) = AmountOf[w] + SumFunctionOnSet(AmountOf, claims)
  <2>1. \A v \in claims \cup {w} : AmountOf[v] \in Int
    BY <1>2
  <2> QED
    BY <1>1, <1>7, <2>1, FS_AddElement, SumAdds
<1>9. CASE AccountOf[w] = a
  BY <1>1, <1>2, <1>3, <1>4, <1>6, <1>8, <1>9 DEF FreeOn
<1>10. CASE AccountOf[w] # a
  BY <1>1, <1>2, <1>3, <1>4, <1>6, <1>10 DEF FreeOn
<1> QED
  BY <1>9, <1>10

\* A debit is still a claim, a released hold no longer.
LEMMA SettlementFits ==
    ASSUME IInv, SumsOK, SumsFit, NEW w \in Withdrawals, OnlyRow(w, "pending"),
           NEW to \in {"posted", "failed"}, RowMoves(w, to)
    PROVE  SumsFit'
<1> SUFFICES ASSUME NEW a \in Accounts
             PROVE  /\ IsFiniteSet(ClaimsOn(a))'
                    /\ AvailableCents(ledger, a)' = FreeOn(a)'
                    /\ AvailableCents(ledger, a)' >= 0
  BY DEF SumsFit
<1> DEFINE claims == ClaimsOn(a)
<1>1. /\ IsFiniteSet(claims)
      /\ AvailableCents(ledger, a) = OpeningBalance[a] - SumFunctionOnSet(AmountOf, claims)
      /\ AvailableCents(ledger, a) >= 0
  BY DEF SumsFit, FreeOn
<1>2. AmountOf[w] \in Nat /\ \A v \in claims : AmountOf[v] \in Int
  BY RequestAssumption DEF ClaimsOn
<1>3. OpeningBalance[a] \in Int /\ SumFunctionOnSet(AmountOf, claims) \in Int
  <2> HIDE DEF claims
  <2>1. SumFunctionOnSet(AmountOf, claims) \in Int
    BY <1>1, <1>2, SumRecursion
  <2> QED
    BY <2>1, OpeningAssumption
<1>4. AvailableCents(ledger', a) = AvailableCents(ledger, a)
         + (IF AccountOf[w] = a /\ to = "failed" THEN AmountOf[w] ELSE 0)
  <2>1. Countable(ledger, a) /\ RowsOK(ledger)
    BY DEF SumsOK, IInv, VariablesOK
  <2>2. BalanceCents(ledger, a) \in Int /\ HeldCents(ledger, a) \in Int
    BY <2>1, StatusSumFacts DEF BalanceCents, HeldCents
  <2> QED
    BY <1>2, <2>1, <2>2, SettlementSums DEF AvailableCents
<1>5. /\ FundsOf(w) = "held"
      /\ FundsOf(w)' = IF to = "posted" THEN "spent" ELSE "returned"
      /\ \A v \in Withdrawals \ {w} : FundsOf(v)' = FundsOf(v)
  BY FundsFollowRows, FundsFollowMoves DEF EntryStatus
<1>6. ClaimsOn(a)' = IF AccountOf[w] = a /\ to = "failed" THEN claims \ {w} ELSE claims
  BY <1>5 DEF ClaimsOn
<1>7. AccountOf[w] = a => w \in claims
  BY <1>5 DEF ClaimsOn
<1> HIDE DEF claims
<1>8. ASSUME AccountOf[w] = a
      PROVE  /\ IsFiniteSet(claims \ {w})
             /\ SumFunctionOnSet(AmountOf, claims)
                   = AmountOf[w] + SumFunctionOnSet(AmountOf, claims \ {w})
             /\ SumFunctionOnSet(AmountOf, claims \ {w}) \in Int
  <2>1. IsFiniteSet(claims \ {w}) /\ \A v \in claims \ {w} : AmountOf[v] \in Int
    BY <1>1, <1>2, FS_RemoveElement
  <2>2. SumFunctionOnSet(AmountOf, claims)
           = AmountOf[w] + SumFunctionOnSet(AmountOf, claims \ {w})
    BY <1>1, <1>2, <1>7, <1>8, SumTakesOut
  <2>3. SumFunctionOnSet(AmountOf, claims \ {w}) \in Int
    BY <2>1, SumRecursion
  <2> QED
    BY <2>1, <2>2, <2>3
<1>9. CASE AccountOf[w] = a /\ to = "failed"
  <2>1. FreeOn(a)' = OpeningBalance[a] - SumFunctionOnSet(AmountOf, claims \ {w})
    BY <1>6, <1>9 DEF FreeOn
  <2> QED
    BY <1>1, <1>2, <1>3, <1>4, <1>6, <1>8, <1>9, <2>1
<1>10. CASE ~(AccountOf[w] = a /\ to = "failed")
  BY <1>1, <1>2, <1>3, <1>4, <1>6, <1>10 DEF FreeOn
<1> QED
  BY <1>9, <1>10

\* Every write to the ledger is one step of the reservation, and the sums go
\* along with it.
LEMMA ReservationSteps ==
    ASSUME IInv, SerialInv, SumsOK, SeenFits, SumsFit, [Next]_vars
    PROVE  LET funds == [w \in Withdrawals |-> FundsOf(w)] IN
           /\ SumsFit'
           /\ \/ \E w \in Withdrawals :
                    Reservation!Hold(w) \/ Reservation!Spend(w) \/ Reservation!Return(w)
              \/ UNCHANGED funds
<1> DEFINE funds == [w \in Withdrawals |-> FundsOf(w)]
<1>1. ASSUME NEW w \in Withdrawals, NEW s, FundsOf(w)' = s,
             \A v \in Withdrawals \ {w} : FundsOf(v)' = FundsOf(v)
      PROVE  funds' = [funds EXCEPT ![w] = s]
  BY <1>1
<1>2. CASE UNCHANGED ledger
  <2>1. \A w \in Withdrawals : FundsOf(w)' = FundsOf(w)
    BY <1>2 DEF FundsOf, HasEntry
  <2>2. \A a \in Accounts : /\ ClaimsOn(a)' = ClaimsOn(a)
                            /\ AvailableCents(ledger, a)' = AvailableCents(ledger, a)
    BY <1>2, <2>1 DEF ClaimsOn
  <2>3. SumsFit'
    BY <2>2 DEF SumsFit, FreeOn
  <2> QED
    BY <2>1, <2>3
<1>3. CASE \E k \in Workers : CreateHolds(k)
  <2>1. PICK k \in Workers : CreateHolds(k)
    BY <1>3
  <2>2. PICK w \in Withdrawals :
           /\ w = job[k]
           /\ \A t \in EntryStatus : ~HasEntry(ledger, w, t)
           /\ RowMoves(w, "pending")
    BY <2>1, CreateHoldsMoves
  <2>3. AmountOf[w] <= AvailableCents(ledger, AccountOf[w])
    BY <2>1, <2>2, HoldsAreCovered
  <2>4. SumsFit'
    BY <2>2, <2>3, HoldFits
  <2>5. AccountOf[w] \in Accounts
    BY RequestAssumption
  <2>6. AmountOf[w] <= Reservation!Free(AccountOf[w])
    BY <2>3, <2>5, FreeIsFreeOn DEF SumsFit
  <2>7. funds[w] = "none"
    BY <2>2, FundsFollowRows
  <2>8. funds' = [funds EXCEPT ![w] = "held"]
    BY <1>1, <2>2, FundsFollowMoves DEF EntryStatus
  <2>9. Reservation!Hold(w)
    BY <2>6, <2>7, <2>8 DEF Reservation!Hold
  <2> QED
    BY <2>4, <2>9
<1>4. CASE \E w \in Withdrawals : /\ OnlyRow(w, "pending")
                                  /\ RowMoves(w, "posted") \/ RowMoves(w, "failed")
  <2>1. PICK w \in Withdrawals : /\ OnlyRow(w, "pending")
                                 /\ RowMoves(w, "posted") \/ RowMoves(w, "failed")
    BY <1>4
  <2>2. SumsFit'
    BY <2>1, SettlementFits
  <2>3. funds[w] = "held"
    BY <2>1, FundsFollowRows
  <2>4. CASE RowMoves(w, "posted")
    <3>1. funds' = [funds EXCEPT ![w] = "spent"]
      BY <1>1, <2>4, FundsFollowMoves DEF EntryStatus
    <3>2. Reservation!Spend(w)
      BY <2>3, <3>1 DEF Reservation!Spend
    <3> QED
      BY <2>2, <3>2
  <2>5. CASE RowMoves(w, "failed")
    <3>1. funds' = [funds EXCEPT ![w] = "returned"]
      BY <1>1, <2>5, FundsFollowMoves DEF EntryStatus
    <3>2. Reservation!Return(w)
      BY <2>3, <3>1 DEF Reservation!Return
    <3> QED
      BY <2>2, <3>2
  <2> QED
    BY <2>1, <2>4, <2>5
<1>5. CASE \E k \in Workers : ReleaseHold(k) \/ RejectCommits(k) \/ WebhookSettles(k)
  BY <1>4, <1>5, ReleaseHoldMoves, RejectCommitsMoves, WebhookSettlesMoves
<1> QED
  BY <1>2, <1>3, <1>5, FourWrite

LEMMA FundsInit ==
    ASSUME Init
    PROVE  SeenFits /\ SumsFit /\ Reservation!Init
<1>1. SeenFits
  BY DEF Init, SeenFits
<1>2. \A w \in Withdrawals, t \in EntryStatus : ~HasEntry(ledger, w, t)
  BY OpeningFacts DEF Init, AccountInit
<1>3. \A w \in Withdrawals : FundsOf(w) = "none"
  BY <1>2, FundsFollowRows
<1>4. SumsFit
  <2> SUFFICES ASSUME NEW a \in Accounts
               PROVE  /\ IsFiniteSet(ClaimsOn(a))
                      /\ AvailableCents(ledger, a) = FreeOn(a)
                      /\ AvailableCents(ledger, a) >= 0
    BY DEF SumsFit
  <2>1. ledger = OpeningLedger /\ OpeningBalance[a] \in Nat
    BY OpeningAssumption DEF Init, AccountInit
  <2>2. AvailableCents(ledger, a) = OpeningBalance[a]
    BY <2>1, OpeningSums DEF AvailableCents
  <2>3. ClaimsOn(a) = {}
    BY <1>3 DEF ClaimsOn
  <2>4. IsFiniteSet({}) /\ SumFunctionOnSet(AmountOf, {}) = 0
    BY FS_EmptySet, SumRecursion
  <2> QED
    BY <2>1, <2>2, <2>3, <2>4 DEF FreeOn
<1>5. Reservation!Init
  BY <1>3 DEF Reservation!Init
<1> QED
  BY <1>1, <1>4, <1>5

\* With one worker what it holds is there, for good.
THEOREM FundsInductive ==
    ASSUME OneWorker
    PROVE  Spec => [](SeenFits /\ SumsFit)
<1> Serial
  BY DEF Serial
<1>1. Init => SeenFits /\ SumsFit
  BY FundsInit
<1>2. IInv /\ SerialInv /\ SumsOK /\ (SeenFits /\ SumsFit) /\ [Next]_vars
         => (SeenFits /\ SumsFit)'
  BY SeenNext, ReservationSteps
<1> QED
  BY <1>1, <1>2, Inductive, SerialInductive, SumsCorrect, PTL DEF Spec

\* The holds and debits of an account never exceed its credits.
THEOREM NothingIsOverdrawn ==
    ASSUME OneWorker
    PROVE  Spec => []NoOverdraw
<1>1. SumsFit => NoOverdraw
  BY DEF SumsFit, NoOverdraw
<1> QED
  BY <1>1, FundsInductive, PTL

\* The handlers implement the reservation of funds: funds are held, once, and
\* only where they are free, then spent or returned, once; between the
\* statements, and where a worker is killed, nothing happens to them.
THEOREM ImplementsReservation ==
    ASSUME OneWorker
    PROVE  Spec => ReservesFunds
<1> DEFINE funds == [w \in Withdrawals |-> FundsOf(w)]
           Step  == \E w \in Withdrawals :
                       Reservation!Hold(w) \/ Reservation!Spend(w) \/ Reservation!Return(w)
<1> Serial
  BY DEF Serial
<1>1. Init => Reservation!Init
  BY FundsInit
<1>2. IInv /\ SerialInv /\ SumsOK /\ SeenFits /\ SumsFit /\ [Next]_vars => [Step]_funds
  BY ReservationSteps
<1>3. Reservation!Init /\ [][Step]_funds => ReservesFunds
  BY DEF ReservesFunds, Reservation!Spec, Reservation!Next
<1> QED
  BY <1>1, <1>2, <1>3, FundsInductive, SerialInductive, SumsCorrect, Inductive, PTL DEF Spec
==============================================================================
