---------------------------- MODULE Adjustments ----------------------------
(***************************************************************************)
(* Manual adjustments, the way staff move money by hand:                   *)
(* AdminAdjustmentListCreateView.post, AdminAdjustmentApproveView and      *)
(* AdminAdjustmentRejectView, with the audit log they write, run by        *)
(* concurrent request workers.                                             *)
(*                                                                         *)
(* A small adjustment posts at once; a large one waits for another         *)
(* approver.  A pc label names the statement a worker executes next:       *)
(*    approve       the transaction, after the status was read as pending  *)
(*    reject, log   the save, after the same read; the audit row           *)
(*                                                                         *)
(* A definition right before another of the same parameters, that says     *)
(* less or more than it, is a slip the code does not make; no step uses it.*)
(***************************************************************************)
EXTENDS Ledger, Sequences

CONSTANTS Adjustments,       \* adjustments, by id
          Accounts,          \* account rows
          Staff,             \* users with an approver's role
          AccountOf,         \* the account an adjustment credits or debits
          AmountOf,          \* its amount in cents, negative for a debit
          AutoApproveLimit,  \* AUTO_APPROVE_LIMIT_CENTS
          Workers,           \* request workers
          NoOne,             \* NULL
          WorkersCrash       \* whether a worker may die within a request

ASSUME AdjustmentAssumption ==
    /\ AccountOf \in [Adjustments -> Accounts]
    /\ AmountOf \in [Adjustments -> Int \ {0}]
    /\ AutoApproveLimit \in Nat
    /\ NoOne \notin Adjustments \cup Staff
    /\ WorkersCrash \in BOOLEAN

VARIABLES status,       \* ManualAdjustment.status ("none": no row yet)
          requestedBy,  \* ManualAdjustment.requested_by
          approvedBy,   \* ManualAdjustment.approved_by: who approved or rejected
          ledger,       \* the LedgerEntry rows
          trail,        \* the AuditLog rows about an adjustment, oldest first
          pc, job, user \* a worker's next statement, its adjustment, request.user

rowVars    == <<status, requestedBy, approvedBy>>
workerVars == <<pc, job, user>>
vars       == <<rowVars, ledger, trail, workerVars>>

Actions == {"request", "auto_post", "approve", "reject"}

\* The audit rows that are written with a posting.
Postings == {"auto_post", "approve"}

Init ==
    /\ status      = [d \in Adjustments |-> "none"]
    /\ requestedBy = [d \in Adjustments |-> NoOne]
    /\ approvedBy  = [d \in Adjustments |-> NoOne]
    /\ ledger      = {}
    /\ trail       = [d \in Adjustments |-> << >>]
    /\ pc   = [k \in Workers |-> "idle"]
    /\ job  = [k \in Workers |-> NoOne]
    /\ user = [k \in Workers |-> NoOne]

\* The request of u about d is taken in; the worker goes on at label.
Serve(k, d, u, label) ==
    /\ pc[k] = "idle"
    /\ pc'   = [pc EXCEPT ![k] = label]
    /\ job'  = [job EXCEPT ![k] = d]
    /\ user' = [user EXCEPT ![k] = u]

Respond(k) ==
    /\ pc'   = [pc EXCEPT ![k] = "idle"]
    /\ job'  = [job EXCEPT ![k] = NoOne]
    /\ user' = [user EXCEPT ![k] = NoOne]

Magnitude(d) == IF AmountOf[d] < 0 THEN -AmountOf[d] ELSE AmountOf[d]

AutoApprovedSigned(d) == AmountOf[d] <= AutoApproveLimit
AutoApproved(d) == Magnitude(d) <= AutoApproveLimit

\* log_action(request, "adjustment.<action>", ...)
LogsNothing(d, action, u) == UNCHANGED trail
LogsNobody(d, action, u) ==
    trail' = [trail EXCEPT ![d] = Append(@, [action |-> action, actor |-> NoOne])]
LogAction(d, action, u) ==
    trail' = [trail EXCEPT ![d] = Append(@, [action |-> action, actor |-> u])]

\* The posted row that goes with the n-th audit row about d.
PostingEntry(d, n) == Entry(<<d, n>>, AccountOf[d], AmountOf[d], "posted")

\* The row, and the audit row, of one transaction.
Post(d, action, u) ==
    /\ ledger' = ledger \cup {PostingEntry(d, Len(trail[d]) + 1)}
    /\ LogAction(d, action, u)

-----------------------------------------------------------------------------
(* AdminAdjustmentListCreateView.post: one transaction                     *)

AlwaysWaiting(d) == "pending_approval"
FirstStatus(d) == IF AutoApproved(d) THEN "posted" ELSE "pending_approval"

Request(d, u) ==
    /\ status[d] = "none"
    /\ requestedBy' = [requestedBy EXCEPT ![d] = u]
    /\ status' = [status EXCEPT ![d] = FirstStatus(d)]
    /\ IF AutoApproved(d)
       THEN approvedBy' = [approvedBy EXCEPT ![d] = u] /\ Post(d, "auto_post", u)
       ELSE UNCHANGED <<approvedBy, ledger>> /\ LogAction(d, "request", u)

RequestIsServed(k, d, u) ==
    /\ pc[k] = "idle"
    /\ Request(d, u)
    /\ UNCHANGED workerVars

-----------------------------------------------------------------------------
(* AdminAdjustmentApproveView and AdminAdjustmentRejectView                *)

MayReview(d) == status[d] = "pending_approval"

\* The row is read without a lock; nobody approves a request of their own.
MayApproveAny(d, u) == MayReview(d)
MayApprove(d, u) == MayReview(d) /\ requestedBy[d] # u

ApproveBegin(k, d, u) ==
    /\ MayApprove(d, u)
    /\ Serve(k, d, u, "approve")
    /\ UNCHANGED <<rowVars, ledger, trail>>

\* The commit: status and approver are saved whatever they are by now.
ApproveCommits(k) ==
    LET d == job[k] IN
    /\ pc[k] = "approve"
    /\ status' = [status EXCEPT ![d] = "posted"]
    /\ approvedBy' = [approvedBy EXCEPT ![d] = user[k]]
    /\ Post(d, "approve", user[k])
    /\ Respond(k)
    /\ UNCHANGED requestedBy

RejectBegin(k, d, u) ==
    /\ MayReview(d)
    /\ Serve(k, d, u, "reject")
    /\ UNCHANGED <<rowVars, ledger, trail>>

\* No transaction: the save commits, then the audit row is written.
RejectSaves(k) ==
    LET d == job[k] IN
    /\ pc[k] = "reject"
    /\ status' = [status EXCEPT ![d] = "rejected"]
    /\ approvedBy' = [approvedBy EXCEPT ![d] = user[k]]
    /\ pc' = [pc EXCEPT ![k] = "log"]
    /\ UNCHANGED <<requestedBy, ledger, trail, job, user>>

RejectLogs(k) ==
    /\ pc[k] = "log"
    /\ LogAction(job[k], "reject", user[k])
    /\ Respond(k)
    /\ UNCHANGED <<rowVars, ledger>>

-----------------------------------------------------------------------------
\* The worker is killed: what it committed stays.
Crash(k) ==
    /\ WorkersCrash
    /\ pc[k] # "idle"
    /\ Respond(k)
    /\ UNCHANGED <<rowVars, ledger, trail>>

WorkerStep(k) == ApproveCommits(k) \/ RejectSaves(k) \/ RejectLogs(k)

Next ==
    \/ \E k \in Workers : WorkerStep(k) \/ Crash(k)
    \/ \E k \in Workers, d \in Adjustments, u \in Staff :
          RequestIsServed(k, d, u) \/ ApproveBegin(k, d, u) \/ RejectBegin(k, d, u)

Spec == Init /\ [][Next]_vars

-----------------------------------------------------------------------------
(* Properties                                                              *)

Statuses == {"none", "pending_approval", "posted", "rejected"}

\* Every variable keeps its type, and a worker within a request has its
\* adjustment and its user.
TypeOK ==
    /\ status \in [Adjustments -> Statuses]
    /\ requestedBy \in [Adjustments -> Staff \cup {NoOne}]
    /\ approvedBy \in [Adjustments -> Staff \cup {NoOne}]
    /\ ledger \subseteq EntriesOf(Adjustments \X Nat, Accounts)
    /\ trail \in [Adjustments -> Seq([action : Actions, actor : Staff])]
    /\ pc \in [Workers -> {"idle", "approve", "reject", "log"}]
    /\ job \in [Workers -> Adjustments \cup {NoOne}]
    /\ user \in [Workers -> Staff \cup {NoOne}]
    /\ \A k \in Workers : pc[k] # "idle" => job[k] \in Adjustments /\ user[k] \in Staff

\* Where the audit rows of postings are in the trail of d.
PostingsOf(d) == {n \in 1 .. Len(trail[d]) : trail[d][n].action \in Postings}

\* Every posting to an account has an audit row of its own that names who
\* posted it, and every audit row of a posting has its posting: also when two
\* approvers, or an approver and a rejecter, decide at the same time.
PostingsAreAudited ==
    /\ \A e \in ledger : \E d \in Adjustments : \E n \in PostingsOf(d) :
          e = PostingEntry(d, n)
    /\ \A d \in Adjustments : \A n \in PostingsOf(d) : PostingEntry(d, n) \in ledger

\* "needs a second approver before it posts": whoever posts more than the
\* limit, in either direction, is not the one who asked for it; and an
\* adjustment shown as posted names that second person.
FourEyes ==
    \A d \in Adjustments : Magnitude(d) > AutoApproveLimit =>
        /\ \A n \in PostingsOf(d) : trail[d][n].actor # requestedBy[d]
        /\ status[d] = "posted" => approvedBy[d] \notin {requestedBy[d], NoOne}

\* An adjustment that waits for its approver has not moved money, and names
\* nobody as having decided.
WaitingIsUnposted ==
    \A d \in Adjustments : status[d] \in {"none", "pending_approval"} =>
        PostingsOf(d) = {} /\ approvedBy[d] = NoOne

\* A reviewer's request is about an adjustment that was asked for, by another
\* person if it approves; whoever asked is not forgotten meanwhile.
ReviewersAreApart ==
    \A k \in Workers :
        /\ pc[k] # "idle" => status[job[k]] # "none"
        /\ pc[k] = "approve" => user[k] # requestedBy[job[k]]

\* The inductive invariant behind the properties above.
IInv ==
    /\ TypeOK
    /\ ReviewersAreApart
    /\ PostingsAreAudited
    /\ FourEyes
    /\ WaitingIsUnposted
=============================================================================
