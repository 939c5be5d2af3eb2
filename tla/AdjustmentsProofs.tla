-------------------------- MODULE AdjustmentsProofs --------------------------
(***************************************************************************)
(* Proofs about Adjustments, for every set of adjustments, accounts, staff *)
(* and workers, every amount and limit, with crashes or without.           *)
(***************************************************************************)
EXTENDS Adjustments, TLAPS

AuditRow == [action : Actions, actor : Staff]

-----------------------------------------------------------------------------
(* What the two ways to write an audit row do                              *)

\* An audit row is added at the end of the trail of one adjustment.
LEMMA LogFacts ==
    ASSUME TypeOK, NEW d \in Adjustments, NEW u \in Staff, NEW act \in Actions,
           LogAction(d, act, u)
    PROVE  /\ trail' \in [Adjustments -> Seq(AuditRow)]
           /\ \A c \in Adjustments : c # d => trail'[c] = trail[c]
           /\ Len(trail[d]) \in Nat
           /\ Len(trail'[d]) = Len(trail[d]) + 1
           /\ \A n \in 1 .. Len(trail[d]) : trail'[d][n] = trail[d][n]
           /\ trail'[d][Len(trail[d]) + 1] = [action |-> act, actor |-> u]
<1> DEFINE row == [action |-> act, actor |-> u]
<1>1. trail \in [Adjustments -> Seq(AuditRow)] /\ row \in AuditRow
  BY DEF TypeOK, AuditRow
<1>2. trail' = [trail EXCEPT ![d] = Append(@, row)]
  BY DEF LogAction
<1>3. trail[d] \in Seq(AuditRow)
  BY <1>1
<1> HIDE DEF row
<1>4. /\ Append(trail[d], row) \in Seq(AuditRow)
      /\ Len(trail[d]) \in Nat
      /\ Len(Append(trail[d], row)) = Len(trail[d]) + 1
      /\ \A n \in 1 .. Len(trail[d]) : Append(trail[d], row)[n] = trail[d][n]
      /\ Append(trail[d], row)[Len(trail[d]) + 1] = row
  BY <1>1, <1>3
<1> QED
  BY <1>1, <1>2, <1>4 DEF row

\* An audit row of no posting leaves the postings as they are.
LEMMA LogKeepsPostings ==
    ASSUME TypeOK, NEW d \in Adjustments, NEW u \in Staff,
           NEW act \in {"request", "reject"}, LogAction(d, act, u)
    PROVE  \A c \in Adjustments :
              /\ PostingsOf(c)' = PostingsOf(c)
              /\ \A n \in PostingsOf(c) : trail'[c][n] = trail[c][n]
<1>1. act \in Actions /\ act \notin Postings
  BY DEF Actions, Postings
<1>2. /\ \A c \in Adjustments : c # d => trail'[c] = trail[c]
      /\ Len(trail[d]) \in Nat
      /\ Len(trail'[d]) = Len(trail[d]) + 1
      /\ \A n \in 1 .. Len(trail[d]) : trail'[d][n] = trail[d][n]
      /\ trail'[d][Len(trail[d]) + 1] = [action |-> act, actor |-> u]
  BY <1>1, LogFacts
<1>3. 1 .. Len(trail'[d]) = (1 .. Len(trail[d])) \cup {Len(trail[d]) + 1}
  BY <1>2
<1>4. trail'[d][Len(trail[d]) + 1].action \notin Postings
  BY <1>1, <1>2
<1>5. /\ PostingsOf(d)' = PostingsOf(d)
      /\ \A n \in PostingsOf(d) : trail'[d][n] = trail[d][n]
  BY <1>2, <1>3, <1>4 DEF PostingsOf
<1>6. \A c \in Adjustments : c # d => PostingsOf(c)' = PostingsOf(c)
  BY <1>2 DEF PostingsOf
<1> QED
  BY <1>2, <1>5, <1>6

\* A posting adds one row and its audit row, at a place of its own.
LEMMA PostFacts ==
    ASSUME TypeOK, NEW d \in Adjustments, NEW u \in Staff,
           NEW act \in Postings, Post(d, act, u)
    PROVE  \E new \in Nat :
              /\ ledger' = ledger \cup {PostingEntry(d, new)}
              /\ PostingsOf(d)' = PostingsOf(d) \cup {new}
              /\ trail'[d][new].actor = u
              /\ \A c \in Adjustments :
                    /\ c # d => PostingsOf(c)' = PostingsOf(c)
                    /\ \A n \in PostingsOf(c) : trail'[c][n] = trail[c][n]
<1> DEFINE new == Len(trail[d]) + 1
<1>1. act \in Actions /\ LogAction(d, act, u)
  BY DEF Actions, Postings, Post
<1>2. /\ \A c \in Adjustments : c # d => trail'[c] = trail[c]
      /\ Len(trail[d]) \in Nat
      /\ Len(trail'[d]) = Len(trail[d]) + 1
      /\ \A n \in 1 .. Len(trail[d]) : trail'[d][n] = trail[d][n]
      /\ trail'[d][new] = [action |-> act, actor |-> u]
  BY <1>1, LogFacts
<1>3. 1 .. Len(trail'[d]) = (1 .. Len(trail[d])) \cup {new}
  BY <1>2
<1>4. trail'[d][new].action \in Postings /\ trail'[d][new].actor = u
  BY <1>2
<1>5. new \in Nat /\ ledger' = ledger \cup {PostingEntry(d, new)}
  BY <1>2 DEF Post
<1> HIDE DEF new
<1>6. /\ PostingsOf(d)' = PostingsOf(d) \cup {new}
      /\ \A n \in PostingsOf(d) : trail'[d][n] = trail[d][n]
  BY <1>2, <1>3, <1>4 DEF PostingsOf
<1>7. \A c \in Adjustments : c # d => PostingsOf(c)' = PostingsOf(c)
  BY <1>2 DEF PostingsOf
<1>8. \A c \in Adjustments : \A n \in PostingsOf(c) : trail'[c][n] = trail[c][n]
  BY <1>2, <1>6
<1> QED
  BY <1>4, <1>5, <1>6, <1>7, <1>8

\* A posting keeps the books and the trail well typed and in agreement.
LEMMA PostKeepsBooks ==
    ASSUME TypeOK, PostingsAreAudited, NEW d \in Adjustments, NEW u \in Staff,
           NEW act \in Postings, Post(d, act, u)
    PROVE  /\ trail' \in [Adjustments -> Seq(AuditRow)]
           /\ ledger' \subseteq EntriesOf(Adjustments \X Nat, Accounts)
           /\ PostingsAreAudited'
<1>1. act \in Actions /\ LogAction(d, act, u)
  BY DEF Actions, Postings, Post
<1>2. PICK new \in Nat :
         /\ ledger' = ledger \cup {PostingEntry(d, new)}
         /\ PostingsOf(d)' = PostingsOf(d) \cup {new}
         /\ \A c \in Adjustments : c # d => PostingsOf(c)' = PostingsOf(c)
  BY PostFacts
<1>3. PostingEntry(d, new) \in EntriesOf(Adjustments \X Nat, Accounts)
  BY AdjustmentAssumption DEF PostingEntry, Entry, EntriesOf, EntryStatus
<1>4. PostingsAreAudited'
  BY <1>2 DEF PostingsAreAudited, PostingEntry
<1> QED
  BY <1>1, <1>2, <1>3, <1>4, LogFacts DEF TypeOK

-----------------------------------------------------------------------------
(* The inductive invariant                                                 *)

LEMMA InitInvariant == Init => IInv
<1> SUFFICES ASSUME Init PROVE IInv
  OBVIOUS
<1> USE DEF Init
<1>1. TypeOK
  BY DEF TypeOK, Statuses
<1>2. \A d \in Adjustments : PostingsOf(d) = {}
  BY DEF PostingsOf
<1>3. ReviewersAreApart /\ PostingsAreAudited /\ FourEyes /\ WaitingIsUnposted
  BY <1>2 DEF ReviewersAreApart, PostingsAreAudited, FourEyes, WaitingIsUnposted
<1> QED
  BY <1>1, <1>3 DEF IInv

\* A step that writes no row and changes no posting keeps the books.
LEMMA SamePostings ==
    ASSUME PostingsAreAudited, ledger' = ledger,
           \A c \in Adjustments : PostingsOf(c)' = PostingsOf(c)
    PROVE  PostingsAreAudited'
BY DEF PostingsAreAudited, PostingEntry

\* What a request sets has the types of the row.
LEMMA RequestKeepsTypes ==
    ASSUME TypeOK, NEW d \in Adjustments, NEW u \in Staff, NEW s \in Statuses,
           status' = [status EXCEPT ![d] = s],
           requestedBy' = [requestedBy EXCEPT ![d] = u],
           approvedBy' \in {approvedBy, [approvedBy EXCEPT ![d] = u]},
           trail' \in [Adjustments -> Seq(AuditRow)],
           ledger' \subseteq EntriesOf(Adjustments \X Nat, Accounts),
           UNCHANGED <<pc, job, user>>
    PROVE  TypeOK'
<1>1. status' \in [Adjustments -> Statuses]
  BY DEF TypeOK
<1>2. requestedBy' \in [Adjustments -> Staff \cup {NoOne}]
  BY DEF TypeOK
<1>3. approvedBy' \in [Adjustments -> Staff \cup {NoOne}]
  <2>1. CASE approvedBy' = approvedBy
    BY <2>1 DEF TypeOK
  <2>2. CASE approvedBy' = [approvedBy EXCEPT ![d] = u]
    BY <2>2 DEF TypeOK
  <2> QED
    BY <2>1, <2>2
<1>4. /\ pc' \in [Workers -> {"idle", "approve", "reject", "log"}]
      /\ job' \in [Workers -> Adjustments \cup {NoOne}]
      /\ user' \in [Workers -> Staff \cup {NoOne}]
      /\ \A k \in Workers : pc'[k] # "idle" => job'[k] \in Adjustments /\ user'[k] \in Staff
  BY DEF TypeOK
<1> QED
  BY <1>1, <1>2, <1>3, <1>4 DEF TypeOK, AuditRow

LEMMA RequestInvariant ==
    ASSUME IInv, NEW k \in Workers, NEW d \in Adjustments, NEW u \in Staff,
           RequestIsServed(k, d, u)
    PROVE  IInv'
<1> USE DEF IInv, RequestIsServed, Request, workerVars
<1>1. Magnitude(d) \in Int /\ AutoApproveLimit \in Int
  BY AdjustmentAssumption DEF Magnitude
<1>2. CASE AutoApproved(d)
  <2>1. /\ status' = [status EXCEPT ![d] = "posted"]
        /\ approvedBy' = [approvedBy EXCEPT ![d] = u]
        /\ requestedBy' = [requestedBy EXCEPT ![d] = u]
        /\ Post(d, "auto_post", u)
        /\ UNCHANGED <<pc, job, user>>
    BY <1>2 DEF FirstStatus
  <2>2. "auto_post" \in Postings /\ ~(Magnitude(d) > AutoApproveLimit)
    BY <1>1, <1>2 DEF Postings, AutoApproved
  <2>3. /\ trail' \in [Adjustments -> Seq(AuditRow)]
        /\ ledger' \subseteq EntriesOf(Adjustments \X Nat, Accounts)
        /\ PostingsAreAudited'
    BY <2>1, <2>2, PostKeepsBooks
  <2>4. TypeOK'
    BY <2>1, <2>3, RequestKeepsTypes DEF Statuses
  <2>5. ReviewersAreApart'
    BY <2>1 DEF TypeOK, ReviewersAreApart
  <2>6. \A c \in Adjustments :
            /\ c # d => PostingsOf(c)' = PostingsOf(c)
            /\ \A n \in PostingsOf(c) : trail'[c][n] = trail[c][n]
    BY <2>1, <2>2, PostFacts
  <2>7. FourEyes'
    BY <2>1, <2>2, <2>6 DEF TypeOK, FourEyes, Magnitude
  <2>8. WaitingIsUnposted'
    BY <2>1, <2>6 DEF TypeOK, WaitingIsUnposted
  <2> QED
    BY <2>3, <2>4, <2>5, <2>7, <2>8
<1>3. CASE ~AutoApproved(d)
  <2>1. /\ status' = [status EXCEPT ![d] = "pending_approval"]
        /\ requestedBy' = [requestedBy EXCEPT ![d] = u]
        /\ LogAction(d, "request", u)
        /\ UNCHANGED <<approvedBy, ledger, pc, job, user>>
    BY <1>3 DEF FirstStatus
  <2>2. \A c \in Adjustments :
            /\ PostingsOf(c)' = PostingsOf(c)
            /\ \A n \in PostingsOf(c) : trail'[c][n] = trail[c][n]
    BY <2>1, LogKeepsPostings
  <2>3. trail' \in [Adjustments -> Seq(AuditRow)]
    BY <2>1, LogFacts DEF Actions
  <2>4. /\ ledger' \subseteq EntriesOf(Adjustments \X Nat, Accounts)
        /\ approvedBy' = approvedBy
    BY <2>1 DEF TypeOK
  <2>5. TypeOK' /\ ReviewersAreApart'
    <3>1. TypeOK'
      BY <2>1, <2>3, <2>4, RequestKeepsTypes DEF Statuses
    <3>2. ReviewersAreApart'
      BY <2>1 DEF TypeOK, ReviewersAreApart
    <3> QED
      BY <3>1, <3>2
  <2>6. PostingsAreAudited'
    BY <2>1, <2>2, SamePostings
  <2>7. PostingsOf(d) = {}
    BY DEF WaitingIsUnposted
  <2>8. FourEyes'
    BY <2>1, <2>2, <2>7 DEF TypeOK, FourEyes, Magnitude
  <2>9. WaitingIsUnposted'
    BY <2>1, <2>2 DEF TypeOK, WaitingIsUnposted
  <2> QED
    BY <2>5, <2>6, <2>8, <2>9
<1> QED
  BY <1>2, <1>3

LEMMA ReviewBeginInvariant ==
    ASSUME IInv, NEW k \in Workers, NEW d \in Adjustments, NEW u \in Staff,
           ApproveBegin(k, d, u) \/ RejectBegin(k, d, u)
    PROVE  IInv'
<1>1. /\ UNCHANGED <<status, requestedBy, approvedBy, ledger, trail>>
      /\ job' = [job EXCEPT ![k] = d]
      /\ user' = [user EXCEPT ![k] = u]
      /\ status[d] # "none"
      /\ \/ pc' = [pc EXCEPT ![k] = "approve"] /\ u # requestedBy[d]
         \/ pc' = [pc EXCEPT ![k] = "reject"]
  BY DEF ApproveBegin, RejectBegin, MayApprove, MayReview, Serve, rowVars
<1>2. TypeOK'
  BY <1>1 DEF IInv, TypeOK
<1>3. ReviewersAreApart'
  BY <1>1 DEF IInv, TypeOK, ReviewersAreApart
<1>4. PostingsAreAudited' /\ FourEyes' /\ WaitingIsUnposted'
  BY <1>1 DEF IInv, PostingsAreAudited, FourEyes, WaitingIsUnposted, PostingsOf
<1> QED
  BY <1>2, <1>3, <1>4 DEF IInv

LEMMA ApproveCommitsInvariant ==
    ASSUME IInv, NEW k \in Workers, ApproveCommits(k)
    PROVE  IInv'
<1>1. PICK d \in Adjustments, u \in Staff :
         d = job[k] /\ u = user[k] /\ u # requestedBy[d] /\ status[d] # "none"
  BY DEF IInv, TypeOK, ReviewersAreApart, ApproveCommits
<1>2. /\ status' = [status EXCEPT ![d] = "posted"]
      /\ approvedBy' = [approvedBy EXCEPT ![d] = u]
      /\ Post(d, "approve", u)
      /\ pc' = [pc EXCEPT ![k] = "idle"]
      /\ job' = [job EXCEPT ![k] = NoOne]
      /\ user' = [user EXCEPT ![k] = NoOne]
      /\ requestedBy' = requestedBy
  BY <1>1 DEF ApproveCommits, Respond
<1>3. "approve" \in Postings
  BY DEF Postings
<1>4. /\ trail' \in [Adjustments -> Seq(AuditRow)]
      /\ ledger' \subseteq EntriesOf(Adjustments \X Nat, Accounts)
      /\ PostingsAreAudited'
  BY <1>1, <1>2, <1>3, PostKeepsBooks DEF IInv
<1>5. TypeOK'
  BY <1>1, <1>2, <1>4 DEF IInv, TypeOK, Statuses, AuditRow
<1>6. ReviewersAreApart'
  BY <1>1, <1>2 DEF IInv, TypeOK, ReviewersAreApart
<1>7. PICK new \in Nat :
         /\ ledger' = ledger \cup {PostingEntry(d, new)}
         /\ PostingsOf(d)' = PostingsOf(d) \cup {new}
         /\ trail'[d][new].actor = u
         /\ \A c \in Adjustments :
               /\ c # d => PostingsOf(c)' = PostingsOf(c)
               /\ \A n \in PostingsOf(c) : trail'[c][n] = trail[c][n]
  <2>1. TypeOK
    BY DEF IInv
  <2> QED
    BY <1>1, <1>2, <1>3, <2>1, PostFacts
<1>8. FourEyes'
  <2> SUFFICES ASSUME NEW c \in Adjustments, Magnitude(c) > AutoApproveLimit
               PROVE  /\ \A n \in PostingsOf(c)' : trail'[c][n].actor # requestedBy'[c]
                      /\ status'[c] = "posted" => approvedBy'[c] \notin {requestedBy'[c], NoOne}
    BY DEF FourEyes, Magnitude
  <2>1. /\ \A n \in PostingsOf(c) : trail[c][n].actor # requestedBy[c]
        /\ status[c] = "posted" => approvedBy[c] \notin {requestedBy[c], NoOne}
    BY DEF IInv, FourEyes
  <2>2. \A n \in PostingsOf(c)' : trail'[c][n].actor # requestedBy'[c]
    <3>1. CASE c = d
      BY <1>1, <1>2, <1>7, <2>1, <3>1
    <3>2. CASE c # d
      BY <1>2, <1>7, <2>1, <3>2
    <3> QED
      BY <3>1, <3>2
  <2>3. status'[c] = "posted" => approvedBy'[c] \notin {requestedBy'[c], NoOne}
    <3>1. u # NoOne
      BY <1>1, AdjustmentAssumption
    <3> QED
      BY <1>1, <1>2, <2>1, <3>1 DEF IInv, TypeOK
  <2> QED
    BY <2>2, <2>3
<1>9. WaitingIsUnposted'
  BY <1>1, <1>2, <1>7 DEF IInv, TypeOK, WaitingIsUnposted
<1> QED
  BY <1>4, <1>5, <1>6, <1>8, <1>9 DEF IInv

LEMMA RejectSavesInvariant ==
    ASSUME IInv, NEW k \in Workers, RejectSaves(k)
    PROVE  IInv'
<1> USE DEF IInv, RejectSaves
<1>1. job[k] \in Adjustments /\ user[k] \in Staff /\ status[job[k]] # "none"
  BY DEF TypeOK, ReviewersAreApart
<1>2. TypeOK'
  BY <1>1 DEF TypeOK, Statuses
<1>3. ReviewersAreApart'
  BY <1>1 DEF TypeOK, ReviewersAreApart
<1>4. PostingsAreAudited' /\ FourEyes' /\ WaitingIsUnposted'
  BY <1>1 DEF TypeOK, PostingsAreAudited, FourEyes, WaitingIsUnposted, PostingsOf
<1> QED
  BY <1>2, <1>3, <1>4

LEMMA RejectLogsInvariant ==
    ASSUME IInv, NEW k \in Workers, RejectLogs(k)
    PROVE  IInv'
<1> USE DEF IInv, RejectLogs, Respond, rowVars
<1>1. job[k] \in Adjustments /\ user[k] \in Staff /\ LogAction(job[k], "reject", user[k])
  BY DEF TypeOK
<1>2. \A c \in Adjustments :
         /\ PostingsOf(c)' = PostingsOf(c)
         /\ \A n \in PostingsOf(c) : trail'[c][n] = trail[c][n]
  BY <1>1, LogKeepsPostings
<1>3. trail' \in [Adjustments -> Seq(AuditRow)]
  BY <1>1, LogFacts DEF Actions
<1>4. TypeOK'
  BY <1>3 DEF TypeOK, AuditRow
<1>5. ReviewersAreApart'
  BY DEF TypeOK, ReviewersAreApart
<1>6. PostingsAreAudited'
  BY <1>2, SamePostings
<1>7. FourEyes' /\ WaitingIsUnposted'
  BY <1>2 DEF FourEyes, WaitingIsUnposted
<1> QED
  BY <1>4, <1>5, <1>6, <1>7

LEMMA CrashInvariant ==
    ASSUME IInv, NEW k \in Workers, Crash(k)
    PROVE  IInv'
<1> USE DEF IInv, Crash, Respond, rowVars
<1>1. TypeOK' /\ ReviewersAreApart'
  BY DEF TypeOK, ReviewersAreApart
<1>2. PostingsAreAudited' /\ FourEyes' /\ WaitingIsUnposted'
  BY DEF PostingsAreAudited, FourEyes, WaitingIsUnposted, PostingsOf
<1> QED
  BY <1>1, <1>2

LEMMA StutterInvariant ==
    ASSUME IInv, UNCHANGED vars
    PROVE  IInv'
<1> USE DEF IInv, vars, rowVars, workerVars
<1>1. TypeOK'
  BY DEF TypeOK
<1>2. ReviewersAreApart'
  BY DEF ReviewersAreApart
<1>3. PostingsAreAudited' /\ FourEyes' /\ WaitingIsUnposted'
  BY DEF PostingsAreAudited, FourEyes, WaitingIsUnposted, PostingsOf
<1> QED
  BY <1>1, <1>2, <1>3

LEMMA NextInvariant == IInv /\ [Next]_vars => IInv'
<1> SUFFICES ASSUME IInv, [Next]_vars PROVE IInv'
  OBVIOUS
<1>1. CASE \E k \in Workers : WorkerStep(k) \/ Crash(k)
  BY <1>1, ApproveCommitsInvariant, RejectSavesInvariant, RejectLogsInvariant,
     CrashInvariant DEF WorkerStep
<1>2. CASE \E k \in Workers, d \in Adjustments, u \in Staff :
              RequestIsServed(k, d, u) \/ ApproveBegin(k, d, u) \/ RejectBegin(k, d, u)
  BY <1>2, RequestInvariant, ReviewBeginInvariant
<1>3. CASE UNCHANGED vars
  BY <1>3, StutterInvariant
<1> QED
  BY <1>1, <1>2, <1>3 DEF Next

-----------------------------------------------------------------------------
(* Theorems                                                                *)

\* The strengthening is an invariant of the specification.
THEOREM Inductive == Spec => []IInv
<1>1. Init => IInv
  BY InitInvariant
<1>2. IInv /\ [Next]_vars => IInv'
  BY NextInvariant
<1> QED
  BY <1>1, <1>2, PTL DEF Spec

\* Every variable keeps its type, and who approves or rejects is staff.
THEOREM TypeCorrect == Spec => []TypeOK
<1>1. IInv => TypeOK
  BY DEF IInv
<1> QED
  BY <1>1, Inductive, PTL

\* No posting without its audit row, and none of those without its posting,
\* however many approvers and rejecters act at the same time.
THEOREM PostingsLeaveATrail == Spec => []PostingsAreAudited
<1>1. IInv => PostingsAreAudited
  BY DEF IInv
<1> QED
  BY <1>1, Inductive, PTL

\* Whatever the amounts and the limit, a second person posts what is above it.
THEOREM TwoPeople == Spec => []FourEyes
<1>1. IInv => FourEyes
  BY DEF IInv
<1> QED
  BY <1>1, Inductive, PTL

\* An adjustment that waits has moved no money.
THEOREM NothingMovesEarly == Spec => []WaitingIsUnposted
<1>1. IInv => WaitingIsUnposted
  BY DEF IInv
<1> QED
  BY <1>1, Inductive, PTL
==============================================================================
