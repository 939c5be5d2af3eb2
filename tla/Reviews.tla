------------------------------ MODULE Reviews ------------------------------
(***************************************************************************)
(* What customers ask for and staff decide: cards (CardListCreateView and  *)
(* the AdminCard...View), identity documents (KYCDocumentListCreateView,   *)
(* AdminKYCApproveView, AdminKYCRejectView) and loans                      *)
(* (LoanApplicationListCreateView, AdminLoan...View), with the mail that   *)
(* the signals of notifications/signals.py send while a row is saved.      *)
(*                                                                         *)
(* No decision runs in a transaction.  Each reads the row, checks its      *)
(* status, saves some columns, may mail, and then writes other rows, every *)
(* statement committing by itself.  A pc label names the next one:         *)
(*    open, apply, upload, resubmit   create the row a customer asked for  *)
(*    price           loan.approve: read the product's rate                *)
(*    stash           pre_save reads the status the row has by now         *)
(*    save, save_mail save the decision; with a mail to follow             *)
(*    mail            post_save sends the mail, or raises                  *)
(*    user            kyc.*: save the user's kyc_status                    *)
(*    tell, log       the Notification row; the audit row                  *)
(*    patch           save the whole product row                           *)
(*                                                                         *)
(* Of a product only its rate is kept.  A decision has the name it has in  *)
(* the audit log.  A definition right before another of the same           *)
(* parameters, that says less or more than it, is a slip the code does not *)
(* make; no step uses it.                                                  *)
(***************************************************************************)
EXTENDS Naturals

CONSTANTS Rows,         \* cards, documents and loan applications, by id
          Customers,    \* users, each with one account
          OwnerOf,      \* whose row it is
          Rates,        \* annual_interest_rate_bps of the loan product
          Workers,      \* request workers
          NoOne,        \* NULL
          WorkersCrash, \* whether a worker may die within a request
          MaxRequests   \* how many requests arrive: a bound for TLC

ASSUME ReviewAssumption ==
    /\ OwnerOf \in [Rows -> Customers]
    /\ Rates \subseteq Nat \ {0}
    /\ NoOne \notin Rows \cup {"kyc.approve", "kyc.reject", "cut"}
    /\ WorkersCrash \in BOOLEAN
    /\ MaxRequests \in Nat

VARIABLES kind,     \* which table a row is in; never changes
          status,   \* the row's status ("none": no row yet)
          terms,    \* what its approval fixed: the how manieth card was issued,
                    \* or the loan's rate; 0 before
          kyc,      \* User.kyc_status
          rate,     \* the rate in the LoanProduct row
          done,     \* history: <<row, decision>> that were saved
          cleared,  \* history: customers with a document whose approval was saved
          log,      \* the audit rows, each with what its own request had done
          review,   \* history: the last decision saved about a customer's
                    \* documents, or "cut" if its request ended right after
          raced,    \* history: rows about which two requests overlapped
          served,   \* how many requests have arrived
          pc, job, doing, seen, \* a worker's next statement, its row, its
                                \* request, and the rate it has read
          did       \* history: what its request has committed

historyVars == <<done, cleared, log, review, raced, served>>
workerVars  == <<pc, job, doing, seen, did>>
vars == <<kind, status, terms, kyc, rate, historyVars, workerVars>>

Kinds == {"card", "loan", "document"}

-----------------------------------------------------------------------------
(* The decisions: the table each is about, the statuses it accepts, the    *)
(* status it saves, whether a signal mails about it.                       *)

Decision(of, from, to, mails) == [of |-> of, from |-> from, to |-> to, mails |-> mails]

Decisions == {"card.approve", "card.reject", "card.block", "card.reactivate",
              "loan.approve", "loan.reject", "kyc.approve", "kyc.reject"}

Uploaded == {"pending", "approved", "rejected"}

\* AdminLoanApproveView and AdminLoanRejectView find no other application.
EveryApplication == {"submitted", "approved", "rejected"}
OpenApplication == {"submitted"}

Rule(d) ==
    CASE d = "card.approve"    -> Decision("card", {"pending"}, "active", FALSE)
      [] d = "card.reject"     -> Decision("card", {"pending"}, "rejected", TRUE)
      [] d = "card.block"      -> Decision("card", {"active"}, "blocked", TRUE)
      [] d = "card.reactivate" -> Decision("card", {"blocked"}, "active", FALSE)
      [] d = "loan.approve"    -> Decision("loan", OpenApplication, "approved", FALSE)
      [] d = "loan.reject"     -> Decision("loan", OpenApplication, "rejected", TRUE)
      [] d = "kyc.approve"     -> Decision("document", Uploaded, "approved", TRUE)
      [] d = "kyc.reject"      -> Decision("document", Uploaded, "rejected", TRUE)

-----------------------------------------------------------------------------
\* Customers who were verified earlier have had a document approved.
Init ==
    /\ kind   \in [Rows -> Kinds]
    /\ status = [r \in Rows |-> "none"]
    /\ terms  = [r \in Rows |-> 0]
    /\ kyc    \in [Customers -> {"unverified", "verified"}]
    /\ rate   \in Rates
    /\ done   = {}
    /\ cleared = {c \in Customers : kyc[c] = "verified"}
    /\ log    = {}
    /\ review = [c \in Customers |-> IF kyc[c] = "verified" THEN "kyc.approve" ELSE NoOne]
    /\ raced  = {}
    /\ served = 0
    /\ pc    = [k \in Workers |-> "idle"]
    /\ job   = [k \in Workers |-> NoOne]
    /\ doing = [k \in Workers |-> NoOne]
    /\ seen  = [k \in Workers |-> 0]
    /\ did   = [k \in Workers |-> {}]

Goto(k, label) == pc' = [pc EXCEPT ![k] = label]

Respond(k) ==
    /\ pc'    = [pc EXCEPT ![k] = "idle"]
    /\ job'   = [job EXCEPT ![k] = NoOne]
    /\ doing' = [doing EXCEPT ![k] = NoOne]
    /\ seen'  = [seen EXCEPT ![k] = 0]
    /\ did'   = [did EXCEPT ![k] = {}]

\* The rows that requests about r read or write: the documents of a customer
\* share the kyc_status, the cards of an account are counted together.
Subject(r) ==
    IF kind[r] = "loan" THEN {r}
    ELSE {s \in Rows : kind[s] = kind[r] /\ OwnerOf[s] = OwnerOf[r]}

Busy(k, r) == pc[k] # "idle" /\ job[k] \in Subject(r)

\* A request arrives at an idle worker, which goes on at label.
Arrives(k, d, label) ==
    /\ pc[k] = "idle"
    /\ served < MaxRequests
    /\ served' = served + 1
    /\ Goto(k, label)
    /\ doing' = [doing EXCEPT ![k] = d]

\* A request d about r.
Serve(k, r, d, label) ==
    /\ Arrives(k, d, label)
    /\ job'   = [job EXCEPT ![k] = r]
    /\ raced' = IF \E j \in Workers : Busy(j, r) THEN raced \cup Subject(r) ELSE raced
    /\ UNCHANGED <<kind, status, terms, kyc, rate, done, cleared, log, review, seen, did>>

Record(k, stage) == did' = [did EXCEPT ![k] = @ \cup {stage}]

\* The row is inserted, with its first status.
Insert(r) ==
    status' = [status EXCEPT ![r] = IF kind[r] = "loan" THEN "submitted" ELSE "pending"]

-----------------------------------------------------------------------------
(* What customers ask for                                                  *)

\* An id that no row has and no request is about to insert.
Fresh(r) == status[r] = "none" /\ \A k \in Workers : job[k] # r

OpenCards(r) == {s \in Subject(r) : status[s] \in {"pending", "active"}}

NoPendingCard(r) == \A s \in Subject(r) : status[s] # "pending"
NoOpenCard(r) == OpenCards(r) = {}

\* CardListCreateView.post: the check, then the row.
CardRequestBegin(k, r) ==
    /\ kind[r] = "card" /\ Fresh(r)
    /\ NoOpenCard(r)
    /\ Serve(k, r, "card.request", "open")

\* LoanApplicationListCreateView.post: can_transact as it was when the user
\* was loaded.  The product is found, active, and its limits allow it.
LoanApplyBegin(k, r) ==
    /\ kind[r] = "loan" /\ Fresh(r)
    /\ kyc[OwnerOf[r]] = "verified"
    /\ Serve(k, r, "loan.apply", "apply")

RequestCreates(k) ==
    /\ pc[k] \in {"open", "apply"}
    /\ Insert(job[k])
    /\ Goto(k, "tell")
    /\ UNCHANGED <<kind, terms, kyc, rate, historyVars, job, doing, seen, did>>

\* KYCDocumentListCreateView.post: what to do with kyc_status is decided by
\* the value that was loaded with the user.
RequeuesAnyone(c) == TRUE
Requeues(c) == kyc[c] \in {"unverified", "rejected"}

UploadBegin(k, r) ==
    /\ kind[r] = "document" /\ Fresh(r)
    /\ Serve(k, r, "kyc.upload", IF Requeues(OwnerOf[r]) THEN "resubmit" ELSE "upload")

\* One transaction, the mail within: if it raises, everything is rolled back.
UploadCommits(k) ==
    LET r == job[k] IN
    /\ pc[k] \in {"upload", "resubmit"}
    /\ Insert(r)
    /\ kyc' = IF pc[k] = "resubmit" THEN [kyc EXCEPT ![OwnerOf[r]] = "pending"] ELSE kyc
    /\ Respond(k)
    /\ UNCHANGED <<kind, terms, rate, historyVars>>

UploadRollsBack(k) ==
    /\ pc[k] \in {"upload", "resubmit"}
    /\ Respond(k)
    /\ UNCHANGED <<kind, status, terms, kyc, rate, historyVars>>

-----------------------------------------------------------------------------
(* What staff decide                                                       *)

\* The first statement after the checks.
FirstLabel(d) ==
    CASE d = "loan.approve" -> "price"
      [] Rule(d).mails -> "stash"
      [] OTHER -> "save"

\* get_object_or_404 with the status, or the check after it.
DecideBegin(k, r, d) ==
    /\ kind[r] = Rule(d).of
    /\ status[r] \in Rule(d).from
    /\ Serve(k, r, d, FirstLabel(d))

\* application.product: a query of its own.
LoanIsPriced(k) ==
    /\ pc[k] = "price"
    /\ seen' = [seen EXCEPT ![k] = rate]
    /\ Goto(k, "save")
    /\ UNCHANGED <<kind, status, terms, kyc, rate, historyVars, job, doing, did>>

\* stash_previous_..._status: the mail is about a change of the status.
StatusIsStashed(k) ==
    /\ pc[k] = "stash"
    /\ Goto(k, IF status[job[k]] = Rule(doing[k]).to THEN "save" ELSE "save_mail")
    /\ UNCHANGED <<kind, status, terms, kyc, rate, historyVars, job, doing, seen, did>>

\* What comes after the save and its mail.
TellsFirst(d) == IF d = "card.reactivate" THEN "log" ELSE "tell"
Afterwards(d) ==
    CASE Rule(d).of = "document" -> "user"
      [] d = "card.reactivate"   -> "log"
      [] OTHER                   -> "tell"

\* What the save fixes: generate_card_details(), the rate that was read.
NullTerms(k) == NoOne
SameTerms(k) == terms[job[k]]
NewTerms(k) ==
    CASE doing[k] = "card.approve" -> terms[job[k]] + 1
      [] doing[k] = "loan.approve" -> seen[k]
      [] OTHER                     -> terms[job[k]]

\* save(update_fields=[...]): the status is saved whatever it is by now.
DecisionIsSaved(k) ==
    LET r == job[k] IN
    /\ pc[k] \in {"save", "save_mail"}
    /\ status' = [status EXCEPT ![r] = Rule(doing[k]).to]
    /\ terms' = [terms EXCEPT ![r] = NewTerms(k)]
    /\ Goto(k, IF pc[k] = "save_mail" THEN "mail" ELSE Afterwards(doing[k]))
    /\ Record(k, "saved")
    /\ done' = done \cup {<<r, doing[k]>>}
    /\ cleared' = IF doing[k] = "kyc.approve" THEN cleared \cup {OwnerOf[r]} ELSE cleared
    /\ review' = IF kind[r] = "document" THEN [review EXCEPT ![OwnerOf[r]] = doing[k]] ELSE review
    /\ UNCHANGED <<kind, kyc, rate, log, raced, served, job, doing, seen>>

MailIsSent(k) ==
    /\ pc[k] = "mail"
    /\ Goto(k, Afterwards(doing[k]))
    /\ UNCHANGED <<kind, status, terms, kyc, rate, historyVars, job, doing, seen, did>>

\* The request ends here; for a document, kyc_status does not follow.
EndsEarly(k) ==
    /\ Respond(k)
    /\ review' = IF pc[k] \in {"mail", "user"} /\ kind[job[k]] = "document"
                 THEN [review EXCEPT ![OwnerOf[job[k]]] = "cut"] ELSE review
    /\ UNCHANGED <<kind, status, terms, kyc, rate, done, cleared, log, raced, served>>

\* send() raises within post_save: the save stays, the client sees a 500.
MailFails(k) ==
    /\ pc[k] = "mail"
    /\ EndsEarly(k)

\* user.save(update_fields=["kyc_status"]).
Outcome(d) == IF d = "kyc.approve" THEN "verified" ELSE "rejected"

UserIsSaved(k) ==
    /\ pc[k] = "user"
    /\ kyc' = [kyc EXCEPT ![OwnerOf[job[k]]] = Outcome(doing[k])]
    /\ Goto(k, "tell")
    /\ Record(k, "user")
    /\ UNCHANGED <<kind, status, terms, rate, historyVars, job, doing, seen>>

\* Notification.objects.create; a customer's request ends with it.
CustomerIsTold(k) ==
    /\ pc[k] = "tell"
    /\ IF doing[k] \in Decisions
       THEN Goto(k, "log") /\ Record(k, "told") /\ UNCHANGED <<job, doing, seen>>
       ELSE Respond(k)
    /\ UNCHANGED <<kind, status, terms, kyc, rate, historyVars>>

\* log_action(request, doing[k], ...).
DecisionIsLogged(k) ==
    /\ pc[k] = "log"
    /\ log' = log \cup {[row |-> job[k], action |-> doing[k], after |-> did[k]]}
    /\ Respond(k)
    /\ UNCHANGED <<kind, status, terms, kyc, rate, done, cleared, review, raced, served>>

-----------------------------------------------------------------------------
(* AdminLoanProductDetailView.patch: the row is read, and saved as a whole. *)

PatchBegin(k, d) ==
    /\ Arrives(k, d, "patch")
    /\ seen' = [seen EXCEPT ![k] = rate]
    /\ UNCHANGED <<kind, status, terms, kyc, rate, done, cleared, log, review, raced, job, did>>

ProductIsSaved(k) ==
    /\ pc[k] = "patch"
    /\ IF doing[k] = "patch.rate" THEN rate' \in Rates ELSE rate' = seen[k]
    /\ Respond(k)
    /\ UNCHANGED <<kind, status, terms, kyc, historyVars>>

-----------------------------------------------------------------------------
\* The worker is killed: what it committed stays.
Crash(k) ==
    /\ WorkersCrash
    /\ pc[k] # "idle"
    /\ EndsEarly(k)

WorkerStep(k) ==
    \/ RequestCreates(k) \/ UploadCommits(k) \/ UploadRollsBack(k)
    \/ LoanIsPriced(k) \/ StatusIsStashed(k) \/ DecisionIsSaved(k)
    \/ MailIsSent(k) \/ MailFails(k) \/ UserIsSaved(k)
    \/ CustomerIsTold(k) \/ DecisionIsLogged(k) \/ ProductIsSaved(k)

Next ==
    \/ \E k \in Workers : WorkerStep(k) \/ Crash(k)
    \/ \E k \in Workers, r \in Rows :
          \/ CardRequestBegin(k, r) \/ LoanApplyBegin(k, r) \/ UploadBegin(k, r)
          \/ \E d \in Decisions : DecideBegin(k, r, d)
    \/ \E k \in Workers, d \in {"patch.rate", "patch.other"} : PatchBegin(k, d)

Spec == Init /\ [][Next]_vars

-----------------------------------------------------------------------------
(* Properties                                                              *)

Statuses == {"none", "pending", "active", "blocked", "submitted", "approved", "rejected"}
Requests == Decisions \cup {"card.request", "loan.apply", "kyc.upload"}
Labels   == {"idle", "open", "apply", "upload", "resubmit", "price", "stash", "save",
             "save_mail", "mail", "user", "tell", "log", "patch"}
Stages   == {"saved", "user", "told"}

\* Every variable keeps its type, and a worker within a request about a row
\* has its row and its request.
TypeOK ==
    /\ kind \in [Rows -> Kinds]
    /\ status \in [Rows -> Statuses]
    /\ terms \in [Rows -> Nat]
    /\ kyc \in [Customers -> {"unverified", "pending", "verified", "rejected"}]
    /\ rate \in Rates
    /\ done \subseteq Rows \X Decisions
    /\ cleared \subseteq Customers
    /\ log \subseteq [row : Rows, action : Decisions, after : SUBSET Stages]
    /\ review \in [Customers -> {"kyc.approve", "kyc.reject", "cut", NoOne}]
    /\ raced \subseteq Rows
    /\ served \in 0 .. MaxRequests
    /\ pc \in [Workers -> Labels]
    /\ job \in [Workers -> Rows \cup {NoOne}]
    /\ doing \in [Workers -> Requests \cup {"patch.rate", "patch.other", NoOne}]
    /\ seen \in [Workers -> Nat]
    /\ did \in [Workers -> SUBSET Stages]
    /\ \A k \in Workers : pc[k] \notin {"idle", "patch"} => job[k] \in Rows /\ doing[k] \in Requests

\* A row shown as decided has what its decision fixes, and nothing is fixed
\* before: an active or blocked card has been issued, an approved loan has its
\* rate, also when requests about the row overlap and overwrite its status.
DecisionsAreWhole ==
    \A r \in Rows :
        /\ status[r] \in {"active", "blocked"} => terms[r] # 0
        /\ kind[r] = "loan" /\ status[r] = "approved" => terms[r] \in Rates
        /\ status[r] \in {"none", "pending", "submitted"} => terms[r] = 0

\* The audit log tells what happened: the very request that wrote a row of it
\* has saved the decision, with the user's kyc_status if it was about a
\* document, and told the customer, whichever statement before may fail and
\* however often the decision was taken before.  No customer is told of a
\* review whose kyc_status was not saved, and nobody is verified who never
\* had an approval.
LogIsTrue ==
    /\ \A e \in log :
          /\ "saved" \in e.after
          /\ e.action # "card.reactivate" => "told" \in e.after
          /\ Rule(e.action).of = "document" => "user" \in e.after
    /\ \A k \in Workers :
          "told" \in did[k] /\ Rule(doing[k]).of = "document" => "user" \in did[k]
    /\ \A c \in Customers : kyc[c] = "verified" => c \in cleared

RacedCustomer(c) == \E r \in raced : kind[r] = "document" /\ OwnerOf[r] = c
AtRest(c) == \A k \in Workers :
    pc[k] # "idle" /\ job[k] \in Rows /\ kind[job[k]] = "document" => OwnerOf[job[k]] # c

\* Between requests a customer is verified exactly if the last review of one
\* of their documents was an approval, whatever they upload meanwhile ("An
\* already-verified user isn't bumped back to pending").  A review that was
\* cut short leaves this open until the next one, and so do reviews and
\* uploads that overlapped.
KycFollowsReviews ==
    \A c \in Customers : AtRest(c) /\ ~RacedCustomer(c) /\ review[c] # "cut" =>
        (kyc[c] = "verified" <=> review[c] = "kyc.approve")

Final(r) == kind[r] # "document" /\ status[r] \in {"approved", "rejected"}

\* "later rate changes never rewrite an already-decided application", and a
\* card is issued once: unless two requests about a row overlap, a final
\* status stays, and what an approval fixed stays.
DecidedIsFinal ==
    [][\A r \in Rows \ raced' :
          /\ Final(r) => status'[r] = status[r]
          /\ terms[r] # 0 => terms'[r] = terms[r]]_vars

\* "This account already has a card that's active or under review": no second
\* one is opened by a request, unless two requests overlapped; only a blocked
\* card that is reactivated can be the second.
OneOpenCard ==
    \A r \in Rows \ raced : kind[r] = "card" =>
        \A s, t \in OpenCards(r) :
            s = t \/ \E u \in {s, t} : <<u, "card.reactivate">> \in done
=============================================================================
