--------------------------- MODULE ReviewsProofs ---------------------------
(***************************************************************************)
(* Proofs about Reviews, for every set of rows, customers, rates and       *)
(* workers, any number of requests, with crashes or without.               *)
(*                                                                         *)
(* The argument: a row that no two requests overlapped about is handled by *)
(* one request at a time (OverlapsAreKnown, CreatorsAreAlone), so what the *)
(* request has checked still holds when it saves (ChecksStillHold), and    *)
(* what it saved is what the ones after it find (ClosersHaveDone,          *)
(* KycIsInStep).  Whatever overlaps, a decision saves its status together  *)
(* with its terms (DecisionsAreWhole).                                     *)
(***************************************************************************)
EXTENDS Reviews, TLAPS

-----------------------------------------------------------------------------
(* The inductive invariant                                                 *)

Creating == {"open", "apply", "upload", "resubmit"}
Deciding == {"price", "stash", "save", "save_mail"}
Closing  == {"mail", "user", "tell", "log"}
InRequest == Creating \cup Deciding \cup Closing

\* A worker's label fits its request, and its request fits its row.
WorkersFit ==
    \A k \in Workers :
        /\ pc[k] \in Creating => doing[k] \notin Decisions
        /\ pc[k] = "open" => kind[job[k]] = "card"
        /\ pc[k] = "apply" => kind[job[k]] = "loan"
        /\ pc[k] \in {"upload", "resubmit"} => kind[job[k]] = "document"
        /\ pc[k] \in (Deciding \cup Closing) \ {"tell"} => doing[k] \in Decisions
        /\ pc[k] \in InRequest /\ doing[k] \in Decisions => kind[job[k]] = Rule(doing[k]).of
        /\ pc[k] = "user" => kind[job[k]] = "document"
        /\ pc[k] = "stash" => doing[k] # "loan.approve"
        /\ pc[k] \in {"save", "save_mail"} /\ doing[k] = "loan.approve" => seen[k] \in Rates
        /\ pc[k] = "patch" => seen[k] \in Rates

\* Whoever inserts a row is the only one to deal with it.
CreatorsAreAlone ==
    \A k \in Workers : pc[k] \in Creating =>
        /\ status[job[k]] = "none" /\ terms[job[k]] = 0
        /\ \A j \in Workers : j # k => job[j] # job[k]

\* A card that is blocked or reactivated has been issued.
DecidersKnow ==
    \A k \in Workers : pc[k] \in Deciding /\ doing[k] \in {"card.block", "card.reactivate"} =>
        terms[job[k]] # 0

\* A worker past the save of a decision knows what it has done, and one that
\* has saved nothing yet has done nothing.
ClosersHaveDone ==
    \A k \in Workers :
        /\ pc[k] \notin Closing => did[k] = {}
        /\ pc[k] \in Closing /\ doing[k] \in Decisions =>
              /\ "saved" \in did[k]
              /\ pc[k] \in {"tell", "log"} /\ kind[job[k]] = "document" => "user" \in did[k]
              /\ pc[k] = "log" /\ doing[k] # "card.reactivate" => "told" \in did[k]
              /\ pc[k] \in {"mail", "user"} /\ doing[k] = "kyc.approve" => OwnerOf[job[k]] \in cleared

\* Requests that overlap are known as such, with everything they touch.
OverlapsAreKnown ==
    /\ \A r \in raced : Subject(r) \subseteq raced
    /\ \A j, k \in Workers :
          j # k /\ pc[j] \in InRequest /\ pc[k] \in InRequest /\ job[j] \in Subject(job[k])
              => job[j] \in raced

\* What an undisturbed request has checked is still so.
ChecksStillHold ==
    \A k \in Workers : job[k] \notin raced =>
        /\ pc[k] \in Deciding => status[job[k]] \in Rule(doing[k]).from
        /\ pc[k] = "open" => OpenCards(job[k]) = {}

\* What an undisturbed request knows of the customer.
KycIsInStep ==
    /\ \A k \in Workers : pc[k] \in InRequest /\ job[k] \notin raced =>
          /\ pc[k] \in {"mail", "user"} /\ kind[job[k]] = "document" => review[OwnerOf[job[k]]] = doing[k]
          /\ pc[k] = "resubmit" => kyc[OwnerOf[job[k]]] # "verified"
    /\ \A c \in Customers :
          \/ RacedCustomer(c)
          \/ review[c] = "cut"
          \/ \E k \in Workers : /\ pc[k] \in {"mail", "user"}
                                /\ kind[job[k]] = "document" /\ OwnerOf[job[k]] = c
          \/ kyc[c] = "verified" <=> review[c] = "kyc.approve"

IInv ==
    /\ TypeOK
    /\ WorkersFit
    /\ CreatorsAreAlone
    /\ DecidersKnow
    /\ DecisionsAreWhole
    /\ ClosersHaveDone
    /\ LogIsTrue
    /\ OverlapsAreKnown
    /\ ChecksStillHold
    /\ OneOpenCard
    /\ KycIsInStep

-----------------------------------------------------------------------------
(* What the tables of decisions say                                        *)

\* What every decision is about, accepts and saves.
LEMMA RuleFacts ==
    \A d \in Decisions :
        /\ Rule(d).of \in Kinds
        /\ Rule(d).from \subseteq Statuses \ {"none"}
        /\ Rule(d).to \in {"active", "blocked", "approved", "rejected"}
        /\ Rule(d).of = "document" => d \in {"kyc.approve", "kyc.reject"}
        /\ Rule(d).of # "document" => "approved" \notin Rule(d).from /\ "rejected" \notin Rule(d).from
        /\ Rule(d).of = "loan" /\ Rule(d).to = "approved" => d = "loan.approve"
        /\ Rule(d).to \in {"active", "blocked"} => d \in {"card.approve", "card.block", "card.reactivate"}
<1>1. /\ Rule("card.approve") = Decision("card", {"pending"}, "active", FALSE)
      /\ Rule("card.reject") = Decision("card", {"pending"}, "rejected", TRUE)
      /\ Rule("card.block") = Decision("card", {"active"}, "blocked", TRUE)
      /\ Rule("card.reactivate") = Decision("card", {"blocked"}, "active", FALSE)
  BY DEF Rule
<1>2. /\ Rule("loan.approve") = Decision("loan", {"submitted"}, "approved", FALSE)
      /\ Rule("loan.reject") = Decision("loan", {"submitted"}, "rejected", TRUE)
      /\ Rule("kyc.approve") = Decision("document", Uploaded, "approved", TRUE)
      /\ Rule("kyc.reject") = Decision("document", Uploaded, "rejected", TRUE)
  BY DEF Rule, OpenApplication
<1> QED
  BY <1>1, <1>2 DEF Decisions, Decision, Kinds, Statuses, Uploaded

\* The decisions that tell cards apart.
LEMMA CardRules ==
    /\ Rule("card.approve").of = "card" /\ Rule("card.approve").from = {"pending"}
    /\ Rule("card.block").of = "card" /\ Rule("card.block").from = {"active"}
    /\ Rule("card.reactivate").of = "card" /\ Rule("card.reactivate").from = {"blocked"}
BY DEF Decisions, Rule, Decision

\* What is particular to the approval of a loan: it mails nothing.
LEMMA LoanRules ==
    /\ Rule("loan.approve").of = "loan" /\ Rule("loan.approve").from = {"submitted"}
    /\ ~Rule("loan.approve").mails
BY DEF Decisions, Rule, Decision, OpenApplication

\* Where a decision begins, and where it goes on after its save.
LEMMA LabelFacts ==
    \A d \in Decisions :
        /\ FirstLabel(d) \in {"price", "stash", "save"}
        /\ d = "loan.approve" => FirstLabel(d) = "price"
        /\ Afterwards(d) \in {"user", "tell", "log"}
        /\ Rule(d).of = "document" <=> Afterwards(d) = "user"
        /\ d = "card.reactivate" <=> Afterwards(d) = "log"
<1> SUFFICES ASSUME NEW d \in Decisions
             PROVE  /\ FirstLabel(d) \in {"price", "stash", "save"}
                    /\ d = "loan.approve" => FirstLabel(d) = "price"
                    /\ Afterwards(d) \in {"user", "tell", "log"}
                    /\ Rule(d).of = "document" <=> Afterwards(d) = "user"
                    /\ d = "card.reactivate" <=> Afterwards(d) = "log"
  OBVIOUS
<1>1. d = "loan.approve" => FirstLabel(d) = "price"
  <2> SUFFICES ASSUME d = "loan.approve", ~Rule(d).mails PROVE FirstLabel(d) = "price"
    BY LoanRules
  <2> QED
    BY DEF FirstLabel
<1>3. d # "loan.approve" => FirstLabel(d) \in {"stash", "save"}
  <2>1. CASE Rule(d).mails
    BY <2>1 DEF FirstLabel
  <2>2. CASE ~Rule(d).mails
    BY <2>2 DEF FirstLabel
  <2> QED
    BY <2>1, <2>2
<1>2. d = "card.reactivate" => Rule(d).of = "card"
  BY CardRules
<1> QED
  BY <1>1, <1>2, <1>3 DEF Afterwards

\* Subjects are the classes of an equivalence.
LEMMA SubjectFacts ==
    ASSUME NEW r \in Rows
    PROVE  /\ r \in Subject(r) /\ Subject(r) \subseteq Rows
           /\ \A s \in Subject(r) : Subject(s) = Subject(r) /\ kind[s] = kind[r]
           /\ \A s \in Rows : r \in Subject(s) => s \in Subject(r)
<1>1. CASE kind[r] = "loan"
  BY <1>1 DEF Subject
<1>2. CASE kind[r] # "loan"
  BY <1>2 DEF Subject
<1> QED
  BY <1>1, <1>2

-----------------------------------------------------------------------------
(* The invariant holds initially                                           *)

\* Before the first request the invariant holds.
LEMMA InitInvariant == Init => IInv
<1> SUFFICES ASSUME Init PROVE IInv
  OBVIOUS
<1> USE DEF Init
<1>1. TypeOK
  <2>1. rate \in Rates /\ kind \in [Rows -> Kinds] /\ kyc \in [Customers -> {"unverified", "pending", "verified", "rejected"}]
    OBVIOUS
  <2>2. review \in [Customers -> {"kyc.approve", "kyc.reject", "cut", NoOne}]
    OBVIOUS
  <2> QED
    BY <2>1, <2>2, ReviewAssumption DEF TypeOK, Statuses, Labels
<1>2. WorkersFit /\ CreatorsAreAlone /\ DecidersKnow /\ ClosersHaveDone
  BY DEF WorkersFit, CreatorsAreAlone, DecidersKnow, ClosersHaveDone, Creating, Deciding, Closing, InRequest
<1>3. DecisionsAreWhole /\ LogIsTrue
  BY DEF DecisionsAreWhole, LogIsTrue
<1>4. OverlapsAreKnown /\ ChecksStillHold
  BY DEF OverlapsAreKnown, ChecksStillHold, Creating, Deciding, Closing, InRequest
<1>5. OneOpenCard
  <2>1. \A r \in Rows : OpenCards(r) = {}
    <3> TAKE r \in Rows
    <3>1. Subject(r) \subseteq Rows
      BY SubjectFacts
    <3> QED
      BY <3>1 DEF OpenCards
  <2> QED
    BY <2>1 DEF OneOpenCard
<1>6. KycIsInStep
  <2>1. \A c \in Customers : kyc[c] = "verified" <=> review[c] = "kyc.approve"
    BY ReviewAssumption
  <2> QED
    BY <2>1 DEF KycIsInStep, Creating, Deciding, Closing, InRequest
<1> QED
  BY <1>1, <1>2, <1>3, <1>4, <1>5, <1>6 DEF IInv

-----------------------------------------------------------------------------
(* What was logged stays true                                              *)

\* As long as no kyc_status is saved, no row is logged and nobody is told.
LEMMA LogStays ==
    ASSUME IInv, log' = log, kyc' = kyc, cleared \subseteq cleared',
           \A j \in Workers : \/ did'[j] = did[j] /\ doing'[j] = doing[j]
                              \/ "told" \notin did'[j]
    PROVE  LogIsTrue'
BY DEF IInv, LogIsTrue

-----------------------------------------------------------------------------
(* A request arrives                                                       *)

\* A request about a row arrives, having just made its checks.
LEMMA ServeKeeps ==
    ASSUME IInv, NEW k \in Workers, NEW r \in Rows, NEW d \in Requests,
           NEW label \in Creating \cup Deciding,
           Serve(k, r, d, label),
           label \in Creating => d \notin Decisions /\ Fresh(r) /\ terms[r] = 0,
           label = "open" => kind[r] = "card" /\ NoOpenCard(r),
           label = "apply" => kind[r] = "loan",
           label \in {"upload", "resubmit"} => kind[r] = "document",
           label = "resubmit" => kyc[OwnerOf[r]] # "verified",
           label \in Deciding => /\ d \in Decisions
                                 /\ kind[r] = Rule(d).of
                                 /\ status[r] \in Rule(d).from
                                 /\ d = "loan.approve" => label = "price"
    PROVE  IInv'
<1>1. /\ pc[k] = "idle"
      /\ pc' = [pc EXCEPT ![k] = label]
      /\ job' = [job EXCEPT ![k] = r]
      /\ doing' = [doing EXCEPT ![k] = d]
      /\ served' = served + 1 /\ served < MaxRequests
      /\ kind' = kind /\ status' = status /\ terms' = terms /\ kyc' = kyc
      /\ rate' = rate /\ done' = done /\ cleared' = cleared /\ log' = log
      /\ review' = review /\ seen' = seen /\ did' = did
  BY DEF Serve, Arrives, Goto
<1>2. raced' = IF \E j \in Workers : Busy(j, r) THEN raced \cup Subject(r) ELSE raced
  BY DEF Serve
<1>3. TypeOK
  BY DEF IInv
<1>4. /\ pc'[k] = label /\ job'[k] = r /\ doing'[k] = d /\ seen'[k] = seen[k]
      /\ \A j \in Workers : j # k =>
            pc'[j] = pc[j] /\ job'[j] = job[j] /\ doing'[j] = doing[j] /\ seen'[j] = seen[j]
  BY <1>1, <1>3 DEF TypeOK
<1>5. raced \subseteq raced' /\ raced' \subseteq Rows
  BY <1>2, <1>3, SubjectFacts DEF TypeOK
<1>6. /\ \A s : Subject(s)' = Subject(s)
      /\ \A s : OpenCards(s)' = OpenCards(s)
  BY <1>1 DEF Subject, OpenCards
<1>7. TypeOK'
  <2>1. served' \in 0 .. MaxRequests
    BY <1>1, <1>3, ReviewAssumption DEF TypeOK
  <2>2. pc' \in [Workers -> Labels] /\ job' \in [Workers -> Rows \cup {NoOne}]
    BY <1>1, <1>3 DEF TypeOK, Labels, Creating, Deciding
  <2>3. doing' \in [Workers -> Requests \cup {"patch.rate", "patch.other", NoOne}]
    BY <1>1, <1>3 DEF TypeOK
  <2>4. \A j \in Workers : pc'[j] \notin {"idle", "patch"} => job'[j] \in Rows /\ doing'[j] \in Requests
    BY <1>3, <1>4 DEF TypeOK
  <2> QED
    BY <1>1, <1>3, <1>5, <2>1, <2>2, <2>3, <2>4 DEF TypeOK
<1>8. WorkersFit'
  BY <1>1, <1>4 DEF IInv, WorkersFit, Creating, Deciding, Closing, InRequest
<1>9. CreatorsAreAlone'
  <2>1. label \in Creating => status[r] = "none" /\ terms[r] = 0 /\ \A j \in Workers : job[j] # r
    BY DEF Fresh
  <2>2. label \in Deciding => status[r] # "none"
    BY RuleFacts
  <2>3. CreatorsAreAlone
    BY DEF IInv
  <2>4. ASSUME NEW j \in Workers, pc'[j] \in Creating
        PROVE  /\ status[job'[j]] = "none" /\ terms[job'[j]] = 0
               /\ \A i \in Workers : i # j => job'[i] # job'[j]
    BY <1>4, <2>1, <2>2, <2>3, <2>4 DEF CreatorsAreAlone
  <2> QED
    BY <1>1, <2>4 DEF CreatorsAreAlone
<1>10. DecidersKnow'
  <2>1. label \in Deciding /\ d \in {"card.block", "card.reactivate"} => terms[r] # 0
    BY CardRules DEF IInv, DecisionsAreWhole
  <2> QED
    BY <1>1, <1>4, <2>1 DEF IInv, DecidersKnow
<1>11. DecisionsAreWhole' /\ LogIsTrue'
  <2>1. "told" \notin did[k]
    BY <1>1 DEF IInv, ClosersHaveDone, Closing
  <2> QED
    BY <1>1, <1>4, <2>1, LogStays DEF IInv, DecisionsAreWhole
<1>12. ClosersHaveDone'
  BY <1>1, <1>4, <1>6 DEF IInv, ClosersHaveDone, Closing, Creating, Deciding
<1>13. OverlapsAreKnown'
  <2>1. \A s \in raced' : Subject(s) \subseteq raced'
    BY <1>2, SubjectFacts DEF IInv, OverlapsAreKnown
  <2>2. ASSUME NEW i \in Workers, NEW j \in Workers, i # j,
               pc'[i] \in InRequest, pc'[j] \in InRequest, job'[i] \in Subject(job'[j])
        PROVE  job'[i] \in raced'
    <3>1. ASSUME NEW h \in Workers, h # k, pc[h] \in InRequest, job[h] \in Subject(r)
          PROVE  r \in raced' /\ job[h] \in raced'
      <4>1. Busy(h, r)
        BY <3>1 DEF Busy, InRequest, Creating, Deciding, Closing
      <4> QED
        BY <1>2, <3>1, <4>1, SubjectFacts
    <3>2. CASE i = k
      <4>1. pc[j] \in InRequest /\ job[j] \in Rows /\ r \in Subject(job[j])
        BY <1>3, <1>4, <2>2, <3>2 DEF TypeOK, InRequest, Creating, Deciding, Closing
      <4>2. job[j] \in Subject(r)
        BY <4>1, SubjectFacts
      <4> QED
        BY <1>4, <2>2, <3>1, <3>2, <4>1, <4>2
    <3>3. CASE j = k
      BY <1>4, <2>2, <3>1, <3>3
    <3>4. CASE i # k /\ j # k
      BY <1>4, <1>5, <2>2, <3>4 DEF IInv, OverlapsAreKnown
    <3> QED
      BY <3>2, <3>3, <3>4
  <2> QED
    BY <1>6, <2>1, <2>2 DEF OverlapsAreKnown
<1>14. ChecksStillHold'
  BY <1>1, <1>4, <1>5, <1>6 DEF IInv, ChecksStillHold, NoOpenCard, Creating, Deciding
<1>15. OneOpenCard'
  BY <1>1, <1>5, <1>6 DEF IInv, OneOpenCard
<1>16. KycIsInStep'
  <2>1. \A c \in Customers : RacedCustomer(c) => RacedCustomer(c)'
    BY <1>1, <1>5 DEF RacedCustomer
  <2>2. label \notin {"mail", "user"}
    BY DEF Creating, Deciding
  <2>3. ASSUME NEW j \in Workers, pc'[j] \in InRequest, job'[j] \notin raced'
        PROVE  /\ pc'[j] \in {"mail", "user"} /\ kind[job'[j]] = "document"
                     => review[OwnerOf[job'[j]]] = doing'[j]
               /\ pc'[j] = "resubmit" => kyc[OwnerOf[job'[j]]] # "verified"
    BY <1>4, <1>5, <2>2, <2>3 DEF IInv, KycIsInStep
  <2>4. ASSUME NEW c \in Customers, NEW j \in Workers, pc[j] \in {"mail", "user"},
               kind[job[j]] = "document", OwnerOf[job[j]] = c
        PROVE  pc'[j] \in {"mail", "user"} /\ kind[job'[j]] = "document" /\ OwnerOf[job'[j]] = c
    BY <1>1, <1>4, <2>4
  <2> QED
    BY <1>1, <2>1, <2>3, <2>4 DEF IInv, KycIsInStep
<1> QED
  BY <1>7, <1>8, <1>9, <1>10, <1>11, <1>12, <1>13, <1>14, <1>15, <1>16 DEF IInv

-----------------------------------------------------------------------------
(* A worker goes on, or its request ends                                   *)

\* Reading the rate, stashing the status and mailing write no row.
LEMMA MovesOn ==
    ASSUME IInv, NEW k \in Workers, NEW label,
           pc[k] \in {"price", "stash", "mail"},
           Goto(k, label),
           UNCHANGED <<kind, status, terms, kyc, rate, historyVars, job, doing, did>>,
           seen' \in [Workers -> Nat],
           \A j \in Workers : j # k => seen'[j] = seen[j],
           pc[k] = "price" => label = "save" /\ seen'[k] \in Rates,
           pc[k] = "stash" => label \in {"save", "save_mail"},
           pc[k] = "mail" => label = Afterwards(doing[k])
    PROVE  IInv'
<1>1. /\ pc' = [pc EXCEPT ![k] = label]
      /\ kind' = kind /\ status' = status /\ terms' = terms /\ kyc' = kyc /\ rate' = rate
      /\ done' = done /\ cleared' = cleared /\ log' = log /\ review' = review /\ raced' = raced /\ served' = served
      /\ job' = job /\ doing' = doing /\ did' = did
  BY DEF Goto, historyVars
<1>2. TypeOK
  BY DEF IInv
<1>3. pc'[k] = label /\ \A j \in Workers : j # k => pc'[j] = pc[j]
  BY <1>1, <1>2 DEF TypeOK
<1>4. doing[k] \in Decisions /\ job[k] \in Rows /\ kind[job[k]] = Rule(doing[k]).of
  BY <1>2 DEF IInv, TypeOK, WorkersFit, Deciding, Closing, InRequest
<1>5. pc[k] = "mail" => /\ label \in {"user", "tell", "log"}
                        /\ kind[job[k]] = "document" <=> label = "user"
                        /\ label = "log" => doing[k] = "card.reactivate"
  BY <1>4, LabelFacts
<1>6. /\ \A s : Subject(s)' = Subject(s)
      /\ \A s : OpenCards(s)' = OpenCards(s)
  BY <1>1 DEF Subject, OpenCards
<1>7. TypeOK'
  <2>1. pc' \in [Workers -> Labels]
    BY <1>1, <1>2, <1>5 DEF TypeOK, Labels
  <2> QED
    BY <1>1, <1>2, <1>3, <2>1 DEF TypeOK
<1>8. WorkersFit'
  BY <1>1, <1>3, <1>4, <1>5 DEF IInv, WorkersFit, Creating, Deciding, Closing, InRequest
<1>9. CreatorsAreAlone' /\ DecidersKnow'
  BY <1>1, <1>3, <1>5 DEF IInv, CreatorsAreAlone, DecidersKnow, Creating, Deciding
<1>10. DecisionsAreWhole' /\ LogIsTrue' /\ OneOpenCard'
  BY <1>1, <1>6, LogStays DEF IInv, DecisionsAreWhole, OneOpenCard
<1>11. ClosersHaveDone'
  BY <1>1, <1>3, <1>5, <1>6 DEF IInv, ClosersHaveDone, Closing
<1>12. OverlapsAreKnown'
  BY <1>1, <1>3, <1>5, <1>6 DEF IInv, OverlapsAreKnown, InRequest, Creating, Deciding, Closing
<1>13. ChecksStillHold'
  BY <1>1, <1>3, <1>5, <1>6 DEF IInv, ChecksStillHold, Deciding
<1>14. KycIsInStep'
  <2>1. \A c \in Customers : RacedCustomer(c)' = RacedCustomer(c)
    BY <1>1 DEF RacedCustomer
  <2>2. \A j \in Workers : pc[j] \in {"mail", "user"} /\ kind[job[j]] = "document"
                              => pc'[j] \in {"mail", "user"}
    BY <1>3, <1>5
  <2>3. \A j \in Workers : pc'[j] \in {"mail", "user"} /\ kind[job[j]] = "document"
                              => pc[j] \in {"mail", "user"}
    BY <1>3, <1>5
  <2>4. \A j \in Workers : pc'[j] = "resubmit" => pc[j] = "resubmit"
    BY <1>3, <1>5
  <2> QED
    BY <1>1, <2>1, <2>2, <2>3, <2>4 DEF IInv, KycIsInStep, InRequest, Creating, Closing
<1> QED
  BY <1>7, <1>8, <1>9, <1>10, <1>11, <1>12, <1>13, <1>14 DEF IInv

\* The end of a request frees its worker and touches no other.
LEMMA RespondFacts ==
    ASSUME TypeOK, NEW k \in Workers, Respond(k)
    PROVE  /\ pc' \in [Workers -> Labels]
           /\ job' \in [Workers -> Rows \cup {NoOne}]
           /\ doing' \in [Workers -> Requests \cup {"patch.rate", "patch.other", NoOne}]
           /\ seen' \in [Workers -> Nat]
           /\ did' \in [Workers -> SUBSET Stages]
           /\ pc'[k] = "idle" /\ job'[k] = NoOne /\ did'[k] = {}
           /\ \A j \in Workers : j # k =>
                 /\ pc'[j] = pc[j] /\ job'[j] = job[j] /\ doing'[j] = doing[j]
                 /\ seen'[j] = seen[j] /\ did'[j] = did[j]
           /\ \A j \in Workers : pc'[j] \notin {"idle", "patch"} => job'[j] \in Rows /\ doing'[j] \in Requests
           /\ \A j \in Workers : pc'[j] \in InRequest => j # k
BY DEF TypeOK, Respond, Labels, InRequest, Creating, Deciding, Closing

\* What depends on the workers alone survives the end of a request.
LEMMA RespondKeeps ==
    ASSUME IInv, NEW k \in Workers, Respond(k),
           kind' = kind, status' = status, terms' = terms, kyc' = kyc, rate' \in Rates, raced' = raced,
           served' = served, done' = done, cleared' = cleared,
           log' \subseteq [row : Rows, action : Decisions, after : SUBSET Stages]
    PROVE  /\ review' \in [Customers -> {"kyc.approve", "kyc.reject", "cut", NoOne}] => TypeOK'
           /\ WorkersFit' /\ CreatorsAreAlone' /\ DecidersKnow' /\ DecisionsAreWhole'
           /\ ClosersHaveDone' /\ OverlapsAreKnown' /\ ChecksStillHold' /\ OneOpenCard'
<1>1. TypeOK
  BY DEF IInv
<1>2. /\ pc'[k] = "idle" /\ job'[k] = NoOne /\ did'[k] = {}
      /\ \A j \in Workers : j # k =>
            /\ pc'[j] = pc[j] /\ job'[j] = job[j] /\ doing'[j] = doing[j]
            /\ seen'[j] = seen[j] /\ did'[j] = did[j]
  BY <1>1, RespondFacts
<1>3. /\ \A s : Subject(s)' = Subject(s)
      /\ \A s : OpenCards(s)' = OpenCards(s)
  BY DEF Subject, OpenCards
<1>4. review' \in [Customers -> {"kyc.approve", "kyc.reject", "cut", NoOne}] => TypeOK'
  BY <1>1, RespondFacts DEF TypeOK
<1>5. WorkersFit' /\ DecidersKnow'
  BY <1>2 DEF IInv, WorkersFit, DecidersKnow, Creating, Deciding, Closing, InRequest
<1>6. CreatorsAreAlone'
  <2>1. \A j \in Workers : pc[j] \in Creating => job[j] # NoOne
    BY <1>1, ReviewAssumption DEF TypeOK, Creating
  <2> QED
    BY <1>2, <2>1 DEF IInv, CreatorsAreAlone, Creating
<1>7. DecisionsAreWhole'
  BY DEF IInv, DecisionsAreWhole
<1>8. ClosersHaveDone'
  BY <1>2, <1>3 DEF IInv, ClosersHaveDone, Closing
<1>9. OverlapsAreKnown'
  BY <1>2, <1>3 DEF IInv, OverlapsAreKnown, InRequest, Creating, Deciding, Closing
<1>10. ChecksStillHold'
  BY <1>2, <1>3 DEF IInv, ChecksStillHold, Deciding
<1>11. OneOpenCard'
  BY <1>3 DEF IInv, OneOpenCard
<1> QED
  BY <1>4, <1>5, <1>6, <1>7, <1>8, <1>9, <1>10, <1>11

\* A mail that raises, an upload rolled back, a worker killed.
LEMMA EndsEarlyKeeps ==
    ASSUME IInv, NEW k \in Workers, EndsEarly(k), pc[k] # "idle"
    PROVE  IInv'
<1>1. /\ Respond(k) /\ kind' = kind /\ status' = status /\ terms' = terms /\ kyc' = kyc
      /\ rate' = rate /\ done' = done /\ cleared' = cleared /\ log' = log /\ raced' = raced /\ served' = served
  BY DEF EndsEarly
<1>2. TypeOK
  BY DEF IInv
<1>3. review' = IF pc[k] \in {"mail", "user"} /\ kind[job[k]] = "document"
                THEN [review EXCEPT ![OwnerOf[job[k]]] = "cut"] ELSE review
  BY DEF EndsEarly
<1>4. review' \in [Customers -> {"kyc.approve", "kyc.reject", "cut", NoOne}]
  BY <1>2, <1>3 DEF TypeOK
<1>6. /\ TypeOK' /\ WorkersFit' /\ CreatorsAreAlone' /\ DecidersKnow' /\ DecisionsAreWhole'
      /\ ClosersHaveDone' /\ OverlapsAreKnown' /\ ChecksStillHold' /\ OneOpenCard'
  BY <1>1, <1>2, <1>4, RespondKeeps DEF TypeOK
<1>7. LogIsTrue'
  BY <1>1, <1>2, RespondFacts, LogStays
<1>8. KycIsInStep'
  <2>1. \A c \in Customers : RacedCustomer(c)' = RacedCustomer(c)
    BY <1>1 DEF RacedCustomer
  <2>2. /\ pc'[k] = "idle"
        /\ \A j \in Workers : j # k => pc'[j] = pc[j] /\ job'[j] = job[j] /\ doing'[j] = doing[j]
    BY <1>1, <1>2, RespondFacts
  <2>3. ASSUME NEW j \in Workers, pc'[j] \in InRequest, job'[j] \notin raced'
        PROVE  /\ pc'[j] \in {"mail", "user"} /\ kind[job'[j]] = "document"
                     => review'[OwnerOf[job'[j]]] = doing'[j]
               /\ pc'[j] = "resubmit" => kyc[OwnerOf[job'[j]]] # "verified"
    <3>1. j # k /\ pc[j] \in InRequest /\ job[j] \in Rows /\ job[j] \notin raced
      BY <1>1, <1>2, <2>2, <2>3 DEF TypeOK, InRequest, Creating, Deciding, Closing
    <3>2. ASSUME kind[job[j]] = "document", pc[k] \in {"mail", "user"}, kind[job[k]] = "document"
          PROVE  OwnerOf[job[j]] # OwnerOf[job[k]]
      <4>1. job[k] \in Rows /\ pc[k] \in InRequest
        BY <1>2, <3>2 DEF TypeOK, InRequest, Closing
      <4> QED
        BY <3>1, <3>2, <4>1 DEF IInv, OverlapsAreKnown, Subject
    <3>3. kind[job[j]] = "document" => review'[OwnerOf[job[j]]] = review[OwnerOf[job[j]]]
      BY <1>2, <1>3, <3>1, <3>2, ReviewAssumption DEF TypeOK
    <3> QED
      BY <2>2, <3>1, <3>3 DEF IInv, KycIsInStep
  <2>4. ASSUME NEW c \in Customers
        PROVE  \/ RacedCustomer(c)'
               \/ review'[c] = "cut"
               \/ \E j \in Workers : /\ pc'[j] \in {"mail", "user"}
                                     /\ kind[job'[j]] = "document" /\ OwnerOf[job'[j]] = c
               \/ kyc[c] = "verified" <=> review'[c] = "kyc.approve"
    <3>1. CASE pc[k] \in {"mail", "user"} /\ kind[job[k]] = "document" /\ OwnerOf[job[k]] = c
      BY <1>2, <1>3, <3>1 DEF TypeOK
    <3>2. CASE ~(pc[k] \in {"mail", "user"} /\ kind[job[k]] = "document" /\ OwnerOf[job[k]] = c)
      <4>1. review'[c] = review[c]
        BY <1>2, <1>3, <3>2 DEF TypeOK
      <4> QED
        BY <2>1, <2>2, <3>2, <4>1 DEF IInv, KycIsInStep
    <3> QED
      BY <3>1, <3>2
  <2> QED
    BY <1>1, <2>3, <2>4 DEF KycIsInStep
<1> QED
  BY <1>6, <1>7, <1>8 DEF IInv

-----------------------------------------------------------------------------
(* Rows are inserted                                                       *)

\* The card or the application is inserted.
LEMMA RequestCreatesKeeps ==
    ASSUME IInv, NEW k \in Workers, RequestCreates(k)
    PROVE  IInv'
<1>1. /\ pc[k] \in {"open", "apply"}
      /\ status' = [status EXCEPT ![job[k]] = IF kind[job[k]] = "loan" THEN "submitted" ELSE "pending"]
      /\ pc' = [pc EXCEPT ![k] = "tell"]
      /\ kind' = kind /\ terms' = terms /\ kyc' = kyc /\ rate' = rate /\ done' = done
      /\ cleared' = cleared /\ log' = log /\ did' = did
      /\ review' = review /\ raced' = raced /\ served' = served
      /\ job' = job /\ doing' = doing /\ seen' = seen
  BY DEF RequestCreates, Insert, Goto, historyVars
<1>2. TypeOK /\ CreatorsAreAlone /\ WorkersFit /\ OverlapsAreKnown
  BY DEF IInv
<1>3. PICK r \in Rows : r = job[k]
  BY <1>1, <1>2 DEF TypeOK
<1>4. /\ pc'[k] = "tell" /\ \A j \in Workers : j # k => pc'[j] = pc[j]
      /\ status'[r] \in {"submitted", "pending"}
      /\ \A s \in Rows : s # r => status'[s] = status[s]
  BY <1>1, <1>2, <1>3 DEF TypeOK
<1>5. /\ doing[k] \notin Decisions /\ status[r] = "none" /\ terms[r] = 0
      /\ \A j \in Workers : j # k => job[j] # r
  BY <1>1, <1>2, <1>3 DEF CreatorsAreAlone, WorkersFit, Creating
<1>6. \A s : Subject(s)' = Subject(s)
  BY <1>1 DEF Subject
<1>7. \A s \in Rows : r \notin Subject(s) => OpenCards(s)' = OpenCards(s)
  <2> SUFFICES ASSUME NEW s \in Rows, r \notin Subject(s) PROVE OpenCards(s)' = OpenCards(s)
    OBVIOUS
  <2>1. \A t \in Subject(s) : status'[t] = status[t]
    BY <1>4, SubjectFacts
  <2> QED
    BY <1>6, <2>1 DEF OpenCards
<1>8. TypeOK'
  <2>1. pc' \in [Workers -> Labels] /\ status' \in [Rows -> Statuses]
    BY <1>1, <1>2, <1>3 DEF TypeOK, Labels, Statuses
  <2>2. \A j \in Workers : pc'[j] \notin {"idle", "patch"} => job'[j] \in Rows /\ doing'[j] \in Requests
    BY <1>1, <1>2, <1>4 DEF TypeOK
  <2> QED
    BY <1>1, <1>2, <2>1, <2>2 DEF TypeOK
<1>9. WorkersFit'
  BY <1>1, <1>2, <1>4, <1>5 DEF WorkersFit, Creating, Deciding, Closing, InRequest
<1>10. CreatorsAreAlone' /\ DecidersKnow'
  <2>1. \A j \in Workers : pc'[j] \in Creating \cup Deciding => j # k /\ job[j] \in Rows
    BY <1>2, <1>4 DEF TypeOK, Creating, Deciding
  <2> QED
    BY <1>1, <1>2, <1>4, <1>5, <2>1 DEF IInv, CreatorsAreAlone, DecidersKnow
<1>11. DecisionsAreWhole'
  BY <1>1, <1>4, <1>5 DEF IInv, DecisionsAreWhole
<1>12. LogIsTrue' /\ ClosersHaveDone'
  <2>1. did[k] = {}
    BY <1>1 DEF IInv, ClosersHaveDone, Closing
  <2> QED
    BY <1>1, <1>4, <1>5, <2>1, LogStays DEF IInv, ClosersHaveDone, Closing
<1>13. OverlapsAreKnown'
  BY <1>1, <1>2, <1>4, <1>6 DEF OverlapsAreKnown, InRequest, Creating, Closing
<1>14. ChecksStillHold'
  <2>1. ASSUME NEW j \in Workers, job'[j] \notin raced', pc'[j] \in Deciding
        PROVE  status'[job'[j]] \in Rule(doing'[j]).from
    <3>1. j # k /\ job[j] \in Rows
      BY <1>2, <1>4, <2>1 DEF TypeOK, Deciding
    <3> QED
      BY <1>1, <1>4, <1>5, <2>1, <3>1 DEF IInv, ChecksStillHold
  <2>2. ASSUME NEW j \in Workers, job'[j] \notin raced', pc'[j] = "open"
        PROVE  OpenCards(job[j])' = {}
    <3>1. j # k /\ job[j] \in Rows /\ pc[j] = "open"
      BY <1>2, <1>4, <2>2 DEF TypeOK
    <3>2. r \notin Subject(job[j])
      <4>1. job[j] \notin Subject(job[k])
        BY <1>1, <1>2, <2>2, <3>1 DEF OverlapsAreKnown, InRequest, Creating
      <4> QED
        BY <1>3, <3>1, <4>1, SubjectFacts
    <3>3. OpenCards(job[j]) = {}
      BY <1>1, <2>2, <3>1 DEF IInv, ChecksStillHold
    <3> QED
      BY <1>1, <1>7, <3>1, <3>2, <3>3
  <2> QED
    BY <2>1, <2>2 DEF ChecksStillHold
<1>15. OneOpenCard'
  <2>1. ASSUME NEW s \in Rows, s \notin raced, kind[s] = "card"
        PROVE  \A t, u \in OpenCards(s)' : t = u \/ \E v \in {t, u} : <<v, "card.reactivate">> \in done
    <3>1. CASE r \notin Subject(s)
      <4>1. OpenCards(s)' = OpenCards(s)
        BY <1>7, <2>1, <3>1
      <4>2. \A t, u \in OpenCards(s) : t = u \/ \E v \in {t, u} : <<v, "card.reactivate">> \in done
        BY <2>1 DEF IInv, OneOpenCard
      <4> QED
        BY <4>1, <4>2
    <3>2. CASE r \in Subject(s)
      <4>1. /\ Subject(r) = Subject(s) /\ s \in Subject(r) /\ kind[r] = "card"
        BY <1>3, <2>1, <3>2, SubjectFacts
      <4>2. pc[k] = "open" /\ r \notin raced
        BY <1>1, <1>2, <1>3, <2>1, <4>1 DEF WorkersFit, OverlapsAreKnown
      <4>3. OpenCards(r) = {}
        BY <1>3, <4>2 DEF IInv, ChecksStillHold
      <4>4. OpenCards(s)' \subseteq {r}
        BY <1>4, <1>6, <2>1, <4>1, <4>3, SubjectFacts DEF OpenCards
      <4> QED
        BY <4>4
    <3> QED
      BY <3>1, <3>2
  <2> QED
    BY <1>1, <1>6, <2>1 DEF OneOpenCard
<1>16. KycIsInStep'
  <2>1. \A c \in Customers : RacedCustomer(c)' = RacedCustomer(c)
    BY <1>1 DEF RacedCustomer
  <2> QED
    BY <1>1, <1>4, <2>1 DEF IInv, KycIsInStep, InRequest, Creating, Closing
<1> QED
  BY <1>8, <1>9, <1>10, <1>11, <1>12, <1>13, <1>14, <1>15, <1>16 DEF IInv

\* The document is inserted, with the user's new kyc_status or not.
LEMMA UploadCommitsKeeps ==
    ASSUME IInv, NEW k \in Workers, UploadCommits(k)
    PROVE  IInv'
<1>1. /\ pc[k] \in {"upload", "resubmit"}
      /\ status' = [status EXCEPT ![job[k]] = IF kind[job[k]] = "loan" THEN "submitted" ELSE "pending"]
      /\ kyc' = IF pc[k] = "resubmit" THEN [kyc EXCEPT ![OwnerOf[job[k]]] = "pending"] ELSE kyc
      /\ Respond(k)
      /\ kind' = kind /\ terms' = terms /\ rate' = rate /\ done' = done
      /\ cleared' = cleared /\ log' = log
      /\ review' = review /\ raced' = raced /\ served' = served
  BY DEF UploadCommits, Insert, historyVars
<1>2. TypeOK /\ CreatorsAreAlone /\ WorkersFit /\ OverlapsAreKnown
  BY DEF IInv
<1>3. PICK r \in Rows : r = job[k]
  BY <1>1, <1>2 DEF TypeOK
<1>4. /\ pc'[k] = "idle" /\ job'[k] = NoOne
      /\ did' \in [Workers -> SUBSET Stages] /\ did'[k] = {}
      /\ \A j \in Workers : j # k =>
            /\ pc'[j] = pc[j] /\ job'[j] = job[j] /\ doing'[j] = doing[j]
            /\ seen'[j] = seen[j] /\ did'[j] = did[j]
      /\ status'[r] \in {"submitted", "pending"}
      /\ \A s \in Rows : s # r => status'[s] = status[s]
  BY <1>1, <1>2, <1>3, RespondFacts DEF TypeOK
<1>5. /\ kind[r] = "document" /\ status[r] = "none" /\ terms[r] = 0
      /\ \A j \in Workers : j # k => job[j] # r
  BY <1>1, <1>2, <1>3 DEF CreatorsAreAlone, WorkersFit, Creating
<1>6. \A s : Subject(s)' = Subject(s)
  BY <1>1 DEF Subject
<1>7. \A s \in Rows : kind[s] = "card" => OpenCards(s)' = OpenCards(s)
  <2> SUFFICES ASSUME NEW s \in Rows, kind[s] = "card" PROVE OpenCards(s)' = OpenCards(s)
    OBVIOUS
  <2>1. \A t \in Subject(s) : status'[t] = status[t]
    BY <1>4, <1>5, SubjectFacts
  <2> QED
    BY <1>6, <2>1 DEF OpenCards
<1>8. TypeOK'
  <2>1. status' \in [Rows -> Statuses]
    BY <1>1, <1>2, <1>3 DEF TypeOK, Statuses
  <2>2. kyc' \in [Customers -> {"unverified", "pending", "verified", "rejected"}]
    BY <1>1, <1>2 DEF TypeOK
  <2> QED
    BY <1>1, <1>2, <2>1, <2>2, RespondFacts DEF TypeOK
<1>9. WorkersFit'
  BY <1>1, <1>2, <1>4 DEF WorkersFit, Creating, Deciding, Closing, InRequest
<1>10. CreatorsAreAlone' /\ DecidersKnow'
  <2>1. \A j \in Workers : pc'[j] \in Creating \cup Deciding =>
           j # k /\ pc'[j] = pc[j] /\ job'[j] = job[j] /\ job[j] \in Rows
    BY <1>2, <1>4 DEF TypeOK, Creating, Deciding
  <2>2. \A j \in Workers : pc[j] \in Creating => job[j] # NoOne
    BY <1>2, ReviewAssumption DEF TypeOK, Creating
  <2> QED
    BY <1>1, <1>2, <1>4, <1>5, <2>1, <2>2 DEF IInv, CreatorsAreAlone, DecidersKnow
<1>11. DecisionsAreWhole'
  BY <1>1, <1>4, <1>5 DEF IInv, DecisionsAreWhole
<1>12. LogIsTrue' /\ ClosersHaveDone'
  <2>1. \A c \in Customers : kyc'[c] = "verified" => kyc[c] = "verified"
    BY <1>1, <1>2 DEF TypeOK
  <2>2. LogIsTrue'
    BY <1>1, <1>4, <2>1 DEF IInv, LogIsTrue
  <2>3. ClosersHaveDone'
    BY <1>1, <1>4 DEF IInv, ClosersHaveDone, Closing
  <2> QED
    BY <2>2, <2>3
<1>13. OverlapsAreKnown'
  BY <1>1, <1>2, <1>4, <1>6 DEF OverlapsAreKnown, InRequest, Creating, Deciding, Closing
<1>14. ChecksStillHold'
  <2>1. ASSUME NEW j \in Workers, job'[j] \notin raced', pc'[j] \in Deciding \cup {"open"}
        PROVE  /\ pc'[j] \in Deciding => status'[job'[j]] \in Rule(doing'[j]).from
               /\ pc'[j] = "open" => OpenCards(job[j])' = {}
    <3>1. j # k /\ job[j] \in Rows /\ (pc[j] = "open" => kind[job[j]] = "card")
      BY <1>2, <1>4, <2>1 DEF TypeOK, Deciding, WorkersFit
    <3> QED
      BY <1>1, <1>4, <1>5, <1>7, <2>1, <3>1 DEF IInv, ChecksStillHold
  <2> QED
    BY <2>1 DEF ChecksStillHold
<1>15. OneOpenCard'
  BY <1>1, <1>6, <1>7 DEF IInv, OneOpenCard
<1>16. KycIsInStep'
  <2>1. \A c \in Customers : RacedCustomer(c)' = RacedCustomer(c)
    BY <1>1 DEF RacedCustomer
  <2>2. \A c \in Customers : kyc'[c] # kyc[c] =>
           pc[k] = "resubmit" /\ c = OwnerOf[r] /\ kyc'[c] = "pending"
    BY <1>1, <1>2, <1>3 DEF TypeOK
  <2>3. ASSUME NEW j \in Workers, pc'[j] \in InRequest, job'[j] \notin raced'
        PROVE  /\ pc'[j] \in {"mail", "user"} /\ kind[job'[j]] = "document"
                     => review[OwnerOf[job'[j]]] = doing'[j]
               /\ pc'[j] = "resubmit" => kyc'[OwnerOf[job'[j]]] # "verified"
    <3>1. j # k /\ job[j] \in Rows /\ OwnerOf[job[j]] \in Customers
      BY <1>2, <1>4, <2>3, ReviewAssumption DEF TypeOK, InRequest, Creating, Deciding, Closing
    <3> QED
      BY <1>1, <1>4, <2>2, <2>3, <3>1 DEF IInv, KycIsInStep
  <2>4. ASSUME NEW c \in Customers
        PROVE  \/ RacedCustomer(c)'
               \/ review[c] = "cut"
               \/ \E j \in Workers : /\ pc'[j] \in {"mail", "user"}
                                     /\ kind[job'[j]] = "document" /\ OwnerOf[job'[j]] = c
               \/ kyc'[c] = "verified" <=> review[c] = "kyc.approve"
    <3>1. CASE kyc'[c] = kyc[c]
      BY <1>1, <1>4, <2>1, <3>1 DEF IInv, KycIsInStep
    <3>2. CASE kyc'[c] # kyc[c]
      <4>1. kyc'[c] = "pending" /\ pc[k] = "resubmit" /\ c = OwnerOf[r]
        BY <2>2, <3>2
      <4>2. r \in raced \/ kyc[c] # "verified"
        BY <1>3, <4>1 DEF IInv, KycIsInStep, InRequest, Creating
      <4>3. r \in raced => RacedCustomer(c)'
        BY <1>1, <1>5, <4>1 DEF RacedCustomer
      <4> QED
        BY <1>1, <1>4, <2>1, <4>1, <4>2, <4>3 DEF IInv, KycIsInStep
    <3> QED
      BY <3>1, <3>2
  <2> QED
    BY <1>1, <2>3, <2>4 DEF KycIsInStep
<1> QED
  BY <1>8, <1>9, <1>10, <1>11, <1>12, <1>13, <1>14, <1>15, <1>16 DEF IInv

-----------------------------------------------------------------------------
(* A decision is saved                                                     *)

\* A decision saves its columns, whatever the row has become.
LEMMA DecisionIsSavedKeeps ==
    ASSUME IInv, NEW k \in Workers, DecisionIsSaved(k)
    PROVE  IInv'
<1> DEFINE label == IF pc[k] = "save_mail" THEN "mail" ELSE Afterwards(doing[k])
<1>1. /\ pc[k] \in {"save", "save_mail"}
      /\ status' = [status EXCEPT ![job[k]] = Rule(doing[k]).to]
      /\ terms' = [terms EXCEPT ![job[k]] = NewTerms(k)]
      /\ pc' = [pc EXCEPT ![k] = label]
      /\ did' = [did EXCEPT ![k] = @ \cup {"saved"}]
      /\ done' = done \cup {<<job[k], doing[k]>>}
      /\ cleared' = IF doing[k] = "kyc.approve" THEN cleared \cup {OwnerOf[job[k]]} ELSE cleared
      /\ log' = log
      /\ review' = IF kind[job[k]] = "document"
                   THEN [review EXCEPT ![OwnerOf[job[k]]] = doing[k]] ELSE review
      /\ kind' = kind /\ kyc' = kyc /\ rate' = rate /\ raced' = raced /\ served' = served
      /\ job' = job /\ doing' = doing /\ seen' = seen
  BY DEF DecisionIsSaved, Goto, Record
<1>2. TypeOK /\ CreatorsAreAlone /\ WorkersFit /\ OverlapsAreKnown /\ DecisionsAreWhole
  BY DEF IInv
<1>3. PICK r \in Rows : r = job[k]
  BY <1>1, <1>2 DEF TypeOK
<1>4. PICK d \in Decisions : d = doing[k]
  BY <1>1, <1>2 DEF WorkersFit, Deciding
<1>5. kind[r] = Rule(d).of /\ (d = "loan.approve" => seen[k] \in Rates)
  BY <1>1, <1>2, <1>3, <1>4 DEF WorkersFit, Deciding, InRequest
<1>6. /\ label \in {"mail", "user", "tell", "log"}
      /\ label = "user" => kind[r] = "document"
      /\ kind[r] = "document" => label \in {"mail", "user"}
      /\ label = "log" => d = "card.reactivate"
  BY <1>1, <1>4, <1>5, LabelFacts
<1> HIDE DEF label
<1>7. /\ pc'[k] = label /\ \A j \in Workers : j # k => pc'[j] = pc[j] /\ did'[j] = did[j]
      /\ did'[k] = {"saved"}
      /\ status'[r] = Rule(d).to /\ \A s \in Rows : s # r => status'[s] = status[s]
      /\ terms'[r] = NewTerms(k) /\ \A s \in Rows : s # r => terms'[s] = terms[s]
  <2>1. did[k] = {}
    BY <1>1 DEF IInv, ClosersHaveDone, Closing
  <2> QED
    BY <1>1, <1>2, <1>3, <1>4, <2>1 DEF TypeOK
<1>8. /\ NewTerms(k) \in Nat
      /\ d = "card.approve" => NewTerms(k) # 0
      /\ d = "loan.approve" => NewTerms(k) \in Rates
      /\ d \notin {"card.approve", "loan.approve"} => NewTerms(k) = terms[r]
      /\ terms[r] # 0 => NewTerms(k) # 0
  <2>1. seen[k] \in Nat /\ terms[r] \in Nat
    BY <1>2 DEF TypeOK
  <2>2. CASE d = "card.approve"
    BY <1>3, <1>4, <2>1, <2>2 DEF NewTerms
  <2>3. CASE d = "loan.approve"
    BY <1>4, <1>5, <2>1, <2>3, ReviewAssumption DEF NewTerms
  <2>4. CASE d \notin {"card.approve", "loan.approve"}
    BY <1>3, <1>4, <2>1, <2>4 DEF NewTerms
  <2> QED
    BY <2>2, <2>3, <2>4
<1>9. /\ \A s : Subject(s)' = Subject(s)
      /\ done \subseteq done' /\ <<r, d>> \in done' /\ cleared \subseteq cleared'
      /\ d = "kyc.approve" => OwnerOf[r] \in cleared'
  BY <1>1, <1>3, <1>4 DEF Subject
<1>10. Rule(d).to \in {"active", "blocked", "approved", "rejected"}
  BY RuleFacts
<1>11. TypeOK'
  <2>1. pc' \in [Workers -> Labels] /\ status' \in [Rows -> Statuses] /\ terms' \in [Rows -> Nat]
    BY <1>1, <1>2, <1>3, <1>4, <1>6, <1>8, <1>10 DEF TypeOK, Labels, Statuses
  <2>2. /\ done' \subseteq Rows \X Decisions /\ cleared' \subseteq Customers
        /\ did' \in [Workers -> SUBSET Stages]
    BY <1>1, <1>2, <1>3, <1>4, ReviewAssumption DEF TypeOK, Stages
  <2>3. review' \in [Customers -> {"kyc.approve", "kyc.reject", "cut", NoOne}]
    <3>1. kind[r] = "document" => d \in {"kyc.approve", "kyc.reject"}
      BY <1>5, RuleFacts
    <3> QED
      BY <1>1, <1>2, <1>3, <1>4, <3>1 DEF TypeOK
  <2>4. \A j \in Workers : pc'[j] \notin {"idle", "patch"} => job'[j] \in Rows /\ doing'[j] \in Requests
    BY <1>1, <1>2, <1>7 DEF TypeOK
  <2> QED
    BY <1>1, <1>2, <2>1, <2>2, <2>3, <2>4 DEF TypeOK
<1>12. WorkersFit'
  BY <1>1, <1>2, <1>3, <1>4, <1>5, <1>6, <1>7 DEF WorkersFit, Creating, Deciding, Closing, InRequest
<1>13. CreatorsAreAlone'
  <2>1. \A j \in Workers : pc'[j] \in Creating => j # k /\ job[j] \in Rows /\ job[j] # r
    BY <1>2, <1>3, <1>6, <1>7 DEF TypeOK, Creating, CreatorsAreAlone
  <2> QED
    BY <1>1, <1>2, <1>7, <2>1 DEF CreatorsAreAlone
<1>14. DecidersKnow'
  <2>1. \A j \in Workers : pc'[j] \in Deciding => j # k /\ job[j] \in Rows
    BY <1>2, <1>6, <1>7 DEF TypeOK, Deciding
  <2> QED
    BY <1>1, <1>7, <1>8, <2>1 DEF IInv, DecidersKnow
<1>15. DecisionsAreWhole'
  <2>1. Rule(d).to \in {"active", "blocked"} => NewTerms(k) # 0
    <3>1. d \in {"card.block", "card.reactivate"} => terms[r] # 0
      BY <1>1, <1>3, <1>4 DEF IInv, DecidersKnow, Deciding
    <3> QED
      BY <1>8, <3>1, RuleFacts
  <2>2. kind[r] = "loan" /\ Rule(d).to = "approved" => NewTerms(k) \in Rates
    BY <1>5, <1>8, RuleFacts
  <2> QED
    BY <1>1, <1>2, <1>7, <1>10, <2>1, <2>2 DEF DecisionsAreWhole
<1>16. LogIsTrue'
  BY <1>1, <1>7, <1>9, LogStays
<1>17. ClosersHaveDone'
  BY <1>1, <1>3, <1>4, <1>6, <1>7, <1>9 DEF IInv, ClosersHaveDone, Closing
<1>18. OverlapsAreKnown'
  BY <1>1, <1>2, <1>6, <1>7, <1>9 DEF OverlapsAreKnown, InRequest, Creating, Deciding, Closing
<1>19. \A j \in Workers : j # k /\ pc[j] \in InRequest /\ job[j] \notin raced => r \notin Subject(job[j])
  <2> SUFFICES ASSUME NEW j \in Workers, j # k, pc[j] \in InRequest, job[j] \notin raced
               PROVE  r \notin Subject(job[j])
    OBVIOUS
  <2>1. job[j] \in Rows /\ job[j] \notin Subject(job[k])
    BY <1>1, <1>2 DEF TypeOK, OverlapsAreKnown, InRequest, Creating, Deciding, Closing
  <2> QED
    BY <1>3, <2>1, SubjectFacts
<1>20. \A s \in Rows : r \notin Subject(s) => OpenCards(s)' = OpenCards(s)
  <2> SUFFICES ASSUME NEW s \in Rows, r \notin Subject(s) PROVE OpenCards(s)' = OpenCards(s)
    OBVIOUS
  <2>1. \A t \in Subject(s) : status'[t] = status[t]
    BY <1>7, SubjectFacts
  <2> QED
    BY <1>9, <2>1 DEF OpenCards
<1>21. ChecksStillHold'
  <2> SUFFICES ASSUME NEW j \in Workers, job[j] \notin raced, pc'[j] \in Deciding \cup {"open"}
               PROVE  /\ pc'[j] \in Deciding => status'[job[j]] \in Rule(doing[j]).from
                      /\ pc'[j] = "open" => OpenCards(job[j])' = {}
    BY <1>1 DEF ChecksStillHold
  <2>1. j # k /\ job[j] \in Rows /\ pc[j] = pc'[j] /\ pc[j] \in InRequest
    BY <1>2, <1>6, <1>7 DEF TypeOK, Deciding, Creating, InRequest
  <2>2. r \notin Subject(job[j]) /\ job[j] # r
    BY <1>19, <2>1, SubjectFacts
  <2> QED
    BY <1>1, <1>7, <1>20, <2>1, <2>2 DEF IInv, ChecksStillHold
<1>22. OneOpenCard'
  <2>1. ASSUME NEW s \in Rows, s \notin raced, kind[s] = "card"
        PROVE  \A t, u \in OpenCards(s)' : t = u \/ \E v \in {t, u} : <<v, "card.reactivate">> \in done'
    <3>1. CASE r \notin Subject(s)
      <4>1. OpenCards(s)' = OpenCards(s) /\ done \subseteq done'
        BY <1>9, <1>20, <2>1, <3>1
      <4>2. \A t, u \in OpenCards(s) : t = u \/ \E v \in {t, u} : <<v, "card.reactivate">> \in done
        BY <2>1 DEF IInv, OneOpenCard
      <4> QED
        BY <4>1, <4>2
    <3>2. CASE r \in Subject(s) /\ d # "card.reactivate"
      <4>1. r \notin raced
        BY <1>2, <1>3, <2>1, <3>2, SubjectFacts DEF OverlapsAreKnown
      <4>2. status[r] \in Rule(d).from
        BY <1>1, <1>3, <1>4, <4>1 DEF IInv, ChecksStillHold, Deciding
      <4>3. Rule(d).to = "active" => status[r] = "pending" \/ status[r] = "active"
        BY <3>2, <4>2, CardRules, RuleFacts
      <4>4. OpenCards(s)' \subseteq OpenCards(s)
        <5> SUFFICES ASSUME NEW t \in Subject(s), status'[t] \in {"pending", "active"}
                     PROVE  status[t] \in {"pending", "active"}
          BY <1>9 DEF OpenCards
        <5> QED
          BY <1>7, <1>10, <4>3, SubjectFacts
      <4> QED
        BY <1>9, <2>1, <4>4 DEF IInv, OneOpenCard
    <3>3. CASE r \in Subject(s) /\ d = "card.reactivate"
      <4>1. \A t \in OpenCards(s)' : t = r \/ t \in OpenCards(s)
        BY <1>7, <1>9, SubjectFacts DEF OpenCards
      <4> QED
        BY <1>9, <2>1, <3>3, <4>1 DEF IInv, OneOpenCard
    <3> QED
      BY <3>1, <3>2, <3>3
  <2> QED
    BY <1>1, <2>1 DEF OneOpenCard
<1>23. KycIsInStep'
  <2>1. \A c \in Customers : RacedCustomer(c)' = RacedCustomer(c)
    BY <1>1 DEF RacedCustomer
  <2>2. ASSUME NEW j \in Workers, pc'[j] \in InRequest, job[j] \notin raced
        PROVE  /\ pc'[j] \in {"mail", "user"} /\ kind[job[j]] = "document"
                     => review'[OwnerOf[job[j]]] = doing[j]
               /\ pc'[j] = "resubmit" => kyc[OwnerOf[job[j]]] # "verified"
    <3>1. CASE j = k
      BY <1>1, <1>2, <1>3, <1>6, <1>7, <3>1, ReviewAssumption DEF TypeOK
    <3>2. CASE j # k
      <4>1. pc[j] = pc'[j] /\ job[j] \in Rows /\ r \notin Subject(job[j])
        BY <1>2, <1>7, <1>19, <2>2, <3>2 DEF TypeOK, InRequest, Creating, Deciding, Closing
      <4>2. kind[job[j]] = "document" /\ kind[r] = "document" => OwnerOf[r] # OwnerOf[job[j]]
        BY <4>1 DEF Subject
      <4>3. kind[job[j]] = "document" => review'[OwnerOf[job[j]]] = review[OwnerOf[job[j]]]
        BY <1>1, <1>2, <1>3, <4>1, <4>2, ReviewAssumption DEF TypeOK
      <4> QED
        BY <2>2, <4>1, <4>3 DEF IInv, KycIsInStep
    <3> QED
      BY <3>1, <3>2
  <2>3. ASSUME NEW c \in Customers
        PROVE  \/ RacedCustomer(c)
               \/ review'[c] = "cut"
               \/ \E j \in Workers : /\ pc'[j] \in {"mail", "user"}
                                     /\ kind[job[j]] = "document" /\ OwnerOf[job[j]] = c
               \/ kyc[c] = "verified" <=> review'[c] = "kyc.approve"
    <3>1. CASE kind[r] = "document" /\ OwnerOf[r] = c
      BY <1>3, <1>6, <1>7, <3>1
    <3>2. CASE ~(kind[r] = "document" /\ OwnerOf[r] = c)
      <4>1. review'[c] = review[c]
        BY <1>1, <1>2, <1>3, <3>2 DEF TypeOK
      <4>2. \A j \in Workers : pc[j] \in {"mail", "user"} => pc'[j] \in {"mail", "user"}
        BY <1>1, <1>7
      <4> QED
        BY <4>1, <4>2 DEF IInv, KycIsInStep
    <3> QED
      BY <3>1, <3>2
  <2> QED
    BY <1>1, <2>1, <2>2, <2>3 DEF KycIsInStep
<1> QED
  BY <1>11, <1>12, <1>13, <1>14, <1>15, <1>16, <1>17, <1>18, <1>21, <1>22, <1>23 DEF IInv

\* A review saves the user's kyc_status.
LEMMA UserIsSavedKeeps ==
    ASSUME IInv, NEW k \in Workers, UserIsSaved(k)
    PROVE  IInv'
<1>1. /\ pc[k] = "user"
      /\ kyc' = [kyc EXCEPT ![OwnerOf[job[k]]] = Outcome(doing[k])]
      /\ pc' = [pc EXCEPT ![k] = "tell"]
      /\ did' = [did EXCEPT ![k] = @ \cup {"user"}]
      /\ done' = done /\ cleared' = cleared /\ log' = log
      /\ kind' = kind /\ status' = status /\ terms' = terms /\ rate' = rate /\ review' = review
      /\ raced' = raced /\ served' = served /\ job' = job /\ doing' = doing /\ seen' = seen
  BY DEF UserIsSaved, Goto, Record, historyVars
<1>2. TypeOK /\ WorkersFit /\ OverlapsAreKnown
  BY DEF IInv
<1>3. PICK r \in Rows : r = job[k]
  BY <1>1, <1>2 DEF TypeOK
<1>4. PICK d \in Decisions : d = doing[k]
  BY <1>1, <1>2 DEF WorkersFit, Closing
<1>5. kind[r] = "document" /\ OwnerOf[r] \in Customers /\ d \in {"kyc.approve", "kyc.reject"}
  BY <1>1, <1>2, <1>3, <1>4, RuleFacts, ReviewAssumption DEF WorkersFit, Closing, InRequest
<1>6. /\ pc'[k] = "tell" /\ \A j \in Workers : j # k => pc'[j] = pc[j] /\ did'[j] = did[j]
      /\ did'[k] = did[k] \cup {"user"}
      /\ kyc'[OwnerOf[r]] = Outcome(d)
      /\ \A c \in Customers : c # OwnerOf[r] => kyc'[c] = kyc[c]
  BY <1>1, <1>2, <1>3, <1>4, <1>5 DEF TypeOK
<1>7. /\ \A s : Subject(s)' = Subject(s)
      /\ \A s : OpenCards(s)' = OpenCards(s)
  BY <1>1, <1>3, <1>4 DEF Subject, OpenCards
<1>8. TypeOK'
  <2>1. pc' \in [Workers -> Labels]
    BY <1>1, <1>2 DEF TypeOK, Labels
  <2>2. kyc' \in [Customers -> {"unverified", "pending", "verified", "rejected"}]
    BY <1>1, <1>2 DEF TypeOK, Outcome
  <2>3. did' \in [Workers -> SUBSET Stages]
    BY <1>1, <1>2 DEF TypeOK, Stages
  <2>4. \A j \in Workers : pc'[j] \notin {"idle", "patch"} => job'[j] \in Rows /\ doing'[j] \in Requests
    BY <1>1, <1>2, <1>6 DEF TypeOK
  <2> QED
    BY <1>1, <1>2, <2>1, <2>2, <2>3, <2>4 DEF TypeOK
<1>9. WorkersFit'
  BY <1>1, <1>2, <1>6 DEF WorkersFit, Creating, Deciding, Closing, InRequest
<1>10. CreatorsAreAlone' /\ DecidersKnow'
  BY <1>1, <1>6 DEF IInv, CreatorsAreAlone, DecidersKnow, Creating, Deciding
<1>11. DecisionsAreWhole' /\ LogIsTrue' /\ OneOpenCard'
  <2>1. d = "kyc.approve" => OwnerOf[r] \in cleared
    BY <1>1, <1>3, <1>4 DEF IInv, ClosersHaveDone, Closing
  <2>2. \A c \in Customers : kyc'[c] = "verified" => c \in cleared
    BY <1>5, <1>6, <2>1 DEF IInv, LogIsTrue, Outcome
  <2>3. LogIsTrue'
    BY <1>1, <1>6, <2>2 DEF IInv, LogIsTrue
  <2> QED
    BY <1>1, <1>7, <2>3 DEF IInv, DecisionsAreWhole, OneOpenCard
<1>12. ClosersHaveDone'
  BY <1>1, <1>3, <1>4, <1>6, <1>7 DEF IInv, ClosersHaveDone, Closing
<1>13. OverlapsAreKnown'
  BY <1>1, <1>2, <1>6, <1>7 DEF OverlapsAreKnown, InRequest, Creating, Deciding, Closing
<1>14. ChecksStillHold'
  BY <1>1, <1>6, <1>7 DEF IInv, ChecksStillHold, Deciding
<1>15. KycIsInStep'
  <2>1. \A c \in Customers : RacedCustomer(c)' = RacedCustomer(c)
    BY <1>1 DEF RacedCustomer
  <2>2. ASSUME NEW j \in Workers, pc'[j] \in InRequest, job[j] \notin raced
        PROVE  /\ pc'[j] \in {"mail", "user"} /\ kind[job[j]] = "document"
                     => review[OwnerOf[job[j]]] = doing[j]
               /\ pc'[j] = "resubmit" => kyc'[OwnerOf[job[j]]] # "verified"
    <3>1. CASE j = k
      BY <1>6, <3>1
    <3>2. CASE j # k
      <4>1. pc[j] = pc'[j] /\ job[j] \in Rows /\ job[j] \notin Subject(job[k])
        BY <1>1, <1>2, <1>6, <2>2, <3>2 DEF TypeOK, OverlapsAreKnown, InRequest, Creating, Deciding, Closing
      <4>2. kind[job[j]] = "document" => OwnerOf[job[j]] # OwnerOf[r] /\ OwnerOf[job[j]] \in Customers
        BY <1>3, <1>5, <4>1, ReviewAssumption DEF Subject
      <4>3. pc[j] = "resubmit" => kind[job[j]] = "document"
        BY <1>2 DEF WorkersFit
      <4> QED
        BY <1>6, <2>2, <4>1, <4>2, <4>3 DEF IInv, KycIsInStep
    <3> QED
      BY <3>1, <3>2
  <2>3. ASSUME NEW c \in Customers
        PROVE  \/ RacedCustomer(c)
               \/ review[c] = "cut"
               \/ \E j \in Workers : /\ pc'[j] \in {"mail", "user"}
                                     /\ kind[job[j]] = "document" /\ OwnerOf[job[j]] = c
               \/ kyc'[c] = "verified" <=> review[c] = "kyc.approve"
    <3>1. CASE OwnerOf[r] = c /\ r \in raced
      BY <1>5, <3>1 DEF RacedCustomer
    <3>2. CASE OwnerOf[r] = c /\ r \notin raced
      <4>1. review[c] = d
        BY <1>1, <1>3, <1>4, <1>5, <3>2 DEF IInv, KycIsInStep, InRequest, Closing
      <4> QED
        BY <1>5, <1>6, <3>2, <4>1 DEF Outcome
    <3>3. CASE OwnerOf[r] # c
      <4>1. kyc'[c] = kyc[c]
        BY <1>6, <3>3
      <4>2. \A j \in Workers : pc[j] \in {"mail", "user"} /\ OwnerOf[job[j]] = c => pc'[j] = pc[j]
        BY <1>3, <1>6, <3>3
      <4> QED
        BY <4>1, <4>2 DEF IInv, KycIsInStep
    <3> QED
      BY <3>1, <3>2, <3>3
  <2> QED
    BY <1>1, <2>1, <2>2, <2>3 DEF KycIsInStep
<1> QED
  BY <1>8, <1>9, <1>10, <1>11, <1>12, <1>13, <1>14, <1>15 DEF IInv

-----------------------------------------------------------------------------
(* The customer is told, the decision is logged                            *)

\* A last statement that records a stage, or one that says nothing of a
\* decision, leaves what is known of the customers.
LEMMA ClosingKeepsKyc ==
    ASSUME IInv, NEW k \in Workers, pc[k] \notin {"mail", "user"},
           kind' = kind, kyc' = kyc, review' = review, raced' = raced,
           pc'[k] \notin {"mail", "user", "resubmit"},
           \A j \in Workers : j # k => pc'[j] = pc[j] /\ job'[j] = job[j] /\ doing'[j] = doing[j]
    PROVE  KycIsInStep'
<1>1. \A c \in Customers : RacedCustomer(c)' = RacedCustomer(c)
  BY DEF RacedCustomer
<1>2. ASSUME NEW j \in Workers, pc'[j] \in {"mail", "user", "resubmit"}, job'[j] \notin raced
      PROVE  /\ pc'[j] \in {"mail", "user"} /\ kind[job'[j]] = "document"
                   => review[OwnerOf[job'[j]]] = doing'[j]
             /\ pc'[j] = "resubmit" => kyc[OwnerOf[job'[j]]] # "verified"
  BY <1>2 DEF IInv, KycIsInStep, InRequest, Creating, Closing
<1>3. \A j \in Workers : pc[j] \in {"mail", "user"} => pc'[j] = pc[j] /\ job'[j] = job[j]
  OBVIOUS
<1> QED
  BY <1>1, <1>2, <1>3 DEF IInv, KycIsInStep

\* The Notification row is inserted.
LEMMA CustomerIsToldKeeps ==
    ASSUME IInv, NEW k \in Workers, CustomerIsTold(k)
    PROVE  IInv'
<1>1. /\ pc[k] = "tell"
      /\ done' = done /\ cleared' = cleared /\ log' = log
      /\ kind' = kind /\ status' = status /\ terms' = terms /\ kyc' = kyc /\ rate' = rate
      /\ review' = review /\ raced' = raced /\ served' = served
  BY DEF CustomerIsTold, historyVars
<1>2. TypeOK /\ WorkersFit /\ OverlapsAreKnown /\ ClosersHaveDone
  BY DEF IInv
<1>3. PICK r \in Rows : r = job[k]
  BY <1>1, <1>2 DEF TypeOK
<1>4. PICK d \in Requests : d = doing[k]
  BY <1>1, <1>2 DEF TypeOK
<1>6. /\ \A s : Subject(s)' = Subject(s)
      /\ \A s : OpenCards(s)' = OpenCards(s)
  BY <1>1 DEF Subject, OpenCards
<1>8. CASE d \in Decisions
  <2>1. /\ pc' = [pc EXCEPT ![k] = "log"] /\ job' = job /\ doing' = doing /\ seen' = seen
        /\ did' = [did EXCEPT ![k] = @ \cup {"told"}]
    BY <1>4, <1>8 DEF CustomerIsTold, Goto, Record
  <2>2. /\ pc'[k] = "log" /\ did'[k] = did[k] \cup {"told"}
        /\ \A j \in Workers : j # k => pc'[j] = pc[j] /\ did'[j] = did[j]
    BY <1>2, <2>1 DEF TypeOK
  <2>3. TypeOK'
    <3>1. pc' \in [Workers -> Labels]
      BY <1>2, <2>1 DEF TypeOK, Labels
    <3>2. \A j \in Workers : pc'[j] \notin {"idle", "patch"} => job'[j] \in Rows /\ doing'[j] \in Requests
      BY <1>1, <1>2, <2>1, <2>2 DEF TypeOK
    <3>3. did' \in [Workers -> SUBSET Stages]
      BY <1>2, <2>1 DEF TypeOK, Stages
    <3> QED
      BY <1>1, <1>2, <2>1, <3>1, <3>2, <3>3 DEF TypeOK
  <2>4. WorkersFit'
    BY <1>1, <1>2, <1>4, <1>8, <2>1, <2>2 DEF WorkersFit, Creating, Deciding, Closing, InRequest
  <2>5. CreatorsAreAlone' /\ DecidersKnow'
    BY <1>1, <2>1, <2>2 DEF IInv, CreatorsAreAlone, DecidersKnow, Creating, Deciding
  <2>6. DecisionsAreWhole' /\ OneOpenCard'
    BY <1>1, <1>6 DEF IInv, DecisionsAreWhole, OneOpenCard
  <2>7. ClosersHaveDone'
    BY <1>1, <1>2, <1>3, <1>4, <1>6, <2>1, <2>2 DEF ClosersHaveDone, Closing
  <2>8. OverlapsAreKnown'
    BY <1>1, <1>2, <1>6, <2>1, <2>2 DEF OverlapsAreKnown, InRequest, Creating, Deciding, Closing
  <2>9. ChecksStillHold'
    BY <1>1, <1>6, <2>1, <2>2 DEF IInv, ChecksStillHold, Deciding
  <2>10. KycIsInStep'
    BY <1>1, <2>1, <2>2, ClosingKeepsKyc
  <2>11. LogIsTrue'
    <3>1. Rule(d).of = "document" => "user" \in did[k]
      BY <1>1, <1>2, <1>4, <1>8 DEF WorkersFit, ClosersHaveDone, Closing, InRequest
    <3> QED
      BY <1>1, <1>4, <2>1, <2>2, <3>1 DEF IInv, LogIsTrue
  <2> QED
    BY <2>3, <2>4, <2>5, <2>6, <2>7, <2>8, <2>9, <2>10, <2>11 DEF IInv
<1>9. CASE d \notin Decisions
  <2>1. Respond(k)
    BY <1>4, <1>9 DEF CustomerIsTold
  <2>3. /\ TypeOK' /\ WorkersFit' /\ CreatorsAreAlone' /\ DecidersKnow' /\ DecisionsAreWhole'
        /\ ClosersHaveDone' /\ OverlapsAreKnown' /\ ChecksStillHold' /\ OneOpenCard'
    BY <1>1, <1>2, <2>1, RespondKeeps DEF TypeOK
  <2>4. KycIsInStep'
    BY <1>1, <1>2, <2>1, RespondFacts, ClosingKeepsKyc
  <2>5. LogIsTrue'
    BY <1>1, <1>2, <2>1, RespondFacts, LogStays
  <2> QED
    BY <2>3, <2>4, <2>5 DEF IInv
<1> QED
  BY <1>8, <1>9

\* The audit row is inserted, and the request ends.
LEMMA DecisionIsLoggedKeeps ==
    ASSUME IInv, NEW k \in Workers, DecisionIsLogged(k)
    PROVE  IInv'
<1>1. /\ pc[k] = "log" /\ Respond(k)
      /\ log' = log \cup {[row |-> job[k], action |-> doing[k], after |-> did[k]]}
      /\ kind' = kind /\ status' = status /\ terms' = terms /\ kyc' = kyc /\ rate' = rate
      /\ done' = done /\ cleared' = cleared /\ review' = review /\ raced' = raced /\ served' = served
  BY DEF DecisionIsLogged
<1>2. TypeOK /\ WorkersFit
  BY DEF IInv
<1>3. job[k] \in Rows /\ doing[k] \in Decisions /\ did[k] \in SUBSET Stages
  BY <1>1, <1>2 DEF TypeOK, WorkersFit, Closing
<1>4. log' \subseteq [row : Rows, action : Decisions, after : SUBSET Stages]
  BY <1>1, <1>2, <1>3 DEF TypeOK
<1>5. /\ TypeOK' /\ WorkersFit' /\ CreatorsAreAlone' /\ DecidersKnow' /\ DecisionsAreWhole'
      /\ ClosersHaveDone' /\ OverlapsAreKnown' /\ ChecksStillHold' /\ OneOpenCard'
  BY <1>1, <1>2, <1>4, RespondKeeps DEF TypeOK
<1>6. LogIsTrue'
  <2>1. /\ "saved" \in did[k]
        /\ doing[k] # "card.reactivate" => "told" \in did[k]
        /\ Rule(doing[k]).of = "document" => "user" \in did[k]
    BY <1>1, <1>2, <1>3 DEF IInv, ClosersHaveDone, WorkersFit, Closing, InRequest
  <2>2. \A e \in log' : \/ e \in log
                        \/ e.action = doing[k] /\ e.after = did[k]
    BY <1>1
  <2>3. \A e \in log' : /\ "saved" \in e.after
                        /\ e.action # "card.reactivate" => "told" \in e.after
                        /\ Rule(e.action).of = "document" => "user" \in e.after
    BY <2>1, <2>2 DEF IInv, LogIsTrue
  <2>4. \A j \in Workers : \/ did'[j] = did[j] /\ doing'[j] = doing[j]
                           \/ did'[j] = {}
    BY <1>1, <1>2, RespondFacts
  <2> QED
    BY <1>1, <2>3, <2>4 DEF IInv, LogIsTrue
<1>7. KycIsInStep'
  BY <1>1, <1>2, RespondFacts, ClosingKeepsKyc
<1> QED
  BY <1>5, <1>6, <1>7 DEF IInv

-----------------------------------------------------------------------------
(* A product is edited                                                     *)

\* An edit of a product reads its row.
LEMMA PatchBeginKeeps ==
    ASSUME IInv, NEW k \in Workers, NEW d \in {"patch.rate", "patch.other"}, PatchBegin(k, d)
    PROVE  IInv'
<1>1. /\ pc[k] = "idle" /\ pc' = [pc EXCEPT ![k] = "patch"]
      /\ doing' = [doing EXCEPT ![k] = d] /\ seen' = [seen EXCEPT ![k] = rate]
      /\ served < MaxRequests /\ served' = served + 1
      /\ kind' = kind /\ status' = status /\ terms' = terms /\ kyc' = kyc /\ rate' = rate
      /\ done' = done /\ cleared' = cleared /\ log' = log /\ did' = did /\ review' = review /\ raced' = raced /\ job' = job
  BY DEF PatchBegin, Arrives, Goto
<1>2. TypeOK
  BY DEF IInv
<1>3. /\ pc'[k] = "patch" /\ seen'[k] \in Rates
      /\ \A j \in Workers : j # k => pc'[j] = pc[j] /\ doing'[j] = doing[j] /\ seen'[j] = seen[j]
  BY <1>1, <1>2 DEF TypeOK
<1>4. /\ \A s : Subject(s)' = Subject(s)
      /\ \A s : OpenCards(s)' = OpenCards(s)
  BY <1>1 DEF Subject, OpenCards
<1>5. TypeOK'
  <2>1. served' \in 0 .. MaxRequests
    BY <1>1, <1>2, ReviewAssumption DEF TypeOK
  <2>2. /\ pc' \in [Workers -> Labels] /\ seen' \in [Workers -> Nat]
        /\ doing' \in [Workers -> Requests \cup {"patch.rate", "patch.other", NoOne}]
    BY <1>1, <1>2, ReviewAssumption DEF TypeOK, Labels
  <2>3. \A j \in Workers : pc'[j] \notin {"idle", "patch"} => job'[j] \in Rows /\ doing'[j] \in Requests
    BY <1>1, <1>2, <1>3 DEF TypeOK
  <2> QED
    BY <1>1, <1>2, <2>1, <2>2, <2>3 DEF TypeOK
<1>6. WorkersFit' /\ CreatorsAreAlone' /\ DecidersKnow'
  BY <1>1, <1>3 DEF IInv, WorkersFit, CreatorsAreAlone, DecidersKnow, Creating, Deciding, Closing, InRequest
<1>7. DecisionsAreWhole' /\ LogIsTrue' /\ OneOpenCard'
  <2>1. "told" \notin did[k]
    BY <1>1 DEF IInv, ClosersHaveDone, Closing
  <2> QED
    BY <1>1, <1>3, <1>4, <2>1, LogStays DEF IInv, DecisionsAreWhole, OneOpenCard
<1>8. ClosersHaveDone' /\ ChecksStillHold'
  BY <1>1, <1>3, <1>4 DEF IInv, ClosersHaveDone, ChecksStillHold, Closing, Deciding
<1>9. OverlapsAreKnown'
  BY <1>1, <1>3, <1>4 DEF IInv, OverlapsAreKnown, InRequest, Creating, Deciding, Closing
<1>10. KycIsInStep'
  BY <1>1, <1>3, ClosingKeepsKyc
<1> QED
  BY <1>5, <1>6, <1>7, <1>8, <1>9, <1>10 DEF IInv

\* An edit saves the whole row that it read.
LEMMA ProductIsSavedKeeps ==
    ASSUME IInv, NEW k \in Workers, ProductIsSaved(k)
    PROVE  IInv'
<1>1. /\ pc[k] = "patch" /\ Respond(k) /\ rate' \in Rates
      /\ kind' = kind /\ status' = status /\ terms' = terms /\ kyc' = kyc
      /\ done' = done /\ cleared' = cleared /\ log' = log /\ review' = review /\ raced' = raced /\ served' = served
  BY DEF IInv, WorkersFit, ProductIsSaved, historyVars
<1>2. TypeOK
  BY DEF IInv
<1>4. /\ TypeOK' /\ WorkersFit' /\ CreatorsAreAlone' /\ DecidersKnow' /\ DecisionsAreWhole'
      /\ ClosersHaveDone' /\ OverlapsAreKnown' /\ ChecksStillHold' /\ OneOpenCard'
  BY <1>1, <1>2, RespondKeeps DEF TypeOK
<1>5. LogIsTrue'
  BY <1>1, <1>2, RespondFacts, LogStays
<1>6. KycIsInStep'
  BY <1>1, <1>2, RespondFacts, ClosingKeepsKyc
<1> QED
  BY <1>4, <1>5, <1>6 DEF IInv

-----------------------------------------------------------------------------
(* Every step                                                              *)

\* A decision that begins keeps the invariant: its checks have just been made.
LEMMA DecideBeginKeeps ==
    ASSUME IInv, NEW k \in Workers, NEW r \in Rows, NEW d \in Decisions, DecideBegin(k, r, d)
    PROVE  IInv'
<1>1. FirstLabel(d) \in Deciding /\ FirstLabel(d) \notin Creating
  BY LabelFacts DEF Deciding, Creating
<1>2. d \in Requests
  BY DEF Requests
<1>3. d = "loan.approve" => FirstLabel(d) = "price"
  BY LabelFacts
<1>4. FirstLabel(d) \notin {"open", "apply", "upload", "resubmit"}
  BY <1>1 DEF Creating
<1> QED
  BY <1>1, <1>2, <1>3, <1>4, ServeKeeps DEF DecideBegin

\* So does the arrival of what a customer asks for.
LEMMA CustomerBeginKeeps ==
    ASSUME IInv, NEW k \in Workers, NEW r \in Rows,
           CardRequestBegin(k, r) \/ LoanApplyBegin(k, r) \/ UploadBegin(k, r)
    PROVE  IInv'
<1>1. Fresh(r) /\ terms[r] = 0
  BY DEF CardRequestBegin, LoanApplyBegin, UploadBegin, Fresh, IInv, DecisionsAreWhole
<1>2. /\ {"card.request", "loan.apply", "kyc.upload"} \subseteq Requests
      /\ \A d \in {"card.request", "loan.apply", "kyc.upload"} : d \notin Decisions
  BY DEF Requests, Decisions
<1>3. Creating \cap Deciding = {} /\ Creating = {"open", "apply", "upload", "resubmit"}
  BY DEF Creating, Deciding
<1>4. CASE CardRequestBegin(k, r)
  BY <1>1, <1>2, <1>3, <1>4, ServeKeeps DEF CardRequestBegin
<1>5. CASE LoanApplyBegin(k, r)
  BY <1>1, <1>2, <1>3, <1>5, ServeKeeps DEF LoanApplyBegin
<1>6. CASE UploadBegin(k, r)
  <2>1. kind[r] = "document"
    BY <1>6 DEF UploadBegin
  <2>2. CASE Requeues(OwnerOf[r])
    <3>1. Serve(k, r, "kyc.upload", "resubmit") /\ kyc[OwnerOf[r]] # "verified"
      BY <1>6, <2>2 DEF UploadBegin, Requeues
    <3> QED
      BY <1>1, <1>2, <1>3, <2>1, <3>1, ServeKeeps
  <2>3. CASE ~Requeues(OwnerOf[r])
    <3>1. Serve(k, r, "kyc.upload", "upload")
      BY <1>6, <2>3 DEF UploadBegin
    <3> QED
      BY <1>1, <1>2, <1>3, <2>1, <3>1, ServeKeeps
  <2> QED
    BY <2>2, <2>3
<1> QED
  BY <1>4, <1>5, <1>6

\* Every step keeps the invariant.
LEMMA NextKeeps ==
    ASSUME IInv, [Next]_vars
    PROVE  IInv'
<1>1. TypeOK
  BY DEF IInv
<1>2. ASSUME NEW k \in Workers, WorkerStep(k)
      PROVE  IInv'
  <2>1. CASE RequestCreates(k)
    BY <2>1, RequestCreatesKeeps
  <2>2. CASE UploadCommits(k)
    BY <2>2, UploadCommitsKeeps
  <2>3. CASE UploadRollsBack(k)
    <3>1. pc[k] \in {"upload", "resubmit"} /\ EndsEarly(k)
      BY <2>3 DEF UploadRollsBack, EndsEarly, historyVars
    <3> QED
      BY <3>1, EndsEarlyKeeps
  <2>4. CASE LoanIsPriced(k)
    <3>1. rate \in Rates /\ rate \in Nat
      BY <1>1, ReviewAssumption DEF TypeOK
    <3>2. /\ seen' \in [Workers -> Nat] /\ seen'[k] \in Rates
          /\ \A j \in Workers : j # k => seen'[j] = seen[j]
      BY <1>1, <2>4, <3>1 DEF LoanIsPriced, TypeOK
    <3>3. /\ pc[k] = "price" /\ Goto(k, "save")
          /\ UNCHANGED <<kind, status, terms, kyc, rate, historyVars, job, doing, did>>
      BY <2>4 DEF LoanIsPriced
    <3> QED
      BY <3>2, <3>3, MovesOn
  <2>5. CASE StatusIsStashed(k)
    <3>1. PICK label \in {"save", "save_mail"} : Goto(k, label)
      BY <2>5 DEF StatusIsStashed
    <3>2. /\ pc[k] = "stash" /\ seen' = seen
          /\ UNCHANGED <<kind, status, terms, kyc, rate, historyVars, job, doing, did>>
      BY <2>5 DEF StatusIsStashed
    <3>3. seen' \in [Workers -> Nat]
      BY <1>1, <3>2 DEF TypeOK
    <3> QED
      BY <3>1, <3>2, <3>3, MovesOn
  <2>6. CASE DecisionIsSaved(k)
    BY <2>6, DecisionIsSavedKeeps
  <2>7. CASE MailIsSent(k)
    <3>1. /\ pc[k] = "mail" /\ seen' = seen /\ Goto(k, Afterwards(doing[k]))
          /\ UNCHANGED <<kind, status, terms, kyc, rate, historyVars, job, doing, did>>
      BY <2>7 DEF MailIsSent
    <3>2. seen' \in [Workers -> Nat]
      BY <1>1, <3>1 DEF TypeOK
    <3> QED
      BY <3>1, <3>2, MovesOn
  <2>8. CASE MailFails(k)
    BY <2>8, EndsEarlyKeeps DEF MailFails
  <2>9. CASE UserIsSaved(k)
    BY <2>9, UserIsSavedKeeps
  <2>10. CASE CustomerIsTold(k)
    BY <2>10, CustomerIsToldKeeps
  <2>11. CASE DecisionIsLogged(k)
    BY <2>11, DecisionIsLoggedKeeps
  <2>12. CASE ProductIsSaved(k)
    BY <2>12, ProductIsSavedKeeps
  <2> QED
    BY <1>2, <2>1, <2>2, <2>3, <2>4, <2>5, <2>6, <2>7, <2>8, <2>9, <2>10, <2>11, <2>12 DEF WorkerStep
<1>3. ASSUME NEW k \in Workers, Crash(k)
      PROVE  IInv'
  BY <1>3, EndsEarlyKeeps DEF Crash
<1>4. ASSUME NEW k \in Workers, NEW r \in Rows,
             CardRequestBegin(k, r) \/ LoanApplyBegin(k, r) \/ UploadBegin(k, r)
      PROVE  IInv'
  BY <1>4, CustomerBeginKeeps
<1>5. ASSUME NEW k \in Workers, NEW r \in Rows, NEW d \in Decisions, DecideBegin(k, r, d)
      PROVE  IInv'
  BY <1>5, DecideBeginKeeps
<1>6. ASSUME NEW k \in Workers, NEW d \in {"patch.rate", "patch.other"}, PatchBegin(k, d)
      PROVE  IInv'
  BY <1>6, PatchBeginKeeps
<1>7. CASE UNCHANGED vars
  <2>1. /\ kind' = kind /\ status' = status /\ terms' = terms /\ kyc' = kyc /\ rate' = rate
        /\ done' = done /\ cleared' = cleared /\ log' = log /\ did' = did /\ review' = review /\ raced' = raced /\ served' = served
        /\ pc' = pc /\ job' = job /\ doing' = doing /\ seen' = seen
    BY <1>7 DEF vars, historyVars, workerVars
  <2>2. /\ \A s : OpenCards(s)' = OpenCards(s)
        /\ \A s : Subject(s)' = Subject(s)
        /\ \A c : RacedCustomer(c)' = RacedCustomer(c)
    BY <2>1 DEF OpenCards, Subject, RacedCustomer
  <2>3. TypeOK' /\ WorkersFit' /\ CreatorsAreAlone' /\ DecidersKnow'
    BY <2>1 DEF IInv, TypeOK, WorkersFit, CreatorsAreAlone, DecidersKnow
  <2>4. DecisionsAreWhole' /\ ClosersHaveDone' /\ LogIsTrue' /\ OneOpenCard'
    BY <2>1, <2>2 DEF IInv, DecisionsAreWhole, ClosersHaveDone, LogIsTrue, OneOpenCard
  <2>5. OverlapsAreKnown' /\ ChecksStillHold' /\ KycIsInStep'
    BY <2>1, <2>2 DEF IInv, OverlapsAreKnown, ChecksStillHold, KycIsInStep
  <2> QED
    BY <2>3, <2>4, <2>5 DEF IInv
<1> QED
  BY <1>2, <1>3, <1>4, <1>5, <1>6, <1>7 DEF Next

-----------------------------------------------------------------------------
(* The theorems                                                            *)

\* The inductive invariant holds in every reachable state.
THEOREM Inductive == Spec => []IInv
<1>1. Init => IInv
  BY InitInvariant
<1>2. IInv /\ [Next]_vars => IInv'
  BY NextKeeps
<1> QED
  BY <1>1, <1>2, PTL DEF Spec

\* Every variable keeps its type; a worker that is within a request about a
\* card, a document or a loan application knows which and what it does.
THEOREM TypeCorrect == Spec => []TypeOK
<1>1. IInv => TypeOK
  BY DEF IInv
<1> QED
  BY <1>1, Inductive, PTL

\* Whatever the decisions on one row overwrite of each other, an active or
\* blocked card has been issued, an approved loan has a rate of its product,
\* and a row that waits for a decision has nothing of the kind.
THEOREM RowsAreWhole == Spec => []DecisionsAreWhole
<1>1. IInv => DecisionsAreWhole
  BY DEF IInv
<1> QED
  BY <1>1, Inductive, PTL

\* The request that wrote an audit row has saved the decision and told the
\* customer, and has saved the user's row if it reviewed a document; nobody is
\* told of a review that their user row does not show, and nobody is verified
\* who never had an approval: whichever mail failed, whichever worker died.
THEOREM TheLogIsTrue == Spec => []LogIsTrue
<1>1. IInv => LogIsTrue
  BY DEF IInv
<1> QED
  BY <1>1, Inductive, PTL

\* CardListCreateView opens no second card for an account, unless requests
\* about its cards overlapped or a blocked card was reactivated.
THEOREM OneCardIsOpen == Spec => []OneOpenCard
<1>1. IInv => OneOpenCard
  BY DEF IInv
<1> QED
  BY <1>1, Inductive, PTL

\* Between requests kyc_status says what the last review of the customer's
\* documents said, unless reviews or uploads overlapped or one was cut short.
THEOREM StatusFollowsReviews == Spec => []KycFollowsReviews
<1>1. IInv => KycFollowsReviews
  <2> SUFFICES ASSUME IInv, NEW c \in Customers, AtRest(c), ~RacedCustomer(c), review[c] # "cut"
               PROVE  kyc[c] = "verified" <=> review[c] = "kyc.approve"
    BY DEF KycFollowsReviews
  <2>1. ~\E k \in Workers : pc[k] \in {"mail", "user"} /\ kind[job[k]] = "document" /\ OwnerOf[job[k]] = c
    BY DEF IInv, TypeOK, AtRest
  <2> QED
    BY <2>1 DEF IInv, KycIsInStep
<1> QED
  BY <1>1, Inductive, PTL

\* What a step does to the decided rows that no requests overlapped about.
LEMMA DecidedRowsStay ==
    ASSUME IInv, [Next]_vars
    PROVE  \A r \in Rows \ raced' :
              /\ Final(r) => status'[r] = status[r]
              /\ terms[r] # 0 => terms'[r] = terms[r]
<1>1. ASSUME NEW k \in Workers, RequestCreates(k) \/ UploadCommits(k)
      PROVE  \A r \in Rows : /\ Final(r) => status'[r] = status[r]
                             /\ terms'[r] = terms[r]
  <2>1. pc[k] \in Creating
    BY <1>1 DEF RequestCreates, UploadCommits, Creating
  <2>2. status[job[k]] = "none" /\ terms' = terms
    BY <1>1, <2>1 DEF RequestCreates, UploadCommits, IInv, CreatorsAreAlone
  <2>3. \A r \in Rows : r # job[k] => status'[r] = status[r]
    BY <1>1 DEF RequestCreates, UploadCommits, Insert, IInv, TypeOK
  <2> QED
    BY <2>2, <2>3 DEF Final
<1>2. ASSUME NEW k \in Workers, DecisionIsSaved(k)
      PROVE  \A r \in Rows \ raced' : /\ Final(r) => status'[r] = status[r]
                                      /\ terms[r] # 0 => terms'[r] = terms[r]
  <2>1. pc[k] \in Deciding /\ job[k] \in Rows /\ doing[k] \in Decisions /\ kind[job[k]] = Rule(doing[k]).of
    BY <1>2 DEF DecisionIsSaved, IInv, TypeOK, WorkersFit, Deciding, InRequest
  <2>2. \A r \in Rows : r # job[k] => status'[r] = status[r] /\ terms'[r] = terms[r]
    BY <1>2 DEF DecisionIsSaved, IInv, TypeOK
  <2>3. terms'[job[k]] = NewTerms(k) /\ raced' = raced
    BY <1>2, <2>1 DEF DecisionIsSaved, IInv, TypeOK
  <2>4. ASSUME job[k] \notin raced
        PROVE  ~Final(job[k]) /\ (terms[job[k]] # 0 => NewTerms(k) = terms[job[k]])
    <3>1. status[job[k]] \in Rule(doing[k]).from
      BY <2>1, <2>4 DEF IInv, ChecksStillHold
    <3>2. ~Final(job[k])
      BY <2>1, <3>1, RuleFacts DEF Final
    <3>3. doing[k] \in {"card.approve", "loan.approve"} => terms[job[k]] = 0
      BY <2>1, <3>1, CardRules, LoanRules DEF IInv, DecisionsAreWhole
    <3>4. doing[k] \notin {"card.approve", "loan.approve"} => NewTerms(k) = terms[job[k]]
      BY DEF NewTerms
    <3> QED
      BY <3>2, <3>3, <3>4
  <2> QED
    BY <2>2, <2>3, <2>4
<1>3. CASE status' = status /\ terms' = terms
  BY <1>3
<1>4. CASE UNCHANGED vars
  BY <1>3, <1>4 DEF vars
<1>5. ASSUME NEW k \in Workers, WorkerStep(k) \/ Crash(k),
             ~RequestCreates(k), ~UploadCommits(k), ~DecisionIsSaved(k)
      PROVE  status' = status /\ terms' = terms
  BY <1>5 DEF WorkerStep, UploadRollsBack, LoanIsPriced, StatusIsStashed, MailIsSent, MailFails,
     EndsEarly, UserIsSaved, CustomerIsTold, DecisionIsLogged, ProductIsSaved, Crash
<1>6. ASSUME NEW k \in Workers, NEW r \in Rows, NEW d \in Decisions,
             CardRequestBegin(k, r) \/ LoanApplyBegin(k, r) \/ UploadBegin(k, r) \/ DecideBegin(k, r, d)
      PROVE  status' = status /\ terms' = terms
  BY <1>6 DEF CardRequestBegin, LoanApplyBegin, UploadBegin, DecideBegin, Serve
<1>7. ASSUME NEW k \in Workers, NEW d \in {"patch.rate", "patch.other"}, PatchBegin(k, d)
      PROVE  status' = status /\ terms' = terms
  BY <1>7 DEF PatchBegin
<1>8. "card.approve" \in Decisions
  BY DEF Decisions
<1> QED
  BY <1>1, <1>2, <1>3, <1>4, <1>5, <1>6, <1>7, <1>8 DEF Next

\* A decided card or application stays decided, and what its approval fixed
\* stays, whatever happens to the product: unless two requests about it
\* overlapped.
THEOREM DecisionsAreFinal == Spec => DecidedIsFinal
<1>1. IInv /\ [Next]_vars => [\A r \in Rows \ raced' :
                                /\ Final(r) => status'[r] = status[r]
                                /\ terms[r] # 0 => terms'[r] = terms[r]]_vars
  BY DecidedRowsStay
<1> QED
  BY <1>1, Inductive, PTL DEF Spec, DecidedIsFinal
=============================================================================
