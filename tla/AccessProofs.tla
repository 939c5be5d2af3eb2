---------------------------- MODULE AccessProofs ----------------------------
(***************************************************************************)
(* Proofs about Access, for every set of users and workers, any number of  *)
(* requests, devices and sessions, with crashes or without.                *)
(*                                                                         *)
(* The argument has four parts that do not need each other, only TypeOK    *)
(* and WorkersFit: AdminsAreSafe, BlocksHold, LinksAreWhole and            *)
(* DevicesAreSingle.  What a request has checked stays true for it while   *)
(* nobody else is at the same topic; a block needs no such condition, it   *)
(* sees to every session there is when it lists them, but the renewed.     *)
(***************************************************************************)
EXTENDS Access, WellFoundedInduction, TLAPS

-----------------------------------------------------------------------------
(* The inductive invariant                                                 *)

SigningIn == {"create", "code", "mail", "verify", "issue", "clear"}
Saving    == {"stash", "save", "save_mail"}

\* A worker's label fits its request.
WorkersFit ==
    \A k \in Workers : pc[k] # "idle" =>
        /\ pc[k] \in SigningIn <=> doing[k] \in SignInRequests
        /\ pc[k] = "link" <=> doing[k] = "link"
        /\ pc[k] = "use" => doing[k] = "confirm"
        /\ pc[k] \in {"list", "revoke"} => doing[k] = "block"
        /\ pc[k] \in {"code", "mail", "verify"} => at[k] \in DeviceIds
        /\ pc[k] = "rotate" => at[k] \in SessionIds
        /\ pc[k] \in Saving => saves[k] \in Roles
        /\ doing[k] = "promote" => saves[k] = "admin"

RoleRaced == \E u \in Users : <<"role", u>> \in raced
ServesRole(k) == pc[k] # "idle" /\ doing[k] \in RoleRequests

\* While requests about roles come one at a time, whoever is about to lose
\* the role is not the only one who has it.
AdminsAreSafe ==
    RoleRaced \/ /\ \E u \in Users : role[u] = "admin"
                 /\ \A j, k \in Workers : ServesRole(j) /\ ServesRole(k) => j = k
                 /\ \A k \in Workers : pc[k] \in Saving /\ doing[k] = "demote" =>
                       \E v \in Users \ {job[k]} : role[v] = "admin"

\* A block of u that has yet to revoke session n.
SeesTo(k, u, n) ==
    /\ doing[k] = "block" /\ job[k] = u
    /\ pc[k] \in {"notify", "list"} \/ (pc[k] = "revoke" /\ n \in todo[k])

\* Nobody signs in as a blocked user any more, and every session of theirs that
\* has a row has been revoked or will be.
BlocksHold ==
    \A u \in Users : frozen[u] /\ u \notin doubt =>
        /\ PastTheCheck(u) = {}
        /\ \A n \in ListedOf(u) : n \in revoked[u] \/ \E k \in Workers : SeesTo(k, u, n)

Confirms(k, u) == pc[k] # "idle" /\ doing[k] = "confirm" /\ job[k] = u

\* A link is made once, and used before it changes anything.
LinksAreWhole ==
    /\ \A k \in Workers : pc[k] = "link" =>
          link[job[k]] = "none" /\ \A j \in Workers : pc[j] = "link" /\ job[j] = job[k] => j = k
    /\ \A u \in Users :
          /\ applied[u] > 0 => link[u] = "used"
          /\ \A k \in Workers : Confirms(k, u) =>
                link[u] = "used" \/ (link[u] = "sent" /\ pc[k] = "use")
          /\ <<"confirm", u>> \in raced \/
                /\ applied[u] <= 1
                /\ \A j, k \in Workers : Confirms(j, u) /\ Confirms(k, u) => j = k
                /\ \A k \in Workers : Confirms(k, u) =>
                      /\ pc[k] = "use" => link[u] = "sent"
                      /\ pc[k] \in Saving => applied[u] = 0

SignsIn(k, u) == pc[k] \in SigningIn /\ job[k] = u

\* While requests to sign in come one at a time, they find at most one row.
DevicesAreSingle ==
    \A u \in Users : <<"sign-in", u>> \in raced \/
        /\ \A m, n \in DevicesOf(u) : m = n
        /\ \A j, k \in Workers : SignsIn(j, u) /\ SignsIn(k, u) => j = k
        /\ \A k \in Workers : job[k] = u =>
              /\ pc[k] = "create" => DevicesOf(u) = {}
              /\ pc[k] \in {"code", "mail", "verify"} => DevicesOf(u) \subseteq {at[k]}

IInv ==
    /\ TypeOK
    /\ WorkersFit
    /\ AdminsAreSafe
    /\ BlocksHold
    /\ LinksAreWhole
    /\ DevicesAreSingle

-----------------------------------------------------------------------------
(* Of the parts steps are made of                                          *)

\* The first of some device rows is one of them.
LEMMA FirstFact ==
    ASSUME NEW S \in SUBSET Nat, S # {}
    PROVE  First(S) \in S
<1> DEFINE Below == {p \in Nat \X Nat : p[1] < p[2]}
<1>1. IsWellFoundedOn(Below, Nat)
  BY NatLessThanWellFounded DEF OpToRel
<1>2. PICK n \in S : \A m \in S : <<m, n>> \notin Below
  <2> HIDE DEF Below
  <2> QED
    BY <1>1, WFMin
<1>3. \A m \in S : n <= m
  <2> TAKE m \in S
  <2>1. m \in Nat /\ n \in Nat
    OBVIOUS
  <2>2. ~(m < n)
    <3> SUFFICES ASSUME m < n PROVE <<m, n>> \in Below
      BY <1>2
    <3> QED
      BY <2>1
  <2> QED
    BY <2>1, <2>2
<1> QED
  BY <1>3 DEF First

\* Topics tell apart the requests that get in each other's way.
LEMMA TopicFacts ==
    \A d \in Requests :
        /\ Topic(d) = "sign-in" <=> d \in SignInRequests
        /\ Topic(d) = "role" <=> d \in RoleRequests
        /\ Topic(d) = "confirm" <=> d = "confirm"
<1> SUFFICES ASSUME NEW d \in Requests
             PROVE  /\ Topic(d) = "sign-in" <=> d \in SignInRequests
                    /\ Topic(d) = "role" <=> d \in RoleRequests
                    /\ Topic(d) = "confirm" <=> d = "confirm"
  OBVIOUS
<1>1. CASE d \in SignInRequests
  BY <1>1 DEF Topic, SignInRequests, RoleRequests
<1>2. CASE d \in RoleRequests
  BY <1>2 DEF Topic, SignInRequests, RoleRequests
<1>3. CASE d \notin SignInRequests \cup RoleRequests
  <2>1. Topic(d) = d
    BY <1>3 DEF Topic
  <2> QED
    BY <1>3, <2>1 DEF Requests
<1> QED
  BY <1>1, <1>2, <1>3

\* One code is written, of one device of one user.
LEMMA SetCodeFacts ==
    ASSUME TypeOK, NEW u \in Users, NEW n \in DeviceIds,
           NEW stage \in {"unused", "deleted", "none", "mailed"} \cup Workers, SetCode(u, n, stage)
    PROVE  /\ code' \in [Users -> [DeviceIds -> {"unused", "deleted", "none", "mailed"} \cup Workers]]
           /\ \A v \in Users : v # u => DevicesOf(v)' = DevicesOf(v)
           /\ DevicesOf(u)' \subseteq DevicesOf(u) \cup {n}
<1> DEFINE S == {"unused", "deleted", "none", "mailed"} \cup Workers
           row == [code[u] EXCEPT ![n] = stage]
<1>1. code \in [Users -> [DeviceIds -> S]] /\ stage \in S
  BY DEF TypeOK
<1>2. code[u] \in [DeviceIds -> S]
  BY <1>1
<1>3. row \in [DeviceIds -> S] /\ \A m \in DeviceIds : m # n => row[m] = code[u][m]
  <2> HIDE DEF S
  <2> QED
    BY <1>1, <1>2
<1>4. code' = [code EXCEPT ![u] = row]
  BY DEF SetCode
<1>5. /\ code' \in [Users -> [DeviceIds -> S]]
      /\ code'[u] = row /\ \A v \in Users : v # u => code'[v] = code[v]
  <2> HIDE DEF S, row
  <2> QED
    BY <1>1, <1>3, <1>4
<1>6. DevicesOf(u)' \subseteq DevicesOf(u) \cup {n}
  <2> HIDE DEF row
  <2> QED
    BY <1>3, <1>5 DEF DevicesOf
<1> QED
  BY <1>5, <1>6 DEF DevicesOf

\* What TypeOK says of the workers.
WorkersTyped ==
    /\ pc \in [Workers -> Labels]
    /\ job \in [Workers -> Users \cup {NoOne}]
    /\ doing \in [Workers -> Requests \cup {NoOne}]
    /\ at \in [Workers -> Nat]
    /\ saves \in [Workers -> Roles \cup {NoOne}]
    /\ todo \in [Workers -> SUBSET SessionIds]
    /\ \A k \in Workers : pc[k] # "idle" => job[k] \in Users /\ doing[k] \in Requests

\* The end of a request frees its worker and touches no other.
LEMMA RespondFacts ==
    ASSUME TypeOK, NEW k \in Workers, Respond(k)
    PROVE  /\ WorkersTyped'
           /\ pc'[k] = "idle" /\ job'[k] = NoOne
           /\ \A j \in Workers : j # k =>
                 /\ pc'[j] = pc[j] /\ job'[j] = job[j] /\ doing'[j] = doing[j]
                 /\ at'[j] = at[j] /\ saves'[j] = saves[j] /\ todo'[j] = todo[j]
<1>1. /\ pc' = [pc EXCEPT ![k] = "idle"] /\ job' = [job EXCEPT ![k] = NoOne]
      /\ doing' = [doing EXCEPT ![k] = NoOne] /\ at' = [at EXCEPT ![k] = 0]
      /\ saves' = [saves EXCEPT ![k] = NoOne] /\ todo' = [todo EXCEPT ![k] = {}]
  BY DEF Respond
<1>2. /\ pc'[k] = "idle" /\ job'[k] = NoOne
      /\ \A j \in Workers : j # k =>
            /\ pc'[j] = pc[j] /\ job'[j] = job[j] /\ doing'[j] = doing[j]
            /\ at'[j] = at[j] /\ saves'[j] = saves[j] /\ todo'[j] = todo[j]
  BY <1>1 DEF TypeOK
<1>3. /\ pc' \in [Workers -> Labels] /\ job' \in [Workers -> Users \cup {NoOne}]
      /\ doing' \in [Workers -> Requests \cup {NoOne}] /\ at' \in [Workers -> Nat]
      /\ saves' \in [Workers -> Roles \cup {NoOne}] /\ todo' \in [Workers -> SUBSET SessionIds]
  BY <1>1, AccessAssumption DEF TypeOK, Labels
<1> QED
  BY <1>2, <1>3 DEF TypeOK, WorkersTyped

\* A statement that is not the last of its request.
LEMMA GotoFacts ==
    ASSUME TypeOK, NEW k \in Workers, NEW label \in Labels \ {"idle"}, pc[k] # "idle",
           Goto(k, label), job' = job, doing' = doing,
           at' \in [Workers -> Nat], saves' \in [Workers -> Roles \cup {NoOne}],
           todo' \in [Workers -> SUBSET SessionIds]
    PROVE  /\ WorkersTyped'
           /\ pc'[k] = label /\ \A j \in Workers : j # k => pc'[j] = pc[j]
<1>1. pc' \in [Workers -> Labels] /\ pc'[k] = label /\ \A j \in Workers : j # k => pc'[j] = pc[j]
  BY DEF TypeOK, Goto
<1> QED
  BY <1>1 DEF TypeOK, WorkersTyped

\* The arrival of a request.
LEMMA ServeFacts ==
    ASSUME TypeOK, NEW k \in Workers, NEW d \in Requests, NEW u \in Users,
           NEW label \in Labels \ {"idle"}, Serve(k, d, u, label),
           at' \in [Workers -> Nat], saves' \in [Workers -> Roles \cup {NoOne}]
    PROVE  /\ TypeOK'
           /\ pc[k] = "idle" /\ pc'[k] = label /\ job'[k] = u /\ doing'[k] = d
           /\ \A j \in Workers : j # k => pc'[j] = pc[j] /\ job'[j] = job[j] /\ doing'[j] = doing[j]
           /\ role' = role /\ frozen' = frozen /\ code' = code /\ issued' = issued /\ renewed' = renewed
           /\ revoked' = revoked /\ link' = link /\ applied' = applied /\ doubt' = doubt /\ todo' = todo
           /\ raced \subseteq raced' /\ raced' \subseteq raced \cup {<<Topic(d), u>>}
           /\ \A j \in Others(d, u) : <<Topic(d), u>> \in raced'
<1>1. /\ pc[k] = "idle" /\ served < MaxRequests /\ served' = served + 1
      /\ pc' = [pc EXCEPT ![k] = label] /\ job' = [job EXCEPT ![k] = u]
      /\ doing' = [doing EXCEPT ![k] = d]
      /\ raced' = raced \cup {<<Topic(d), u>> : j \in Others(d, u)}
      /\ role' = role /\ frozen' = frozen /\ code' = code /\ issued' = issued /\ renewed' = renewed
      /\ revoked' = revoked /\ link' = link /\ applied' = applied /\ doubt' = doubt /\ todo' = todo
  BY DEF Serve, Goto, userVars, signInVars, linkVars
<1>2. /\ pc'[k] = label /\ job'[k] = u /\ doing'[k] = d
      /\ \A j \in Workers : j # k => pc'[j] = pc[j] /\ job'[j] = job[j] /\ doing'[j] = doing[j]
  BY <1>1 DEF TypeOK
<1>3. /\ raced \subseteq raced' /\ raced' \subseteq raced \cup {<<Topic(d), u>>}
      /\ \A j \in Others(d, u) : <<Topic(d), u>> \in raced'
  BY <1>1
<1>4. TypeOK'
  <2>1. served' \in 0 .. MaxRequests
    BY <1>1, AccessAssumption DEF TypeOK
  <2>2. raced' \subseteq {Topic(e) : e \in Requests} \X Users
    BY <1>3 DEF TypeOK
  <2>3. /\ pc' \in [Workers -> Labels] /\ job' \in [Workers -> Users \cup {NoOne}]
        /\ doing' \in [Workers -> Requests \cup {NoOne}]
    BY <1>1 DEF TypeOK
  <2>4. \A j \in Workers : pc'[j] # "idle" => job'[j] \in Users /\ doing'[j] \in Requests
    BY <1>2 DEF TypeOK
  <2> QED
    BY <1>1, <2>1, <2>2, <2>3, <2>4 DEF TypeOK
<1> QED
  BY <1>1, <1>2, <1>3, <1>4

-----------------------------------------------------------------------------
(* The invariant holds initially                                           *)

\* Before the first request the invariant holds.
LEMMA InitInvariant == Init => IInv
<1> SUFFICES ASSUME Init PROVE IInv
  OBVIOUS
<1>1. /\ role \in [Users -> Roles] /\ \E u \in Users : role[u] = "admin"
      /\ frozen = [u \in Users |-> FALSE] /\ issued \in [Users -> {0, 1}]
      /\ code = [u \in Users |-> [n \in DeviceIds |->
                    IF n = 1 /\ issued[u] = 1 THEN "mailed" ELSE "unused"]]
      /\ renewed = [u \in Users |-> {}] /\ revoked = [u \in Users |-> {}]
      /\ link = [u \in Users |-> "none"]
      /\ applied = [u \in Users |-> 0] /\ raced = {} /\ doubt = {} /\ served = 0
  BY DEF Init
<1>2. /\ pc = [k \in Workers |-> "idle"] /\ job = [k \in Workers |-> NoOne]
      /\ doing = [k \in Workers |-> NoOne] /\ at = [k \in Workers |-> 0]
      /\ saves = [k \in Workers |-> NoOne] /\ todo = [k \in Workers |-> {}]
  BY DEF Init
<1>3. TypeOK
  <2>1. issued \in [Users -> 0 .. MaxSessions]
    BY <1>1, AccessAssumption
  <2>2. code \in [Users -> [DeviceIds -> {"unused", "deleted", "none", "mailed"} \cup Workers]]
    BY <1>1
  <2>3. pc \in [Workers -> Labels] /\ at \in [Workers -> Nat]
    BY <1>2, AccessAssumption DEF Labels
  <2>4. served \in 0 .. MaxRequests
    BY <1>1, AccessAssumption
  <2> QED
    BY <1>1, <1>2, <2>1, <2>2, <2>3, <2>4 DEF TypeOK
<1>4. WorkersFit /\ AdminsAreSafe /\ LinksAreWhole
  BY <1>1, <1>2 DEF WorkersFit, AdminsAreSafe, LinksAreWhole, ServesRole, Confirms, Saving
<1>5. BlocksHold
  BY <1>1 DEF BlocksHold
<1>6. DevicesAreSingle
  <2>1. \A u \in Users : \A n \in DevicesOf(u) : n = 1
    BY <1>1 DEF DevicesOf
  <2> QED
    BY <1>2, <2>1 DEF DevicesAreSingle, SignsIn, SigningIn
<1> QED
  BY <1>3, <1>4, <1>5, <1>6 DEF IInv

-----------------------------------------------------------------------------
(* A request arrives                                                       *)

\* A request arrives, having just made its checks.
LEMMA ArrivalKeeps ==
    ASSUME IInv, NEW k \in Workers, NEW d \in Requests, NEW u \in Users,
           NEW label \in (SigningIn \ {"issue"}) \cup {"rotate", "link", "use", "stash"},
           Serve(k, d, u, label),
           at' \in [Workers -> Nat], saves' \in [Workers -> Roles \cup {NoOne}],
           \A j \in Workers : j # k => at'[j] = at[j] /\ saves'[j] = saves[j],
           label \in SigningIn <=> d \in SignInRequests,
           label = "link" <=> d = "link",
           label = "stash" => saves'[k] \in Roles,
           d = "promote" => saves'[k] = "admin",
           d = "demote" => \E v \in Users \ {u} : role[v] = "admin",
           d = "confirm" <=> label = "use",
           label = "use" => link[u] = "sent",
           label = "link" => link[u] = "none" /\ \A j \in Workers : doing[j] = "link" => job[j] # u,
           label = "create" => DevicesOf(u) = {},
           label = "verify" => ~frozen[u],
           label \in {"code", "mail", "verify"} => at'[k] = First(DevicesOf(u)) /\ DevicesOf(u) # {},
           label = "rotate" => at'[k] \in SessionIds
    PROVE  IInv'
<1>1. label \in Labels \ {"idle"}
  BY DEF Labels, SigningIn
<1>2. TypeOK /\ WorkersFit
  BY DEF IInv
<1>3. /\ TypeOK'
      /\ pc[k] = "idle" /\ pc'[k] = label /\ job'[k] = u /\ doing'[k] = d
      /\ \A j \in Workers : j # k => pc'[j] = pc[j] /\ job'[j] = job[j] /\ doing'[j] = doing[j]
      /\ role' = role /\ frozen' = frozen /\ code' = code /\ issued' = issued /\ renewed' = renewed
      /\ revoked' = revoked /\ link' = link /\ applied' = applied /\ doubt' = doubt /\ todo' = todo
      /\ raced \subseteq raced' /\ raced' \subseteq raced \cup {<<Topic(d), u>>}
      /\ \A j \in Others(d, u) : <<Topic(d), u>> \in raced'
  BY <1>1, <1>2, ServeFacts
<1>4. DevicesOf(u) \in SUBSET Nat /\ DevicesOf(u) \subseteq DeviceIds
  BY DEF DevicesOf, DeviceIds
<1>5. label \in {"code", "mail", "verify"} => at'[k] \in DevicesOf(u)
  BY <1>4, FirstFact
<1>6. WorkersFit'
  <2>1. WorkersFit!(k)'
    BY <1>3, <1>4, <1>5 DEF SigningIn, Saving
  <2>2. ASSUME NEW j \in Workers, j # k
        PROVE  WorkersFit!(j)'
    BY <1>2, <1>3, <2>2 DEF WorkersFit
  <2> QED
    BY <2>1, <2>2 DEF WorkersFit
<1>7. AdminsAreSafe'
  <2>1. RoleRaced => RoleRaced'
    BY <1>3 DEF RoleRaced
  <2>2. CASE d \in RoleRequests
    <3>1. Topic(d) = "role"
      BY <2>2, TopicFacts
    <3>2. ASSUME NEW j \in Workers, ServesRole(j)
          PROVE  RoleRaced'
      <4>1. j \in Others(d, u)
        BY <1>2, <2>2, <3>1, <3>2, TopicFacts DEF Others, ServesRole, TypeOK
      <4> QED
        BY <1>3, <3>1, <4>1 DEF RoleRaced
    <3>3. \A j \in Workers : j # k /\ ServesRole(j)' => ServesRole(j)
      BY <1>3 DEF ServesRole
    <3>4. \A j \in Workers : pc'[j] \in Saving /\ doing'[j] = "demote" => ServesRole(j)'
      BY DEF ServesRole, Saving, RoleRequests
    <3> QED
      BY <1>3, <2>1, <3>2, <3>3, <3>4 DEF IInv, AdminsAreSafe
  <2>3. CASE d \notin RoleRequests
    <3>1. /\ ~ServesRole(k)' /\ doing'[k] # "demote"
          /\ \A j \in Workers : j # k => ServesRole(j)' = ServesRole(j)
      BY <1>3, <2>3 DEF ServesRole, RoleRequests
    <3> QED
      BY <1>3, <2>1, <3>1 DEF IInv, AdminsAreSafe
  <2> QED
    BY <2>2, <2>3
<1>8. BlocksHold'
  <2>1. ASSUME NEW v \in Users, frozen[v], PastTheCheck(v) = {}
        PROVE  PastTheCheck(v)' = {}
    BY <1>3, <2>1 DEF PastTheCheck, SigningIn
  <2>2. \A j \in Workers : \A v, n : SeesTo(j, v, n) => SeesTo(j, v, n)'
    BY <1>3 DEF SeesTo
  <2>3. \A v : ListedOf(v)' = ListedOf(v)
    BY <1>3 DEF ListedOf
  <2> QED
    BY <1>3, <2>1, <2>2, <2>3 DEF IInv, BlocksHold
<1>9. LinksAreWhole'
  <2>1. ASSUME NEW j \in Workers, pc'[j] = "link"
        PROVE  link[job'[j]] = "none" /\ \A i \in Workers : pc'[i] = "link" /\ job'[i] = job'[j] => i = j
    <3>1. \A i \in Workers : pc[i] = "link" => doing[i] = "link"
      BY <1>2 DEF WorkersFit
    <3> QED
      BY <1>3, <2>1, <3>1 DEF IInv, LinksAreWhole
  <2>2. \A j \in Workers, v \in Users : j # k => Confirms(j, v)' = Confirms(j, v)
    BY <1>3 DEF Confirms
  <2>3. \A v \in Users : Confirms(k, v)' => d = "confirm" /\ label = "use" /\ v = u
    BY <1>3 DEF Confirms
  <2>4. ASSUME NEW v \in Users, <<"confirm", v>> \notin raced', NEW j \in Workers,
               Confirms(k, v)', Confirms(j, v)
        PROVE  FALSE
    <3>1. j \in Others(d, u)
      BY <1>2, <2>3, <2>4, TopicFacts DEF Others, Confirms, Requests
    <3>2. <<Topic(d), u>> \in raced' /\ Topic(d) = "confirm"
      BY <1>3, <2>3, <2>4, <3>1, TopicFacts
    <3> QED
      BY <2>3, <2>4, <3>2
  <2>5. ASSUME NEW v \in Users
        PROVE  /\ applied[v] > 0 => link[v] = "used"
               /\ \A j \in Workers : Confirms(j, v)' =>
                     link[v] = "used" \/ (link[v] = "sent" /\ pc'[j] = "use")
               /\ <<"confirm", v>> \in raced' \/
                     /\ applied[v] <= 1
                     /\ \A i, j \in Workers : Confirms(i, v)' /\ Confirms(j, v)' => i = j
                     /\ \A j \in Workers : Confirms(j, v)' =>
                           /\ pc'[j] = "use" => link[v] = "sent"
                           /\ pc'[j] \in Saving => applied[v] = 0
    BY <1>3, <2>2, <2>3, <2>4 DEF IInv, LinksAreWhole, Saving
  <2> QED
    BY <1>3, <2>1, <2>5 DEF LinksAreWhole
<1>10. DevicesAreSingle'
  <2>1. \A v : DevicesOf(v)' = DevicesOf(v)
    BY <1>3 DEF DevicesOf
  <2>2. \A j \in Workers, v \in Users : j # k => SignsIn(j, v)' = SignsIn(j, v)
    BY <1>3 DEF SignsIn
  <2>3. ASSUME NEW v \in Users, <<"sign-in", v>> \notin raced', NEW j \in Workers, j # k,
               SignsIn(k, v)', SignsIn(j, v)
        PROVE  FALSE
    <3>1. v = u /\ d \in SignInRequests /\ Topic(d) = "sign-in"
      BY <1>3, <2>3, TopicFacts DEF SignsIn
    <3>2. pc[j] # "idle" /\ doing[j] \in Requests /\ doing[j] \in SignInRequests
      BY <1>2, <2>3 DEF SignsIn, SigningIn, TypeOK, WorkersFit
    <3>3. j \in Others(d, u)
      BY <2>3, <3>1, <3>2, TopicFacts DEF Others, SignsIn
    <3> QED
      BY <1>3, <2>3, <3>1, <3>3
  <2>4. ASSUME NEW v \in Users, <<"sign-in", v>> \notin raced
        PROVE  /\ \A m, n \in DevicesOf(v) : m = n
               /\ \A j \in Workers : j # k /\ job'[j] = v =>
                    /\ pc'[j] = "create" => DevicesOf(v) = {}
                    /\ pc'[j] \in {"code", "mail", "verify"} => DevicesOf(v) \subseteq {at'[j]}
               /\ job'[k] = v =>
                    /\ pc'[k] = "create" => DevicesOf(v) = {}
                    /\ pc'[k] \in {"code", "mail", "verify"} => DevicesOf(v) \subseteq {at'[k]}
    BY <1>3, <1>5, <2>4 DEF IInv, DevicesAreSingle
  <2>5. ASSUME NEW v \in Users, <<"sign-in", v>> \notin raced'
        PROVE  \A i, j \in Workers : SignsIn(i, v)' /\ SignsIn(j, v)' => i = j
    BY <1>3, <2>2, <2>3, <2>5 DEF IInv, DevicesAreSingle
  <2> QED
    BY <1>3, <2>1, <2>4, <2>5 DEF DevicesAreSingle
<1> QED
  BY <1>3, <1>6, <1>7, <1>8, <1>9, <1>10 DEF IInv

\* Every request arrives having made the checks of its view.
LEMMA RequestKeeps ==
    ASSUME IInv, NEW k \in Workers, NEW u \in Users,
           \/ LoginBegin(k, u) \/ ResendBegin(k, u) \/ VerifyBegin(k, u) \/ RefreshBegin(k, u)
           \/ LinkBegin(k, u) \/ ConfirmBegin(k, u)
           \/ \E a \in Users : StaffRequest(k, a, u)
    PROVE  IInv'
<1>1. /\ at \in [Workers -> Nat] /\ saves \in [Workers -> Roles \cup {NoOne}]
      /\ role[u] \in Roles
  BY DEF IInv, TypeOK
<1>2. DevicesOf(u) \in SUBSET Nat
  BY DEF DevicesOf, DeviceIds
<1>3. DevicesOf(u) # {} => First(DevicesOf(u)) \in Nat
  BY <1>2, FirstFact
<1>4. CASE LoginBegin(k, u)
  <2>1. CASE DevicesOf(u) = {} /\ Serve(k, "login", u, "create") /\ UNCHANGED <<at, saves>>
    <3> QED
      BY <1>1, <2>1, ArrivalKeeps DEF SigningIn, Requests, SignInRequests
  <2>2. ASSUME NEW n \in DeviceIds, DevicesOf(u) = {n}, Serve(k, "login", u, "code"),
               at' = [at EXCEPT ![k] = n], saves' = saves
        PROVE  IInv'
    <3>1. First(DevicesOf(u)) = n
      BY <1>2, <2>2, FirstFact
    <3>2. at' \in [Workers -> Nat] /\ at'[k] = n /\ \A j \in Workers : j # k => at'[j] = at[j]
      BY <1>1, <2>2, AccessAssumption DEF DeviceIds
    <3> QED
      BY <1>1, <2>2, <3>1, <3>2, ArrivalKeeps DEF SigningIn, Requests, SignInRequests
  <2> QED
    BY <1>4, <2>1, <2>2 DEF LoginBegin
<1>5. CASE ResendBegin(k, u)
  <2>1. /\ DevicesOf(u) # {} /\ Serve(k, "resend", u, "code")
        /\ at' = [at EXCEPT ![k] = First(DevicesOf(u))] /\ saves' = saves
    BY <1>5 DEF ResendBegin
  <2>2. /\ at' \in [Workers -> Nat] /\ at'[k] = First(DevicesOf(u))
        /\ \A j \in Workers : j # k => at'[j] = at[j]
    BY <1>1, <1>3, <2>1
  <2> QED
    BY <1>1, <2>1, <2>2, ArrivalKeeps DEF SigningIn, Requests, SignInRequests
<1>6. CASE VerifyBegin(k, u)
  <2>1. /\ DevicesOf(u) # {} /\ Serve(k, "verify", u, "verify") /\ ~frozen[u]
        /\ at' = [at EXCEPT ![k] = First(DevicesOf(u))] /\ saves' = saves
    BY <1>6 DEF VerifyBegin, MayEnter
  <2>2. /\ at' \in [Workers -> Nat] /\ at'[k] = First(DevicesOf(u))
        /\ \A j \in Workers : j # k => at'[j] = at[j]
    BY <1>1, <1>3, <2>1
  <2> QED
    BY <1>1, <2>1, <2>2, ArrivalKeeps DEF SigningIn, Requests, SignInRequests
<1>7. CASE LinkBegin(k, u)
  BY <1>1, <1>7, ArrivalKeeps DEF LinkBegin, SigningIn, Requests, SignInRequests
<1>8. CASE ConfirmBegin(k, u)
  BY <1>1, <1>8, ArrivalKeeps DEF ConfirmBegin, SigningIn, Requests, SignInRequests
<1>9. ASSUME NEW a \in Users, ClearBegin(k, a, u)
      PROVE  IInv'
  BY <1>1, <1>9, ArrivalKeeps DEF ClearBegin, SigningIn, Requests, SignInRequests
<1>10. ASSUME NEW a \in Users, PromoteBegin(k, a, u)
       PROVE  IInv'
  <2>1. /\ Serve(k, "promote", u, "stash") /\ saves' = [saves EXCEPT ![k] = "admin"] /\ at' = at
    BY <1>10 DEF PromoteBegin
  <2>2. /\ saves' \in [Workers -> Roles \cup {NoOne}] /\ saves'[k] = "admin" /\ "admin" \in Roles
        /\ \A j \in Workers : j # k => saves'[j] = saves[j]
    BY <1>1, <2>1 DEF Roles
  <2> QED
    BY <1>1, <2>1, <2>2, ArrivalKeeps DEF SigningIn, Requests, SignInRequests, RoleRequests
<1>11. ASSUME NEW a \in Users, DemoteBegin(k, a, u)
       PROVE  IInv'
  <2>1. /\ Serve(k, "demote", u, "stash") /\ saves' = [saves EXCEPT ![k] = "customer"] /\ at' = at
        /\ a # u /\ role[a] = "admin"
    BY <1>11 DEF DemoteBegin, MayDemote, ConfigRoles
  <2>2. /\ saves' \in [Workers -> Roles \cup {NoOne}] /\ saves'[k] \in Roles
        /\ \A j \in Workers : j # k => saves'[j] = saves[j]
    BY <1>1, <2>1 DEF Roles
  <2> QED
    BY <1>1, <2>1, <2>2, ArrivalKeeps DEF SigningIn, Requests, SignInRequests, RoleRequests
<1>12. ASSUME NEW a \in Users, NEW d \in {"block", "unblock"}, BlockBegin(k, d, a, u)
       PROVE  IInv'
  <2>1. Serve(k, d, u, "stash") /\ saves' = [saves EXCEPT ![k] = role[u]] /\ at' = at
    BY <1>12 DEF BlockBegin
  <2>2. /\ saves' \in [Workers -> Roles \cup {NoOne}] /\ saves'[k] \in Roles
        /\ \A j \in Workers : j # k => saves'[j] = saves[j]
    BY <1>1, <2>1
  <2> QED
    BY <1>1, <2>1, <2>2, ArrivalKeeps DEF SigningIn, Requests, SignInRequests
<1>13. CASE RefreshBegin(k, u)
  <2>1. PICK n \in (1 .. issued[u]) \ revoked[u] :
           Serve(k, "refresh", u, "rotate") /\ at' = [at EXCEPT ![k] = n] /\ saves' = saves
    BY <1>13 DEF RefreshBegin
  <2>2. n \in SessionIds /\ n \in Nat
    <3>1. issued[u] \in 0 .. MaxSessions
      BY DEF IInv, TypeOK
    <3> QED
      BY <2>1, <3>1, AccessAssumption DEF SessionIds
  <2>3. /\ at' \in [Workers -> Nat] /\ at'[k] \in SessionIds
        /\ \A j \in Workers : j # k => at'[j] = at[j]
    BY <1>1, <2>1, <2>2
  <2> QED
    BY <1>1, <2>1, <2>3, ArrivalKeeps DEF SigningIn, Requests, SignInRequests
<1> QED
  BY <1>4, <1>5, <1>6, <1>7, <1>8, <1>9, <1>10, <1>11, <1>12, <1>13 DEF StaffRequest

-----------------------------------------------------------------------------
(* The statements of a request                                             *)

\* Each row and each history variable is written by few of them.
LEMMA FrameFacts ==
    ASSUME NEW k \in Workers, WorkerStep(k) \/ Crash(k)
    PROVE  /\ served' = served
           /\ UserIsSaved(k) \/ (role' = role /\ frozen' = frozen /\ applied' = applied)
           /\ UserIsSaved(k) \/ EndsEarly(k) \/ doubt' = doubt
           /\ SessionIsIssued(k) \/ SessionIsRenewed(k) \/ issued' = issued
           /\ SessionIsRenewed(k) \/ renewed' = renewed
           /\ SessionIsRenewed(k) \/ SessionIsRevoked(k) \/ revoked' = revoked
           /\ LinkIsMailed(k) \/ LinkIsUsed(k) \/ link' = link
           /\ DevicesAreCleared(k) \/ raced' = raced
           /\ \/ DeviceIsCreated(k) \/ CodeIsSaved(k) \/ CodeIsMailed(k) \/ CodeIsTakenBack(k)
              \/ CodeIsUsed(k) \/ DevicesAreCleared(k) \/ code' = code
BY DEF WorkerStep, Crash, DeviceIsCreated, CodeIsSaved, CodeIsMailed, CodeIsTakenBack, CodeIsUsed,
   SessionIsIssued, SecondFactorFails, SessionIsRenewed, DevicesAreCleared, LinkIsMailed, LinkIsLost, LinkIsUsed,
   RoleIsStashed, UserIsSaved, SavedBy, AdminIsNotified, NotifyFails, EndsEarly, SessionsAreListed,
   SessionIsRevoked, BlockEnds, userVars, signInVars, linkVars, historyVars

\* What a step does to the workers: it ends the request, or goes on with it
\* from one label to the next.
LEMMA StepFacts ==
    ASSUME TypeOK, WorkersFit, NEW k \in Workers, WorkerStep(k) \/ Crash(k)
    PROVE  /\ pc[k] # "idle" /\ job[k] \in Users /\ doing[k] \in Requests
           /\ WorkersTyped' /\ WorkersFit'
           /\ \A j \in Workers : j # k =>
                 /\ pc'[j] = pc[j] /\ job'[j] = job[j] /\ doing'[j] = doing[j]
                 /\ at'[j] = at[j] /\ saves'[j] = saves[j] /\ todo'[j] = todo[j]
           /\ pc'[k] = "idle" \/ (job'[k] = job[k] /\ doing'[k] = doing[k])
           /\ pc'[k] \notin {"rotate", "link", "use", "create", "verify", "clear"}
           /\ pc'[k] \in Saving => LinkIsUsed(k) \/ pc[k] \in Saving
           /\ pc'[k] \in SigningIn => pc[k] \in SigningIn
           /\ pc'[k] = "issue" => pc[k] = "verify"
           /\ pc'[k] \in {"code", "mail"} => DeviceIsCreated(k) \/ CodeIsSaved(k)
<1>1. pc[k] # "idle"
  BY DEF WorkerStep, Crash, DeviceIsCreated, CodeIsSaved, CodeIsMailed, CodeIsTakenBack, CodeIsUsed,
     SessionIsIssued, SecondFactorFails, SessionIsRenewed, DevicesAreCleared, LinkIsMailed, LinkIsLost, LinkIsUsed,
     RoleIsStashed, UserIsSaved, AdminIsNotified, NotifyFails, SessionsAreListed, SessionIsRevoked, BlockEnds
<1>2. job[k] \in Users /\ doing[k] \in Requests
  BY <1>1 DEF TypeOK
<1>3. ASSUME Respond(k)
      PROVE  /\ WorkersTyped' /\ WorkersFit' /\ pc'[k] = "idle"
             /\ \A j \in Workers : j # k =>
                   /\ pc'[j] = pc[j] /\ job'[j] = job[j] /\ doing'[j] = doing[j]
                   /\ at'[j] = at[j] /\ saves'[j] = saves[j] /\ todo'[j] = todo[j]
  BY <1>3, RespondFacts DEF WorkersFit
<1>4. ASSUME NEW label \in Labels \ {"idle"}, Goto(k, label), job' = job, doing' = doing,
             at' \in [Workers -> Nat], saves' \in [Workers -> Roles \cup {NoOne}],
             todo' \in [Workers -> SUBSET SessionIds],
             \A j \in Workers : j # k => at'[j] = at[j] /\ saves'[j] = saves[j] /\ todo'[j] = todo[j],
             label \in SigningIn <=> doing[k] \in SignInRequests,
             label = "link" <=> doing[k] = "link",
             label = "use" => doing[k] = "confirm",
             label # "rotate",
             label \in {"list", "revoke"} => doing[k] = "block",
             label \in {"code", "mail", "verify"} => at'[k] \in DeviceIds,
             label \in Saving => saves'[k] \in Roles,
             doing[k] = "promote" => saves'[k] = "admin"
      PROVE  /\ WorkersTyped' /\ WorkersFit'
             /\ pc'[k] = label
             /\ \A j \in Workers : j # k =>
                   /\ pc'[j] = pc[j] /\ job'[j] = job[j] /\ doing'[j] = doing[j]
                   /\ at'[j] = at[j] /\ saves'[j] = saves[j] /\ todo'[j] = todo[j]
  <2>1. WorkersTyped' /\ pc'[k] = label /\ \A j \in Workers : j # k => pc'[j] = pc[j]
    BY <1>1, <1>4, GotoFacts
  <2>2. WorkersFit!(k)'
    BY <1>4, <2>1
  <2>3. ASSUME NEW j \in Workers, j # k
        PROVE  WorkersFit!(j)'
    BY <1>4, <2>1, <2>3 DEF WorkersFit
  <2> QED
    BY <1>4, <2>1, <2>2, <2>3 DEF WorkersFit
<1>5. /\ at \in [Workers -> Nat] /\ saves \in [Workers -> Roles \cup {NoOne}]
      /\ todo \in [Workers -> SUBSET SessionIds] /\ role \in [Users -> Roles]
      /\ pc \in [Workers -> Labels] /\ DeviceIds \subseteq Nat
  BY AccessAssumption DEF TypeOK, DeviceIds
<1>6. WorkersFit!(k)
  BY <1>1 DEF WorkersFit
<1>7. CASE \/ CodeIsMailed(k) \/ CodeIsTakenBack(k) \/ SessionIsIssued(k) \/ SecondFactorFails(k)
           \/ SessionIsRenewed(k) \/ DevicesAreCleared(k) \/ LinkIsMailed(k) \/ LinkIsLost(k) \/ NotifyFails(k)
           \/ BlockEnds(k) \/ Crash(k)
  <2>1. Respond(k)
    BY <1>7 DEF CodeIsMailed, CodeIsTakenBack, SessionIsIssued, SecondFactorFails, SessionIsRenewed, DevicesAreCleared,
       LinkIsMailed, LinkIsLost, NotifyFails, BlockEnds, Crash, EndsEarly
  <2> QED
    BY <1>1, <1>2, <1>3, <2>1 DEF Saving, SigningIn
<1>8. CASE DeviceIsCreated(k)
  <2>1. PICK n \in DeviceIds : at' = [at EXCEPT ![k] = n]
    <3> DEFINE unused == {n \in DeviceIds : code[job[k]][n] = "unused"}
    <3>1. unused # {} /\ at' = [at EXCEPT ![k] = First(unused)]
      BY <1>8 DEF DeviceIsCreated
    <3>2. unused \in SUBSET Nat
      BY DEF DeviceIds
    <3> QED
      BY <3>1, <3>2, FirstFact
  <2>2. pc[k] = "create" /\ Goto(k, "code") /\ job' = job /\ doing' = doing /\ saves' = saves /\ todo' = todo
    BY <1>8 DEF DeviceIsCreated
  <2>3. /\ at' \in [Workers -> Nat] /\ at'[k] \in DeviceIds
        /\ \A j \in Workers : j # k => at'[j] = at[j]
    BY <1>5, <2>1
  <2>4. "code" \in Labels \ {"idle"}
    BY DEF Labels
  <2> QED
    BY <1>1, <1>2, <1>4, <1>5, <1>6, <1>8, <2>2, <2>3, <2>4 DEF Saving, SigningIn
<1>9. CASE CodeIsSaved(k)
  <2>1. /\ pc[k] = "code" /\ Goto(k, "mail") /\ job' = job /\ doing' = doing
        /\ at' = at /\ saves' = saves /\ todo' = todo /\ "mail" \in Labels \ {"idle"}
    BY <1>9 DEF CodeIsSaved, localVars, Labels
  <2> QED
    BY <1>1, <1>2, <1>4, <1>5, <1>6, <1>9, <2>1 DEF Saving, SigningIn
<1>10. CASE CodeIsUsed(k)
  <2>1. /\ pc[k] = "verify" /\ Goto(k, "issue") /\ job' = job /\ doing' = doing
        /\ at' = at /\ saves' = saves /\ todo' = todo /\ "issue" \in Labels \ {"idle"}
    BY <1>10 DEF CodeIsUsed, localVars, Labels
  <2> QED
    BY <1>1, <1>2, <1>4, <1>5, <1>6, <1>10, <2>1 DEF Saving, SigningIn
<1>11. CASE LinkIsUsed(k)
  <2>1. /\ pc[k] = "use" /\ Goto(k, "stash") /\ job' = job /\ doing' = doing
        /\ at' = at /\ saves' = [saves EXCEPT ![k] = role[job[k]]] /\ todo' = todo
        /\ "stash" \in Labels \ {"idle"}
    BY <1>11 DEF LinkIsUsed, Labels
  <2>2. /\ saves' \in [Workers -> Roles \cup {NoOne}] /\ saves'[k] \in Roles
        /\ \A j \in Workers : j # k => saves'[j] = saves[j]
    BY <1>2, <1>5, <2>1
  <2> QED
    BY <1>1, <1>2, <1>4, <1>5, <1>6, <1>11, <2>1, <2>2 DEF Saving, SigningIn
<1>12. CASE RoleIsStashed(k)
  <2>1. PICK label \in {"save", "save_mail"} : Goto(k, label)
    BY <1>12 DEF RoleIsStashed
  <2>2. /\ pc[k] = "stash" /\ job' = job /\ doing' = doing
        /\ at' = at /\ saves' = saves /\ todo' = todo /\ label \in Labels \ {"idle"}
    BY <1>12, <2>1 DEF RoleIsStashed, localVars, Labels
  <2> QED
    BY <1>1, <1>2, <1>4, <1>5, <1>6, <1>12, <2>1, <2>2 DEF Saving, SigningIn
<1>13. CASE UserIsSaved(k) \/ AdminIsNotified(k)
  <2>1. pc[k] \in Saving \cup {"notify"}
    BY <1>13 DEF UserIsSaved, AdminIsNotified, Saving
  <2>2. /\ doing[k] \notin SignInRequests \cup {"link"}
        /\ "notify" \in Labels \ {"idle"} /\ "list" \in Labels \ {"idle"}
    BY <1>6, <2>1 DEF Saving, SigningIn, Labels
  <2>3. CASE Respond(k)
    BY <1>1, <1>2, <1>3, <2>3 DEF Saving, SigningIn
  <2>4. ASSUME NEW label \in {"notify", "list"}, Goto(k, label), job' = job, doing' = doing,
               at' = at, saves' = saves, todo' = todo, label = "list" => doing[k] = "block"
        PROVE  /\ WorkersTyped' /\ WorkersFit' /\ pc'[k] = label
               /\ \A j \in Workers : j # k =>
                     /\ pc'[j] = pc[j] /\ job'[j] = job[j] /\ doing'[j] = doing[j]
                     /\ at'[j] = at[j] /\ saves'[j] = saves[j] /\ todo'[j] = todo[j]
    <3>1. /\ label \in Labels \ {"idle"}
          /\ label \notin SigningIn \cup Saving \cup {"rotate", "link", "use", "revoke"}
          /\ doing[k] \notin SignInRequests /\ doing[k] # "link"
      BY <2>2, <2>4 DEF Saving, SigningIn
    <3>2. doing[k] = "promote" => saves[k] = "admin"
      BY <1>1 DEF WorkersFit
    <3>3. /\ at' \in [Workers -> Nat] /\ saves' \in [Workers -> Roles \cup {NoOne}]
          /\ todo' \in [Workers -> SUBSET SessionIds]
          /\ \A j \in Workers : j # k => at'[j] = at[j] /\ saves'[j] = saves[j] /\ todo'[j] = todo[j]
      BY <1>5, <2>4
    <3>4. /\ label \in SigningIn <=> doing[k] \in SignInRequests
          /\ label = "link" <=> doing[k] = "link"
          /\ label = "use" => doing[k] = "confirm"
          /\ label \in {"list", "revoke"} => doing[k] = "block"
          /\ label \in {"code", "mail", "verify"} => at'[k] \in DeviceIds
          /\ label \in Saving => saves'[k] \in Roles
          /\ doing[k] = "promote" => saves'[k] = "admin"
      BY <2>4, <3>1, <3>2 DEF SigningIn
    <3> QED
      BY <1>4, <2>4, <3>1, <3>3, <3>4
  <2>5. \/ Respond(k)
        \/ \E label \in {"notify", "list"} :
              /\ Goto(k, label) /\ job' = job /\ doing' = doing
              /\ at' = at /\ saves' = saves /\ todo' = todo
              /\ label = "list" => doing[k] = "block"
    BY <1>13 DEF UserIsSaved, AdminIsNotified, GoesOn, localVars
  <2> QED
    BY <1>1, <1>2, <2>3, <2>4, <2>5 DEF Saving, SigningIn
<1>14. CASE SessionsAreListed(k)
  <2>1. /\ pc[k] = "list" /\ Goto(k, "revoke") /\ job' = job /\ doing' = doing
        /\ at' = at /\ saves' = saves /\ todo' = [todo EXCEPT ![k] = ListedOf(job[k])]
        /\ "revoke" \in Labels \ {"idle"}
    BY <1>14 DEF SessionsAreListed, Labels
  <2>2. issued[job[k]] \in 0 .. MaxSessions
    BY <1>2 DEF TypeOK
  <2>3. ListedOf(job[k]) \subseteq SessionIds
    BY <2>2, AccessAssumption DEF SessionIds, ListedOf
  <2>4. todo' \in [Workers -> SUBSET SessionIds] /\ \A j \in Workers : j # k => todo'[j] = todo[j]
    BY <1>5, <2>1, <2>3
  <2> QED
    BY <1>1, <1>2, <1>4, <1>5, <1>6, <1>14, <2>1, <2>4 DEF Saving, SigningIn
<1>15. CASE SessionIsRevoked(k)
  <2>1. PICK n \in todo[k] : todo' = [todo EXCEPT ![k] = @ \ {n}]
    BY <1>15 DEF SessionIsRevoked
  <2>2. /\ pc[k] = "revoke" /\ pc' = pc /\ job' = job /\ doing' = doing /\ at' = at /\ saves' = saves
        /\ "revoke" \in Labels \ {"idle"}
    BY <1>15 DEF SessionIsRevoked, Labels
  <2>3. Goto(k, "revoke")
    BY <1>5, <2>2 DEF Goto
  <2>4. todo' \in [Workers -> SUBSET SessionIds] /\ \A j \in Workers : j # k => todo'[j] = todo[j]
    BY <1>5, <2>1
  <2> QED
    BY <1>1, <1>2, <1>4, <1>5, <1>6, <1>15, <2>2, <2>3, <2>4 DEF Saving, SigningIn
<1> QED
  BY <1>7, <1>8, <1>9, <1>10, <1>11, <1>12, <1>13, <1>14, <1>15 DEF WorkerStep

\* No statement breaks a type.
LEMMA TypeKeeps ==
    ASSUME IInv, NEW k \in Workers, WorkerStep(k) \/ Crash(k)
    PROVE  TypeOK'
<1>1. TypeOK /\ WorkersFit
  BY DEF IInv
<1>2. pc[k] # "idle" /\ job[k] \in Users /\ doing[k] \in Requests /\ WorkersTyped'
  BY <1>1, StepFacts
<1>3. served' \in 0 .. MaxRequests
  BY <1>1, FrameFacts DEF TypeOK
<1>4. /\ role' \in [Users -> Roles] /\ frozen' \in [Users -> BOOLEAN]
      /\ applied' \in [Users -> Nat]
  <2>1. CASE UserIsSaved(k)
    <3>1. saves[k] \in Roles
      BY <1>1, <1>2, <2>1 DEF UserIsSaved, WorkersFit, Saving
    <3>2. IsFrozenAfter(k) \in BOOLEAN
      <4>1. frozen[job[k]] \in BOOLEAN
        BY <1>1, <1>2 DEF TypeOK
      <4> QED
        BY <4>1 DEF IsFrozenAfter
    <3>3. applied[job[k]] + 1 \in Nat
      BY <1>1, <1>2 DEF TypeOK
    <3> QED
      BY <1>1, <1>2, <2>1, <3>1, <3>2, <3>3 DEF UserIsSaved, SavedBy, NewRole, TypeOK
  <2> QED
    BY <1>1, <2>1, FrameFacts DEF TypeOK
<1>5. doubt' \subseteq Users
  <2>1. CASE UserIsSaved(k)
    BY <1>1, <1>2, <2>1 DEF UserIsSaved, SavedBy, TypeOK
  <2>2. CASE EndsEarly(k)
    BY <1>1, <1>2, <2>2 DEF EndsEarly, TypeOK
  <2> QED
    BY <1>1, <2>1, <2>2, FrameFacts DEF TypeOK
<1>6. issued' \in [Users -> 0 .. MaxSessions]
  <2>1. CASE SessionIsIssued(k) \/ SessionIsRenewed(k)
    <3>1. issued[job[k]] \in 0 .. MaxSessions /\ issued[job[k]] < MaxSessions
      BY <1>1, <1>2, <2>1 DEF SessionIsIssued, SessionIsRenewed, TypeOK
    <3>2. issued[job[k]] + 1 \in 0 .. MaxSessions
      BY <3>1, AccessAssumption
    <3> QED
      BY <1>1, <1>2, <2>1, <3>2 DEF SessionIsIssued, SessionIsRenewed, TypeOK
  <2> QED
    BY <1>1, <2>1, FrameFacts DEF TypeOK
<1>7. revoked' \in [Users -> SUBSET SessionIds]
  <2>1. CASE SessionIsRevoked(k)
    <3>1. PICK n \in todo[k] : revoked' = [revoked EXCEPT ![job[k]] = @ \cup {n}]
      BY <2>1 DEF SessionIsRevoked
    <3>2. n \in SessionIds
      BY <1>1, <3>1 DEF TypeOK
    <3> QED
      BY <1>1, <1>2, <3>1, <3>2 DEF TypeOK
  <2>2. CASE SessionIsRenewed(k)
    <3>1. at[k] \in SessionIds /\ revoked' = [revoked EXCEPT ![job[k]] = @ \cup {at[k]}]
      BY <1>1, <1>2, <2>2 DEF SessionIsRenewed, WorkersFit
    <3> QED
      BY <1>1, <1>2, <3>1 DEF TypeOK
  <2> QED
    BY <1>1, <2>1, <2>2, FrameFacts DEF TypeOK
<1>11. renewed' \in [Users -> SUBSET SessionIds]
  <2>1. CASE SessionIsRenewed(k)
    <3>1. /\ issued[job[k]] \in 0 .. MaxSessions /\ issued[job[k]] < MaxSessions
          /\ renewed' = [renewed EXCEPT ![job[k]] = @ \cup {issued[job[k]] + 1}]
      BY <1>1, <1>2, <2>1 DEF SessionIsRenewed, TypeOK
    <3>2. issued[job[k]] + 1 \in SessionIds
      BY <3>1, AccessAssumption DEF SessionIds
    <3> QED
      BY <1>1, <1>2, <3>1, <3>2 DEF TypeOK
  <2> QED
    BY <1>1, <2>1, FrameFacts DEF TypeOK
<1>8. link' \in [Users -> {"none", "sent", "used"}]
  <2>1. CASE LinkIsMailed(k) \/ LinkIsUsed(k)
    BY <1>1, <1>2, <2>1 DEF LinkIsMailed, LinkIsUsed, MarksUsed, TypeOK
  <2> QED
    BY <1>1, <2>1, FrameFacts DEF TypeOK
<1>9. raced' \subseteq {Topic(d) : d \in Requests} \X Users
  <2>1. CASE DevicesAreCleared(k)
    BY <1>1, <2>1 DEF DevicesAreCleared, TypeOK
  <2> QED
    BY <1>1, <2>1, FrameFacts DEF TypeOK
<1>10. code' \in [Users -> [DeviceIds -> {"unused", "deleted", "none", "mailed"} \cup Workers]]
  <2>1. CASE DeviceIsCreated(k)
    <3> DEFINE unused == {n \in DeviceIds : code[job[k]][n] = "unused"}
    <3>1. unused # {} /\ SetCode(job[k], First(unused), "none")
      BY <2>1 DEF DeviceIsCreated
    <3>2. First(unused) \in DeviceIds
      BY <3>1, FirstFact DEF DeviceIds
    <3> QED
      BY <1>1, <1>2, <3>1, <3>2, SetCodeFacts
  <2>2. CASE CodeIsSaved(k) \/ CodeIsMailed(k) \/ CodeIsTakenBack(k) \/ CodeIsUsed(k)
    <3>1. at[k] \in DeviceIds
      BY <1>1, <1>2, <2>2 DEF WorkersFit, CodeIsSaved, CodeIsMailed, CodeIsTakenBack, CodeIsUsed
    <3>2. code' = code \/ \E stage \in {"none", "mailed", k} : SetCode(job[k], at[k], stage)
      BY <2>2 DEF CodeIsSaved, CodeIsMailed, CodeIsTakenBack, CodeIsUsed
    <3> QED
      BY <1>1, <1>2, <3>1, <3>2, SetCodeFacts DEF TypeOK
  <2>3. CASE DevicesAreCleared(k)
    <3>1. code[job[k]] \in [DeviceIds -> {"unused", "deleted", "none", "mailed"} \cup Workers]
      BY <1>1, <1>2 DEF TypeOK
    <3>2. DeletesDevices(job[k]) \in [DeviceIds -> {"unused", "deleted", "none", "mailed"} \cup Workers]
      BY <3>1 DEF DeletesDevices
    <3>3. code' = [code EXCEPT ![job[k]] = DeletesDevices(job[k])]
      BY <2>3 DEF DevicesAreCleared
    <3> QED
      BY <1>1, <3>2, <3>3 DEF TypeOK
  <2> QED
    BY <1>1, <2>1, <2>2, <2>3, FrameFacts DEF TypeOK
<1> QED
  BY <1>2, <1>3, <1>4, <1>5, <1>6, <1>7, <1>8, <1>9, <1>10, <1>11 DEF TypeOK, WorkersTyped

\* What a save does to its user's role, when nobody else deals with roles.
LEMMA AdminsKeep ==
    ASSUME IInv, NEW k \in Workers, WorkerStep(k) \/ Crash(k)
    PROVE  AdminsAreSafe'
<1>1. TypeOK /\ WorkersFit /\ AdminsAreSafe
  BY DEF IInv
<1>2. /\ job[k] \in Users
      /\ pc[k] # "idle"
      /\ \A j \in Workers : j # k => pc'[j] = pc[j] /\ job'[j] = job[j] /\ doing'[j] = doing[j]
      /\ pc'[k] = "idle" \/ (job'[k] = job[k] /\ doing'[k] = doing[k])
      /\ pc'[k] \in Saving => LinkIsUsed(k) \/ pc[k] \in Saving
  BY <1>1, StepFacts
<1>3. RoleRaced' <=> RoleRaced
  <2>1. CASE DevicesAreCleared(k)
    BY <2>1 DEF DevicesAreCleared, RoleRaced
  <2> QED
    BY <2>1, FrameFacts DEF RoleRaced
<1>4. \A j \in Workers : ServesRole(j)' => ServesRole(j)
  BY <1>2 DEF ServesRole
<1>5. ASSUME NEW j \in Workers, pc'[j] \in Saving, doing'[j] = "demote"
      PROVE  pc[j] \in Saving /\ doing[j] = "demote" /\ job'[j] = job[j]
  BY <1>1, <1>2, <1>5 DEF LinkIsUsed, WorkersFit, Saving
<1>6. CASE UserIsSaved(k) /\ doing[k] \in RoleRequests
  <2>1. role' = [role EXCEPT ![job[k]] = saves[k]] /\ pc[k] \in Saving
    BY <1>6 DEF UserIsSaved, SavedBy, NewRole, Saving
  <2>2. role'[job[k]] = saves[k] /\ \A v \in Users : v # job[k] => role'[v] = role[v]
    BY <1>1, <1>2, <2>1 DEF TypeOK
  <2>3. ServesRole(k)
    BY <1>2, <1>6 DEF ServesRole
  <2>4. pc'[k] \notin Saving
    BY <1>6, RespondFacts, <1>1 DEF UserIsSaved, GoesOn, Goto, TypeOK, Saving
  <2>5. doing[k] = "promote" => saves[k] = "admin"
    BY <1>1, <1>2 DEF WorkersFit
  <2>6. RoleRaced \/ \E u \in Users : role'[u] = "admin"
    <3>1. CASE doing[k] = "promote"
      BY <1>2, <2>2, <2>5, <3>1
    <3>2. CASE doing[k] = "demote"
      BY <1>1, <2>1, <2>2, <3>2 DEF AdminsAreSafe
    <3> QED
      BY <1>6, <3>1, <3>2 DEF RoleRequests
  <2>7. RoleRaced \/ \A j \in Workers : ~(pc'[j] \in Saving /\ doing'[j] = "demote")
    <3> SUFFICES ASSUME NEW j \in Workers, pc'[j] \in Saving, doing'[j] = "demote", ~RoleRaced
                 PROVE  FALSE
      OBVIOUS
    <3>1. ServesRole(j)
      BY <1>5 DEF ServesRole, RoleRequests, Saving
    <3> QED
      BY <1>1, <2>3, <2>4, <3>1 DEF AdminsAreSafe
  <2> QED
    BY <1>1, <1>3, <1>4, <2>6, <2>7 DEF AdminsAreSafe
<1>7. CASE ~(UserIsSaved(k) /\ doing[k] \in RoleRequests)
  <2>1. role' = role
    BY <1>7, FrameFacts DEF UserIsSaved, SavedBy
  <2> QED
    BY <1>1, <1>3, <1>4, <1>5, <2>1 DEF AdminsAreSafe
<1> QED
  BY <1>6, <1>7

\* A block leaves no session unseen, and nobody signs in as a blocked user.
LEMMA BlocksKeep ==
    ASSUME IInv, NEW k \in Workers, WorkerStep(k) \/ Crash(k)
    PROVE  BlocksHold'
<1>1. TypeOK /\ WorkersFit /\ BlocksHold
  BY DEF IInv
<1>2. /\ job[k] \in Users /\ pc[k] # "idle"
      /\ \A j \in Workers : j # k =>
            pc'[j] = pc[j] /\ job'[j] = job[j] /\ doing'[j] = doing[j] /\ todo'[j] = todo[j]
      /\ pc'[k] = "idle" \/ (job'[k] = job[k] /\ doing'[k] = doing[k])
      /\ pc'[k] \notin {"link", "use", "create", "verify", "clear"}
      /\ pc'[k] = "issue" => pc[k] = "verify"
  BY <1>1, StepFacts
<1>3. \A v \in Users : PastTheCheck(v)' \subseteq PastTheCheck(v)
  BY <1>2 DEF PastTheCheck
<1>4. \A j \in Workers : \A v, n : j # k => SeesTo(j, v, n)' = SeesTo(j, v, n)
  BY <1>2 DEF SeesTo
<1>11. issued' = issued /\ renewed' = renewed => \A v : ListedOf(v)' = ListedOf(v)
  BY DEF ListedOf
<1>5. CASE UserIsSaved(k)
  <2>1. /\ frozen' = [frozen EXCEPT ![job[k]] = IsFrozenAfter(k)]
        /\ doubt' = IF doing[k] # "block" THEN doubt
                    ELSE IF PastTheCheck(job[k]) # {} THEN doubt \cup {job[k]} ELSE doubt \ {job[k]}
        /\ pc[k] \in {"save", "save_mail"}
        /\ issued' = issued /\ renewed' = renewed /\ revoked' = revoked
    BY <1>5 DEF UserIsSaved, SavedBy, signInVars
  <2>2. /\ frozen'[job[k]] = IsFrozenAfter(k)
        /\ \A v \in Users : v # job[k] => frozen'[v] = frozen[v]
    BY <1>1, <1>2, <2>1 DEF TypeOK
  <2>3. \A v, n : ~SeesTo(k, v, n)
    BY <2>1 DEF SeesTo
  <2>4. CASE doing[k] = "block"
    <3>1. /\ pc'[k] \in {"notify", "list"} /\ job'[k] = job[k] /\ doing'[k] = "block"
      BY <1>1, <1>5, <2>4 DEF UserIsSaved, GoesOn, Goto, TypeOK
    <3>2. \A v, n : v = job[k] => SeesTo(k, v, n)'
      BY <3>1 DEF SeesTo
    <3>3. \A v \in Users : v # job[k] => (v \in doubt' <=> v \in doubt)
      BY <2>1
    <3>4. job[k] \notin doubt' => PastTheCheck(job[k]) = {}
      BY <2>1, <2>4
    <3>5. ASSUME NEW v \in Users, frozen'[v], v \notin doubt'
          PROVE  /\ PastTheCheck(v)' = {}
                 /\ \A n \in ListedOf(v) : n \in revoked[v] \/ \E j \in Workers : SeesTo(j, v, n)'
      <4>1. CASE v = job[k]
        BY <1>3, <3>2, <3>4, <3>5, <4>1
      <4>2. CASE v # job[k]
        BY <1>1, <1>3, <1>4, <2>2, <2>3, <3>3, <3>5, <4>2, <1>11 DEF BlocksHold
      <4> QED
        BY <4>1, <4>2
    <3> QED
      BY <2>1, <3>5, <1>11 DEF BlocksHold
  <2>5. CASE doing[k] # "block"
    <3>1. doubt' = doubt /\ (IsFrozenAfter(k) => frozen[job[k]])
      BY <2>1, <2>5 DEF IsFrozenAfter
    <3>2. \A v \in Users : frozen'[v] => frozen[v]
      BY <2>2, <3>1
    <3> QED
      BY <1>1, <1>3, <1>4, <2>1, <2>3, <3>1, <3>2, <1>11 DEF BlocksHold
  <2> QED
    BY <2>4, <2>5
<1>6. CASE EndsEarly(k)
  <2>1. /\ doubt' = IF doing[k] = "block" THEN doubt \cup {job[k]} ELSE doubt
        /\ frozen' = frozen /\ issued' = issued /\ renewed' = renewed /\ revoked' = revoked
    BY <1>6 DEF EndsEarly, userVars, signInVars
  <2>2. \A v \in Users : v \notin doubt' => v \notin doubt /\ \A n : ~SeesTo(k, v, n)
    BY <2>1 DEF SeesTo
  <2> QED
    BY <1>1, <1>3, <1>4, <2>1, <2>2, <1>11 DEF BlocksHold
<1>7. CASE SessionIsIssued(k)
  <2>1. /\ pc[k] = "issue" /\ issued' = [issued EXCEPT ![job[k]] = @ + 1] /\ revoked' = revoked
        /\ renewed' = renewed /\ frozen' = frozen /\ doubt' = doubt
    BY <1>7 DEF SessionIsIssued, userVars, historyVars
  <2>2. k \in PastTheCheck(job[k]) /\ \A v, n : ~SeesTo(k, v, n)
    BY <2>1 DEF PastTheCheck, SeesTo
  <2>3. \A v \in Users : v # job[k] => ListedOf(v)' = ListedOf(v)
    BY <1>1, <2>1 DEF TypeOK, ListedOf
  <2> QED
    BY <1>1, <1>2, <1>3, <1>4, <2>1, <2>2, <2>3, <1>11 DEF BlocksHold
<1>8. CASE SessionIsRevoked(k)
  <2>1. PICK n \in todo[k] : /\ revoked' = [revoked EXCEPT ![job[k]] = @ \cup {n}]
                             /\ todo' = [todo EXCEPT ![k] = @ \ {n}]
    BY <1>8 DEF SessionIsRevoked
  <2>2. /\ pc[k] = "revoke" /\ pc' = pc /\ job' = job /\ doing' = doing
        /\ frozen' = frozen /\ doubt' = doubt /\ issued' = issued /\ renewed' = renewed
    BY <1>8 DEF SessionIsRevoked, userVars, historyVars
  <2>3. /\ n \in revoked'[job[k]] /\ \A v \in Users : revoked[v] \subseteq revoked'[v]
        /\ todo'[k] = todo[k] \ {n}
    BY <1>1, <1>2, <2>1 DEF TypeOK
  <2>4. ASSUME NEW v \in Users, NEW m, SeesTo(k, v, m), m \notin revoked'[v]
        PROVE  SeesTo(k, v, m)'
    BY <2>2, <2>3, <2>4 DEF SeesTo
  <2> QED
    BY <1>1, <1>3, <1>4, <2>2, <2>3, <2>4, <1>11 DEF BlocksHold
<1>9. CASE SessionsAreListed(k)
  <2>1. /\ pc[k] = "list" /\ Goto(k, "revoke") /\ job' = job /\ doing' = doing
        /\ todo' = [todo EXCEPT ![k] = ListedOf(job[k])]
        /\ frozen' = frozen /\ doubt' = doubt
        /\ issued' = issued /\ renewed' = renewed /\ revoked' = revoked
    BY <1>9 DEF SessionsAreListed, userVars, signInVars, historyVars
  <2>2. pc'[k] = "revoke" /\ todo'[k] = ListedOf(job[k])
    BY <1>1, <2>1 DEF Goto, TypeOK
  <2>3. \A v \in Users : \A n \in ListedOf(v) : SeesTo(k, v, n) => SeesTo(k, v, n)'
    BY <2>1, <2>2 DEF SeesTo
  <2> QED
    BY <1>1, <1>3, <1>4, <2>1, <2>3, <1>11 DEF BlocksHold
<1>12. CASE SessionIsRenewed(k)
  <2>1. /\ pc[k] = "rotate" /\ revoked' = [revoked EXCEPT ![job[k]] = @ \cup {at[k]}]
        /\ issued' = [issued EXCEPT ![job[k]] = @ + 1]
        /\ renewed' = [renewed EXCEPT ![job[k]] = @ \cup {issued[job[k]] + 1}]
        /\ frozen' = frozen /\ doubt' = doubt
    BY <1>12 DEF SessionIsRenewed, userVars, historyVars
  <2>2. \A v, n : ~SeesTo(k, v, n)
    BY <2>1 DEF SeesTo
  <2>3. \A v \in Users : ListedOf(v)' \subseteq ListedOf(v) /\ revoked[v] \subseteq revoked'[v]
    <3>1. PICK u \in Users : u = job[k]
      BY <1>2
    <3>2. /\ issued[u] \in Nat /\ issued'[u] = issued[u] + 1
          /\ renewed'[u] = renewed[u] \cup {issued[u] + 1}
          /\ revoked'[u] = revoked[u] \cup {at[k]}
      BY <1>1, <2>1, <3>1 DEF TypeOK
    <3>3. ListedOf(u)' \subseteq ListedOf(u)
      BY <3>2 DEF ListedOf
    <3>4. ASSUME NEW v \in Users, v # u
          PROVE  ListedOf(v)' = ListedOf(v) /\ revoked'[v] = revoked[v]
      BY <1>1, <2>1, <3>1, <3>4 DEF TypeOK, ListedOf
    <3> QED
      BY <3>2, <3>3, <3>4
  <2> QED
    BY <1>1, <1>3, <1>4, <2>1, <2>2, <2>3 DEF BlocksHold
<1>10. CASE /\ ~UserIsSaved(k) /\ ~EndsEarly(k) /\ ~SessionIsIssued(k) /\ ~SessionIsRenewed(k)
            /\ ~SessionIsRevoked(k) /\ ~SessionsAreListed(k)
  <2>1. /\ frozen' = frozen /\ doubt' = doubt
        /\ issued' = issued /\ renewed' = renewed /\ revoked' = revoked
    BY <1>10, FrameFacts
  <2>2. \A v, n : SeesTo(k, v, n) => SeesTo(k, v, n)'
    <3>1. CASE BlockEnds(k)
      BY <3>1 DEF BlockEnds, SeesTo
    <3>2. CASE AdminIsNotified(k)
      <4>1. CASE doing[k] = "block"
        BY <1>1, <3>2, <4>1 DEF AdminIsNotified, GoesOn, Goto, TypeOK, SeesTo
      <4>2. CASE doing[k] # "block"
        BY <4>2 DEF SeesTo
      <4> QED
        BY <4>1, <4>2
    <3>3. CASE ~BlockEnds(k) /\ ~AdminIsNotified(k)
      <4>1. pc[k] \notin {"notify", "list", "revoke"}
        BY <1>10, <3>3 DEF WorkerStep, Crash, DeviceIsCreated, CodeIsSaved, CodeIsMailed, CodeIsTakenBack,
           CodeIsUsed, SecondFactorFails, DevicesAreCleared, LinkIsMailed, LinkIsLost, LinkIsUsed,
           RoleIsStashed, NotifyFails
      <4> QED
        BY <4>1 DEF SeesTo
    <3> QED
      BY <3>1, <3>2, <3>3
  <2> QED
    BY <1>1, <1>3, <1>4, <2>1, <2>2, <1>11 DEF BlocksHold
<1> QED
  BY <1>5, <1>6, <1>7, <1>8, <1>9, <1>10, <1>12

\* A link changes its user after its token was saved as used, and once.
LEMMA LinksKeep ==
    ASSUME IInv, NEW k \in Workers, WorkerStep(k) \/ Crash(k)
    PROVE  LinksAreWhole'
<1>1. TypeOK /\ WorkersFit /\ LinksAreWhole
  BY DEF IInv
<1>2. /\ job[k] \in Users /\ pc[k] # "idle"
      /\ \A j \in Workers : j # k => pc'[j] = pc[j] /\ job'[j] = job[j] /\ doing'[j] = doing[j]
      /\ pc'[k] = "idle" \/ (job'[k] = job[k] /\ doing'[k] = doing[k])
      /\ pc'[k] \notin {"link", "use", "create", "verify", "clear"}
      /\ pc'[k] \in Saving => LinkIsUsed(k) \/ pc[k] \in Saving
  BY <1>1, StepFacts
<1>3. \A j \in Workers, v \in Users : Confirms(j, v)' => Confirms(j, v)
  BY <1>2 DEF Confirms
<1>4. \A j \in Workers : pc'[j] = "link" => j # k /\ pc[j] = "link" /\ job'[j] = job[j]
  BY <1>2
<1>5. \A v \in Users : <<"confirm", v>> \in raced' <=> <<"confirm", v>> \in raced
  <2>1. CASE DevicesAreCleared(k)
    BY <2>1 DEF DevicesAreCleared
  <2> QED
    BY <2>1, FrameFacts
<1>6. CASE LinkIsMailed(k)
  <2>1. pc[k] = "link" /\ link' = [link EXCEPT ![job[k]] = "sent"] /\ applied' = applied
    BY <1>6 DEF LinkIsMailed
  <2>2. link[job[k]] = "none" /\ \A j \in Workers : pc[j] = "link" /\ job[j] = job[k] => j = k
    BY <1>1, <2>1 DEF LinksAreWhole
  <2>3. link'[job[k]] = "sent" /\ \A v \in Users : v # job[k] => link'[v] = link[v]
    BY <1>1, <1>2, <2>1 DEF TypeOK
  <2>4. ~(applied[job[k]] > 0) /\ applied[job[k]] <= 1 /\ \A j \in Workers : ~Confirms(j, job[k])
    <3>1. ~(applied[job[k]] > 0) /\ applied[job[k]] \in Nat
      BY <1>1, <1>2, <2>2 DEF LinksAreWhole, TypeOK
    <3>2. \A j \in Workers : ~Confirms(j, job[k])
      BY <1>1, <1>2, <2>2 DEF LinksAreWhole
    <3> QED
      BY <3>1, <3>2
  <2>5. \A j \in Workers : pc'[j] = "link" => /\ link'[job'[j]] = "none"
                                              /\ \A i \in Workers : pc'[i] = "link" /\ job'[i] = job'[j] => i = j
    <3>1. \A j \in Workers : pc[j] = "link" => job[j] \in Users
      BY <1>1 DEF TypeOK
    <3> QED
      BY <1>1, <1>4, <2>2, <2>3, <3>1 DEF LinksAreWhole
  <2>6. ASSUME NEW v \in Users
        PROVE  /\ applied[v] > 0 => link'[v] = "used"
               /\ \A j \in Workers : Confirms(j, v)' =>
                     link'[v] = "used" \/ (link'[v] = "sent" /\ pc'[j] = "use")
               /\ <<"confirm", v>> \in raced' \/
                     /\ applied[v] <= 1
                     /\ \A i, j \in Workers : Confirms(i, v)' /\ Confirms(j, v)' => i = j
                     /\ \A j \in Workers : Confirms(j, v)' =>
                           /\ pc'[j] = "use" => link'[v] = "sent"
                           /\ pc'[j] \in Saving => applied[v] = 0
    <3>1. CASE v = job[k]
      BY <1>3, <2>4, <3>1
    <3>2. CASE v # job[k]
      <4>1. \A j \in Workers : Confirms(j, v)' => pc'[j] = pc[j]
        BY <1>2, <1>3, <3>2 DEF Confirms
      <4> QED
        BY <1>1, <1>3, <1>5, <2>3, <3>2, <4>1 DEF LinksAreWhole
    <3> QED
      BY <3>1, <3>2
  <2> QED
    BY <2>1, <2>5, <2>6 DEF LinksAreWhole
<1>7. CASE LinkIsUsed(k)
  <2>1. /\ pc[k] = "use" /\ link' = [link EXCEPT ![job[k]] = "used"] /\ applied' = applied
        /\ Goto(k, "stash")
    BY <1>7 DEF LinkIsUsed, MarksUsed
  <2>2. link'[job[k]] = "used" /\ \A v \in Users : v # job[k] => link'[v] = link[v]
    BY <1>1, <1>2, <2>1 DEF TypeOK
  <2>3. pc'[k] = "stash" /\ Confirms(k, job[k])
    BY <1>1, <2>1 DEF Goto, TypeOK, WorkersFit, Confirms
  <2>4. link[job[k]] # "none"
    BY <1>1, <1>2, <2>3 DEF LinksAreWhole
  <2>5. <<"confirm", job[k]>> \notin raced => applied[job[k]] = 0
    <3>1. applied[job[k]] \in Nat
      BY <1>1, <1>2 DEF TypeOK
    <3>2. <<"confirm", job[k]>> \notin raced => ~(applied[job[k]] > 0)
      BY <1>1, <1>2, <2>1, <2>3 DEF LinksAreWhole
    <3> QED
      BY <3>1, <3>2
  <2>6. \A j \in Workers : pc'[j] = "link" => /\ link'[job'[j]] = "none"
                                              /\ \A i \in Workers : pc'[i] = "link" /\ job'[i] = job'[j] => i = j
    <3>1. \A j \in Workers : pc[j] = "link" => job[j] \in Users
      BY <1>1 DEF TypeOK
    <3> QED
      BY <1>1, <1>4, <2>2, <2>4, <3>1 DEF LinksAreWhole
  <2>7. ASSUME NEW v \in Users
        PROVE  /\ applied[v] > 0 => link'[v] = "used"
               /\ \A j \in Workers : Confirms(j, v)' =>
                     link'[v] = "used" \/ (link'[v] = "sent" /\ pc'[j] = "use")
               /\ <<"confirm", v>> \in raced' \/
                     /\ applied[v] <= 1
                     /\ \A i, j \in Workers : Confirms(i, v)' /\ Confirms(j, v)' => i = j
                     /\ \A j \in Workers : Confirms(j, v)' =>
                           /\ pc'[j] = "use" => link'[v] = "sent"
                           /\ pc'[j] \in Saving => applied[v] = 0
    <3>1. CASE v = job[k]
      <4>1. <<"confirm", v>> \notin raced =>
               /\ applied[v] = 0
               /\ \A i, j \in Workers : Confirms(i, v) /\ Confirms(j, v) => i = j
        BY <1>1, <2>5, <3>1 DEF LinksAreWhole
      <4>2. <<"confirm", v>> \notin raced => \A j \in Workers : Confirms(j, v)' => j = k
        BY <1>3, <2>3, <3>1, <4>1
      <4> QED
        BY <1>5, <2>2, <2>3, <3>1, <4>1, <4>2 DEF Saving
    <3>2. CASE v # job[k]
      <4>1. \A j \in Workers : Confirms(j, v)' => pc'[j] = pc[j]
        BY <1>2, <1>3, <3>2 DEF Confirms
      <4> QED
        BY <1>1, <1>3, <1>5, <2>2, <3>2, <4>1 DEF LinksAreWhole
    <3> QED
      BY <3>1, <3>2
  <2> QED
    BY <2>1, <2>6, <2>7 DEF LinksAreWhole
<1>8. CASE UserIsSaved(k) /\ doing[k] = "confirm"
  <2>1. /\ pc[k] \in {"save", "save_mail"} /\ link' = link
        /\ applied' = [applied EXCEPT ![job[k]] = @ + 1]
    BY <1>8 DEF UserIsSaved, SavedBy
  <2>2. pc'[k] \notin Saving
    BY <1>1, <1>8, RespondFacts DEF UserIsSaved, GoesOn, Goto, TypeOK, Saving
  <2>3. Confirms(k, job[k]) /\ pc[k] \in Saving /\ pc[k] # "use"
    BY <1>8, <2>1 DEF Confirms, Saving
  <2>4. /\ applied'[job[k]] = applied[job[k]] + 1
        /\ \A v \in Users : v # job[k] => applied'[v] = applied[v]
    BY <1>1, <1>2, <2>1 DEF TypeOK
  <2>5. /\ link[job[k]] = "used"
        /\ <<"confirm", job[k]>> \notin raced =>
              applied[job[k]] = 0 /\ \A j \in Workers : Confirms(j, job[k]) => j = k
    BY <1>1, <1>2, <2>3 DEF LinksAreWhole
  <2>6. ASSUME NEW v \in Users
        PROVE  /\ applied'[v] > 0 => link[v] = "used"
               /\ \A j \in Workers : Confirms(j, v)' =>
                     link[v] = "used" \/ (link[v] = "sent" /\ pc'[j] = "use")
               /\ <<"confirm", v>> \in raced' \/
                     /\ applied'[v] <= 1
                     /\ \A i, j \in Workers : Confirms(i, v)' /\ Confirms(j, v)' => i = j
                     /\ \A j \in Workers : Confirms(j, v)' =>
                           /\ pc'[j] = "use" => link[v] = "sent"
                           /\ pc'[j] \in Saving => applied'[v] = 0
    <3>1. CASE v = job[k]
      <4>1. <<"confirm", v>> \notin raced => \A j \in Workers : Confirms(j, v)' => j = k
        BY <1>3, <2>5, <3>1
      <4> QED
        BY <1>2, <1>5, <2>2, <2>4, <2>5, <3>1, <4>1
    <3>2. CASE v # job[k]
      <4>1. \A j \in Workers : Confirms(j, v)' => pc'[j] = pc[j]
        BY <1>2, <1>3, <3>2 DEF Confirms
      <4> QED
        BY <1>1, <1>3, <1>5, <2>4, <3>2, <4>1 DEF LinksAreWhole
    <3> QED
      BY <3>1, <3>2
  <2> QED
    BY <1>1, <1>4, <2>1, <2>6 DEF LinksAreWhole
<1>9. CASE ~LinkIsMailed(k) /\ ~LinkIsUsed(k) /\ ~(UserIsSaved(k) /\ doing[k] = "confirm")
  <2>1. link' = link /\ applied' = applied
    BY <1>9, FrameFacts DEF UserIsSaved, SavedBy
  <2>2. \A j \in Workers : pc'[j] \in Saving => pc[j] \in Saving
    BY <1>2, <1>9
  <2>3. \A j \in Workers : pc'[j] = "use" => pc[j] = "use"
    BY <1>2
  <2>4. ASSUME NEW j \in Workers, NEW v \in Users, Confirms(j, v)', pc[j] = "use"
        PROVE  pc'[j] = "use" \/ link[v] = "used"
    <3>1. CASE j # k
      BY <1>2, <2>4, <3>1
    <3>2. CASE j = k
      <4>1. LinkIsUsed(k) \/ Crash(k)
        BY <2>4, <3>2 DEF WorkerStep, DeviceIsCreated, CodeIsSaved, CodeIsMailed, CodeIsTakenBack,
           CodeIsUsed, SessionIsIssued, SecondFactorFails, SessionIsRenewed, DevicesAreCleared, LinkIsMailed, LinkIsLost,
           RoleIsStashed, UserIsSaved, AdminIsNotified, NotifyFails, SessionsAreListed,
           SessionIsRevoked, BlockEnds
      <4>2. pc'[k] = "idle"
        BY <1>1, <1>9, <4>1, RespondFacts DEF Crash, EndsEarly
      <4> QED
        BY <2>4, <3>2, <4>2 DEF Confirms
    <3> QED
      BY <3>1, <3>2
  <2> QED
    BY <1>1, <1>3, <1>4, <1>5, <2>1, <2>2, <2>3, <2>4 DEF LinksAreWhole
<1> QED
  BY <1>6, <1>7, <1>8, <1>9

\* While requests to sign in as a user come one at a time, each finds the row
\* that the one before has left.
LEMMA DevicesKeep ==
    ASSUME IInv, NEW k \in Workers, WorkerStep(k) \/ Crash(k)
    PROVE  DevicesAreSingle'
<1>1. TypeOK /\ WorkersFit /\ DevicesAreSingle
  BY DEF IInv
<1>2. /\ job[k] \in Users /\ pc[k] # "idle" /\ doing[k] \in Requests
      /\ \A j \in Workers : j # k =>
            pc'[j] = pc[j] /\ job'[j] = job[j] /\ doing'[j] = doing[j] /\ at'[j] = at[j]
      /\ pc'[k] = "idle" \/ (job'[k] = job[k] /\ doing'[k] = doing[k])
      /\ pc'[k] \notin {"link", "use", "create", "verify", "clear"}
      /\ pc'[k] \in SigningIn => pc[k] \in SigningIn
      /\ pc'[k] \in {"code", "mail"} => DeviceIsCreated(k) \/ CodeIsSaved(k)
  BY <1>1, StepFacts
<1>3. PICK u \in Users : u = job[k]
  BY <1>2
<1>4. \A j \in Workers, v \in Users : SignsIn(j, v)' => SignsIn(j, v)
  BY <1>2 DEF SignsIn, SigningIn
<1>5. ASSUME NEW n \in DeviceIds,
             NEW stage \in {"none", "mailed", k}, SetCode(u, n, stage) \/ code' = code,
             pc[k] \in SigningIn, raced' = raced,
             <<"sign-in", u>> \notin raced => DevicesOf(u) \subseteq {n},
             pc'[k] \in {"code", "mail"} => at'[k] = n
      PROVE  DevicesAreSingle'
  <2>1. /\ \A v \in Users : v # u => DevicesOf(v)' = DevicesOf(v)
        /\ DevicesOf(u)' \subseteq DevicesOf(u) \cup {n}
    <3>1. CASE SetCode(u, n, stage)
      BY <1>1, <1>2, <3>1, SetCodeFacts
    <3>2. CASE code' = code
      BY <3>2 DEF DevicesOf
    <3> QED
      BY <1>5, <3>1, <3>2
  <2>2. ASSUME NEW v \in Users, <<"sign-in", v>> \notin raced
        PROVE  /\ \A m, i \in DevicesOf(v)' : m = i
               /\ \A i, j \in Workers : SignsIn(i, v)' /\ SignsIn(j, v)' => i = j
               /\ \A j \in Workers : job'[j] = v =>
                     /\ pc'[j] = "create" => DevicesOf(v)' = {}
                     /\ pc'[j] \in {"code", "mail", "verify"} => DevicesOf(v)' \subseteq {at'[j]}
    <3>1. CASE v = u
      <4>1. SignsIn(k, v) /\ DevicesOf(v)' \subseteq {n}
        BY <1>3, <1>5, <2>1, <2>2, <3>1 DEF SignsIn
      <4>2. \A j \in Workers : SignsIn(j, v) => j = k
        BY <1>1, <2>2, <4>1 DEF DevicesAreSingle
      <4>3. \A j \in Workers : job'[j] = v /\ pc'[j] \in SigningIn => j = k
        BY <1>4, <4>2 DEF SignsIn
      <4> QED
        BY <1>2, <1>4, <1>5, <4>1, <4>2, <4>3 DEF SigningIn
    <3>2. CASE v # u
      <4>1. \A j \in Workers : SignsIn(j, v)' => j # k
        BY <1>2, <1>3, <1>4, <3>2 DEF SignsIn, SigningIn
      <4>2. \A j \in Workers : job'[j] = v /\ pc'[j] \in SigningIn =>
               pc'[j] = pc[j] /\ job[j] = v /\ at'[j] = at[j]
        BY <1>2, <4>1 DEF SignsIn
      <4>3. DevicesOf(v)' = DevicesOf(v)
        BY <2>1, <3>2
      <4> QED
        BY <1>1, <1>4, <2>2, <4>2, <4>3 DEF DevicesAreSingle, SigningIn
    <3> QED
      BY <3>1, <3>2
  <2> QED
    BY <1>5, <2>2 DEF DevicesAreSingle
<1>6. CASE DeviceIsCreated(k)
  <2> DEFINE unused == {n \in DeviceIds : code[u][n] = "unused"}
  <2>1. /\ pc[k] = "create" /\ unused # {} /\ SetCode(u, First(unused), "none")
        /\ at' = [at EXCEPT ![k] = First(unused)] /\ raced' = raced
    BY <1>3, <1>6 DEF DeviceIsCreated, historyVars
  <2>2. First(unused) \in DeviceIds
    BY <2>1, FirstFact DEF DeviceIds
  <2>3. at'[k] = First(unused)
    BY <1>1, <2>1 DEF TypeOK
  <2>4. <<"sign-in", u>> \notin raced => DevicesOf(u) = {}
    BY <1>1, <1>2, <1>3, <2>1 DEF DevicesAreSingle
  <2> HIDE DEF unused
  <2> QED
    BY <1>5, <2>1, <2>2, <2>3, <2>4 DEF SigningIn
<1>7. CASE CodeIsSaved(k) \/ CodeIsMailed(k) \/ CodeIsTakenBack(k) \/ CodeIsUsed(k)
  <2>1. pc[k] \in {"code", "mail", "verify"} /\ raced' = raced
    BY <1>3, <1>7 DEF CodeIsSaved, CodeIsMailed, CodeIsTakenBack, CodeIsUsed, historyVars
  <2>2. at[k] \in DeviceIds /\ (<<"sign-in", u>> \notin raced => DevicesOf(u) \subseteq {at[k]})
    BY <1>1, <1>2, <1>3, <2>1 DEF WorkersFit, DevicesAreSingle
  <2>3. code' = code \/ \E stage \in {"none", "mailed", k} : SetCode(u, at[k], stage)
    BY <1>3, <1>7 DEF CodeIsSaved, CodeIsMailed, CodeIsTakenBack, CodeIsUsed
  <2>4. pc'[k] \in {"code", "mail"} => at'[k] = at[k]
    BY <1>1, <1>7, RespondFacts DEF CodeIsSaved, CodeIsMailed, CodeIsTakenBack, CodeIsUsed, Goto, TypeOK, localVars
  <2> QED
    BY <1>5, <2>1, <2>2, <2>3, <2>4 DEF SigningIn
<1>8. CASE DevicesAreCleared(k)
  <2>1. /\ pc[k] = "clear" /\ code' = [code EXCEPT ![u] = DeletesDevices(u)]
        /\ raced' = IF Others("clear", u) = {k} THEN raced \ {<<"sign-in", u>>} ELSE raced
        /\ Respond(k)
    BY <1>3, <1>8 DEF DevicesAreCleared
  <2>2. /\ \A v \in Users : v # u => DevicesOf(v)' = DevicesOf(v)
        /\ DevicesOf(u)' = {}
    <3>1. code'[u] = DeletesDevices(u) /\ \A v \in Users : v # u => code'[v] = code[v]
      BY <1>1, <1>2, <1>3, <2>1 DEF TypeOK
    <3> QED
      BY <3>1 DEF DeletesDevices, DevicesOf
  <2>3. pc'[k] = "idle"
    BY <1>1, <2>1, RespondFacts
  <2>4. ASSUME NEW j \in Workers, SignsIn(j, u), Others("clear", u) = {k}
        PROVE  j = k
    <3>1. /\ pc[j] # "idle" /\ doing[j] \in Requests /\ doing[j] \in SignInRequests
          /\ "clear" \in Requests /\ "clear" \in SignInRequests
      BY <1>1, <2>4 DEF SignsIn, SigningIn, TypeOK, WorkersFit, Requests, SignInRequests
    <3>2. j \in Others("clear", u)
      BY <2>4, <3>1, TopicFacts DEF Others, SignsIn
    <3> QED
      BY <2>4, <3>2
  <2>5. ASSUME NEW v \in Users, <<"sign-in", v>> \notin raced'
        PROVE  /\ \A m, i \in DevicesOf(v)' : m = i
               /\ \A i, j \in Workers : SignsIn(i, v)' /\ SignsIn(j, v)' => i = j
               /\ \A j \in Workers : job'[j] = v =>
                     /\ pc'[j] = "create" => DevicesOf(v)' = {}
                     /\ pc'[j] \in {"code", "mail", "verify"} => DevicesOf(v)' \subseteq {at'[j]}
    <3>1. \A j \in Workers : ~SignsIn(k, v)' /\ (SignsIn(j, v)' => j # k)
      BY <2>3 DEF SignsIn, SigningIn
    <3>2. CASE v = u
      <4>1. <<"sign-in", v>> \notin raced \/ Others("clear", u) = {k}
        BY <2>1, <2>5, <3>2
      <4>2. \A i, j \in Workers : SignsIn(i, v) /\ SignsIn(j, v) => i = j
        BY <1>1, <2>4, <3>2, <4>1 DEF DevicesAreSingle
      <4> QED
        BY <1>4, <2>2, <3>2, <4>2
    <3>3. CASE v # u
      <4>1. <<"sign-in", v>> \notin raced /\ DevicesOf(v)' = DevicesOf(v)
        BY <2>1, <2>2, <2>5, <3>3
      <4>2. \A j \in Workers : job'[j] = v /\ pc'[j] \in SigningIn =>
               pc'[j] = pc[j] /\ job[j] = v /\ at'[j] = at[j]
        BY <1>2, <2>3 DEF SigningIn
      <4> QED
        BY <1>1, <1>4, <4>1, <4>2 DEF DevicesAreSingle, SigningIn
    <3> QED
      BY <3>2, <3>3
  <2> QED
    BY <2>5 DEF DevicesAreSingle
<1>9. CASE /\ ~DeviceIsCreated(k) /\ ~CodeIsSaved(k) /\ ~CodeIsMailed(k) /\ ~CodeIsTakenBack(k)
           /\ ~CodeIsUsed(k) /\ ~DevicesAreCleared(k)
  <2>1. code' = code /\ raced' = raced
    BY <1>9, FrameFacts
  <2>2. \A v : DevicesOf(v)' = DevicesOf(v)
    BY <2>1 DEF DevicesOf
  <2>3. \A j \in Workers : pc'[j] \in {"create", "code", "mail", "verify"} =>
           pc'[j] = pc[j] /\ job'[j] = job[j] /\ at'[j] = at[j]
    BY <1>2, <1>9
  <2> QED
    BY <1>1, <1>4, <2>1, <2>2, <2>3 DEF DevicesAreSingle
<1> QED
  BY <1>6, <1>7, <1>8, <1>9

-----------------------------------------------------------------------------
(* Every step, and the theorems                                            *)

\* Every step keeps the invariant.
LEMMA NextKeeps ==
    ASSUME IInv, [Next]_vars
    PROVE  IInv'
<1>1. ASSUME NEW k \in Workers, WorkerStep(k) \/ Crash(k)
      PROVE  IInv'
  <2>1. WorkersFit'
    BY <1>1, StepFacts DEF IInv
  <2> QED
    BY <1>1, <2>1, TypeKeeps, AdminsKeep, BlocksKeep, LinksKeep, DevicesKeep DEF IInv
<1>2. ASSUME NEW k \in Workers, NEW u \in Users,
             \/ LoginBegin(k, u) \/ ResendBegin(k, u) \/ VerifyBegin(k, u) \/ RefreshBegin(k, u)
             \/ LinkBegin(k, u) \/ ConfirmBegin(k, u)
             \/ \E a \in Users : StaffRequest(k, a, u)
      PROVE  IInv'
  BY <1>2, RequestKeeps
<1>3. CASE UNCHANGED vars
  <2>1. /\ role' = role /\ frozen' = frozen /\ code' = code /\ issued' = issued
        /\ renewed' = renewed /\ revoked' = revoked
        /\ link' = link /\ applied' = applied /\ raced' = raced /\ doubt' = doubt /\ served' = served
        /\ pc' = pc /\ job' = job /\ doing' = doing /\ at' = at /\ saves' = saves /\ todo' = todo
    BY <1>3 DEF vars, userVars, signInVars, linkVars, historyVars, localVars
  <2>2. TypeOK' /\ WorkersFit'
    BY <2>1 DEF IInv, TypeOK, WorkersFit
  <2>3. AdminsAreSafe' /\ BlocksHold'
    BY <2>1 DEF IInv, AdminsAreSafe, BlocksHold, RoleRaced, ServesRole, SeesTo,
       PastTheCheck, ListedOf
  <2>4. LinksAreWhole' /\ DevicesAreSingle'
    BY <2>1 DEF IInv, LinksAreWhole, DevicesAreSingle, Confirms, SignsIn, DevicesOf
  <2> QED
    BY <2>2, <2>3, <2>4 DEF IInv
<1> QED
  BY <1>1, <1>2, <1>3 DEF Next

\* The inductive invariant holds in every reachable state.
THEOREM Inductive == Spec => []IInv
<1>1. Init => IInv
  BY InitInvariant
<1>2. IInv /\ [Next]_vars => IInv'
  BY NextKeeps
<1> QED
  BY <1>1, <1>2, PTL DEF Spec

\* Every variable keeps its type; a worker within a request knows its user.
THEOREM TypeCorrect == Spec => []TypeOK
<1>1. IInv => TypeOK
  BY DEF IInv
<1> QED
  BY <1>1, Inductive, PTL

\* AdminUserPromoteView and AdminUserDemoteView leave an administrator as long
\* as no two of them overlap, though nobody's role is read again at the save.
THEOREM AdministratorRemains == Spec => []AnAdminRemains
<1>1. IInv => AnAdminRemains
  BY DEF IInv, AdminsAreSafe, RoleRaced, AnAdminRemains
<1> QED
  BY <1>1, Inductive, PTL

\* After AdminUserBlockView every session that a sign-in gave a blocked user is
\* revoked, unless a sign-in was past its check when the block was saved or the
\* block was cut short: whatever other blocks, unblocks, renewals and sign-ins
\* there were.  Only a session that TokenRefreshView renewed is left.
THEOREM BlockedUsersAreOut == Spec => []BlockEndsSessions
<1>1. IInv => BlockEndsSessions
  <2> SUFFICES ASSUME IInv, NEW u \in Users, frozen[u], u \notin doubt,
                      ~(\E k \in Workers : doing[k] = "block" /\ job[k] = u)
               PROVE  1 .. issued[u] \subseteq revoked[u] \cup renewed[u]
    BY DEF BlockEndsSessions
  <2> QED
    BY DEF IInv, BlocksHold, SeesTo, ListedOf
<1> QED
  BY <1>1, Inductive, PTL

\* LoginView's get_or_create leaves one device row of a user, unless requests
\* to sign in overlapped since AdminUserClearLoginOtpView cleared them.
THEOREM OneDevice == Spec => []OneLoginDevice
<1>1. IInv => OneLoginDevice
  BY DEF IInv, DevicesAreSingle, OneLoginDevice
<1> QED
  BY <1>1, Inductive, PTL

\* VerifyEmailView and PasswordResetConfirmView take a link's token once, and
\* save it as used before the user, unless it was opened twice at a time.
THEOREM LinksAreUsedOnce == Spec => []LinkUsedOnce
<1>1. IInv => LinkUsedOnce
  <2> SUFFICES ASSUME IInv, NEW u \in Users, applied[u] > 0
               PROVE  link[u] = "used" /\ (applied[u] = 1 \/ <<"confirm", u>> \in raced)
    BY DEF LinkUsedOnce
  <2>1. applied[u] \in Nat
    BY DEF IInv, TypeOK
  <2> QED
    BY <2>1 DEF IInv, LinksAreWhole
<1> QED
  BY <1>1, Inductive, PTL
=============================================================================
