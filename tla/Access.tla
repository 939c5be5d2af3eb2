------------------------------- MODULE Access -------------------------------
(***************************************************************************)
(* Who gets in: users/views.py.  Sign-in with a mailed code (LoginView,    *)
(* LoginOtpVerifyView, LoginOtpResendView), the links mailed to verify an  *)
(* address or reset a password, blocking and unblocking a user, clearing   *)
(* a stuck login code, granting and revoking administration; and the       *)
(* renewal of a session with its refresh token, by simplejwt 5.3.1.        *)
(*                                                                         *)
(* No view here runs in a transaction: every statement commits by itself.  *)
(* A pc label names the next one:                                          *)
(*    create          sign-in: insert the user's EmailDevice row           *)
(*    code, mail      sign-in, resend: save a new code in it; send it      *)
(*    verify          the code matched; save it as used                    *)
(*    issue           the second factor, if any, and the tokens            *)
(*    clear           delete the user's device rows                        *)
(*    rotate          blacklist the token shown and mint another           *)
(*    link            mail the link whose token was just inserted          *)
(*    use             save the link's token as used                        *)
(*    stash           pre_save of a User reads the role it has by now      *)
(*    save, save_mail save one or two columns of the User                  *)
(*    notify          post_save mails that there is a new administrator    *)
(*    list, revoke    block: read the refresh tokens; blacklist the next   *)
(* The Notification and audit rows that end a request are left out, and    *)
(* so are passwords: who signs in knows the right one.  A code or a link   *)
(* that has expired is one that nobody uses any more.                      *)
(*                                                                         *)
(* A definition right before another of the same parameters, that says     *)
(* less or more than it, is a slip the code does not make; no step uses it.*)
(***************************************************************************)
EXTENDS Naturals

CONSTANTS Users,
          Workers,      \* request workers
          NoOne,        \* NULL
          WorkersCrash, \* whether a worker may die within a request
          MaxRequests,  \* how many requests arrive: a bound for TLC
          MaxDevices,   \* how many device rows a user is ever given: the same
          MaxSessions   \* how many sessions a user is ever given: the same

ASSUME AccessAssumption ==
    /\ NoOne \notin Users
    /\ {"unused", "deleted", "none", "mailed"} \cap Workers = {}
    /\ WorkersCrash \in BOOLEAN
    /\ MaxRequests \in Nat
    /\ MaxDevices \in Nat
    /\ MaxSessions \in Nat \ {0}

VARIABLES role,      \* User.role; "support" is kept as "customer", and
                     \* "superadmin" as "admin": they may do here what those may
          frozen,    \* User.is_frozen
          code,      \* per user, the code in each EmailDevice row, the rows in
                     \* the order of their ids: the worker that saved it until
                     \* it is "mailed"; "none" without, "deleted" with the row
          issued,    \* how many refresh tokens the user was given
          renewed,   \* those of them that came in exchange for another: these
                     \* have no OutstandingToken row of the user
          revoked,   \* those of them that are blacklisted
          link,      \* the token row of a mailed link, per user
          applied,   \* how often that link has changed the user
          raced,     \* history: <<topic, user>> where two requests overlapped
          doubt,     \* history: users whose block met a sign-in that had passed
                     \* its check, or was cut short, since they were frozen last
          served,    \* how many requests have arrived
          pc, job, doing,  \* a worker's next statement, its user, its request
          at,        \* the device row it has loaded, or the token it was shown
          saves,     \* the role in the User it has loaded, or is to save
          todo       \* the refresh tokens it has listed and not yet revoked

userVars    == <<role, frozen>>
signInVars  == <<code, issued, renewed, revoked>>
linkVars    == <<link, applied>>
historyVars == <<raced, doubt>>
localVars   == <<at, saves, todo>>
vars == <<userVars, signInVars, linkVars, historyVars, served, pc, job, doing, localVars>>

Roles      == {"customer", "compliance", "admin"}
ConfigRoles   == {"admin"}
ApproverRoles == {"compliance", "admin"}

DeviceIds  == 1 .. MaxDevices
SessionIds == 1 .. MaxSessions

-----------------------------------------------------------------------------
(* Requests                                                                *)

SignInRequests == {"login", "resend", "verify", "clear"}
RoleRequests   == {"promote", "demote"}
Requests == SignInRequests \cup RoleRequests \cup
            {"refresh", "link", "confirm", "block", "unblock"}

\* What two requests must be about to get in each other's way.
Topic(d) ==
    CASE d \in SignInRequests -> "sign-in"
      [] d \in RoleRequests -> "role"
      [] OTHER -> d

\* Some users have signed in before and have a new code in their inbox.
Init ==
    /\ role    \in {f \in [Users -> Roles] : \E u \in Users : f[u] = "admin"}
    /\ frozen  = [u \in Users |-> FALSE]
    /\ issued  \in [Users -> {0, 1}]
    /\ code    = [u \in Users |-> [n \in DeviceIds |->
                    IF n = 1 /\ issued[u] = 1 THEN "mailed" ELSE "unused"]]
    /\ renewed = [u \in Users |-> {}]
    /\ revoked = [u \in Users |-> {}]
    /\ link    = [u \in Users |-> "none"]
    /\ applied = [u \in Users |-> 0]
    /\ raced   = {}
    /\ doubt   = {}
    /\ served  = 0
    /\ pc    = [k \in Workers |-> "idle"]
    /\ job   = [k \in Workers |-> NoOne]
    /\ doing = [k \in Workers |-> NoOne]
    /\ at    = [k \in Workers |-> 0]
    /\ saves = [k \in Workers |-> NoOne]
    /\ todo  = [k \in Workers |-> {}]

Goto(k, label) == pc' = [pc EXCEPT ![k] = label]

Respond(k) ==
    /\ pc'    = [pc EXCEPT ![k] = "idle"]
    /\ job'   = [job EXCEPT ![k] = NoOne]
    /\ doing' = [doing EXCEPT ![k] = NoOne]
    /\ at'    = [at EXCEPT ![k] = 0]
    /\ saves' = [saves EXCEPT ![k] = NoOne]
    /\ todo'  = [todo EXCEPT ![k] = {}]

\* Workers within a request that gets in the way of d about u.
Others(d, u) ==
    {j \in Workers : /\ pc[j] # "idle"
                     /\ Topic(doing[j]) = Topic(d)
                     /\ job[j] = u \/ d \in RoleRequests}

\* A request d about u arrives at an idle worker, which goes on at label.
Serve(k, d, u, label) ==
    /\ pc[k] = "idle"
    /\ served < MaxRequests
    /\ served' = served + 1
    /\ Goto(k, label)
    /\ job'   = [job EXCEPT ![k] = u]
    /\ doing' = [doing EXCEPT ![k] = d]
    /\ raced' = raced \cup {<<Topic(d), u>> : j \in Others(d, u)}
    /\ UNCHANGED <<userVars, signInVars, linkVars, doubt, todo>>

-----------------------------------------------------------------------------
(* Sign-in                                                                 *)

DevicesOf(u) == {n \in DeviceIds : code[u][n] \notin {"unused", "deleted"}}
First(S) == CHOOSE n \in S : \A m \in S : n <= m

SetCode(u, n, stage) == code' = [code EXCEPT ![u][n] = stage]

ThroughAnyway(u) == TRUE
MayEnter(u) == ~frozen[u]

\* LoginView.  get_or_create finds the device row or is about to insert it;
\* with two rows it raises, and nothing changes.
LoginBegin(k, u) ==
    /\ MayEnter(u)
    /\ \/ /\ DevicesOf(u) = {}
          /\ Serve(k, "login", u, "create")
          /\ UNCHANGED <<at, saves>>
       \/ \E n \in DeviceIds :
             /\ DevicesOf(u) = {n}
             /\ Serve(k, "login", u, "code")
             /\ at' = [at EXCEPT ![k] = n]
             /\ UNCHANGED saves

\* No constraint keeps a second row out.
DeviceIsCreated(k) ==
    LET u == job[k]
        unused == {n \in DeviceIds : code[u][n] = "unused"} IN
    /\ pc[k] = "create"
    /\ unused # {}
    /\ SetCode(u, First(unused), "none")
    /\ at' = [at EXCEPT ![k] = First(unused)]
    /\ Goto(k, "code")
    /\ UNCHANGED <<userVars, issued, renewed, revoked, linkVars, historyVars, served, job, doing, saves, todo>>

\* LoginOtpResendView, and LoginOtpVerifyView below, take the first row.
ResendBegin(k, u) ==
    /\ DevicesOf(u) # {}
    /\ Serve(k, "resend", u, "code")
    /\ at' = [at EXCEPT ![k] = First(DevicesOf(u))]
    /\ UNCHANGED saves

\* generate_challenge saves the whole row, also one deleted meanwhile ...
CodeIsSaved(k) ==
    /\ pc[k] = "code"
    /\ SetCode(job[k], at[k], k)
    /\ Goto(k, "mail")
    /\ UNCHANGED <<userVars, issued, renewed, revoked, linkVars, historyVars, served, job, doing, localVars>>

\* ... and then mails the code, unless it has another by now.
CodeIsMailed(k) ==
    /\ pc[k] = "mail"
    /\ IF code[job[k]][at[k]] = k THEN SetCode(job[k], at[k], "mailed") ELSE UNCHANGED code
    /\ Respond(k)
    /\ UNCHANGED <<userVars, issued, renewed, revoked, linkVars, historyVars, served>>

\* The mail fails: the code is taken back with another save of the row.
CodeIsTakenBack(k) ==
    /\ pc[k] = "mail"
    /\ SetCode(job[k], at[k], "none")
    /\ Respond(k)
    /\ UNCHANGED <<userVars, issued, renewed, revoked, linkVars, historyVars, served>>

\* The check of is_frozen and of the code, on the rows as they were read.
VerifyBegin(k, u) ==
    /\ MayEnter(u)
    /\ DevicesOf(u) # {}
    /\ code[u][First(DevicesOf(u))] = "mailed"
    /\ Serve(k, "verify", u, "verify")
    /\ at' = [at EXCEPT ![k] = First(DevicesOf(u))]
    /\ UNCHANGED saves

CodeIsUsed(k) ==
    /\ pc[k] = "verify"
    /\ SetCode(job[k], at[k], "none")
    /\ Goto(k, "issue")
    /\ UNCHANGED <<userVars, issued, renewed, revoked, linkVars, historyVars, served, job, doing, localVars>>

\* issue_tokens.
SessionIsIssued(k) ==
    LET u == job[k] IN
    /\ pc[k] = "issue"
    /\ issued[u] < MaxSessions
    /\ issued' = [issued EXCEPT ![u] = @ + 1]
    /\ Respond(k)
    /\ UNCHANGED <<userVars, code, renewed, revoked, linkVars, historyVars, served>>

\* The code of the authenticator app is missing or wrong.
SecondFactorFails(k) ==
    /\ pc[k] = "issue"
    /\ Respond(k)
    /\ UNCHANGED <<userVars, signInVars, linkVars, historyVars, served>>

\* TokenRefreshView takes a token that is not blacklisted, and does not look
\* at is_frozen ...
RefreshBegin(k, u) ==
    \E n \in (1 .. issued[u]) \ revoked[u] :
        /\ Serve(k, "refresh", u, "rotate")
        /\ at' = [at EXCEPT ![k] = n]
        /\ UNCHANGED saves

\* ... blacklists it, whether or not somebody else did meanwhile, and gives
\* another for it, of which no row is made.
SessionIsRenewed(k) ==
    LET u == job[k] IN
    /\ pc[k] = "rotate"
    /\ issued[u] < MaxSessions
    /\ revoked' = [revoked EXCEPT ![u] = @ \cup {at[k]}]
    /\ issued' = [issued EXCEPT ![u] = @ + 1]
    /\ renewed' = [renewed EXCEPT ![u] = @ \cup {issued[u] + 1}]
    /\ Respond(k)
    /\ UNCHANGED <<userVars, code, linkVars, historyVars, served>>

\* AdminUserClearLoginOtpView.  Alone, it leaves nothing of earlier sign-ins.
ClearBegin(k, a, u) ==
    /\ role[a] \in ApproverRoles
    /\ Serve(k, "clear", u, "clear")
    /\ UNCHANGED <<at, saves>>

ForgetsCodes(u) == [n \in DeviceIds |-> IF n \in DevicesOf(u) THEN "none" ELSE code[u][n]]
DeletesDevices(u) == [n \in DeviceIds |-> IF n \in DevicesOf(u) THEN "deleted" ELSE code[u][n]]

DevicesAreCleared(k) ==
    LET u == job[k] IN
    /\ pc[k] = "clear"
    /\ code' = [code EXCEPT ![u] = DeletesDevices(u)]
    /\ raced' = IF Others("clear", u) = {k} THEN raced \ {<<"sign-in", u>>} ELSE raced
    /\ Respond(k)
    /\ UNCHANGED <<userVars, issued, renewed, revoked, linkVars, doubt, served>>

-----------------------------------------------------------------------------
(* Links: RegisterView and PasswordResetRequestView mail one, VerifyEmail- *)
(* View and PasswordResetConfirmView take its token.                       *)

\* One link of each user is followed here.
LinkBegin(k, u) ==
    /\ link[u] = "none"
    /\ \A j \in Workers : doing[j] = "link" => job[j] # u
    /\ Serve(k, "link", u, "link")
    /\ UNCHANGED <<at, saves>>

LinkIsMailed(k) ==
    /\ pc[k] = "link"
    /\ link' = [link EXCEPT ![job[k]] = "sent"]
    /\ Respond(k)
    /\ UNCHANGED <<userVars, signInVars, applied, historyVars, served>>

\* The mail fails: nobody has the token of the row, which stays.
LinkIsLost(k) ==
    /\ pc[k] = "link"
    /\ Respond(k)
    /\ UNCHANGED <<userVars, signInVars, linkVars, historyVars, served>>

ConfirmBegin(k, u) ==
    /\ link[u] = "sent"
    /\ Serve(k, "confirm", u, "use")
    /\ UNCHANGED <<at, saves>>

StaysUnused(u) == UNCHANGED link
MarksUsed(u) == link' = [link EXCEPT ![u] = "used"]

\* record.save, then record.user is loaded.
LinkIsUsed(k) ==
    /\ pc[k] = "use"
    /\ MarksUsed(job[k])
    /\ saves' = [saves EXCEPT ![k] = role[job[k]]]
    /\ Goto(k, "stash")
    /\ UNCHANGED <<userVars, signInVars, applied, historyVars, served, job, doing, at, todo>>

-----------------------------------------------------------------------------
(* What staff do to a user: AdminUserBlockView, AdminUserUnblockView,      *)
(* AdminUserPromoteView, AdminUserDemoteView.                              *)

BlockBegin(k, d, a, u) ==
    /\ d \in {"block", "unblock"}
    /\ role[a] \in ApproverRoles
    /\ Serve(k, d, u, "stash")
    /\ saves' = [saves EXCEPT ![k] = role[u]]
    /\ UNCHANGED at

PromoteBegin(k, a, u) ==
    /\ role[a] \in ConfigRoles
    /\ role[u] \notin ConfigRoles
    /\ Serve(k, "promote", u, "stash")
    /\ saves' = [saves EXCEPT ![k] = "admin"]
    /\ UNCHANGED at

MayDemoteAnyone(a, u) == role[a] \in ConfigRoles /\ role[u] \in ConfigRoles
MayDemote(a, u) == role[a] \in ConfigRoles /\ role[u] \in ConfigRoles /\ a # u

DemoteBegin(k, a, u) ==
    /\ MayDemote(a, u)
    /\ Serve(k, "demote", u, "stash")
    /\ saves' = [saves EXCEPT ![k] = "customer"]
    /\ UNCHANGED at

-----------------------------------------------------------------------------
(* user.save(update_fields=[...]) with its signals.                        *)

\* stash_previous_user_role, and what on_admin_user_created compares: a role
\* that is saved, or was loaded before another request revoked it.
RoleIsStashed(k) ==
    /\ pc[k] = "stash"
    /\ Goto(k, IF saves[k] \in ConfigRoles /\ role[job[k]] \notin ConfigRoles
               THEN "save_mail" ELSE "save")
    /\ UNCHANGED <<userVars, signInVars, linkVars, historyVars, served, job, doing, localVars>>

\* A block goes on to the sessions, every other request ends.
GoesOn(k) ==
    IF doing[k] = "block"
    THEN Goto(k, "list") /\ UNCHANGED <<job, doing, localVars>>
    ELSE Respond(k)

NoRole(k) == NoOne
NewRole(k) == saves[k]

IsFrozenAfter(k) ==
    CASE doing[k] = "block"   -> TRUE
      [] doing[k] = "unblock" -> FALSE
      [] OTHER                -> frozen[job[k]]

\* Sign-ins of u that are past the check of is_frozen.
PastTheCheck(u) == {j \in Workers : pc[j] \in {"verify", "issue"} /\ job[j] = u}

SavedBy(k) ==
    LET u == job[k] IN
    /\ role' = IF doing[k] \in RoleRequests THEN [role EXCEPT ![u] = NewRole(k)] ELSE role
    /\ frozen' = [frozen EXCEPT ![u] = IsFrozenAfter(k)]
    /\ applied' = IF doing[k] = "confirm" THEN [applied EXCEPT ![u] = @ + 1] ELSE applied
    /\ doubt' = IF doing[k] # "block" THEN doubt
                ELSE IF PastTheCheck(u) # {} THEN doubt \cup {u} ELSE doubt \ {u}

\* The mail goes to another administrator, if there is one.
UserIsSaved(k) ==
    /\ pc[k] \in {"save", "save_mail"}
    /\ SavedBy(k)
    /\ IF pc[k] = "save_mail" /\ \E v \in Users \ {job[k]} : role[v] = "admin"
       THEN Goto(k, "notify") /\ UNCHANGED <<job, doing, localVars>>
       ELSE GoesOn(k)
    /\ UNCHANGED <<signInVars, link, raced, served>>

AdminIsNotified(k) ==
    /\ pc[k] = "notify"
    /\ GoesOn(k)
    /\ UNCHANGED <<userVars, signInVars, linkVars, historyVars, served>>

\* The request ends here: a block has not seen to the sessions.
EndsEarly(k) ==
    /\ doubt' = IF doing[k] = "block" THEN doubt \cup {job[k]} ELSE doubt
    /\ Respond(k)
    /\ UNCHANGED <<userVars, signInVars, linkVars, raced, served>>

\* The mail raises within post_save: the save stays, the client sees a 500.
NotifyFails(k) ==
    /\ pc[k] = "notify"
    /\ EndsEarly(k)

-----------------------------------------------------------------------------
(* The sessions of a user who was blocked                                  *)

\* OutstandingToken.objects.filter(user=user)
ListedOf(u) == (1 .. issued[u]) \ renewed[u]

SessionsAreListed(k) ==
    /\ pc[k] = "list"
    /\ todo' = [todo EXCEPT ![k] = ListedOf(job[k])]
    /\ Goto(k, "revoke")
    /\ UNCHANGED <<userVars, signInVars, linkVars, historyVars, served, job, doing, at, saves>>

SessionIsRevoked(k) ==
    /\ pc[k] = "revoke"
    /\ \E n \in todo[k] :
          /\ revoked' = [revoked EXCEPT ![job[k]] = @ \cup {n}]
          /\ todo' = [todo EXCEPT ![k] = @ \ {n}]
    /\ UNCHANGED <<userVars, code, issued, renewed, linkVars, historyVars, served, pc, job, doing,
                   at, saves>>

BlockEnds(k) ==
    /\ pc[k] = "revoke"
    /\ todo[k] = {}
    /\ Respond(k)
    /\ UNCHANGED <<userVars, signInVars, linkVars, historyVars, served>>

-----------------------------------------------------------------------------
\* The worker is killed: what it committed stays.
Crash(k) ==
    /\ WorkersCrash
    /\ pc[k] # "idle"
    /\ EndsEarly(k)

WorkerStep(k) ==
    \/ DeviceIsCreated(k) \/ CodeIsSaved(k) \/ CodeIsMailed(k) \/ CodeIsTakenBack(k)
    \/ CodeIsUsed(k) \/ SessionIsIssued(k) \/ SecondFactorFails(k) \/ SessionIsRenewed(k)
    \/ DevicesAreCleared(k)
    \/ LinkIsMailed(k) \/ LinkIsLost(k) \/ LinkIsUsed(k)
    \/ RoleIsStashed(k) \/ UserIsSaved(k) \/ AdminIsNotified(k) \/ NotifyFails(k)
    \/ SessionsAreListed(k) \/ SessionIsRevoked(k) \/ BlockEnds(k)

StaffRequest(k, a, u) ==
    \/ ClearBegin(k, a, u) \/ PromoteBegin(k, a, u) \/ DemoteBegin(k, a, u)
    \/ \E d \in {"block", "unblock"} : BlockBegin(k, d, a, u)

Next ==
    \/ \E k \in Workers : WorkerStep(k) \/ Crash(k)
    \/ \E k \in Workers, u \in Users :
          \/ LoginBegin(k, u) \/ ResendBegin(k, u) \/ VerifyBegin(k, u) \/ RefreshBegin(k, u)
          \/ LinkBegin(k, u) \/ ConfirmBegin(k, u)
          \/ \E a \in Users : StaffRequest(k, a, u)

Spec == Init /\ [][Next]_vars

-----------------------------------------------------------------------------
(* Properties                                                              *)

Labels == {"idle", "create", "code", "mail", "verify", "issue", "rotate", "clear", "link",
           "use", "stash", "save", "save_mail", "notify", "list", "revoke"}

\* Every variable keeps its type, and a worker within a request has its user
\* and its request.
TypeOK ==
    /\ role \in [Users -> Roles]
    /\ frozen \in [Users -> BOOLEAN]
    /\ code \in [Users -> [DeviceIds -> {"unused", "deleted", "none", "mailed"} \cup Workers]]
    /\ issued \in [Users -> 0 .. MaxSessions]
    /\ renewed \in [Users -> SUBSET SessionIds]
    /\ revoked \in [Users -> SUBSET SessionIds]
    /\ link \in [Users -> {"none", "sent", "used"}]
    /\ applied \in [Users -> Nat]
    /\ raced \subseteq {Topic(d) : d \in Requests} \X Users
    /\ doubt \subseteq Users
    /\ served \in 0 .. MaxRequests
    /\ pc \in [Workers -> Labels]
    /\ job \in [Workers -> Users \cup {NoOne}]
    /\ doing \in [Workers -> Requests \cup {NoOne}]
    /\ at \in [Workers -> Nat]
    /\ saves \in [Workers -> Roles \cup {NoOne}]
    /\ todo \in [Workers -> SUBSET SessionIds]
    /\ \A k \in Workers : pc[k] # "idle" => job[k] \in Users /\ doing[k] \in Requests

\* "prevents accidentally locking everyone out": as long as no two requests
\* that grant or revoke administration overlap, an administrator remains,
\* however the mails fail and the workers die.
AnAdminRemains ==
    (\E u \in Users : role[u] = "admin") \/ (\E u \in Users : <<"role", u>> \in raced)

\* "already-issued sessions can't silently keep working": while a user is
\* blocked and no block of theirs is under way, every session that a sign-in
\* gave them is revoked, also when blocks, unblocks, renewals and sign-ins
\* overlap.  Not so for a user in doubt, until they are blocked again.  And
\* not so for a session that was renewed, whatever the docstring says: the
\* block cannot find it.
BlockEndsSessions ==
    \A u \in Users :
        frozen[u] /\ u \notin doubt /\ ~(\E k \in Workers : doing[k] = "block" /\ job[k] = u)
            => 1 .. issued[u] \subseteq revoked[u] \cup renewed[u]

\* A user has one device row for signing in: with a second one get_or_create
\* raises and nobody gets in.  Two requests that overlapped may have made it;
\* "deletes their login challenge device so their next login attempt starts
\* clean" puts that right.
OneLoginDevice ==
    \A u \in Users : <<"sign-in", u>> \notin raced =>
        \A m, n \in DevicesOf(u) : m = n

\* A link changes its user once, and never before its token is saved as used,
\* unless it was opened twice at the same time.
LinkUsedOnce ==
    \A u \in Users : applied[u] > 0 =>
        link[u] = "used" /\ (applied[u] = 1 \/ <<"confirm", u>> \in raced)
=============================================================================
