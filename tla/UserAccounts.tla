----------------------------- MODULE UserAccounts -----------------------------
(***************************************************************************)
(* Accounts and their sessions: password and Entra sign-in                 *)
(* (app/routers/auth.py, auth/provisioning.py), the session check of every *)
(* other request (auth/middleware.py, services/auth_service.py) and the    *)
(* user administration (app/routers/admin.py).                             *)
(*                                                                         *)
(* Every statement commits by itself: a request is a sequence of reads and *)
(* single-row writes, and another request may run between any two of them. *)
(* An account is known by its email (unique); the two clocks of a session  *)
(* are one step, Expire.  /auth/logout is a public path, so the middleware *)
(* gives it no user and it writes nothing: it is no action here.           *)
(***************************************************************************)
EXTENDS Naturals

CONSTANTS Emails,          \* app_user.email
          First,           \* the seeded administrator
          Identities,      \* Entra object ids
          NoIdentity,      \* entra_oid IS NULL
          Claims,          \* the <<identity, email>> pairs Entra may return
          Sessions,        \* bound: user_session rows ever inserted
          Requests,        \* requests under way at a time
          MaxDeactivations \* bound: deactivations of one account

ASSUME AccountsAssumption ==
    /\ First \in Emails /\ NoIdentity \notin Identities
    /\ Claims \subseteq Identities \X Emails /\ MaxDeactivations \in Nat

VARIABLES account, session, request,
          history \* crossed: an account was deactivated by one already inactive;
                  \* unswept: a deactivation of the account was lost halfway

accountsVars == <<account, session, request, history>>

Roles    == {"analyst", "admin"}
Holder   == Identities \cup {NoIdentity}
Account  == [known : BOOLEAN, active : BOOLEAN, identity : Holder,
             password : BOOLEAN, mustChange : BOOLEAN,
             role : Roles \cup {"none"}, deactivations : 0..MaxDeactivations]
Unknown  == [known |-> FALSE, active |-> FALSE, identity |-> NoIdentity, password |-> FALSE,
             mustChange |-> FALSE, role |-> "none", deactivations |-> 0]
Session  == [state : {"unused", "live", "ended"}, user : Emails, born : 0..MaxDeactivations]
Unused   == [state |-> "unused", user |-> First, born |-> 0]
Ended    == [Unused EXCEPT !.state = "ended"]

OwnOps   == {"change password", "set up profile"}
AdminOps == {"create", "pre-provision", "assign role", "reset password",
             "force logout", "deactivate", "reactivate"}
Steps    == {"idle", "by email", "link", "reload", "look again", "insert", "reread",
             "session", "handler", "provision", "role", "sweep", "refused"}
Row      == [known : BOOLEAN, identity : Holder]
Request  == [at : Steps, op : OwnOps \cup AdminOps \cup {"sign in"}, email : Emails,
             identity : Holder, by : Emails, seen : Row]
Idle     == [at |-> "idle", op |-> "sign in", email |-> First, identity |-> NoIdentity,
             by |-> First, seen |-> [known |-> FALSE, identity |-> NoIdentity]]

HolderOf(i) == {e \in Emails : account[e].known /\ account[e].identity = i}
Live(s)     == session[s].state = "live"
IsAdmin(e)  == account[e].active /\ account[e].role = "admin"
RowOf(e)    == [known |-> account[e].known, identity |-> account[e].identity]

\* scripts/seed_db.py: one administrator with a password of their own.
AccountsInit ==
    /\ account = [e \in Emails |->
         IF e = First THEN [Unknown EXCEPT !.known = TRUE, !.active = TRUE,
                                           !.password = TRUE, !.role = "admin"]
         ELSE Unknown]
    /\ session = [s \in Sessions |-> Unused]
    /\ request = [q \in Requests |-> Idle]
    /\ history = [crossed |-> FALSE, unswept |-> {}]

At(q, step)  == request[q].at = step
Goto(q, step) == request' = [request EXCEPT ![q].at = step]
Done(q)      == request' = [request EXCEPT ![q] = Idle]
Put(e, row)  == account' = [account EXCEPT ![e] = row]
Keep         == UNCHANGED <<session, history>>

-----------------------------------------------------------------------------
(* Signing in *)

\* login_submit up to its checks: the row it read, the password, is_active.
PasswordLogin(q, e) ==
    /\ At(q, "idle")
    /\ account[e].known /\ account[e].password /\ account[e].active
    /\ request' = [request EXCEPT ![q] = [Idle EXCEPT !.at = "session", !.email = e]]
    /\ UNCHANGED account /\ Keep

\* The account the callback goes on with, if the identity has one by now.
GoOnAs(q, i, otherwise) ==
    IF HolderOf(i) = {} THEN Goto(q, otherwise)
    ELSE \E e \in HolderOf(i) :
             request' = [request EXCEPT ![q].at = "session", ![q].email = e]

\* oidc_callback: the claims, then get_user_by_oid.
Callback(q, claim) ==
    /\ At(q, "idle")
    /\ LET asked == [Idle EXCEPT !.at = "by email", !.identity = claim[1], !.email = claim[2]]
       IN  IF HolderOf(claim[1]) = {} THEN request' = [request EXCEPT ![q] = asked]
           ELSE \E e \in HolderOf(claim[1]) :
                    request' = [request EXCEPT ![q] = [asked EXCEPT !.at = "session", !.email = e]]
    /\ UNCHANGED account /\ Keep

\* get_user_by_email: an account no identity is linked to is taken over.
ByEmail(q) ==
    /\ At(q, "by email")
    /\ LET e == request[q].email
       IN  request' = [request EXCEPT
               ![q].at = IF account[e].known /\ account[e].identity = NoIdentity
                         THEN "link" ELSE "look again",
               ![q].seen = RowOf(e)]
    /\ UNCHANGED account /\ Keep

\* link_entra_oid writes the row by id, whatever it holds by now; the unique
\* index refuses an identity another account got meanwhile.
Link(q) ==
    LET e == request[q].email i == request[q].identity IN
    /\ At(q, "link")
    /\ IF HolderOf(i) \ {e} # {} THEN Goto(q, "refused") /\ UNCHANGED account
       ELSE Put(e, [account[e] EXCEPT !.identity = i]) /\ Goto(q, "reload")
    /\ Keep

Reload(q) ==
    /\ At(q, "reload") /\ GoOnAs(q, request[q].identity, "look again")
    /\ UNCHANGED account /\ Keep

\* jit_provision_oidc_user: look, insert, read back.
LookAgain(q) ==
    /\ At(q, "look again") /\ GoOnAs(q, request[q].identity, "insert")
    /\ UNCHANGED account /\ Keep

\* Mutant: the identity has no unique index.
InsertUnchecked(q) ==
    LET e == request[q].email i == request[q].identity IN
    /\ At(q, "insert")
    /\ IF account[e].known THEN Goto(q, "refused") /\ UNCHANGED account
       ELSE Put(e, [Unknown EXCEPT !.known = TRUE, !.active = TRUE, !.identity = i])
            /\ Goto(q, "reread")
    /\ Keep

InsertIdentity(q) ==
    LET e == request[q].email i == request[q].identity IN
    /\ At(q, "insert")
    /\ IF account[e].known \/ HolderOf(i) # {} THEN Goto(q, "refused") /\ UNCHANGED account
       ELSE Put(e, [Unknown EXCEPT !.known = TRUE, !.active = TRUE, !.identity = i])
            /\ Goto(q, "reread")
    /\ Keep

Reread(q) ==
    /\ At(q, "reread") /\ GoOnAs(q, request[q].identity, "refused")
    /\ UNCHANGED account /\ Keep

\* create_session; a callback gets here for an inactive account too.
CreateSession(q, s) ==
    /\ At(q, "session") /\ session[s].state = "unused"
    /\ session' = [session EXCEPT ![s] =
         [state |-> "live", user |-> request[q].email,
          born |-> account[request[q].email].deactivations]]
    /\ Done(q) /\ UNCHANGED <<account, history>>

-----------------------------------------------------------------------------
(* Requests of a session *)

\* SessionMiddleware: validate_session reads the session with its account,
\* then the gates of the path asked for, and require_admin.
Admit(q, s, op, e) ==
    LET user == session[s].user me == account[user] IN
    /\ At(q, "idle") /\ Live(s) /\ me.active
    /\ op \in AdminOps \/ e = user
    /\ me.mustChange \/ me.role = "none" => op = "change password"
    /\ op \in AdminOps => me.role = "admin"
    /\ request' = [request EXCEPT ![q] =
         [Idle EXCEPT !.at = "handler", !.op = op, !.email = e, !.by = user]]
    /\ UNCHANGED account /\ Keep

Handles(q, op) == At(q, "handler") /\ request[q].op = op
Refuse(q)      == request' = [request EXCEPT ![q].at = "refused",
                                              ![q].seen = RowOf(request[q].email)]

ChangePassword(q) ==
    LET e == request[q].email IN
    /\ Handles(q, "change password")
    /\ Put(e, [account[e] EXCEPT !.password = TRUE, !.mustChange = FALSE])
    /\ Done(q) /\ Keep

\* The profile form of a waiting user; a password is optional.
SetUpProfile(q) ==
    LET e == request[q].email IN
    /\ Handles(q, "set up profile")
    /\ Put(e, [account[e] EXCEPT !.password = TRUE])
    /\ Done(q) /\ Keep

CreateUser(q) ==
    LET e == request[q].email IN
    /\ Handles(q, "create")
    /\ IF account[e].known THEN Refuse(q) /\ UNCHANGED account
       ELSE Put(e, [Unknown EXCEPT !.known = TRUE, !.active = TRUE, !.password = TRUE,
                                   !.mustChange = TRUE]) /\ Done(q)
    /\ Keep

ResetPassword(q) ==
    LET e == request[q].email IN
    /\ Handles(q, "reset password") /\ account[e].known
    /\ Put(e, [account[e] EXCEPT !.password = TRUE, !.mustChange = TRUE])
    /\ Done(q) /\ Keep

\* provision_oidc_user: the account of the email, inserted if there is none.
ReadExisting(q) ==
    /\ Handles(q, "pre-provision")
    /\ LET row == RowOf(request[q].email)
       IN  request' = [request EXCEPT ![q].seen = row,
                                      ![q].at = IF row.known THEN "role" ELSE "provision"]
    /\ UNCHANGED account /\ Keep

PreProvision(q) ==
    LET e == request[q].email IN
    /\ At(q, "provision")
    /\ IF account[e].known THEN Goto(q, "refused") /\ UNCHANGED account
       ELSE Put(e, [Unknown EXCEPT !.known = TRUE, !.active = TRUE]) /\ Goto(q, "role")
    /\ Keep

\* A user_role row, unless there; the gates only ask for one, or an administrator's.
AssignRole(q, role) ==
    LET e == request[q].email IN
    /\ At(q, "role") \/ Handles(q, "assign role")
    /\ account[e].known
    /\ Put(e, [account[e] EXCEPT !.role = IF @ = "admin" THEN @ ELSE role])
    /\ Done(q) /\ Keep

\* Mutant: an administrator may deactivate their own account.
DeactivateAnyone(q) ==
    LET e == request[q].email IN
    /\ Handles(q, "deactivate") /\ account[e].deactivations < MaxDeactivations
    /\ Put(e, [account[e] EXCEPT !.active = FALSE, !.deactivations = @ + 1])
    /\ Goto(q, "sweep")
    /\ history' = [history EXCEPT !.crossed = @ \/ ~ account[request[q].by].active]
    /\ UNCHANGED session

\* Mutant: the sessions of a deactivated account are left to the session check.
DeactivateOnly(q) ==
    LET e == request[q].email IN
    /\ Handles(q, "deactivate") /\ e # request[q].by
    /\ account[e].known /\ account[e].deactivations < MaxDeactivations
    /\ Put(e, [account[e] EXCEPT !.active = FALSE, !.deactivations = @ + 1])
    /\ Done(q)
    /\ history' = [history EXCEPT !.crossed = @ \/ ~ account[request[q].by].active]
    /\ UNCHANGED session

\* deactivate_user, first statement: never one's own account.
Deactivate(q) ==
    LET e == request[q].email IN
    /\ Handles(q, "deactivate") /\ e # request[q].by
    /\ account[e].known /\ account[e].deactivations < MaxDeactivations
    /\ Put(e, [account[e] EXCEPT !.active = FALSE, !.deactivations = @ + 1])
    /\ Goto(q, "sweep")
    /\ history' = [history EXCEPT !.crossed = @ \/ ~ account[request[q].by].active]
    /\ UNCHANGED session

\* invalidate_all_sessions: the second statement, and all of a forced logout.
InvalidateAll(q) ==
    /\ At(q, "sweep") \/ Handles(q, "force logout")
    /\ session' = [s \in Sessions |->
         IF Live(s) /\ session[s].user = request[q].email
         THEN Ended ELSE session[s]]
    /\ Done(q) /\ UNCHANGED <<account, history>>

Reactivate(q) ==
    LET e == request[q].email IN
    /\ Handles(q, "reactivate") /\ account[e].known
    /\ Put(e, [account[e] EXCEPT !.active = TRUE])
    /\ Done(q) /\ Keep

-----------------------------------------------------------------------------
(* The environment *)

\* The idle window or the absolute cap of a session passes.
Expire(s) ==
    /\ Live(s) /\ session' = [session EXCEPT ![s] = Ended]
    /\ UNCHANGED <<account, request, history>>

\* The web process dies, or an administrator's form goes nowhere.
RequestLost(q) ==
    /\ ~ At(q, "idle") /\ Done(q)
    /\ history' = IF At(q, "sweep") THEN [history EXCEPT !.unswept = @ \cup {request[q].email}]
                  ELSE history
    /\ UNCHANGED <<account, session>>

SignIn(q) ==
    \/ \E e \in Emails : PasswordLogin(q, e)
    \/ \E claim \in Claims : Callback(q, claim)
    \/ ByEmail(q) \/ Link(q) \/ Reload(q) \/ LookAgain(q) \/ InsertIdentity(q) \/ Reread(q)
    \/ \E s \in Sessions : CreateSession(q, s)

Handle(q) ==
    \/ \E s \in Sessions, op \in OwnOps \cup AdminOps, e \in Emails : Admit(q, s, op, e)
    \/ ChangePassword(q) \/ SetUpProfile(q) \/ CreateUser(q) \/ ResetPassword(q)
    \/ ReadExisting(q) \/ PreProvision(q) \/ \E role \in Roles : AssignRole(q, role)
    \/ Deactivate(q) \/ InvalidateAll(q) \/ Reactivate(q)

AccountsNext ==
    \/ \E q \in Requests : SignIn(q) \/ Handle(q) \/ RequestLost(q)
    \/ \E s \in Sessions : Expire(s)

AccountsSpec == AccountsInit /\ [][AccountsNext]_accountsVars

-----------------------------------------------------------------------------
(* Properties *)

\* Every row and request has its shape, and no two accounts hold one identity.
AccountsTypeOK ==
    /\ account \in [Emails -> Account]
    /\ session \in [Sessions -> Session]
    /\ request \in [Requests -> Request]
    /\ history \in [crossed : BOOLEAN, unswept : SUBSET Emails]
    /\ \A i \in Identities : \A e, f \in HolderOf(i) : e = f

\* Administrators deactivate and are deactivated, and an active one is always
\* left: only two who deactivate each other at the same time (each was checked
\* before the other's statement) leave none.
ActiveAdminRemains == (\E e \in Emails : IsAdmin(e)) \/ history.crossed

\* Reactivating an account revives no session from before its deactivation,
\* unless the request was lost between its two statements.  (One inserted while
\* the account was inactive, by a sign-in under way or an Entra callback, does.)
DeactivationEndsSessions ==
    \A s \in Sessions :
        Live(s) /\ session[s].born < account[session[s].user].deactivations
        => \/ session[s].user \in history.unswept
           \/ \E q \in Requests : At(q, "sweep") /\ request[q].email = session[s].user

=============================================================================
