------------------------------ MODULE Accounts ------------------------------
(***************************************************************************)
(* Accounts, sessions and the requests that manage them: package           *)
(* internal/auth (auth.go, handler.go) and the bootstrap account of        *)
(* main.go.                                                                *)
(*                                                                         *)
(* The two tables are functions from ids to rows.  Every SQL statement is  *)
(* one step: no handler opens a transaction, so the statements of requests *)
(* that are served at the same time interleave, and what RequireAuth read  *)
(* of the actor may be stale when the handler writes.                      *)
(*                                                                         *)
(* Abstracted: a password is right or wrong where it is compared and weak  *)
(* or strong where it is set; the CSRF check is right or wrong; a role is  *)
(* valid; last_login_at and the columns nothing decides on are left out;   *)
(* the audit row of a request is the step that writes it (nothing reads    *)
(* the table); requests that only read are left out.                       *)
(***************************************************************************)
EXTENDS Naturals

CONSTANTS
  Clients,      \* browsers: each has a cookie and at most one request served
  Names,        \* user names
  Bootstrap,    \* the name of auth.bootstrap_admin
  Forms,        \* bodies of PATCH: [role, disabled, password]
  Starts,       \* databases and cookies that an earlier run left behind
  MaxUsers, MaxSessions, MaxRequests, MaxFaults   \* bounds of the instance

ASSUME BootstrapAssumption == Bootstrap \in Names
ASSUME FormsAssumption ==
  Forms \subseteq [role : {"none", "admin", "viewer"},
                   disabled : {"none", "yes", "no"},
                   password : {"none", "weak", "strong"}]
ASSUME BoundsAssumption ==
  {MaxUsers, MaxSessions, MaxRequests, MaxFaults} \subseteq Nat

UserRow == [name : Names, role : {"admin", "viewer"}, disabled : BOOLEAN,
            era : Nat]
SessionRow == [user : 1..MaxUsers, name : Names, era : Nat, expired : BOOLEAN]

\* Two tables with their counters: ids and tokens were given out, and names
\* are unique.
Database(u, n, s, m) ==
  /\ n \in 0..MaxUsers /\ m \in 0..MaxSessions
  /\ DOMAIN u \subseteq 1..n /\ DOMAIN s \subseteq 1..m
  /\ \A i \in DOMAIN u : u[i] \in UserRow
  /\ \A i, j \in DOMAIN u : u[i].name = u[j].name => i = j
  /\ \A t \in DOMAIN s : s[t] \in SessionRow /\ s[t].user <= n

\* What an earlier run left: no session bears another name than its user's or
\* was opened before the user's last revocation.
ASSUME StartsAssumption ==
  \A d \in Starts :
    /\ Database(d.users, d.lastUser, d.sessions, d.lastToken)
    /\ d.cookie \in [Clients -> 0..d.lastToken]
    /\ \A t \in DOMAIN d.sessions :
         d.sessions[t].user \in DOMAIN d.users =>
           /\ d.sessions[t].name = d.users[d.sessions[t].user].name
           /\ d.sessions[t].era = d.users[d.sessions[t].user].era

VARIABLES
  users,      \* id -> [name, role, disabled, era]; era is an auxiliary count
              \* of the password changes and disables of the account
  lastUser,   \* the AUTOINCREMENT counter of the table
  sessions,   \* token -> [user, name, era, expired]; name and era of the user
              \* at the INSERT are auxiliary
  lastToken,  \* tokens are random, so each is fresh
  cookie,     \* the token a client holds, or 0
  req,        \* the request that each client is being served
  received, faults,   \* requests, and faults and expiries, for the bounds
  unrevoked   \* auxiliary: accounts whose revocation a fault cut off

vars == <<users, lastUser, sessions, lastToken, cookie, req,
          received, faults, unrevoked>>

-----------------------------------------------------------------------------
NoForm == [role |-> "none", disabled |-> "none", password |-> "none"]
Password(p) == [NoForm EXCEPT !.password = p]
NewAdmin == [Password("strong") EXCEPT !.role = "admin"]

\* What a client may ask; the target of a user item is any id ever given out.
Bodies ==
  [op : {"login"},  name : Names,       target : {0},         form : {NoForm}]
    \cup
  [op : {"logout"}, name : {Bootstrap}, target : {0},         form : {NoForm}]
    \cup
  [op : {"create"}, name : Names,       target : {0},
   form : {Password("weak"), Password("strong"), NewAdmin}]
    \cup
  [op : {"patch"},  name : {Bootstrap}, target : 1..MaxUsers, form : Forms]
    \cup
  [op : {"delete"}, name : {Bootstrap}, target : 1..MaxUsers, form : {NoForm}]
    \cup
  [op : {"passwd"}, name : {Bootstrap}, target : {0},
   form : {Password("weak"), Password("strong")}]

NoBody == [op |-> "none", name |-> Bootstrap, target |-> 0, form |-> NoForm]

\* A request: its body, the step it is at, the actor RequireAuth found (0 for
\* none) with the name and the role it had then, the id the handler works on,
\* and (auxiliary) whether an account was changed for it.
Idle == [body |-> NoBody, pc |-> "idle", actor |-> 0, as |-> Bootstrap,
         admin |-> FALSE, id |-> 0, wrote |-> FALSE]

With(f, k, v) == [x \in DOMAIN f \cup {k} |-> IF x = k THEN v ELSE f[x]]
Without(f, S) == [x \in DOMAIN f \ S |-> f[x]]

Ids == DOMAIN users
Admins == {i \in Ids : users[i].role = "admin" /\ ~users[i].disabled}
SessionsOf(i) == {t \in DOMAIN sessions : sessions[t].user = i}

Body(c) == req[c].body
At(c, pc) == req[c].pc = pc

\* The request of c goes on at pc, or is answered.
Goto(c, pc) == req' = [req EXCEPT ![c].pc = pc]
Answer(c) == req' = [req EXCEPT ![c] = Idle]

\* An UPDATE, INSERT or DELETE of users was done for c: go on at pc.
Wrote(c, pc) == req' = [req EXCEPT ![c].pc = pc, ![c].wrote = TRUE]

Tables == <<users, lastUser, sessions, lastToken>>
Counts == <<received, faults, unrevoked>>

-----------------------------------------------------------------------------
(***************************************************************************)
(* RequireAuth and RequireAdmin.                                           *)
(***************************************************************************)

\* A request arrives.  Login is the one route behind no check.
Receive(c) ==
  /\ At(c, "idle") /\ received < MaxRequests
  /\ \E b \in Bodies :
       /\ b.target \in 0..lastUser
       /\ req' = [req EXCEPT ![c] = [Idle EXCEPT
                    !.body = b, !.id = b.target,
                    !.pc = IF b.op = "login" THEN "handler" ELSE "auth"]]
  /\ received' = received + 1
  /\ UNCHANGED <<Tables, cookie, faults, unrevoked>>

\* Where a request goes that RequireAuth lets through: the collection of
\* users is wrapped in RequireAdmin as well.
Checked(c) == IF Body(c).op = "create" THEN "role" ELSE "handler"

\* noAccountMode of RequireAuth: with no users the request is anonymous.
Admit(c) ==
  /\ At(c, "auth")
  /\ Goto(c, IF Ids = {} THEN Checked(c) ELSE "session")
  /\ UNCHANGED <<Tables, cookie, Counts>>

\* ValidateSession: the SELECT of the session, which names the account.
FindSession(c) ==
  /\ At(c, "session")
  /\ LET t == cookie[c] IN
       IF t \notin DOMAIN sessions THEN Answer(c)
       ELSE req' = [req EXCEPT
              ![c].actor = sessions[t].user,
              ![c].pc    = IF sessions[t].expired THEN "prune" ELSE "user"]
  /\ UNCHANGED <<Tables, cookie, Counts>>

\* ... and its DELETE, when it has expired or its account is disabled.
Prune(c) ==
  /\ At(c, "prune")
  /\ sessions' = Without(sessions, {cookie[c]})
  /\ Answer(c)
  /\ UNCHANGED <<users, lastUser, lastToken, cookie, Counts>>

\* GetUser of ValidateSession, a query of its own, and the CSRF check of a
\* form that may lack its token.  The role is the one the request is judged by.
LoadUser(c) ==
  /\ At(c, "user")
  /\ LET i == req[c].actor IN
       \/ i \notin Ids /\ Answer(c)
       \/ i \in Ids /\ users[i].disabled /\ Goto(c, "prune")
       \/ i \in Ids /\ ~users[i].disabled /\ Answer(c)
       \/ /\ i \in Ids /\ ~users[i].disabled
          /\ req' = [req EXCEPT ![c].as    = users[i].name,
                                ![c].admin = (users[i].role = "admin"),
                                ![c].pc    = Checked(c)]
  /\ UNCHANGED <<Tables, cookie, Counts>>

\* RequireAdmin counts the users once more before it judges the role.
RequireAdmin(c) ==
  /\ At(c, "role")
  /\ IF Ids = {} \/ req[c].admin THEN Goto(c, "handler") ELSE Answer(c)
  /\ UNCHANGED <<Tables, cookie, Counts>>

-----------------------------------------------------------------------------
(***************************************************************************)
(* The handlers.                                                           *)
(***************************************************************************)

\* Authenticate: the SELECT of the account, whose password and disabled flag
\* are then compared without looking at the table again.
Authenticated(name) ==
  {i \in Ids : users[i].name = name /\ ~users[i].disabled}

\* handleLogin verifies the password ...
Login(c) ==
  /\ At(c, "handler") /\ Body(c).op = "login"
  /\ \/ Answer(c)
     \/ \E i \in Authenticated(Body(c).name) :
          req' = [req EXCEPT ![c].pc = "mint", ![c].id = i]
  /\ UNCHANGED <<Tables, cookie, Counts>>

\* ... and CreateSession inserts a session for the id it found, whatever has
\* become of the account: the database does not enforce foreign keys.
CreateSession(c) ==
  /\ At(c, "mint") /\ lastToken < MaxSessions
  /\ lastToken' = lastToken + 1
  /\ sessions' = With(sessions, lastToken + 1,
       [user |-> req[c].id, name |-> Body(c).name, expired |-> FALSE,
        era |-> IF req[c].id \in Ids THEN users[req[c].id].era ELSE 0])
  /\ req' = [req EXCEPT ![c].pc = "audit", ![c].id = lastToken + 1]
  /\ UNCHANGED <<users, lastUser, cookie, Counts>>

Logout(c) ==
  /\ At(c, "handler") /\ Body(c).op = "logout"
  /\ sessions' = Without(sessions, {cookie[c]})
  /\ Goto(c, "audit")
  /\ UNCHANGED <<users, lastUser, lastToken, cookie, Counts>>

\* Mutant: without AUTOINCREMENT SQLite gives the largest id out again.
NewUserReused == IF Ids = {} THEN 1 ELSE (CHOOSE i \in Ids : \A j \in Ids : j <= i) + 1

\* The id of a new row: AUTOINCREMENT never gives an id out twice.
NewUser == lastUser + 1

\* Mutant: the column of user names is not UNIQUE.
TakenNever(name) == FALSE

\* The INSERT of a name that exists fails on the UNIQUE constraint.
Taken(name) == \E i \in Ids : users[i].name = name

\* CreateUser; an account without a role is a viewer, the first one too.
CreateUser(c) ==
  /\ At(c, "handler") /\ Body(c).op = "create" /\ NewUser \in 1..MaxUsers
  /\ LET f == Body(c).form IN
       IF f.password # "strong" \/ Taken(Body(c).name)
       THEN Answer(c) /\ UNCHANGED <<users, lastUser>>
       ELSE /\ users' = With(users, NewUser,
                 [name |-> Body(c).name, disabled |-> FALSE, era |-> 0,
                  role |-> IF f.role = "none" THEN "viewer" ELSE f.role])
            /\ lastUser' = IF NewUser > lastUser THEN NewUser ELSE lastUser
            /\ Wrote(c, "audit")
  /\ UNCHANGED <<sessions, lastToken, cookie, Counts>>

\* handleUserItem lets an actor through that was an administrator, who can
\* neither disable nor delete itself.  (Mutants: the checks are forgotten.)
MayManage(c) == req[c].actor # 0 /\ req[c].admin
NotMyselfUnchecked(c) == TRUE
NotMyself(c) == req[c].id # req[c].actor

\* Disabling an account also revokes its sessions.
AfterUpdateNoRevoke(f) == "reread"
AfterUpdate(f) == IF f.disabled = "yes" THEN "revoke" ELSE "reread"

\* UpdateUser, the UPDATE: role and disabled in one statement.
UpdateUser(c) ==
  /\ At(c, "handler") /\ Body(c).op = "patch"
  /\ LET f == Body(c).form  i == req[c].id IN
       IF ~MayManage(c) \/ (f.disabled = "yes" /\ ~NotMyself(c))
       THEN Answer(c) /\ UNCHANGED users
       ELSE IF f.role = "none" /\ f.disabled = "none"
       THEN Goto(c, "reread") /\ UNCHANGED users
       ELSE IF i \notin Ids
       THEN Answer(c) /\ UNCHANGED users
       ELSE /\ users' = [users EXCEPT
                 ![i].role     = IF f.role = "none" THEN @ ELSE f.role,
                 ![i].disabled = IF f.disabled = "none" THEN @
                                 ELSE f.disabled = "yes",
                 ![i].era      = IF f.disabled = "yes" THEN @ + 1 ELSE @]
            /\ Wrote(c, AfterUpdate(f))
  /\ UNCHANGED <<lastUser, sessions, lastToken, cookie, Counts>>

\* UpdateUser and ChangePassword: the DELETE of the sessions of the account.
\* A later revocation makes up for one that a fault cut off.
Revoke(c) ==
  /\ req[c].pc \in {"revoke", "revokeAll"}
  /\ sessions' = Without(sessions, SessionsOf(req[c].id))
  /\ Goto(c, IF At(c, "revoke") THEN "reread" ELSE "audit")
  /\ unrevoked' = unrevoked \ {req[c].id}
  /\ UNCHANGED <<users, lastUser, lastToken, cookie, received, faults>>

\* GetUser at the end of UpdateUser.
Reread(c) ==
  /\ At(c, "reread")
  /\ IF req[c].id \notin Ids THEN Answer(c)
     ELSE Goto(c, IF Body(c).form.password = "none" THEN "audit"
                                                    ELSE "password")
  /\ UNCHANGED <<Tables, cookie, Counts>>

\* handleSelfPassword: the current password of the actor is verified under
\* the actor's name; the account that is changed is the one of its id.
VerifySelf(c) ==
  /\ At(c, "handler") /\ Body(c).op = "passwd"
  /\ \/ Answer(c)
     \/ /\ req[c].actor # 0 /\ Authenticated(req[c].as) # {}
        /\ req' = [req EXCEPT ![c].pc = "password", ![c].id = req[c].actor]
  /\ UNCHANGED <<Tables, cookie, Counts>>

\* ChangePassword, the UPDATE.
ChangePassword(c) ==
  /\ At(c, "password")
  /\ LET i == req[c].id IN
       IF Body(c).form.password # "strong" \/ i \notin Ids
       THEN Answer(c) /\ UNCHANGED users
       ELSE users' = [users EXCEPT ![i].era = @ + 1] /\ Wrote(c, "revokeAll")
  /\ UNCHANGED <<lastUser, sessions, lastToken, cookie, Counts>>

\* The name for the audit row is read before the row is deleted.  (Mutant: it
\* is read afterwards, as UpdateUser does.)
AfterDeleteReread == "reread"
AfterDelete == "audit"

\* DeleteUser: the row only.  ON DELETE CASCADE is declared, but the
\* connection does not turn foreign keys on, so the sessions stay behind.
DeleteUser(c) ==
  /\ At(c, "handler") /\ Body(c).op = "delete"
  /\ IF ~MayManage(c) \/ ~NotMyself(c) \/ req[c].id \notin Ids
     THEN Answer(c) /\ UNCHANGED users
     ELSE users' = Without(users, {req[c].id}) /\ Wrote(c, AfterDelete)
  /\ UNCHANGED <<lastUser, sessions, lastToken, cookie, Counts>>

\* The audit row, and the answer with its cookies.
Audit(c) ==
  /\ At(c, "audit")
  /\ cookie' = CASE Body(c).op = "login" -> [cookie EXCEPT ![c] = req[c].id]
                 [] Body(c).op \in {"logout", "passwd"} ->
                      [cookie EXCEPT ![c] = 0]
                 [] OTHER -> cookie
  /\ Answer(c)
  /\ UNCHANGED <<Tables, Counts>>

-----------------------------------------------------------------------------
(***************************************************************************)
(* Time, failing statements and restarts.                                  *)
(***************************************************************************)

\* The lifetime of a session ends; nothing purges the row.
Expire(t) ==
  /\ ~sessions[t].expired /\ faults < MaxFaults
  /\ faults' = faults + 1
  /\ sessions' = [sessions EXCEPT ![t].expired = TRUE]
  /\ UNCHANGED <<users, lastUser, lastToken, cookie, req, received, unrevoked>>

\* The accounts whose sessions requests of C were about to delete.
Owed(C) == {req[c].id : c \in {d \in C : req[d].pc \in {"revoke", "revokeAll"}}}

\* A statement fails (the database is busy for longer than its timeout).  The
\* two counts of no-account mode then say that there are users, and a logout
\* ignores the error; every other handler answers with it.
Fail(c) ==
  /\ ~At(c, "idle") /\ faults < MaxFaults
  /\ CASE At(c, "auth")                                -> Goto(c, "session")
       [] At(c, "role") /\ req[c].admin                -> Goto(c, "handler")
       [] At(c, "handler") /\ Body(c).op = "logout"    -> Goto(c, "audit")
       [] OTHER                                        -> Answer(c)
  /\ faults' = faults + 1
  /\ unrevoked' = unrevoked \cup Owed({c})
  /\ UNCHANGED <<Tables, cookie, received>>

\* A crash cuts off every request.  The next start creates the bootstrap
\* account, if one is configured, when the table of users is empty.
Restart ==
  /\ faults < MaxFaults
  /\ faults' = faults + 1
  /\ req' = [c \in Clients |-> Idle]
  /\ unrevoked' = unrevoked \cup Owed(Clients)
  /\ \/ UNCHANGED <<users, lastUser>>
     \/ /\ Ids = {} /\ NewUser \in 1..MaxUsers
        /\ users' = With(users, NewUser, [name |-> Bootstrap, role |-> "admin",
                                          disabled |-> FALSE, era |-> 0])
        /\ lastUser' = NewUser
  /\ UNCHANGED <<sessions, lastToken, cookie, received>>

-----------------------------------------------------------------------------
Serve(c) ==
  \/ Receive(c) \/ Admit(c) \/ FindSession(c) \/ Prune(c) \/ LoadUser(c)
  \/ RequireAdmin(c) \/ Login(c) \/ CreateSession(c) \/ Logout(c)
  \/ CreateUser(c) \/ UpdateUser(c) \/ Revoke(c) \/ Reread(c) \/ VerifySelf(c)
  \/ ChangePassword(c) \/ DeleteUser(c) \/ Audit(c) \/ Fail(c)

Init ==
  /\ \E s \in Starts :
       /\ users = s.users /\ lastUser = s.lastUser
       /\ sessions = s.sessions /\ lastToken = s.lastToken /\ cookie = s.cookie
  /\ req = [c \in Clients |-> Idle]
  /\ received = 0 /\ faults = 0 /\ unrevoked = {}

Next ==
  \/ \E c \in Clients : Serve(c)
  \/ \E t \in DOMAIN sessions : Expire(t)
  \/ Restart

Spec == Init /\ [][Next]_vars

-----------------------------------------------------------------------------
(***************************************************************************)
(* Properties.                                                             *)
(***************************************************************************)

Steps == {"idle", "auth", "session", "prune", "user", "role", "handler",
          "mint", "revoke", "reread", "password", "revokeAll", "audit"}

Request == [body : Bodies \cup {NoBody}, pc : Steps, actor : 0..MaxUsers,
            as : Names, admin : BOOLEAN, id : Nat, wrote : BOOLEAN]

CountsOK ==
  /\ received \in 0..MaxRequests /\ faults \in 0..MaxFaults
  /\ unrevoked \subseteq Nat

\* The tables are keyed by ids that were given out, names are unique, and a
\* client never holds a token of the future.
TypeOK ==
  /\ Database(users, lastUser, sessions, lastToken)
  /\ cookie \in [Clients -> 0..lastToken]
  /\ req \in [Clients -> Request]
  /\ CountsOK

\* A session that was opened before its account's password changed, or before
\* the account was disabled, is not accepted any more -- not even once the
\* account is enabled again -- unless the request that made the change has yet
\* to delete the sessions, or failed or was cut off before it could
\* (ChangePassword, UpdateUser: two statements).  A login that verified the
\* old password inserts its session after the change and is not covered.
RevokedSessionsAreGone ==
  \A t \in DOMAIN sessions :
    LET s == sessions[t] IN
      s.user \in Ids /\ ~users[s.user].disabled /\ s.era # users[s.user].era
        => s.user \in unrevoked \cup Owed(Clients)

\* A session, though deleting an account leaves it behind, never becomes the
\* session of another account: it resolves to the name it was opened for or
\* to nobody (ValidateSession, with DeleteUser and CreateUser in between).
SessionsKeepTheirOwner ==
  \A t \in DOMAIN sessions :
    LET s == sessions[t] IN s.user \in Ids => users[s.user].name = s.name

\* Nobody can manage the accounts any more, or anybody can again.
LockedOut ==
  \/ Admins # {} /\ Admins' = {}
  \/ Ids = {} /\ Ids' # {} /\ Admins' = {}
  \/ Ids # {} /\ Ids' = {}

\* The request of c creates an account, was let through for an actor that has
\* since lost its rights, or demotes its own actor.
MayLockOut(c) ==
  \/ Body(c).op = "create"
  \/ req[c].actor \notin Admins
  \/ /\ req[c].actor = req[c].id
     /\ Body(c).op = "patch" /\ Body(c).form.role = "viewer"

LockoutIsOwnDoing ==
  LockedOut => \E c \in Clients : req'[c] # req[c] /\ MayLockOut(c)

\* "Don't let an admin disable themselves and lock everyone out": the last
\* enabled administrator goes, or the table becomes empty, only when it
\* demotes itself, when the first account is created as a viewer, or by a
\* request whose actor lost its own rights after RequireAuth had judged them
\* (two administrators that remove each other at the same time).
LockedOutOnlyByItself == [][LockoutIsOwnDoing]_vars

\* The request of c, which has changed an account, is answered without its
\* audit row, and no fault is the reason.
Unaudited(c) ==
  req[c].wrote /\ req'[c] = Idle /\ faults' = faults /\ ~At(c, "audit")

\* The request of c is a PATCH that was refused after its first half.
HalfDone(c) ==
  Body(c).op = "patch" /\ (req[c].id \notin Ids \/ Body(c).form.password = "weak")

\* A request that changed an account is answered after its audit row was
\* written, unless a fault cut it off or it is a PATCH of which only the first
\* half was done: the password it sets as well was refused after the role and
\* the disabled flag were written, or the account was deleted meanwhile.
ChangesAreAudited == [][\A c \in Clients : Unaudited(c) => HalfDone(c)]_vars
=============================================================================
