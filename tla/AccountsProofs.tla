--------------------------- MODULE AccountsProofs ---------------------------
(***************************************************************************)
(* Theorems about Accounts for every set of clients, names, PATCH bodies   *)
(* and earlier databases, and every bound.                                 *)
(***************************************************************************)
EXTENDS Accounts, TLAPS

\* A login is past no check but its own.  About to insert its session it holds
\* an id that was given out, and if the account still exists it has the name
\* that the login was for; afterwards it holds a token.
LoginOK(c) ==
    /\ At(c, "mint") => /\ req[c].id \in 1..lastUser
                        /\ req[c].id \in Ids => users[req[c].id].name = Body(c).name
    /\ Body(c).op = "login" => /\ req[c].pc \in {"handler", "mint", "audit"}
                               /\ At(c, "audit") => req[c].id \in 0..lastToken

\* RevokedSessionsAreGone, of disabled accounts as well: enabling an account
\* must not bring a session back.
StaleAreOwed ==
    \A t \in DOMAIN sessions :
      LET s == sessions[t] IN
        s.user \in Ids /\ s.era # users[s.user].era
          => s.user \in unrevoked \cup Owed(Clients)

\* The inductive invariant.
IInv ==
    /\ TypeOK
    /\ \A c \in Clients : LoginOK(c)
    /\ SessionsKeepTheirOwner
    /\ StaleAreOwed

-----------------------------------------------------------------------------
(***************************************************************************)
(* The two tables.                                                         *)
(***************************************************************************)

USE BootstrapAssumption, FormsAssumption, BoundsAssumption

\* Deleting sessions keeps the tables well typed.
LEMMA SessionsDeleted ==
    ASSUME NEW u, NEW n, NEW s, NEW m, NEW S, Database(u, n, s, m)
    PROVE  Database(u, n, Without(s, S), m)
BY DEF Database, Without

\* Inserting a session under a fresh token keeps the tables well typed.
LEMMA SessionInserted ==
    ASSUME NEW u, NEW n, NEW s, NEW m, NEW r \in SessionRow,
           Database(u, n, s, m), m < MaxSessions, r.user <= n
    PROVE  Database(u, n, With(s, m + 1, r), m + 1)
<1> DEFINE t == With(s, m + 1, r)
<1>1. /\ DOMAIN t = DOMAIN s \cup {m + 1}
      /\ \A k \in DOMAIN t : t[k] = IF k = m + 1 THEN r ELSE s[k]
  BY DEF With
<1>2. n \in 0..MaxUsers /\ m + 1 \in 0..MaxSessions
  BY DEF Database
<1>3. DOMAIN u \subseteq 1..n /\ DOMAIN t \subseteq 1..(m + 1)
  BY <1>1, <1>2 DEF Database
<1>4. \A k \in DOMAIN t : t[k] \in SessionRow /\ t[k].user <= n
  BY <1>1 DEF Database
<1>5. /\ \A i \in DOMAIN u : u[i] \in UserRow
      /\ \A i, j \in DOMAIN u : u[i].name = u[j].name => i = j
  BY DEF Database
<1>6. Database(u, n, t, m + 1)
  <2> HIDE DEF t
  <2> QED
    BY <1>2, <1>3, <1>4, <1>5 DEF Database
<1> QED
  BY <1>6

\* Changing a session's row keeps the tables well typed.
LEMMA SessionChanged ==
    ASSUME NEW u, NEW n, NEW s, NEW m, NEW t \in DOMAIN s, NEW r \in SessionRow,
           Database(u, n, s, m), r.user <= n
    PROVE  Database(u, n, [s EXCEPT ![t] = r], m)
BY DEF Database

\* Inserting an account under the next id and an unused name.
LEMMA UserInserted ==
    ASSUME NEW u, NEW n, NEW s, NEW m, NEW r \in UserRow,
           Database(u, n, s, m), n + 1 \in 1..MaxUsers,
           \A i \in DOMAIN u : u[i].name # r.name
    PROVE  Database(With(u, n + 1, r), n + 1, s, m)
<1> DEFINE v == With(u, n + 1, r)
<1>1. /\ DOMAIN v = DOMAIN u \cup {n + 1}
      /\ \A k \in DOMAIN v : v[k] = IF k = n + 1 THEN r ELSE u[k]
  BY DEF With
<1>2. n + 1 \in 0..MaxUsers /\ m \in 0..MaxSessions /\ n \in Nat
  BY DEF Database
<1>3. DOMAIN v \subseteq 1..(n + 1) /\ DOMAIN s \subseteq 1..m
  BY <1>1, <1>2 DEF Database
<1>4. \A k \in DOMAIN v : v[k] \in UserRow
  BY <1>1 DEF Database
<1>5. \A i, j \in DOMAIN v : v[i].name = v[j].name => i = j
  BY <1>1 DEF Database
<1>6. \A t \in DOMAIN s : s[t] \in SessionRow /\ s[t].user <= n + 1
  BY <1>2 DEF Database, SessionRow
<1>7. Database(v, n + 1, s, m)
  <2> HIDE DEF v
  <2> QED
    BY <1>2, <1>3, <1>4, <1>5, <1>6 DEF Database
<1> QED
  BY <1>7

\* Updating an account without renaming it.
LEMMA UserChanged ==
    ASSUME NEW u, NEW n, NEW s, NEW m, NEW i \in DOMAIN u, NEW r \in UserRow,
           Database(u, n, s, m), r.name = u[i].name
    PROVE  Database([u EXCEPT ![i] = r], n, s, m)
BY DEF Database

\* Deleting accounts, whether or not their sessions go with them.
LEMMA UsersDeleted ==
    ASSUME NEW u, NEW n, NEW s, NEW m, NEW S, Database(u, n, s, m)
    PROVE  Database(Without(u, S), n, s, m)
BY DEF Database, Without

-----------------------------------------------------------------------------
(***************************************************************************)
(* Requests.                                                               *)
(***************************************************************************)

\* What a body carries, whatever its operation.
LEMMA BodyType ==
    ASSUME NEW b \in Bodies \cup {NoBody}
    PROVE  /\ b.name \in Names
           /\ b.form.role \in {"none", "admin", "viewer"}
<1>1. NoForm.role = "none" /\ Password("weak").role = "none"
      /\ Password("strong").role = "none" /\ NewAdmin.role = "admin"
  BY DEF NoForm, Password, NewAdmin
<1>2. \A f \in Forms : f.role \in {"none", "admin", "viewer"}
  OBVIOUS
<1>3. b.name \in Names
  BY DEF Bodies, NoBody
<1>4. b.form \in Forms \cup {NoForm, Password("weak"), Password("strong"), NewAdmin}
  BY DEF Bodies, NoBody
<1> QED
  BY <1>1, <1>2, <1>3, <1>4

\* A request that is not being served.
LEMMA IdleType == Idle \in Request /\ Idle.pc = "idle" /\ Idle.body.op = "none"
BY DEF Idle, Request, Steps, NoBody

\* What a step of a handler makes of a request is a request.
LEMMA RequestChanged ==
    ASSUME NEW r \in Request, NEW p \in Steps, NEW i \in Nat
    PROVE  /\ [r EXCEPT !.pc = p] \in Request
           /\ [r EXCEPT !.pc = p, !.id = i] \in Request
           /\ [r EXCEPT !.pc = p, !.wrote = TRUE] \in Request
BY DEF Request

\* The request of one client is replaced.
LEMMA RequestReplaced ==
    ASSUME req \in [Clients -> Request], NEW c \in Clients, NEW r \in Request,
           req' = [req EXCEPT ![c] = r]
    PROVE  /\ req' \in [Clients -> Request]
           /\ req'[c] = r
           /\ \A d \in Clients \ {c} : req'[d] = req[d]
OBVIOUS

\* Going on at a step and answering, as most handlers end.
LEMMA GotoType ==
    ASSUME req \in [Clients -> Request], NEW c \in Clients, NEW p \in Steps,
           Goto(c, p) \/ Wrote(c, p)
    PROVE  /\ req' \in [Clients -> Request]
           /\ req'[c].pc = p /\ req'[c].id = req[c].id
           /\ req'[c].body = req[c].body
           /\ \A d \in Clients \ {c} : req'[d] = req[d]
<1>0. req[c] \in Request
  OBVIOUS
<1>1. CASE Goto(c, p)
  <2>1. [req[c] EXCEPT !.pc = p] \in Request
    BY <1>0, RequestChanged
  <2>2. req' = [req EXCEPT ![c] = [req[c] EXCEPT !.pc = p]]
    BY <1>1 DEF Goto
  <2>3. req'[c] = [req[c] EXCEPT !.pc = p]
    BY <2>1, <2>2
  <2> QED
    BY <1>0, <2>1, <2>2, <2>3, RequestReplaced DEF Request
<1>2. CASE Wrote(c, p)
  <2>1. [req[c] EXCEPT !.pc = p, !.wrote = TRUE] \in Request
    BY <1>0, RequestChanged
  <2>2. req' = [req EXCEPT ![c] = [req[c] EXCEPT !.pc = p, !.wrote = TRUE]]
    BY <1>2 DEF Wrote
  <2>3. req'[c] = [req[c] EXCEPT !.pc = p, !.wrote = TRUE]
    BY <2>1, <2>2
  <2> QED
    BY <1>0, <2>1, <2>2, <2>3, RequestReplaced DEF Request
<1> QED
  BY <1>1, <1>2

LEMMA AnswerType ==
    ASSUME req \in [Clients -> Request], NEW c \in Clients, Answer(c)
    PROVE  /\ req' \in [Clients -> Request]
           /\ req'[c].pc = "idle" /\ req'[c].body.op = "none"
           /\ \A d \in Clients \ {c} : req'[d] = req[d]
BY IdleType, RequestReplaced DEF Answer

-----------------------------------------------------------------------------
(***************************************************************************)
(* Steps that leave the tables alone.                                      *)
(***************************************************************************)

Revoking == {"revoke", "revokeAll"}

\* The other clients' requests are as they were.
OthersKept(c) == \A d \in Clients \ {c} : req'[d] = req[d]

\* An account that is owed a revocation stays owed one, unless it was owed by
\* the one client whose request goes on.
LEMMA OwedKept ==
    ASSUME NEW c \in Clients, OthersKept(c), NEW i \in Owed(Clients)
    PROVE  i \in Owed(Clients)' \/ (req[c].pc \in Revoking /\ req[c].id = i)
BY DEF Owed, OthersKept, Revoking

\* A step of one client that does not touch the tables keeps the invariant.
LEMMA TablesKept ==
    ASSUME IInv, NEW c \in Clients, UNCHANGED Tables,
           req' \in [Clients -> Request], OthersKept(c),
           cookie' \in [Clients -> 0..lastToken], CountsOK',
           unrevoked \subseteq unrevoked',
           req[c].pc \in Revoking => req[c].id \in unrevoked',
           LoginOK(c)'
    PROVE  IInv'
<1>0. /\ users' = users /\ lastUser' = lastUser
      /\ sessions' = sessions /\ lastToken' = lastToken
  BY DEF Tables
<1>1. TypeOK'
  BY <1>0 DEF IInv, TypeOK
<1>2. ASSUME NEW d \in Clients PROVE LoginOK(d)'
  <2>1. CASE d = c
    BY <2>1
  <2>2. CASE d # c
    <3>1. req'[d] = req[d] /\ LoginOK(d)
      BY <2>2 DEF OthersKept, IInv
    <3> QED
      BY <3>1, <1>0 DEF LoginOK, At, Body, Ids
  <2> QED
    BY <2>1, <2>2
<1>3. SessionsKeepTheirOwner'
  BY <1>0 DEF IInv, SessionsKeepTheirOwner, Ids
<1>4. StaleAreOwed'
  <2>1. \A i \in unrevoked \cup Owed(Clients) : i \in unrevoked' \cup Owed(Clients)'
    BY OwedKept
  <2> QED
    BY <1>0, <2>1 DEF IInv, StaleAreOwed, Ids
<1> QED
  BY <1>1, <1>2, <1>3, <1>4 DEF IInv

\* What every quiet step of a handler has in common.
QuietStep(c) ==
    /\ UNCHANGED <<Tables, cookie, unrevoked>>
    /\ CountsOK'
    /\ req' \in [Clients -> Request] /\ OthersKept(c)
    /\ req[c].pc \notin Revoking
    /\ LoginOK(c)'

LEMMA QuietKeeps ==
    ASSUME IInv, NEW c \in Clients, QuietStep(c)
    PROVE  IInv'
<1>1. cookie' \in [Clients -> 0..lastToken] /\ unrevoked' = unrevoked
  BY DEF QuietStep, IInv, TypeOK
<1> QED
  BY <1>1, TablesKept DEF QuietStep

\* A step that only moves a request on, and not to the session's INSERT.
LEMMA MoveIsQuiet ==
    ASSUME IInv, NEW c \in Clients, NEW p \in Steps \ {"mint"},
           (Goto(c, p) /\ Body(c).op # "login") \/ Answer(c),
           req[c].pc \notin Revoking,
           UNCHANGED <<Tables, cookie, Counts>>
    PROVE  QuietStep(c)
<1>1. req \in [Clients -> Request] /\ CountsOK
  BY DEF IInv, TypeOK
<1>2. /\ req' \in [Clients -> Request] /\ OthersKept(c)
      /\ req'[c].pc # "mint" /\ req'[c].body.op # "login"
  BY <1>1, GotoType, AnswerType DEF OthersKept, Body
<1>3. CountsOK'
  BY <1>1 DEF CountsOK, Counts
<1> QED
  BY <1>2, <1>3 DEF QuietStep, LoginOK, At, Body, Counts

LEMMA ReceiveQuiet ==
    ASSUME IInv, NEW c \in Clients, Receive(c)
    PROVE  QuietStep(c)
<1>1. PICK b \in Bodies :
        /\ b.target \in 0..lastUser
        /\ req' = [req EXCEPT ![c] = [Idle EXCEPT
                    !.body = b, !.id = b.target,
                    !.pc = IF b.op = "login" THEN "handler" ELSE "auth"]]
  BY DEF Receive
<1> DEFINE r == [Idle EXCEPT !.body = b, !.id = b.target,
                             !.pc = IF b.op = "login" THEN "handler" ELSE "auth"]
<1>2. r \in Request /\ r.pc # "mint" /\ (r.body.op = "login" => r.pc = "handler")
  <2>1. b.target \in Nat
    BY <1>1 DEF IInv, TypeOK, Database
  <2> QED
    BY <2>1, IdleType DEF Request, Steps, Idle
<1>3. req \in [Clients -> Request] /\ req[c].pc = "idle"
  BY DEF IInv, TypeOK, Receive, At
<1>4. req' = [req EXCEPT ![c] = r]
  BY <1>1
<1>5. req' \in [Clients -> Request] /\ req'[c] = r /\ OthersKept(c)
  <2> HIDE DEF r
  <2> QED
    BY <1>2, <1>3, <1>4, RequestReplaced DEF OthersKept
<1>6. CountsOK'
  BY DEF IInv, TypeOK, CountsOK, Receive
<1> HIDE DEF r
<1> QED
  BY <1>2, <1>3, <1>5, <1>6 DEF QuietStep, LoginOK, At, Body, Receive, Revoking

LEMMA FindSessionQuiet ==
    ASSUME IInv, NEW c \in Clients, FindSession(c)
    PROVE  QuietStep(c)
<1> DEFINE t == cookie[c]
<1>1. req \in [Clients -> Request] /\ req[c].pc = "session"
  BY DEF IInv, TypeOK, FindSession, At
<1>0. req[c].body.op # "login"
  BY <1>1 DEF IInv, LoginOK, Body
<1>2. CASE t \notin DOMAIN sessions
  BY <1>0, <1>1, <1>2, MoveIsQuiet DEF FindSession, Revoking, Steps
<1>3. CASE t \in DOMAIN sessions
  <2> DEFINE r == [req[c] EXCEPT !.actor = sessions[t].user,
                                 !.pc = IF sessions[t].expired THEN "prune" ELSE "user"]
  <2>1. sessions[t].user \in 0..MaxUsers
    BY <1>3 DEF IInv, TypeOK, Database, SessionRow
  <2>2. req[c] \in Request
    BY <1>1
  <2>3. r \in Request /\ r.pc # "mint" /\ r.body = req[c].body
    BY <2>1, <2>2 DEF Request, Steps
  <2>4. req' = [req EXCEPT ![c] = r]
    BY <1>3 DEF FindSession
  <2>5. req' \in [Clients -> Request] /\ req'[c] = r /\ OthersKept(c)
    <3> HIDE DEF r
    <3> QED
      BY <1>1, <2>3, <2>4, RequestReplaced DEF OthersKept
  <2>6. CountsOK'
    BY DEF IInv, TypeOK, CountsOK, FindSession, Counts
  <2> HIDE DEF r
  <2> QED
    BY <1>0, <1>1, <2>3, <2>5, <2>6
    DEF QuietStep, LoginOK, At, Body, FindSession, Revoking, Counts
<1> QED
  BY <1>2, <1>3

LEMMA CheckedStep == \A c \in Clients : Checked(c) \in {"role", "handler"}
BY DEF Checked

LEMMA LoadUserQuiet ==
    ASSUME IInv, NEW c \in Clients, LoadUser(c)
    PROVE  QuietStep(c)
<1> DEFINE i == req[c].actor
           r == [req[c] EXCEPT !.as = users[i].name,
                               !.admin = (users[i].role = "admin"),
                               !.pc = Checked(c)]
<1>1. req \in [Clients -> Request] /\ req[c].pc = "user"
  BY DEF IInv, TypeOK, LoadUser, At
<1>0. req[c].body.op # "login"
  BY <1>1 DEF IInv, LoginOK, Body
<1>2. CASE Answer(c) \/ Goto(c, "prune")
  BY <1>0, <1>1, <1>2, MoveIsQuiet DEF LoadUser, Revoking, Steps, Body
<1>3. CASE i \in Ids /\ req' = [req EXCEPT ![c] = r]
  <2>1. users[i].name \in Names
    BY <1>3 DEF IInv, TypeOK, Database, UserRow, Ids
  <2>2. req[c] \in Request /\ Checked(c) \in Steps \ {"mint"}
    BY <1>1, CheckedStep DEF Steps
  <2>3. r \in Request /\ r.pc # "mint" /\ r.body = req[c].body
    BY <2>1, <2>2 DEF Request
  <2>4. req' \in [Clients -> Request] /\ req'[c] = r /\ OthersKept(c)
    <3> HIDE DEF r
    <3> QED
      BY <1>1, <1>3, <2>3, RequestReplaced DEF OthersKept
  <2>5. CountsOK'
    BY DEF IInv, TypeOK, CountsOK, LoadUser, Counts
  <2> HIDE DEF r
  <2> QED
    BY <1>0, <1>1, <2>3, <2>4, <2>5
    DEF QuietStep, LoginOK, At, Body, LoadUser, Revoking, Counts
<1> QED
  BY <1>2, <1>3 DEF LoadUser

\* The one quiet step that leads to the session's INSERT: the account it found
\* exists and has the name of the login.
LEMMA LoginQuiet ==
    ASSUME IInv, NEW c \in Clients, Login(c)
    PROVE  QuietStep(c)
<1>1. req \in [Clients -> Request] /\ req[c].pc = "handler" /\ req[c] \in Request
  BY DEF IInv, TypeOK, Login, At
<1>2. CASE Answer(c)
  BY <1>1, <1>2, MoveIsQuiet DEF Login, Revoking, Steps
<1>3. ASSUME NEW i \in Authenticated(Body(c).name),
             req' = [req EXCEPT ![c].pc = "mint", ![c].id = i]
      PROVE  QuietStep(c)
  <2> DEFINE r == [req[c] EXCEPT !.pc = "mint", !.id = i]
  <2>1. i \in Ids /\ users[i].name = req[c].body.name /\ i \in 1..lastUser
    BY DEF Authenticated, Body, IInv, TypeOK, Database, Ids
  <2>2. lastUser \in Nat
    BY DEF IInv, TypeOK, Database
  <2>3. r \in Request /\ r.id = i /\ r.pc = "mint" /\ r.body = req[c].body
    <3>1. i \in Nat /\ "mint" \in Steps
      BY <2>1, <2>2 DEF Steps
    <3> QED
      BY <1>1, <3>1, RequestChanged DEF Request
  <2>4. req' = [req EXCEPT ![c] = r]
    BY <1>3
  <2>5. req' \in [Clients -> Request] /\ req'[c] = r /\ OthersKept(c)
    <3> HIDE DEF r
    <3> QED
      BY <1>1, <2>3, <2>4, RequestReplaced DEF OthersKept
  <2>6. CountsOK'
    BY DEF IInv, TypeOK, CountsOK, Login, Counts
  <2>7. users' = users /\ lastUser' = lastUser
    BY DEF Login, Tables
  <2>8. LoginOK(c)'
    <3> HIDE DEF r
    <3> QED
      BY <2>1, <2>3, <2>5, <2>7 DEF LoginOK, At, Body, Ids
  <2> QED
    BY <1>1, <2>5, <2>6, <2>8 DEF QuietStep, Login, Revoking, Counts
<1> QED
  BY <1>2, <1>3 DEF Login

LEMMA VerifySelfQuiet ==
    ASSUME IInv, NEW c \in Clients, VerifySelf(c)
    PROVE  QuietStep(c)
<1>1. req \in [Clients -> Request] /\ req[c].pc = "handler" /\ req[c] \in Request
  BY DEF IInv, TypeOK, VerifySelf, At
<1>2. CASE Answer(c)
  BY <1>1, <1>2, MoveIsQuiet DEF VerifySelf, Revoking, Steps
<1>3. CASE req' = [req EXCEPT ![c].pc = "password", ![c].id = req[c].actor]
  <2> DEFINE r == [req[c] EXCEPT !.pc = "password", !.id = req[c].actor]
  <2>1. r \in Request /\ r.pc # "mint" /\ r.body.op # "login"
    <3>1. req[c].actor \in Nat /\ "password" \in Steps
      BY <1>1 DEF Request, Steps
    <3>2. Body(c).op = "passwd"
      BY DEF VerifySelf
    <3> QED
      BY <1>1, <3>1, <3>2, RequestChanged DEF Request, Body
  <2>2. req' = [req EXCEPT ![c] = r]
    BY <1>3
  <2>3. req' \in [Clients -> Request] /\ req'[c] = r /\ OthersKept(c)
    <3> HIDE DEF r
    <3> QED
      BY <1>1, <2>1, <2>2, RequestReplaced DEF OthersKept
  <2>4. CountsOK'
    BY DEF IInv, TypeOK, CountsOK, VerifySelf, Counts
  <2> HIDE DEF r
  <2> QED
    BY <1>1, <2>1, <2>3, <2>4
    DEF QuietStep, LoginOK, At, Body, VerifySelf, Revoking, Counts
<1> QED
  BY <1>2, <1>3 DEF VerifySelf

\* The remaining quiet steps only move the request on.
LEMMA OtherQuiet ==
    ASSUME IInv, NEW c \in Clients,
           Admit(c) \/ RequireAdmin(c) \/ Reread(c)
    PROVE  QuietStep(c)
<1>1. CASE Admit(c)
  <2>1. req[c].pc \notin Revoking /\ Body(c).op # "login"
    BY <1>1 DEF Admit, At, Revoking, IInv, LoginOK
  <2>2. \E p \in Steps \ {"mint"} : Goto(c, p)
    BY <1>1, CheckedStep DEF Admit, Steps
  <2> QED
    BY <1>1, <2>1, <2>2, MoveIsQuiet DEF Admit
<1>2. CASE RequireAdmin(c)
  <2>1. req[c].pc \notin Revoking /\ Body(c).op # "login"
    BY <1>2 DEF RequireAdmin, At, Revoking, IInv, LoginOK
  <2>2. Goto(c, "handler") \/ Answer(c)
    BY <1>2 DEF RequireAdmin
  <2> QED
    BY <1>2, <2>1, <2>2, MoveIsQuiet DEF RequireAdmin, Steps
<1>3. CASE Reread(c)
  <2>1. req[c].pc \notin Revoking /\ Body(c).op # "login"
    BY <1>3 DEF Reread, At, Revoking, IInv, LoginOK
  <2>2. Goto(c, "audit") \/ Goto(c, "password") \/ Answer(c)
    BY <1>3 DEF Reread
  <2> QED
    BY <1>3, <2>1, <2>2, MoveIsQuiet DEF Reread, Steps
<1> QED
  BY <1>1, <1>2, <1>3

\* The audit row and the answer: a login hands out the token that it minted.
LEMMA AuditKeeps ==
    ASSUME IInv, NEW c \in Clients, Audit(c)
    PROVE  IInv'
<1>1. /\ req \in [Clients -> Request] /\ req[c].pc = "audit"
      /\ cookie \in [Clients -> 0..lastToken] /\ lastToken \in Nat
  BY DEF IInv, TypeOK, Audit, At, Database
<1>2. Body(c).op = "login" => req[c].id \in 0..lastToken
  BY <1>1 DEF IInv, LoginOK, At
<1>3. cookie' \in [Clients -> 0..lastToken]
  BY <1>1, <1>2 DEF Audit
<1>4. /\ req' \in [Clients -> Request] /\ OthersKept(c)
      /\ req'[c].pc = "idle" /\ req'[c].body.op = "none"
  BY <1>1, AnswerType DEF Audit, OthersKept
<1>5. CountsOK' /\ unrevoked' = unrevoked /\ UNCHANGED Tables
  BY DEF Audit, Counts, IInv, TypeOK, CountsOK
<1>6. LoginOK(c)'
  BY <1>4 DEF LoginOK, At, Body
<1> QED
  BY <1>1, <1>3, <1>4, <1>5, <1>6, TablesKept DEF Revoking

\* A failing statement: what it should have revoked is remembered.
LEMMA FailKeeps ==
    ASSUME IInv, NEW c \in Clients, Fail(c)
    PROVE  IInv'
<1>1. req \in [Clients -> Request] /\ cookie \in [Clients -> 0..lastToken]
  BY DEF IInv, TypeOK
<1>2. \/ Goto(c, "session") /\ At(c, "auth")
      \/ Goto(c, "handler") /\ At(c, "role")
      \/ Goto(c, "audit") /\ Body(c).op = "logout"
      \/ Answer(c)
  BY DEF Fail
<1>3. \/ Answer(c)
      \/ Body(c).op # "login" /\ \E p \in Steps \ {"mint"} : Goto(c, p)
  BY <1>2 DEF IInv, LoginOK, At, Steps
<1>4. /\ req' \in [Clients -> Request] /\ OthersKept(c)
      /\ req'[c].pc # "mint" /\ req'[c].body.op # "login"
  <2>1. CASE Answer(c)
    BY <1>1, <2>1, AnswerType DEF OthersKept
  <2>2. ASSUME Body(c).op # "login", NEW p \in Steps \ {"mint"}, Goto(c, p)
        PROVE  /\ req' \in [Clients -> Request] /\ OthersKept(c)
               /\ req'[c].pc # "mint" /\ req'[c].body.op # "login"
    BY <1>1, <2>2, GotoType DEF OthersKept, Body
  <2> QED
    BY <1>3, <2>1, <2>2
<1>5. LoginOK(c)'
  BY <1>4 DEF LoginOK, At, Body
<1>6. Owed({c}) \subseteq Nat
  <2>1. req[c].id \in Nat
    BY <1>1 DEF Request
  <2> QED
    BY <2>1 DEF Owed
<1>7. CountsOK'
  <2>1. CountsOK /\ MaxFaults \in Nat
    BY DEF IInv, TypeOK
  <2>2. /\ received' = received /\ faults < MaxFaults /\ faults' = faults + 1
        /\ unrevoked' = unrevoked \cup Owed({c})
    BY DEF Fail
  <2>3. received' \in 0..MaxRequests /\ faults' \in 0..MaxFaults
    BY <2>1, <2>2 DEF CountsOK
  <2>4. unrevoked' \subseteq Nat
    BY <1>6, <2>1, <2>2 DEF CountsOK
  <2> QED
    BY <2>3, <2>4 DEF CountsOK
<1>8. /\ unrevoked \subseteq unrevoked'
      /\ req[c].pc \in Revoking => req[c].id \in unrevoked'
  BY DEF Fail, Owed, Revoking
<1>9. cookie' = cookie /\ UNCHANGED Tables
  BY DEF Fail
<1> QED
  BY <1>1, <1>4, <1>5, <1>7, <1>8, <1>9, TablesKept

-----------------------------------------------------------------------------
(***************************************************************************)
(* Steps that change a table.                                              *)
(***************************************************************************)

\* A step of c that changes a table and answers or goes on to p.
MoveStep(c) ==
    /\ \E p \in Steps \ {"mint"} :
         \/ Goto(c, p) /\ Body(c).op # "login"
         \/ Wrote(c, p) /\ Body(c).op # "login"
         \/ Answer(c)
    /\ UNCHANGED <<cookie, received, faults>>
    /\ unrevoked' \subseteq unrevoked

\* What such a step leaves to be shown: the database, and the sessions against
\* the accounts they are of.
LEMMA MoveKeeps ==
    ASSUME IInv, NEW c \in Clients, MoveStep(c),
           Database(users', lastUser', sessions', lastToken'),
           lastToken' = lastToken, lastUser' \in Nat, lastUser <= lastUser',
           \A i \in Ids' : i <= lastUser => i \in Ids /\ users'[i].name = users[i].name,
           SessionsKeepTheirOwner', StaleAreOwed'
    PROVE  IInv'
<1>1. /\ req \in [Clients -> Request] /\ CountsOK /\ cookie \in [Clients -> 0..lastToken]
      /\ lastUser \in Nat
  BY DEF IInv, TypeOK, Database
<1>2. /\ req' \in [Clients -> Request] /\ OthersKept(c)
      /\ req'[c].pc # "mint" /\ req'[c].body.op # "login"
  <2>1. PICK p \in Steps \ {"mint"} :
          \/ Goto(c, p) /\ Body(c).op # "login"
          \/ Wrote(c, p) /\ Body(c).op # "login"
          \/ Answer(c)
    BY DEF MoveStep
  <2> QED
    BY <1>1, <2>1, GotoType, AnswerType DEF OthersKept, Body
<1>3. CountsOK'
  BY <1>1 DEF CountsOK, MoveStep
<1>4. TypeOK'
  BY <1>1, <1>2, <1>3 DEF TypeOK, MoveStep
<1>5. ASSUME NEW d \in Clients PROVE LoginOK(d)'
  <2>1. CASE d = c
    BY <1>2, <2>1 DEF LoginOK, At, Body
  <2>2. CASE d # c
    <3>1. req'[d] = req[d] /\ LoginOK(d)
      BY <1>2, <2>2 DEF OthersKept, IInv
    <3>2. At(d, "mint") =>
            /\ req[d].id \in 1..lastUser'
            /\ req[d].id \in Ids' => users'[req[d].id].name = Body(d).name
      BY <1>1, <3>1 DEF LoginOK
    <3> QED
      BY <3>1, <3>2 DEF LoginOK, At, Body, Ids
  <2> QED
    BY <2>1, <2>2
<1> QED
  BY <1>4, <1>5 DEF IInv

\* Sessions are only deleted by Prune, Logout and Revoke.
LEMMA ShrinkKeeps ==
    ASSUME IInv, NEW c \in Clients, MoveStep(c), NEW S,
           sessions' = Without(sessions, S),
           UNCHANGED <<users, lastUser, lastToken>>,
           \A i \in unrevoked \cup Owed(Clients) :
             i \in unrevoked' \cup Owed(Clients)' \/ SessionsOf(i) \subseteq S
    PROVE  IInv'
<1>1. Database(users', lastUser', sessions', lastToken')
  BY SessionsDeleted DEF IInv, TypeOK
<1>2. lastUser \in Nat
  BY DEF IInv, TypeOK, Database
<1>3. \A t \in DOMAIN sessions' :
        t \in DOMAIN sessions \ S /\ sessions'[t] = sessions[t]
  BY DEF Without
<1>4. SessionsKeepTheirOwner'
  BY <1>3 DEF IInv, SessionsKeepTheirOwner, Ids
<1>5. StaleAreOwed'
  BY <1>3 DEF IInv, StaleAreOwed, Ids, SessionsOf
<1> QED
  BY <1>1, <1>2, <1>4, <1>5, MoveKeeps DEF Ids

LEMMA PruneKeeps ==
    ASSUME IInv, NEW c \in Clients, Prune(c)
    PROVE  IInv'
<1>1. MoveStep(c)
  BY DEF MoveStep, Prune, Steps, Counts
<1>2. req[c].pc \notin Revoking
  BY DEF Prune, At, Revoking
<1>3. \A i \in Owed(Clients) : i \in Owed(Clients)'
  <2>1. OthersKept(c)
    BY AnswerType DEF Prune, OthersKept, IInv, TypeOK
  <2> QED
    BY <1>2, <2>1, OwedKept
<1> QED
  BY <1>1, <1>3, ShrinkKeeps DEF Prune, Counts

LEMMA LogoutKeeps ==
    ASSUME IInv, NEW c \in Clients, Logout(c)
    PROVE  IInv'
<1>1. MoveStep(c)
  BY DEF MoveStep, Logout, Steps, Counts
<1>2. req[c].pc \notin Revoking
  BY DEF Logout, At, Revoking
<1>3. \A i \in Owed(Clients) : i \in Owed(Clients)'
  <2>1. OthersKept(c)
    BY GotoType DEF Logout, OthersKept, IInv, TypeOK, Steps
  <2> QED
    BY <1>2, <2>1, OwedKept
<1> QED
  BY <1>1, <1>3, ShrinkKeeps DEF Logout, Counts

\* The revocation: the account owes nothing any more, its sessions are gone.
LEMMA RevokeKeeps ==
    ASSUME IInv, NEW c \in Clients, Revoke(c)
    PROVE  IInv'
<1>1. PICK p \in {"reread", "audit"} : Goto(c, p)
  BY DEF Revoke
<1>2. Body(c).op # "login"
  BY DEF Revoke, IInv, LoginOK, Revoking
<1>3. MoveStep(c)
  <2>1. p \in Steps \ {"mint"}
    BY DEF Steps
  <2> QED
    BY <1>1, <1>2, <2>1 DEF MoveStep, Revoke
<1>4. \A i \in unrevoked \cup Owed(Clients) :
        i \in unrevoked' \cup Owed(Clients)' \/ SessionsOf(i) \subseteq SessionsOf(req[c].id)
  <2>1. OthersKept(c)
    BY <1>1, GotoType DEF OthersKept, IInv, TypeOK, Steps
  <2>2. \A i \in Owed(Clients) : i \in Owed(Clients)' \/ i = req[c].id
    BY <2>1, OwedKept
  <2>3. \A i \in unrevoked : i \in unrevoked' \/ i = req[c].id
    BY DEF Revoke
  <2> QED
    BY <2>2, <2>3
<1> QED
  BY <1>3, <1>4, ShrinkKeeps DEF Revoke

\* A step of an account's own request that changes its row, but not its name,
\* and what that makes stale is owed.
LEMMA UserChangeKeeps ==
    ASSUME IInv, NEW c \in Clients, NEW i \in Ids, NEW r \in UserRow,
           NEW p \in Steps \ {"mint"},
           Wrote(c, p), Body(c).op # "login", req[c].pc \notin Revoking,
           users' = [users EXCEPT ![i] = r], r.name = users[i].name,
           r.era = users[i].era \/ (p \in Revoking /\ req[c].id = i),
           UNCHANGED <<lastUser, sessions, lastToken, cookie, Counts>>
    PROVE  IInv'
<1>1. Database(users', lastUser', sessions', lastToken')
  BY UserChanged DEF IInv, TypeOK, Ids
<1>2. lastUser \in Nat /\ req \in [Clients -> Request]
  BY DEF IInv, TypeOK, Database
<1>3. MoveStep(c)
  BY DEF MoveStep, Counts
<1>4. /\ Ids' = Ids
      /\ \A j \in Ids : users'[j].name = users[j].name
      /\ \A j \in Ids : j # i => users'[j] = users[j]
      /\ users'[i].era = r.era
  BY DEF Ids
<1>5. SessionsKeepTheirOwner'
  BY <1>4 DEF IInv, SessionsKeepTheirOwner
<1>6. OthersKept(c) /\ req'[c].pc = p /\ req'[c].id = req[c].id
  BY <1>2, GotoType DEF OthersKept
<1>7. \A j \in Owed(Clients) : j \in Owed(Clients)'
  BY <1>6, OwedKept
<1>8. StaleAreOwed'
  <2>1. unrevoked' = unrevoked /\ sessions' = sessions
    BY DEF Counts
  <2>2. CASE r.era = users[i].era
    BY <1>4, <1>7, <2>1, <2>2 DEF IInv, StaleAreOwed
  <2>3. CASE p \in Revoking /\ req[c].id = i
    <3>1. i \in Owed(Clients)'
      BY <1>6, <2>3 DEF Owed, Revoking
    <3> QED
      BY <1>4, <1>7, <2>1, <3>1 DEF IInv, StaleAreOwed
  <2> QED
    BY <2>2, <2>3
<1>9. lastUser' = lastUser /\ lastToken' = lastToken
  OBVIOUS
<1>10. \A j \in Ids' : j <= lastUser => j \in Ids /\ users'[j].name = users[j].name
  BY <1>4
<1>11. lastUser' \in Nat /\ lastUser <= lastUser'
  BY <1>2, <1>9
<1> QED
  BY <1>1, <1>3, <1>5, <1>8, <1>9, <1>10, <1>11, MoveKeeps

\* A handler that answers without having changed anything.
LEMMA RefusalKeeps ==
    ASSUME IInv, NEW c \in Clients, Answer(c), req[c].pc \notin Revoking,
           UNCHANGED <<Tables, cookie, Counts>>
    PROVE  IInv'
<1>1. "idle" \in Steps \ {"mint"}
  BY DEF Steps
<1> QED
  BY <1>1, MoveIsQuiet, QuietKeeps

LEMMA UpdateUserKeeps ==
    ASSUME IInv, NEW c \in Clients, UpdateUser(c)
    PROVE  IInv'
<1> DEFINE i == req[c].id
<1>0. PICK f : f = Body(c).form
  OBVIOUS
<1>1. req[c].pc = "handler" /\ Body(c).op = "patch" /\ req[c] \in Request
  BY DEF UpdateUser, At, IInv, TypeOK
<1>2. req[c].pc \notin Revoking
  BY <1>1 DEF Revoking
<1>3. CASE Answer(c) /\ UNCHANGED users
  BY <1>2, <1>3, RefusalKeeps DEF UpdateUser, Tables
<1>4. CASE Goto(c, "reread") /\ UNCHANGED users
  <2>1. "reread" \in Steps \ {"mint"}
    BY DEF Steps
  <2> QED
    BY <1>1, <1>2, <1>4, <2>1, MoveIsQuiet, QuietKeeps DEF UpdateUser, Tables
<1>5. CASE /\ i \in Ids
           /\ users' = [users EXCEPT
                 ![i].role     = IF f.role = "none" THEN @ ELSE f.role,
                 ![i].disabled = IF f.disabled = "none" THEN @
                                 ELSE f.disabled = "yes",
                 ![i].era      = IF f.disabled = "yes" THEN @ + 1 ELSE @]
           /\ Wrote(c, AfterUpdate(f))
  <2>1. PICK u : u = users[i]
    OBVIOUS
  <2>2. PICK r : r = [u EXCEPT
                  !.role     = IF f.role = "none" THEN @ ELSE f.role,
                  !.disabled = IF f.disabled = "none" THEN @ ELSE f.disabled = "yes",
                  !.era      = IF f.disabled = "yes" THEN @ + 1 ELSE @]
    OBVIOUS
  <2>3. u \in UserRow /\ f.role \in {"none", "admin", "viewer"}
    <3>1. users[i] \in UserRow
      BY <1>5 DEF IInv, TypeOK, Database, Ids
    <3>2. Body(c).form.role \in {"none", "admin", "viewer"}
      BY <1>1, BodyType DEF Request, Body
    <3> QED
      BY <1>0, <2>1, <3>1, <3>2
  <2>4. /\ r \in UserRow /\ r.name = u.name
        /\ r.era = IF f.disabled = "yes" THEN u.era + 1 ELSE u.era
    <3> DEFINE a == IF f.role = "none" THEN u.role ELSE f.role
    <3>0. a \in {"admin", "viewer"}
      BY <2>3 DEF UserRow
    <3>1. CASE f.disabled = "none"
      <4>1. r = [u EXCEPT !.role = a]
        BY <2>2, <2>3, <3>1 DEF UserRow
      <4> QED
        BY <2>3, <3>0, <3>1, <4>1 DEF UserRow
    <3>2. CASE f.disabled = "yes"
      <4>1. r = [u EXCEPT !.role = a, !.disabled = TRUE, !.era = @ + 1]
        BY <2>2, <2>3, <3>2 DEF UserRow
      <4>2. r.name = u.name /\ r.era = u.era + 1
        BY <2>3, <4>1 DEF UserRow
      <4>3. r = [name |-> u.name, role |-> a, disabled |-> TRUE, era |-> u.era + 1]
        BY <2>3, <4>1 DEF UserRow
      <4>4. u.name \in Names /\ u.era + 1 \in Nat /\ TRUE \in BOOLEAN
        BY <2>3 DEF UserRow
      <4> HIDE DEF a
      <4>5. r \in UserRow
        BY <3>0, <4>3, <4>4, Zenon DEF UserRow
      <4> QED
        BY <3>2, <4>2, <4>5
    <3>3. CASE f.disabled \notin {"none", "yes"}
      <4>1. r = [u EXCEPT !.role = a, !.disabled = FALSE]
        BY <2>2, <2>3, <3>3 DEF UserRow
      <4> QED
        BY <2>3, <3>0, <3>3, <4>1 DEF UserRow
    <3> QED
      BY <3>1, <3>2, <3>3
  <2>5. users' = [users EXCEPT ![i] = r]
    BY <1>5, <2>1, <2>2
  <2>6. PICK p \in Steps \ {"mint"} :
          p = AfterUpdate(f) /\ (f.disabled = "yes" => p \in Revoking)
    BY DEF AfterUpdate, Steps, Revoking
  <2>7. r.era = users[i].era \/ (p \in Revoking /\ req[c].id = i)
    BY <2>1, <2>4, <2>6
  <2>8. r \in UserRow /\ r.name = users[i].name /\ i \in Ids /\ Wrote(c, p)
    BY <1>5, <2>1, <2>4, <2>6
  <2>9. UNCHANGED <<lastUser, sessions, lastToken, cookie, Counts>>
        /\ Body(c).op # "login"
    BY <1>1 DEF UpdateUser
  <2> QED
    BY <1>2, <2>5, <2>7, <2>8, <2>9, UserChangeKeeps
<1> QED
  BY <1>0, <1>3, <1>4, <1>5 DEF UpdateUser

LEMMA ChangePasswordKeeps ==
    ASSUME IInv, NEW c \in Clients, ChangePassword(c)
    PROVE  IInv'
<1> DEFINE i == req[c].id
           r == [users[i] EXCEPT !.era = @ + 1]
<1>1. /\ req[c].pc = "password" /\ req[c].pc \notin Revoking
      /\ Body(c).op # "login"
  BY DEF ChangePassword, At, Revoking, IInv, LoginOK
<1>2. CASE Answer(c) /\ UNCHANGED users
  BY <1>1, <1>2, RefusalKeeps DEF ChangePassword, Tables
<1>3. CASE /\ i \in Ids /\ users' = [users EXCEPT ![i].era = @ + 1]
           /\ Wrote(c, "revokeAll")
  <2>1. users[i] \in UserRow
    BY <1>3 DEF IInv, TypeOK, Database, Ids
  <2>2. r \in UserRow /\ r.name = users[i].name
    BY <2>1 DEF UserRow
  <2>3. users' = [users EXCEPT ![i] = r]
    BY <1>3
  <2>4. "revokeAll" \in Steps \ {"mint"} /\ "revokeAll" \in Revoking
    BY DEF Steps, Revoking
  <2>5. UNCHANGED <<lastUser, sessions, lastToken, cookie, Counts>>
    BY DEF ChangePassword
  <2> HIDE DEF r
  <2> QED
    BY <1>1, <1>3, <2>2, <2>3, <2>4, <2>5, UserChangeKeeps
<1> QED
  BY <1>2, <1>3 DEF ChangePassword

\* The sessions of the account that goes are left behind, but match no account.
LEMMA DeleteUserKeeps ==
    ASSUME IInv, NEW c \in Clients, DeleteUser(c)
    PROVE  IInv'
<1>1. /\ req[c].pc = "handler" /\ req[c].pc \notin Revoking
      /\ Body(c).op = "delete"
  BY DEF DeleteUser, At, Revoking
<1>2. CASE Answer(c) /\ UNCHANGED users
  BY <1>1, <1>2, RefusalKeeps DEF DeleteUser, Tables
<1>3. CASE users' = Without(users, {req[c].id}) /\ Wrote(c, "audit")
  <2>1. Database(users', lastUser', sessions', lastToken')
    BY <1>3, UsersDeleted DEF DeleteUser, IInv, TypeOK
  <2>2. lastUser \in Nat /\ req \in [Clients -> Request]
    BY DEF IInv, TypeOK, Database
  <2>3. "audit" \in Steps \ {"mint"}
    BY DEF Steps
  <2>4. MoveStep(c)
    BY <1>1, <1>3, <2>3 DEF MoveStep, DeleteUser, Counts
  <2>5. \A j \in Ids' : j \in Ids /\ users'[j] = users[j]
    BY <1>3 DEF Ids, Without
  <2>6. sessions' = sessions /\ unrevoked' = unrevoked
        /\ lastUser' = lastUser /\ lastToken' = lastToken
    BY DEF DeleteUser, Counts
  <2>7. SessionsKeepTheirOwner'
    BY <2>5, <2>6 DEF IInv, SessionsKeepTheirOwner
  <2>8. \A j \in Owed(Clients) : j \in Owed(Clients)'
    <3>1. OthersKept(c)
      BY <1>3, <2>2, <2>3, GotoType DEF OthersKept
    <3> QED
      BY <1>1, <3>1, OwedKept
  <2>9. StaleAreOwed'
    BY <2>5, <2>6, <2>8 DEF IInv, StaleAreOwed
  <2>10. lastUser' \in Nat /\ lastUser <= lastUser'
    BY <2>2, <2>6
  <2> QED
    BY <2>1, <2>4, <2>5, <2>6, <2>7, <2>9, <2>10, MoveKeeps
<1> QED
  BY <1>2, <1>3 DEF DeleteUser, AfterDelete

\* A new account has an id that no session and no login under way refers to.
LEMMA NewUserKept ==
    ASSUME IInv, NEW r \in UserRow, NewUser \in 1..MaxUsers, ~Taken(r.name),
           users' = With(users, NewUser, r), lastUser' = NewUser,
           sessions' = sessions, lastToken' = lastToken,
           unrevoked \cup Owed(Clients) \subseteq unrevoked' \cup Owed(Clients)'
    PROVE  /\ Database(users', lastUser', sessions', lastToken')
           /\ lastUser' \in Nat /\ lastUser <= lastUser'
           /\ \A i \in Ids' : i <= lastUser => i \in Ids /\ users'[i].name = users[i].name
           /\ SessionsKeepTheirOwner' /\ StaleAreOwed'
<1>1. Database(users, lastUser, sessions, lastToken)
  BY DEF IInv, TypeOK
<1>2. lastUser \in Nat /\ lastUser' = lastUser + 1
  BY <1>1 DEF Database, NewUser
<1>3. \A i \in DOMAIN users : users[i].name # r.name
  BY DEF Taken, Ids
<1>4. Database(users', lastUser', sessions', lastToken')
  BY <1>1, <1>3, UserInserted DEF NewUser
<1>5. /\ Ids' = Ids \cup {lastUser + 1}
      /\ \A i \in Ids : i # lastUser + 1 => users'[i] = users[i]
  BY DEF With, Ids, NewUser
<1>6. \A t \in DOMAIN sessions : sessions[t].user # lastUser + 1
  BY <1>1, <1>2 DEF Database, SessionRow
<1>7. SessionsKeepTheirOwner'
  BY <1>5, <1>6 DEF IInv, SessionsKeepTheirOwner
<1>8. StaleAreOwed'
  BY <1>5, <1>6 DEF IInv, StaleAreOwed
<1>9. \A i \in Ids' : i <= lastUser => i \in Ids /\ users'[i].name = users[i].name
  BY <1>2, <1>5
<1> QED
  BY <1>2, <1>4, <1>7, <1>8, <1>9

LEMMA CreateUserKeeps ==
    ASSUME IInv, NEW c \in Clients, CreateUser(c)
    PROVE  IInv'
<1> DEFINE f == Body(c).form
           r == [name |-> Body(c).name, disabled |-> FALSE, era |-> 0,
                 role |-> IF f.role = "none" THEN "viewer" ELSE f.role]
<1>1. /\ req[c].pc = "handler" /\ req[c].pc \notin Revoking
      /\ Body(c).op = "create" /\ req \in [Clients -> Request]
  BY DEF CreateUser, At, Revoking, IInv, TypeOK
<1>2. CASE Answer(c) /\ UNCHANGED <<users, lastUser>>
  BY <1>1, <1>2, RefusalKeeps DEF CreateUser, Tables
<1>3. CASE /\ ~Taken(Body(c).name) /\ Wrote(c, "audit")
           /\ users' = With(users, NewUser, r)
           /\ lastUser' = IF NewUser > lastUser THEN NewUser ELSE lastUser
  <2>1. r \in UserRow
    <3>1. Body(c).name \in Names /\ f.role \in {"none", "admin", "viewer"}
      BY <1>1, BodyType DEF Request, Body
    <3> QED
      BY <3>1 DEF UserRow
  <2>2. lastUser' = NewUser /\ NewUser \in 1..MaxUsers
    BY <1>3 DEF IInv, TypeOK, Database, NewUser, CreateUser
  <2>3. "audit" \in Steps \ {"mint"} /\ OthersKept(c)
    BY <1>1, <1>3, GotoType DEF OthersKept, Steps
  <2>4. /\ unrevoked' = unrevoked
        /\ \A j \in Owed(Clients) : j \in Owed(Clients)'
    BY <1>1, <2>3, OwedKept DEF CreateUser, Counts
  <2>5. MoveStep(c)
    BY <1>1, <1>3, <2>3 DEF MoveStep, CreateUser, Counts
  <2>6. /\ users' = With(users, NewUser, r) /\ ~Taken(r.name)
        /\ sessions' = sessions /\ lastToken' = lastToken
    BY <1>3 DEF CreateUser
  <2> HIDE DEF r
  <2> QED
    BY <2>1, <2>2, <2>4, <2>5, <2>6, NewUserKept, MoveKeeps
<1> QED
  BY <1>2, <1>3 DEF CreateUser

\* The session of a login: its account had that name, or is gone for good.
LEMMA CreateSessionKeeps ==
    ASSUME IInv, NEW c \in Clients, CreateSession(c)
    PROVE  IInv'
<1> DEFINE k == lastToken + 1
           e == IF req[c].id \in Ids THEN users[req[c].id].era ELSE 0
           s == [user |-> req[c].id, name |-> Body(c).name, expired |-> FALSE, era |-> e]
           r == [req[c] EXCEPT !.pc = "audit", !.id = k]
<1>1. /\ req \in [Clients -> Request] /\ At(c, "mint") /\ req[c] \in Request
      /\ Database(users, lastUser, sessions, lastToken) /\ CountsOK
      /\ cookie \in [Clients -> 0..lastToken]
  BY DEF IInv, TypeOK, CreateSession
<1>2. /\ lastToken \in Nat /\ lastToken < MaxSessions /\ lastUser \in 0..MaxUsers
      /\ lastToken' = k
  BY <1>1 DEF CreateSession, Database
<1>3. /\ req[c].id \in 1..lastUser
      /\ req[c].id \in Ids => users[req[c].id].name = Body(c).name
  BY <1>1 DEF IInv, LoginOK
<1>4. s \in SessionRow /\ s.user <= lastUser
  <2>1. req[c].id \in 1..MaxUsers /\ req[c].id <= lastUser
    BY <1>2, <1>3
  <2>2. Body(c).name \in Names
    BY <1>1, BodyType DEF Request, Body
  <2>3. e \in Nat
    BY <1>1 DEF Database, UserRow, Ids
  <2> HIDE DEF e
  <2> QED
    BY <2>1, <2>2, <2>3 DEF SessionRow
<1>5. sessions' = With(sessions, k, s)
  BY DEF CreateSession
<1>6. r \in Request /\ r.pc = "audit" /\ r.id = k
  <2>1. "audit" \in Steps /\ k \in Nat
    BY <1>2 DEF Steps
  <2> QED
    BY <1>1, <2>1, RequestChanged DEF Request
<1>7. req' \in [Clients -> Request] /\ req'[c] = r /\ OthersKept(c)
  <2>1. req' = [req EXCEPT ![c] = r]
    BY DEF CreateSession
  <2> HIDE DEF r
  <2> QED
    BY <1>1, <1>6, <2>1, RequestReplaced DEF OthersKept
<1>8. /\ users' = users /\ lastUser' = lastUser /\ cookie' = cookie
      /\ unrevoked' = unrevoked /\ CountsOK'
  BY <1>1 DEF CreateSession, Counts, CountsOK
<1>9. Database(users', lastUser', sessions', lastToken')
  <2> HIDE DEF s
  <2> QED
    BY <1>1, <1>2, <1>4, <1>5, <1>8, SessionInserted
<1>10. TypeOK'
  <2>1. cookie' \in [Clients -> 0..lastToken']
    BY <1>1, <1>2, <1>8
  <2> QED
    BY <1>7, <1>8, <1>9, <2>1 DEF TypeOK
<1>11. ASSUME NEW d \in Clients PROVE LoginOK(d)'
  <2>1. CASE d = c
    <3>1. req'[c].pc = "audit" /\ req'[c].id = k
      BY <1>6, <1>7
    <3>2. k \in 0..lastToken'
      BY <1>2
    <3> QED
      BY <2>1, <3>1, <3>2 DEF LoginOK, At
  <2>2. CASE d # c
    <3>1. req'[d] = req[d] /\ LoginOK(d)
      BY <1>7, <2>2 DEF OthersKept, IInv
    <3>2. Body(d).op = "login" /\ At(d, "audit") => req[d].id \in 0..lastToken'
      BY <1>2, <3>1 DEF LoginOK
    <3> QED
      BY <1>8, <3>1, <3>2 DEF LoginOK, At, Body, Ids
  <2> QED
    BY <2>1, <2>2
<1>12. \A t \in DOMAIN sessions' :
         \/ sessions'[t] = s
         \/ t \in DOMAIN sessions /\ sessions'[t] = sessions[t]
  BY <1>5 DEF With
<1>13. s.user \in Ids => users[s.user].name = s.name /\ users[s.user].era = s.era
  BY <1>3
<1>14. SessionsKeepTheirOwner'
  <2> HIDE DEF s
  <2> QED
    BY <1>8, <1>12, <1>13 DEF IInv, SessionsKeepTheirOwner, Ids
<1>15. StaleAreOwed'
  <2>1. \A i \in Owed(Clients) : i \in Owed(Clients)'
    BY <1>1, <1>7, OwedKept DEF At, Revoking
  <2> HIDE DEF s
  <2> QED
    BY <1>8, <1>12, <1>13, <2>1 DEF IInv, StaleAreOwed, Ids
<1> QED
  BY <1>10, <1>11, <1>14, <1>15 DEF IInv

-----------------------------------------------------------------------------
(***************************************************************************)
(* Expiry, restarts and the theorems.                                      *)
(***************************************************************************)

LEMMA ExpireKeeps ==
    ASSUME IInv, NEW t \in DOMAIN sessions, Expire(t)
    PROVE  IInv'
<1>1. /\ Database(users, lastUser, sessions, lastToken) /\ CountsOK
      /\ sessions[t] \in SessionRow /\ sessions[t].user <= lastUser
  BY DEF IInv, TypeOK, Database
<1>2. PICK s : s = [sessions[t] EXCEPT !.expired = TRUE]
  OBVIOUS
<1>3. /\ s \in SessionRow /\ s.user = sessions[t].user
      /\ s.name = sessions[t].name /\ s.era = sessions[t].era
  BY <1>1, <1>2 DEF SessionRow
<1>4. sessions' = [sessions EXCEPT ![t] = s]
  BY <1>2 DEF Expire
<1>5. UNCHANGED <<users, lastUser, lastToken, cookie, req, unrevoked>>
  BY DEF Expire
<1>6. CountsOK'
  <2>1. received' = received /\ faults < MaxFaults /\ faults' = faults + 1
    BY DEF Expire
  <2>2. faults' \in 0..MaxFaults
    BY <1>1, <2>1 DEF CountsOK
  <2> QED
    BY <1>1, <1>5, <2>1, <2>2 DEF CountsOK
<1>7. TypeOK'
  <2>1. Database(users', lastUser', sessions', lastToken')
    BY <1>1, <1>3, <1>4, <1>5, SessionChanged
  <2> QED
    BY <1>5, <1>6, <2>1 DEF TypeOK, IInv
<1>8. \A d \in Clients : LoginOK(d)'
  BY <1>5 DEF IInv, LoginOK, At, Body, Ids
<1>9. /\ DOMAIN sessions' = DOMAIN sessions
      /\ \A k \in DOMAIN sessions :
           /\ sessions'[k].user = sessions[k].user
           /\ sessions'[k].name = sessions[k].name
           /\ sessions'[k].era = sessions[k].era
  BY <1>3, <1>4
<1>10. SessionsKeepTheirOwner'
  BY <1>5, <1>9 DEF IInv, SessionsKeepTheirOwner, Ids
<1>11. StaleAreOwed'
  BY <1>5, <1>9 DEF IInv, StaleAreOwed, Ids, Owed
<1> QED
  BY <1>7, <1>8, <1>10, <1>11 DEF IInv

\* A crash turns what is owed into what is never paid.
LEMMA RestartKeeps ==
    ASSUME IInv, Restart
    PROVE  IInv'
<1>1. /\ Database(users, lastUser, sessions, lastToken) /\ CountsOK
      /\ cookie \in [Clients -> 0..lastToken] /\ req \in [Clients -> Request]
  BY DEF IInv, TypeOK
<1>2. /\ sessions' = sessions /\ lastToken' = lastToken /\ cookie' = cookie
      /\ received' = received /\ faults < MaxFaults /\ faults' = faults + 1
      /\ unrevoked' = unrevoked \cup Owed(Clients)
      /\ req' = [c \in Clients |-> Idle]
  BY DEF Restart
<1>3. /\ req' \in [Clients -> Request]
      /\ \A c \in Clients : req'[c].pc = "idle" /\ req'[c].body.op = "none"
  BY <1>2, IdleType
<1>4. unrevoked \cup Owed(Clients) \subseteq unrevoked' \cup Owed(Clients)'
  BY <1>2
<1>5. /\ Database(users', lastUser', sessions', lastToken')
      /\ SessionsKeepTheirOwner' /\ StaleAreOwed'
  <2>1. CASE UNCHANGED <<users, lastUser>>
    BY <1>1, <1>2, <1>4, <2>1 DEF IInv, SessionsKeepTheirOwner, StaleAreOwed, Ids
  <2>2. CASE /\ Ids = {} /\ NewUser \in 1..MaxUsers
             /\ users' = With(users, NewUser, [name |-> Bootstrap, role |-> "admin",
                                               disabled |-> FALSE, era |-> 0])
             /\ lastUser' = NewUser
    <3> DEFINE r == [name |-> Bootstrap, role |-> "admin", disabled |-> FALSE, era |-> 0]
    <3>1. r \in UserRow
      BY DEF UserRow
    <3>2. ~Taken(r.name)
      BY <2>2 DEF Taken
    <3>3. users' = With(users, NewUser, r)
      BY <2>2
    <3> HIDE DEF r
    <3> QED
      BY <1>2, <1>4, <2>2, <3>1, <3>2, <3>3, NewUserKept
  <2> QED
    BY <2>1, <2>2 DEF Restart
<1>6. CountsOK'
  <2>1. Owed(Clients) \subseteq Nat
    BY <1>1 DEF Owed, Request
  <2>2. unrevoked' \subseteq Nat
    BY <1>1, <1>2, <2>1 DEF CountsOK
  <2>3. faults' \in 0..MaxFaults /\ received' \in 0..MaxRequests
    BY <1>1, <1>2 DEF CountsOK
  <2> QED
    BY <2>2, <2>3 DEF CountsOK
<1>7. TypeOK'
  BY <1>1, <1>2, <1>3, <1>5, <1>6 DEF TypeOK
<1>8. \A c \in Clients : LoginOK(c)'
  BY <1>3 DEF LoginOK, At, Body
<1> QED
  BY <1>5, <1>7, <1>8 DEF IInv

LEMMA InitHolds == Init => IInv
<1> SUFFICES ASSUME Init PROVE IInv
  OBVIOUS
<1>1. PICK s \in Starts :
        /\ users = s.users /\ lastUser = s.lastUser
        /\ sessions = s.sessions /\ lastToken = s.lastToken /\ cookie = s.cookie
  BY DEF Init
<1>2. /\ Database(users, lastUser, sessions, lastToken)
      /\ cookie \in [Clients -> 0..lastToken]
      /\ \A t \in DOMAIN sessions :
           sessions[t].user \in DOMAIN users =>
             /\ sessions[t].name = users[sessions[t].user].name
             /\ sessions[t].era = users[sessions[t].user].era
  BY <1>1, StartsAssumption
<1>3. /\ req \in [Clients -> Request]
      /\ \A c \in Clients : req[c].pc = "idle" /\ req[c].body.op = "none"
  BY IdleType DEF Init
<1>4. CountsOK
  BY DEF Init, CountsOK
<1>5. TypeOK
  BY <1>2, <1>3, <1>4 DEF TypeOK
<1>6. \A c \in Clients : LoginOK(c)
  BY <1>3 DEF LoginOK, At, Body
<1>7. SessionsKeepTheirOwner /\ StaleAreOwed
  BY <1>2 DEF SessionsKeepTheirOwner, StaleAreOwed, Ids
<1> QED
  BY <1>5, <1>6, <1>7 DEF IInv

LEMMA NextKeeps == IInv /\ [Next]_vars => IInv'
<1> SUFFICES ASSUME IInv, [Next]_vars PROVE IInv'
  OBVIOUS
<1>1. ASSUME NEW c \in Clients, Serve(c) PROVE IInv'
  <2>1. CASE Receive(c)
    BY <2>1, ReceiveQuiet, QuietKeeps
  <2>2. CASE Admit(c) \/ RequireAdmin(c) \/ Reread(c)
    BY <2>2, OtherQuiet, QuietKeeps
  <2>3. CASE FindSession(c)
    BY <2>3, FindSessionQuiet, QuietKeeps
  <2>4. CASE Prune(c)
    BY <2>4, PruneKeeps
  <2>5. CASE LoadUser(c)
    BY <2>5, LoadUserQuiet, QuietKeeps
  <2>6. CASE Login(c)
    BY <2>6, LoginQuiet, QuietKeeps
  <2>7. CASE CreateSession(c)
    BY <2>7, CreateSessionKeeps
  <2>8. CASE Logout(c)
    BY <2>8, LogoutKeeps
  <2>9. CASE CreateUser(c)
    BY <2>9, CreateUserKeeps
  <2>10. CASE UpdateUser(c)
    BY <2>10, UpdateUserKeeps
  <2>11. CASE Revoke(c)
    BY <2>11, RevokeKeeps
  <2>12. CASE VerifySelf(c)
    BY <2>12, VerifySelfQuiet, QuietKeeps
  <2>13. CASE ChangePassword(c)
    BY <2>13, ChangePasswordKeeps
  <2>14. CASE DeleteUser(c)
    BY <2>14, DeleteUserKeeps
  <2>15. CASE Audit(c)
    BY <2>15, AuditKeeps
  <2>16. CASE Fail(c)
    BY <2>16, FailKeeps
  <2> QED
    BY <1>1, <2>1, <2>2, <2>3, <2>4, <2>5, <2>6, <2>7, <2>8, <2>9, <2>10,
       <2>11, <2>12, <2>13, <2>14, <2>15, <2>16 DEF Serve
<1>2. ASSUME NEW t \in DOMAIN sessions, Expire(t) PROVE IInv'
  BY <1>2, ExpireKeeps
<1>3. CASE Restart
  BY <1>3, RestartKeeps
<1>4. CASE UNCHANGED vars
  BY <1>4 DEF vars, IInv, TypeOK, Database, CountsOK, LoginOK, At, Body, Ids,
              SessionsKeepTheirOwner, StaleAreOwed, Owed
<1> QED
  BY <1>1, <1>2, <1>3, <1>4 DEF Next

\* The tables of accounts and sessions and every request under way are
\* well typed: ids and tokens were given out and user names are unique.
THEOREM TypeCorrect == Spec => []TypeOK
<1>1. IInv => TypeOK
  BY DEF IInv
<1> QED
  BY <1>1, InitHolds, NextKeeps, PTL DEF Spec

\* No session ever becomes the session of another account, although deleting
\* an account leaves its sessions behind.
THEOREM OwnersKept == Spec => []SessionsKeepTheirOwner
<1>1. IInv => SessionsKeepTheirOwner
  BY DEF IInv
<1> QED
  BY <1>1, InitHolds, NextKeeps, PTL DEF Spec

\* A session from before a password change or a disable is not accepted any
\* more, unless its deletion is still to come or a fault cut it off.
THEOREM Revocation == Spec => []RevokedSessionsAreGone
<1>1. IInv => RevokedSessionsAreGone
  BY DEF IInv, StaleAreOwed, RevokedSessionsAreGone
<1> QED
  BY <1>1, InitHolds, NextKeeps, PTL DEF Spec

-----------------------------------------------------------------------------
(***************************************************************************)
(* Who can lock everyone out.                                              *)
(***************************************************************************)

\* An account that is added takes no administrator away.
LEMMA AddedKeepsAdmins ==
    ASSUME TypeOK, NEW r, users' = With(users, NewUser, r)
    PROVE  Admins \subseteq Admins' /\ Ids' # {}
<1>1. /\ DOMAIN users' = DOMAIN users \cup {lastUser + 1}
      /\ \A i \in DOMAIN users : i # lastUser + 1 => users'[i] = users[i]
  BY DEF With, NewUser
<1>2. lastUser + 1 \notin DOMAIN users
  BY DEF TypeOK, Database
<1> QED
  BY <1>1, <1>2 DEF Admins, Ids

\* UpdateUser: only its target can lose its role or be disabled, and the actor
\* is not its own target unless the role alone is changed.
LEMMA UpdateLocksOut ==
    ASSUME TypeOK, NEW c \in Clients, UpdateUser(c)
    PROVE  LockoutIsOwnDoing
<1> SUFFICES ASSUME LockedOut PROVE \E d \in Clients : req'[d] # req[d] /\ MayLockOut(d)
  BY DEF LockoutIsOwnDoing
<1> DEFINE i == req[c].id
           f == Body(c).form
<1>1. users' # users
  BY DEF LockedOut, Admins, Ids
<1>2. /\ req[c].pc = "handler" /\ Body(c).op = "patch"
      /\ i \in Ids /\ Wrote(c, AfterUpdate(f))
      /\ MayManage(c) /\ ~(f.disabled = "yes" /\ i = req[c].actor)
      /\ users' = [users EXCEPT
                 ![i].role     = IF f.role = "none" THEN @ ELSE f.role,
                 ![i].disabled = IF f.disabled = "none" THEN @ ELSE f.disabled = "yes",
                 ![i].era      = IF f.disabled = "yes" THEN @ + 1 ELSE @]
  BY <1>1 DEF UpdateUser, At, NotMyself
<1>3. req'[c] # req[c]
  <2>1. req \in [Clients -> Request]
    BY DEF TypeOK
  <2>2. req'[c].pc = AfterUpdate(f)
    BY <1>2, <2>1 DEF Wrote, Request
  <2> QED
    BY <1>2, <2>2 DEF AfterUpdate
<1>4. users[i] \in UserRow
  BY <1>2 DEF TypeOK, Database, Ids
<1>5. /\ Ids' = Ids /\ \A j \in Ids \ {i} : users'[j] = users[j]
      /\ users'[i].role = IF f.role = "none" THEN users[i].role ELSE f.role
      /\ users'[i].disabled = IF f.disabled = "none" THEN users[i].disabled
                              ELSE f.disabled = "yes"
  BY <1>2, <1>4 DEF Ids, UserRow
<1>6. MayLockOut(c)
  <2> SUFFICES ASSUME req[c].actor \in Admins
               PROVE  req[c].actor = i /\ f.role = "viewer"
    BY <1>2 DEF MayLockOut
  <2>1. Admins' = {}
    BY <1>5 DEF LockedOut
  <2>2. req[c].actor = i
    BY <1>5, <2>1 DEF Admins
  <2>3. f.disabled # "yes"
    BY <1>2, <2>2
  <2>4. ~users'[i].disabled
    BY <1>5, <2>2, <2>3 DEF Admins
  <2>5. users'[i].role # "admin" /\ users[i].role = "admin"
    BY <1>5, <2>1, <2>2, <2>4 DEF Admins
  <2>6. f.role # "none" /\ f.role # "admin"
    BY <1>5, <2>5
  <2>7. f.role \in {"none", "admin", "viewer"}
    <3>1. req[c].body \in Bodies \cup {NoBody}
      BY DEF TypeOK, Request
    <3> QED
      BY <3>1, BodyType DEF Body
  <2> QED
    BY <2>2, <2>6, <2>7
<1> QED
  BY <1>3, <1>6

\* DeleteUser: the actor is not its own target.
LEMMA DeleteLocksOut ==
    ASSUME TypeOK, NEW c \in Clients, DeleteUser(c)
    PROVE  LockoutIsOwnDoing
<1> SUFFICES ASSUME LockedOut PROVE \E d \in Clients : req'[d] # req[d] /\ MayLockOut(d)
  BY DEF LockoutIsOwnDoing
<1>1. users' # users
  BY DEF LockedOut, Admins, Ids
<1>2. /\ req[c].pc = "handler" /\ Wrote(c, "audit") /\ req[c].id # req[c].actor
      /\ users' = Without(users, {req[c].id})
  BY <1>1 DEF DeleteUser, At, NotMyself, AfterDelete
<1>3. req'[c] # req[c]
  <2>1. req \in [Clients -> Request]
    BY DEF TypeOK
  <2>2. req'[c].pc = "audit"
    BY <1>2, <2>1 DEF Wrote, Request
  <2> QED
    BY <1>2, <2>2
<1>4. Ids' = Ids \ {req[c].id} /\ \A j \in Ids' : users'[j] = users[j]
  BY <1>2 DEF Without, Ids
<1>5. req[c].actor \notin Admins
  BY <1>2, <1>4 DEF LockedOut, Admins
<1> QED
  BY <1>3, <1>5 DEF MayLockOut

\* CreateUser: the first account may be a viewer.
LEMMA CreateLocksOut ==
    ASSUME TypeOK, NEW c \in Clients, CreateUser(c)
    PROVE  LockoutIsOwnDoing
<1> SUFFICES ASSUME LockedOut PROVE \E d \in Clients : req'[d] # req[d] /\ MayLockOut(d)
  BY DEF LockoutIsOwnDoing
<1>1. users' # users
  BY DEF LockedOut, Admins, Ids
<1>2. req[c].pc = "handler" /\ Wrote(c, "audit") /\ Body(c).op = "create"
  BY <1>1 DEF CreateUser, At
<1>3. req'[c] # req[c]
  <2>1. req \in [Clients -> Request]
    BY DEF TypeOK
  <2>2. req'[c].pc = "audit"
    BY <1>2, <2>1 DEF Wrote, Request
  <2> QED
    BY <1>2, <2>2
<1> QED
  BY <1>2, <1>3 DEF MayLockOut

\* Nothing else locks anybody out: a new password leaves the rights alone, and
\* the bootstrap account is an administrator.
LEMMA StepLocksOut == TypeOK /\ [Next]_vars => LockoutIsOwnDoing
<1> SUFFICES ASSUME TypeOK, [Next]_vars PROVE LockoutIsOwnDoing
  OBVIOUS
<1>0. users' = users => LockoutIsOwnDoing
  BY DEF LockoutIsOwnDoing, LockedOut, Admins, Ids
<1>1. ASSUME NEW c \in Clients, Serve(c) PROVE LockoutIsOwnDoing
  <2>1. CASE UpdateUser(c)
    BY <2>1, UpdateLocksOut
  <2>2. CASE DeleteUser(c)
    BY <2>2, DeleteLocksOut
  <2>3. CASE CreateUser(c)
    BY <2>3, CreateLocksOut
  <2>4. CASE ChangePassword(c)
    <3>1. CASE users' = [users EXCEPT ![req[c].id].era = @ + 1] /\ req[c].id \in Ids
      <4>1. users[req[c].id] \in UserRow
        BY <3>1 DEF TypeOK, Database, Ids
      <4>2. /\ Ids' = Ids
            /\ \A j \in Ids : /\ users'[j].role = users[j].role
                              /\ users'[j].disabled = users[j].disabled
        BY <3>1, <4>1 DEF Ids, UserRow
      <4>3. Admins' = Admins
        BY <4>2 DEF Admins
      <4> QED
        BY <4>2, <4>3 DEF LockoutIsOwnDoing, LockedOut
    <3>2. CASE users' = users
      BY <1>0, <3>2
    <3> QED
      BY <2>4, <3>1, <3>2 DEF ChangePassword
  <2>5. CASE Receive(c) \/ Admit(c) \/ FindSession(c) \/ Prune(c) \/ LoadUser(c)
             \/ RequireAdmin(c) \/ Login(c) \/ CreateSession(c)
    BY <1>0, <2>5
    DEF Receive, Admit, FindSession, Prune, LoadUser, RequireAdmin, Login,
        CreateSession, Tables
  <2>6. CASE Logout(c) \/ Revoke(c) \/ Reread(c) \/ VerifySelf(c) \/ Audit(c) \/ Fail(c)
    BY <1>0, <2>6 DEF Logout, Revoke, Reread, VerifySelf, Audit, Fail, Tables
  <2> QED
    BY <1>1, <2>1, <2>2, <2>3, <2>4, <2>5, <2>6 DEF Serve
<1>2. ASSUME NEW t \in DOMAIN sessions, Expire(t) PROVE LockoutIsOwnDoing
  BY <1>0, <1>2 DEF Expire
<1>3. CASE Restart
  <2> DEFINE r == [name |-> Bootstrap, role |-> "admin", disabled |-> FALSE, era |-> 0]
  <2>1. CASE Ids = {} /\ users' = With(users, NewUser, r)
    <3>1. NewUser \in Ids' /\ users'[NewUser] = r
      BY <2>1 DEF With, Ids
    <3>2. r.role = "admin" /\ ~r.disabled
      OBVIOUS
    <3> HIDE DEF r
    <3>3. Admins' # {} /\ Ids' # {}
      BY <3>1, <3>2 DEF Admins
    <3> QED
      BY <2>1, <3>3 DEF LockoutIsOwnDoing, LockedOut
  <2> QED
    BY <1>0, <1>3, <2>1 DEF Restart
<1>4. CASE UNCHANGED vars
  BY <1>0, <1>4 DEF vars
<1> QED
  BY <1>1, <1>2, <1>3, <1>4 DEF Next

\* However requests interleave, the last administrator goes only by its own
\* demotion or by a request whose actor lost its rights after they were judged.
THEOREM NobodyElseLocksOut == Spec => LockedOutOnlyByItself
<1>1. TypeOK /\ [Next]_vars => [LockoutIsOwnDoing]_vars
  BY StepLocksOut
<1> QED
  BY <1>1, TypeCorrect, PTL DEF Spec, LockedOutOnlyByItself

-----------------------------------------------------------------------------
(***************************************************************************)
(* What is audited.                                                        *)
(***************************************************************************)

\* A request that changed an account is at a step behind the change, and only
\* a PATCH has more to do there than to revoke sessions.
WroteOK(r) ==
    /\ r.wrote => r.pc \in {"revoke", "reread", "password", "revokeAll", "audit"}
    /\ r.pc \in {"revoke", "reread"} => r.body.op = "patch"
    /\ r.pc = "password" => \/ r.body.op = "patch" /\ r.body.form.password # "none"
                            \/ r.body.op = "passwd" /\ ~r.wrote

AuditInv == TypeOK /\ \A c \in Clients : WroteOK(req[c])

\* A request that is not being served has changed nothing.
LEMMA IdleWrote == WroteOK(Idle) /\ ~Idle.wrote
BY DEF WroteOK, Idle, NoBody

\* What is left to check of a step of c that moves its request on.
LEMMA MoveIsAudited ==
    ASSUME AuditInv, NEW c \in Clients, NEW r, req' = [req EXCEPT ![c] = r],
           WroteOK(r), Unaudited(c) => HalfDone(c)
    PROVE  /\ \A d \in Clients : WroteOK(req'[d])
           /\ \A d \in Clients : Unaudited(d) => HalfDone(d)
<1>1. req \in [Clients -> Request]
  BY DEF AuditInv, TypeOK
<1>2. ASSUME NEW d \in Clients
      PROVE  WroteOK(req'[d]) /\ (Unaudited(d) => HalfDone(d))
  <2>1. CASE d = c
    BY <1>1, <2>1
  <2>2. CASE d # c
    <3>1. req'[d] = req[d]
      BY <1>1, <2>2
    <3> QED
      BY <3>1, IdleWrote DEF AuditInv, Unaudited
  <2> QED
    BY <2>1, <2>2
<1> QED
  BY <1>2

\* A request is answered that has changed nothing, or that is told of a fault.
LEMMA AnswerIsAudited ==
    ASSUME AuditInv, NEW c \in Clients, Answer(c), ~Unaudited(c) \/ HalfDone(c)
    PROVE  /\ \A d \in Clients : WroteOK(req'[d])
           /\ \A d \in Clients : Unaudited(d) => HalfDone(d)
BY IdleWrote, MoveIsAudited DEF Answer

\* A request goes on: it is not answered.
LEMMA GotoIsAudited ==
    ASSUME AuditInv, NEW c \in Clients, NEW p, Goto(c, p) \/ Wrote(c, p),
           p # "idle",
           Wrote(c, p) \/ req[c].wrote =>
               p \in {"revoke", "reread", "password", "revokeAll", "audit"},
           p \in {"revoke", "reread"} => Body(c).op = "patch",
           p = "password" => Body(c).op = "patch" /\ Body(c).form.password # "none"
    PROVE  /\ \A d \in Clients : WroteOK(req'[d])
           /\ \A d \in Clients : Unaudited(d) => HalfDone(d)
<1>1. req \in [Clients -> Request] /\ req[c] \in Request /\ WroteOK(req[c])
  BY DEF AuditInv, TypeOK
<1>2. ASSUME NEW r, req' = [req EXCEPT ![c] = r], r.pc = p, WroteOK(r)
      PROVE  /\ \A d \in Clients : WroteOK(req'[d])
             /\ \A d \in Clients : Unaudited(d) => HalfDone(d)
  <2>1. req'[c] # Idle
    BY <1>1, <1>2, IdleType
  <2> QED
    BY <1>2, <2>1, MoveIsAudited DEF Unaudited
<1>3. CASE Goto(c, p)
  <2> DEFINE r == [req[c] EXCEPT !.pc = p]
  <2>1. r.pc = p /\ r.wrote = req[c].wrote /\ r.body = req[c].body
    BY <1>1 DEF Request
  <2>2. req' = [req EXCEPT ![c] = r]
    BY <1>3 DEF Goto
  <2> HIDE DEF r
  <2>3. WroteOK(r)
    BY <1>1, <2>1 DEF WroteOK, Body
  <2> QED
    BY <1>2, <2>1, <2>2, <2>3
<1>4. CASE Wrote(c, p)
  <2> DEFINE r == [req[c] EXCEPT !.pc = p, !.wrote = TRUE]
  <2>1. r.pc = p /\ r.wrote /\ r.body = req[c].body
    BY <1>1 DEF Request
  <2>2. req' = [req EXCEPT ![c] = r]
    BY <1>4 DEF Wrote
  <2> HIDE DEF r
  <2> QED
    BY <1>2, <1>4, <2>1, <2>2 DEF WroteOK, Body
<1> QED
  BY <1>3, <1>4

\* Going on before any change.
LEMMA EarlyGotoIsAudited ==
    ASSUME AuditInv, NEW c \in Clients, ~req[c].wrote,
           NEW p \in {"session", "prune", "role", "handler"}, Goto(c, p)
    PROVE  /\ \A d \in Clients : WroteOK(req'[d])
           /\ \A d \in Clients : Unaudited(d) => HalfDone(d)
<1>1. req[c] \in Request
  BY DEF AuditInv, TypeOK
<1>2. p \notin {"revoke", "reread", "password"}
  OBVIOUS
<1>3. ASSUME NEW r, req' = [req EXCEPT ![c] = r], r.pc = p, ~r.wrote
      PROVE  /\ \A d \in Clients : WroteOK(req'[d])
             /\ \A d \in Clients : Unaudited(d) => HalfDone(d)
  BY <1>2, <1>3, MoveIsAudited DEF WroteOK, Unaudited
<1> DEFINE r == [req[c] EXCEPT !.pc = p]
<1>4. r.pc = p /\ ~r.wrote
  BY <1>1 DEF Request
<1>5. req' = [req EXCEPT ![c] = r]
  BY DEF Goto
<1> HIDE DEF r
<1> QED
  BY <1>3, <1>4, <1>5

\* RequireAuth and RequireAdmin come before any change.
LEMMA CheckIsAudited ==
    ASSUME AuditInv, NEW c \in Clients,
           Admit(c) \/ FindSession(c) \/ Prune(c) \/ LoadUser(c) \/ RequireAdmin(c)
    PROVE  /\ \A d \in Clients : WroteOK(req'[d])
           /\ \A d \in Clients : Unaudited(d) => HalfDone(d)
<1>1. req[c] \in Request /\ WroteOK(req[c])
  BY DEF AuditInv, TypeOK
<1>2. ~req[c].wrote /\ ~Unaudited(c)
  BY <1>1 DEF WroteOK, Unaudited, Admit, FindSession, Prune, LoadUser, RequireAdmin, At
<1>3. Checked(c) \in {"role", "handler"}
  BY CheckedStep
<1>4. CASE Answer(c)
  BY <1>2, <1>4, AnswerIsAudited
<1>5. ASSUME NEW p \in {"role", "handler", "session", "prune"}, Goto(c, p)
      PROVE  /\ \A d \in Clients : WroteOK(req'[d])
             /\ \A d \in Clients : Unaudited(d) => HalfDone(d)
  BY <1>2, <1>5, EarlyGotoIsAudited
<1>6. ASSUME NEW r, req' = [req EXCEPT ![c] = r], ~r.wrote,
             r.pc \in {"prune", "user", "role", "handler"}
      PROVE  /\ \A d \in Clients : WroteOK(req'[d])
             /\ \A d \in Clients : Unaudited(d) => HalfDone(d)
  BY <1>2, <1>6, MoveIsAudited DEF WroteOK
<1>7. CASE Admit(c) \/ RequireAdmin(c) \/ Prune(c)
  BY <1>3, <1>4, <1>5, <1>7 DEF Admit, RequireAdmin, Prune
<1>8. CASE FindSession(c)
  <2> DEFINE t == cookie[c]
             r == [req[c] EXCEPT !.actor = sessions[t].user,
                                 !.pc = IF sessions[t].expired THEN "prune" ELSE "user"]
  <2>1. ~r.wrote /\ r.pc \in {"prune", "user"}
    BY <1>1, <1>2 DEF Request
  <2>2. Answer(c) \/ req' = [req EXCEPT ![c] = r]
    BY <1>8 DEF FindSession
  <2> HIDE DEF r
  <2> QED
    BY <1>4, <1>6, <2>1, <2>2
<1>9. CASE LoadUser(c)
  <2> DEFINE i == req[c].actor
             r == [req[c] EXCEPT !.as = users[i].name, !.admin = (users[i].role = "admin"),
                                 !.pc = Checked(c)]
  <2>1. ~r.wrote /\ r.pc \in {"role", "handler"}
    BY <1>1, <1>2, <1>3 DEF Request
  <2>2. Answer(c) \/ Goto(c, "prune") \/ req' = [req EXCEPT ![c] = r]
    BY <1>9 DEF LoadUser
  <2> HIDE DEF r
  <2> QED
    BY <1>4, <1>5, <1>6, <2>1, <2>2
<1> QED
  BY <1>7, <1>8, <1>9

\* The first statement of a handler: a refusal comes before any change.
LEMMA HandlerIsAudited ==
    ASSUME AuditInv, NEW c \in Clients,
           Login(c) \/ CreateSession(c) \/ Logout(c) \/ CreateUser(c) \/ UpdateUser(c)
             \/ VerifySelf(c) \/ DeleteUser(c)
    PROVE  /\ \A d \in Clients : WroteOK(req'[d])
           /\ \A d \in Clients : Unaudited(d) => HalfDone(d)
<1>1. req[c] \in Request /\ WroteOK(req[c])
  BY DEF AuditInv, TypeOK
<1>2. ~req[c].wrote /\ ~Unaudited(c)
  BY <1>1 DEF WroteOK, Unaudited, Login, CreateSession, Logout, CreateUser, UpdateUser,
              VerifySelf, DeleteUser, At
<1>3. CASE Answer(c)
  BY <1>2, <1>3, AnswerIsAudited
<1>4. CASE Goto(c, "audit") \/ Wrote(c, "audit")
  BY <1>4, GotoIsAudited
<1>5. CASE /\ Body(c).op = "patch"
           /\ \/ Goto(c, "reread") \/ Wrote(c, "reread") \/ Wrote(c, "revoke")
  BY <1>5, GotoIsAudited
<1>6. ASSUME NEW r, req' = [req EXCEPT ![c] = r], ~r.wrote,
             \/ r.pc \in {"mint", "audit"}
             \/ r.pc = "password" /\ r.body.op = "passwd"
      PROVE  /\ \A d \in Clients : WroteOK(req'[d])
             /\ \A d \in Clients : Unaudited(d) => HalfDone(d)
  BY <1>2, <1>6, MoveIsAudited DEF WroteOK
<1>7. CASE Login(c)
  <2> SUFFICES ASSUME NEW i, req' = [req EXCEPT ![c].pc = "mint", ![c].id = i]
               PROVE  /\ \A d \in Clients : WroteOK(req'[d])
                      /\ \A d \in Clients : Unaudited(d) => HalfDone(d)
    BY <1>3, <1>7 DEF Login
  <2> DEFINE r == [req[c] EXCEPT !.pc = "mint", !.id = i]
  <2>1. ~r.wrote /\ r.pc = "mint" /\ req' = [req EXCEPT ![c] = r]
    BY <1>1, <1>2 DEF Request
  <2> HIDE DEF r
  <2> QED
    BY <1>6, <2>1
<1>8. CASE CreateSession(c)
  <2> DEFINE r == [req[c] EXCEPT !.pc = "audit", !.id = lastToken + 1]
  <2>1. ~r.wrote /\ r.pc = "audit" /\ req' = [req EXCEPT ![c] = r]
    BY <1>1, <1>2, <1>8 DEF Request, CreateSession
  <2> HIDE DEF r
  <2> QED
    BY <1>6, <2>1
<1>9. CASE VerifySelf(c)
  <2> SUFFICES ASSUME req' = [req EXCEPT ![c].pc = "password", ![c].id = req[c].actor],
                      Body(c).op = "passwd"
               PROVE  /\ \A d \in Clients : WroteOK(req'[d])
                      /\ \A d \in Clients : Unaudited(d) => HalfDone(d)
    BY <1>3, <1>9 DEF VerifySelf
  <2> DEFINE r == [req[c] EXCEPT !.pc = "password", !.id = req[c].actor]
  <2>1. ~r.wrote /\ r.pc = "password" /\ r.body.op = "passwd" /\ req' = [req EXCEPT ![c] = r]
    BY <1>1, <1>2 DEF Request, Body
  <2> HIDE DEF r
  <2> QED
    BY <1>6, <2>1
<1>10. CASE UpdateUser(c)
  <2>1. Answer(c) \/ Goto(c, "reread") \/ \E f : Wrote(c, AfterUpdate(f))
    BY <1>10 DEF UpdateUser
  <2>2. Body(c).op = "patch" /\ \A f : AfterUpdate(f) \in {"revoke", "reread"}
    BY <1>10 DEF UpdateUser, AfterUpdate
  <2> QED
    BY <1>3, <1>5, <2>1, <2>2
<1>11. CASE Logout(c) \/ CreateUser(c) \/ DeleteUser(c)
  BY <1>3, <1>4, <1>11 DEF Logout, CreateUser, DeleteUser, AfterDelete
<1> QED
  BY <1>7, <1>8, <1>9, <1>10, <1>11

\* What follows a change: only a PATCH can still be refused.
LEMMA FollowUpIsAudited ==
    ASSUME AuditInv, NEW c \in Clients,
           Revoke(c) \/ Reread(c) \/ ChangePassword(c) \/ Audit(c)
    PROVE  /\ \A d \in Clients : WroteOK(req'[d])
           /\ \A d \in Clients : Unaudited(d) => HalfDone(d)
<1>1. req[c] \in Request /\ WroteOK(req[c])
  BY DEF AuditInv, TypeOK
<1>2. CASE Revoke(c)
  <2>1. CASE At(c, "revoke")
    <3>1. Goto(c, "reread") /\ Body(c).op = "patch"
      BY <1>1, <1>2, <2>1 DEF Revoke, At, WroteOK, Body
    <3> QED
      BY <3>1, GotoIsAudited
  <2>2. CASE ~At(c, "revoke")
    <3>1. Goto(c, "audit")
      BY <1>2, <2>2 DEF Revoke
    <3> QED
      BY <3>1, GotoIsAudited
  <2> QED
    BY <2>1, <2>2
<1>3. CASE Reread(c)
  <2>1. Body(c).op = "patch"
    BY <1>1, <1>3 DEF Reread, At, WroteOK, Body
  <2>2. CASE Answer(c) /\ req[c].id \notin Ids
    BY <2>1, <2>2, AnswerIsAudited DEF HalfDone
  <2>3. CASE Goto(c, "audit")
    BY <2>3, GotoIsAudited
  <2>4. CASE Goto(c, "password") /\ Body(c).form.password # "none"
    BY <2>1, <2>4, GotoIsAudited
  <2> QED
    BY <1>3, <2>2, <2>3, <2>4 DEF Reread
<1>4. CASE ChangePassword(c)
  <2>1. CASE Wrote(c, "revokeAll")
    BY <2>1, GotoIsAudited
  <2>2. CASE Answer(c) /\ (Body(c).form.password # "strong" \/ req[c].id \notin Ids)
    <3> SUFFICES ASSUME Unaudited(c) PROVE HalfDone(c)
      BY <2>2, AnswerIsAudited
    <3>1. Body(c).op = "patch" /\ Body(c).form.password # "none"
      BY <1>1, <1>4 DEF Unaudited, WroteOK, ChangePassword, At, Body
    <3>2. Body(c).form \in Forms
      <4>1. Body(c) \in Bodies \cup {NoBody}
        BY <1>1 DEF Request, Body
      <4> QED
        BY <3>1, <4>1 DEF Bodies, NoBody
    <3>3. Body(c).form.password \in {"none", "weak", "strong"}
      BY <3>2
    <3> QED
      BY <2>2, <3>1, <3>3 DEF HalfDone
  <2> QED
    BY <1>4, <2>1, <2>2 DEF ChangePassword
<1>5. CASE Audit(c)
  BY <1>5, AnswerIsAudited DEF Audit, Unaudited
<1> QED
  BY <1>2, <1>3, <1>4, <1>5

\* A failing statement excuses what it cuts off.
LEMMA FailIsAudited ==
    ASSUME AuditInv, NEW c \in Clients, Fail(c)
    PROVE  /\ \A d \in Clients : WroteOK(req'[d])
           /\ \A d \in Clients : Unaudited(d) => HalfDone(d)
<1>1. req[c] \in Request /\ WroteOK(req[c]) /\ faults \in Nat
  BY DEF AuditInv, TypeOK, CountsOK
<1>2. ~Unaudited(c)
  <2>1. faults' = faults + 1
    BY DEF Fail
  <2>2. faults' # faults
    BY <1>1, <2>1
  <2> QED
    BY <2>2 DEF Unaudited
<1>3. CASE Answer(c)
  BY <1>2, <1>3, AnswerIsAudited
<1>4. CASE Goto(c, "audit")
  BY <1>4, GotoIsAudited
<1>5. CASE /\ req[c].pc \in {"auth", "role"}
           /\ Goto(c, "session") \/ Goto(c, "handler")
  <2>1. ~req[c].wrote
    BY <1>1, <1>5 DEF WroteOK
  <2> QED
    BY <1>5, <2>1, EarlyGotoIsAudited
<1> QED
  BY <1>3, <1>4, <1>5 DEF Fail, At

\* A request arrives: nothing was done for it.
LEMMA ReceiveIsAudited ==
    ASSUME AuditInv, NEW c \in Clients, Receive(c)
    PROVE  /\ \A d \in Clients : WroteOK(req'[d])
           /\ \A d \in Clients : Unaudited(d) => HalfDone(d)
<1>1. req[c] \in Request /\ WroteOK(req[c])
  BY DEF AuditInv, TypeOK
<1>2. ~req[c].wrote /\ ~Unaudited(c)
  BY <1>1 DEF WroteOK, Unaudited, Receive, At
<1>3. PICK b \in Bodies :
        req' = [req EXCEPT ![c] = [Idle EXCEPT
                    !.body = b, !.id = b.target,
                    !.pc = IF b.op = "login" THEN "handler" ELSE "auth"]]
  BY DEF Receive
<1> DEFINE r == [Idle EXCEPT !.body = b, !.id = b.target,
                             !.pc = IF b.op = "login" THEN "handler" ELSE "auth"]
<1>4. ~r.wrote /\ r.pc \in {"handler", "auth"}
  BY DEF Idle
<1>5. req' = [req EXCEPT ![c] = r]
  BY <1>3
<1> HIDE DEF r
<1> QED
  BY <1>2, <1>4, <1>5, MoveIsAudited DEF WroteOK

\* Every step keeps the invariant, and answers no change without an audit row
\* but a half-done PATCH.
LEMMA StepIsAudited ==
    AuditInv /\ [Next]_vars /\ TypeOK' =>
        AuditInv' /\ [\A c \in Clients : Unaudited(c) => HalfDone(c)]_vars
<1> SUFFICES ASSUME AuditInv, [Next]_vars, TypeOK'
             PROVE  AuditInv' /\ [\A c \in Clients : Unaudited(c) => HalfDone(c)]_vars
  OBVIOUS
<1>1. ASSUME NEW c \in Clients, Serve(c)
      PROVE  /\ \A d \in Clients : WroteOK(req'[d])
             /\ \A d \in Clients : Unaudited(d) => HalfDone(d)
  BY <1>1, ReceiveIsAudited, CheckIsAudited, HandlerIsAudited, FollowUpIsAudited, FailIsAudited
  DEF Serve
<1>2. ASSUME req' = req
      PROVE  /\ \A d \in Clients : WroteOK(req'[d])
             /\ \A d \in Clients : Unaudited(d) => HalfDone(d)
  BY <1>2, IdleWrote DEF AuditInv, Unaudited
<1>3. ASSUME NEW t \in DOMAIN sessions, Expire(t) PROVE req' = req
  BY <1>3 DEF Expire
<1>4. CASE Restart
  <2>1. \A d \in Clients : req'[d] = Idle
    BY <1>4 DEF Restart
  <2>2. faults' = faults + 1 /\ faults \in Nat
    BY <1>4 DEF Restart, AuditInv, TypeOK, CountsOK
  <2>3. faults' # faults
    BY <2>2
  <2> QED
    BY <2>1, <2>3, IdleWrote DEF AuditInv, Unaudited
<1>5. CASE UNCHANGED vars
  BY <1>2, <1>5 DEF vars, AuditInv
<1> QED
  BY <1>1, <1>2, <1>3, <1>4, <1>5 DEF Next, AuditInv

\* A change of an account is audited, whatever other requests do meanwhile,
\* unless a fault cut the request off or the second half of a PATCH was refused.
THEOREM ChangesLeaveARow == Spec => ChangesAreAudited
<1>1. Init => \A c \in Clients : WroteOK(req[c])
  BY IdleWrote DEF Init
<1>2. AuditInv /\ [Next]_vars /\ TypeOK' =>
        AuditInv' /\ [\A c \in Clients : Unaudited(c) => HalfDone(c)]_vars
  BY StepIsAudited
<1>3. Init /\ TypeOK => AuditInv
  BY <1>1 DEF AuditInv
<1> QED
  BY <1>2, <1>3, TypeCorrect, PTL DEF Spec, ChangesAreAudited

=============================================================================
