------------------------------ MODULE Accounts ------------------------------
(***************************************************************************)
(* Signing up, logging in, refreshing tokens and upgrading to recruiter:   *)
(* services/auth.go behind handlers/auth.go, with the cookies a browser    *)
(* keeps of it.                                                            *)
(*                                                                         *)
(* An action is one SQL statement, or the answer that sets the cookies,    *)
(* together with the code up to the next one.  The writes of a transaction *)
(* become visible when it commits; until then it holds a pool connection   *)
(* and the locks of the rows it wrote.  A statement outside a transaction  *)
(* needs a free connection for itself only.                                *)
(***************************************************************************)
EXTENDS FiniteSets, Naturals

CONSTANTS
    Users,      \* ids the database can generate for users
    Emails,     \* email addresses people sign up with
    Browsers,   \* cookie jars; a browser may have many requests in progress
    Handlers,   \* requests that can be in progress at once
    MaxConns    \* size of the connection pool (pgxpool's MaxConns)

ASSUME AccountsAssumption == MaxConns \in Nat

VARIABLES
    users, profiles,   \* the committed rows, see Directory
    jar,               \* jar[b]: the claims in the two cookies of browser b
    req                \* req[h]: the request of handler h and its next statement

vars == <<users, profiles, jar, req>>

\* The mapping: the committed rows are the directory; transactions, requests
\* and cookies are hidden.
Dir == INSTANCE Directory WITH users <- users, profiles <- profiles

Roles == Dir!Roles
Exists(u) == Dir!Exists(u)

None == "none"
Claims == [user : Users, roles : SUBSET Roles]
NoClaims == [user |-> None]
NoCookies == [access |-> NoClaims, refresh |-> NoClaims]

NoRequest == [pc |-> "none"]
Ops == {"signup", "login", "refresh", "upgrade"}
Steps == {"checkEmail", "findUser", "readUser", "begin", "writeUser",
          "writeProfile", "commit", "answer"}
Requests ==
    [op : Ops, pc : Steps, browser : Browsers,
     email : Emails \cup {None},   \* what a signup or a login is about
     role : Roles,                 \* what a signup or an upgrade gives
     user : Users \cup {None},     \* the user, once known
     roles : SUBSET Roles]         \* the roles to write, then those of the tokens

\* A request of browser b that starts at pc.
NewRequest(op, pc, b) ==
    [op |-> op, pc |-> pc, browser |-> b, email |-> None, role |-> "RECRUITER",
     user |-> None, roles |-> {}]

\* The statements each operation goes through.
Flow ==
    [signup  |-> {"checkEmail", "begin", "writeUser", "writeProfile", "commit", "answer"},
     login   |-> {"findUser", "answer"},
     refresh |-> {"readUser", "answer"},
     upgrade |-> {"readUser", "begin", "writeUser", "writeProfile", "commit", "answer"}]

\* The user of r is known: from a token, a look-up or RETURNING id.
Known(r) ==
    \/ r.op \in {"refresh", "upgrade"}
    \/ r.pc \in {"writeProfile", "commit", "answer"}

RequestOK(r) ==
    /\ r \in Requests
    /\ r.pc \in Flow[r.op]
    /\ Known(r) => r.user \in Users
    /\ r.op \in {"signup", "login"} => r.email \in Emails

TypeOK ==
    /\ users \in [Users -> Dir!UserRow \cup {Dir!NoUser}]
    /\ profiles \in [Users -> [Roles -> Nat]]
    /\ jar \in [Browsers -> [access : Claims \cup {NoClaims},
                             refresh : Claims \cup {NoClaims}]]
    /\ req \in [Handlers -> Requests \cup {NoRequest}]
    /\ \A h \in Handlers : req[h] = NoRequest \/ RequestOK(req[h])

Init ==
    /\ Dir!DirectoryInit
    /\ jar = [b \in Browsers |-> NoCookies]
    /\ req = [h \in Handlers |-> NoRequest]

-----------------------------------------------------------------------------
(* A request arrives.                                                      *)

Arrive(h, r) ==
    /\ req[h] = NoRequest
    /\ req' = [req EXCEPT ![h] = r]
    /\ UNCHANGED <<users, profiles, jar>>

\* POST /api/auth/signup/jobseeker and /signup/recruiter.
SignupRequest(h, b, e, r) ==
    Arrive(h, [NewRequest("signup", "checkEmail", b) EXCEPT !.email = e, !.role = r])

\* POST /api/auth/login, with the right password.
LoginRequest(h, b, e) ==
    Arrive(h, [NewRequest("login", "findUser", b) EXCEPT !.email = e])

\* POST /api/auth/refresh: the token in the cookie verifies.
RefreshRequest(h, b) ==
    /\ jar[b].refresh # NoClaims
    /\ Arrive(h, [NewRequest("refresh", "readUser", b) EXCEPT !.user = jar[b].refresh.user])

\* POST /api/auth/upgrade/recruiter, behind RequireAuth and
\* AuthorizeRoles("JOB_SEEKER"): the roles are those of the token.
UpgradeRequest(h, b) ==
    /\ jar[b].access # NoClaims
    /\ "JOB_SEEKER" \in jar[b].access.roles
    /\ Arrive(h, [NewRequest("upgrade", "readUser", b) EXCEPT !.user = jar[b].access.user])

-----------------------------------------------------------------------------
(* Its statements.                                                         *)

InTx(h) == req[h].pc \in {"writeUser", "writeProfile", "commit"}

\* The transaction of h has written the row of its user.
HoldsRow(h) == req[h].pc \in {"writeProfile", "commit"}

FreeConn == Cardinality({h \in Handlers : InTx(h)}) < MaxConns

Continue(h, r) ==
    /\ req' = [req EXCEPT ![h] = r]
    /\ UNCHANGED <<users, profiles, jar>>

\* The handler answers with an error; the deferred Rollback undoes the
\* transaction, if there is one.
GiveUp(h) == Continue(h, NoRequest)

At(h, op, pc) == req[h].pc = pc /\ req[h].op = op

\* checkEmailFree: an error of the query is dropped and the email taken for
\* free.
CheckEmail(h) ==
    /\ req[h].pc = "checkEmail"
    /\ FreeConn
    /\ \/ Dir!EmailTaken(req[h].email) /\ GiveUp(h)
       \/ Continue(h, [req[h] EXCEPT !.pc = "begin"])

\* Login: getUserByEmail; unknown and deactivated users are turned away.
FindUser(h) ==
    /\ req[h].pc = "findUser"
    /\ FreeConn
    /\ \/ \E u \in Users :
             /\ Exists(u)
             /\ users[u].email = req[h].email
             /\ users[u].active
             /\ Continue(h, [req[h] EXCEPT !.pc = "answer", !.user = u,
                                           !.roles = users[u].roles])
       \/ /\ \A u \in Users :
                Exists(u) /\ users[u].email = req[h].email => ~users[u].active
          /\ GiveUp(h)

\* Mutant: a deactivated user is given new tokens too.
RefreshAnyTokens(h) ==
    /\ At(h, "refresh", "readUser")
    /\ FreeConn
    /\ LET u == req[h].user IN
       IF Exists(u)
       THEN Continue(h, [req[h] EXCEPT !.pc = "answer", !.roles = users[u].roles])
       ELSE GiveUp(h)

\* RefreshTokens: getUserByID; the new tokens get the roles of the row.
RefreshTokens(h) ==
    /\ At(h, "refresh", "readUser")
    /\ FreeConn
    /\ LET u == req[h].user IN
       IF Exists(u) /\ users[u].active
       THEN Continue(h, [req[h] EXCEPT !.pc = "answer", !.roles = users[u].roles])
       ELSE GiveUp(h)

\* UpgradeToRecruiter: getUserByID, before the transaction.  The roles that
\* will be written are the ones read here, and RECRUITER.
ReadRoles(h) ==
    /\ At(h, "upgrade", "readUser")
    /\ FreeConn
    /\ LET u == req[h].user IN
       IF Exists(u) /\ "JOB_SEEKER" \in users[u].roles /\ "RECRUITER" \notin users[u].roles
       THEN Continue(h, [req[h] EXCEPT !.pc = "begin",
                                       !.roles = users[u].roles \cup {"RECRUITER"}])
       ELSE GiveUp(h)

Begin(h) ==
    /\ req[h].pc = "begin"
    /\ FreeConn
    /\ Continue(h, [req[h] EXCEPT !.pc = "writeUser"])

\* An INSERT of an email waits for a transaction that has inserted it too.
EmailLocked(e) ==
    \E g \in Handlers : HoldsRow(g) /\ req[g].op = "signup" /\ req[g].email = e

\* An id that gen_random_uuid() can return: one that nobody has.
FreshId(u) ==
    /\ ~Exists(u)
    /\ \A g \in Handlers : req[g].pc # "none" => req[g].user # u

\* Mutant: users.email is not UNIQUE.
InsertAnyUser(h) ==
    /\ At(h, "signup", "writeUser")
    /\ \E u \in Users :
          /\ FreshId(u)
          /\ Continue(h, [req[h] EXCEPT !.pc = "writeProfile", !.user = u,
                                        !.roles = {req[h].role}])

\* INSERT INTO users; email is UNIQUE.
InsertUser(h) ==
    /\ At(h, "signup", "writeUser")
    /\ ~EmailLocked(req[h].email)
    /\ IF Dir!EmailTaken(req[h].email)
       THEN GiveUp(h)
       ELSE \E u \in Users :
               /\ FreshId(u)
               /\ Continue(h, [req[h] EXCEPT !.pc = "writeProfile", !.user = u,
                                             !.roles = {req[h].role}])

\* A user's row is locked by a transaction that has written it.
RowLocked(u) == \E g \in Handlers : HoldsRow(g) /\ req[g].user = u

\* Mutant: the UPDATE runs on the pool, outside the transaction.
UpdateRolesAtOnce(h) ==
    /\ At(h, "upgrade", "writeUser")
    /\ FreeConn
    /\ users' = [users EXCEPT ![req[h].user].roles = req[h].roles]
    /\ req' = [req EXCEPT ![h].pc = "writeProfile"]
    /\ UNCHANGED <<profiles, jar>>

\* UPDATE users SET roles: it writes what ReadRoles has read.
UpdateRoles(h) ==
    /\ At(h, "upgrade", "writeUser")
    /\ ~RowLocked(req[h].user)
    /\ Continue(h, [req[h] EXCEPT !.pc = "writeProfile"])

\* Mutant: user_id is not UNIQUE in the profile tables.
InsertAnyProfile(h) ==
    /\ req[h].pc = "writeProfile"
    /\ Continue(h, [req[h] EXCEPT !.pc = "commit"])

\* INSERT INTO job_seeker_profiles or recruiter_profiles; user_id is UNIQUE.
InsertProfile(h) ==
    /\ req[h].pc = "writeProfile"
    /\ IF profiles[req[h].user][req[h].role] > 0
       THEN GiveUp(h)
       ELSE Continue(h, [req[h] EXCEPT !.pc = "commit"])

\* Mutant: an error of Commit is dropped.
CommitUnchecked(h) ==
    /\ req[h].pc = "commit"
    /\ LET r == req[h] IN
       \/ /\ users' = [users EXCEPT ![r.user] =
                           [email  |-> IF r.op = "signup" THEN r.email ELSE users[r.user].email,
                            roles  |-> r.roles,
                            active |-> r.op = "signup" \/ users[r.user].active]]
          /\ Dir!WithProfile(r.user, r.role)
       \/ UNCHANGED <<users, profiles>>
    /\ req' = [req EXCEPT ![h].pc = "answer"]
    /\ UNCHANGED jar

\* Mutant: the user is read again, on the pool, before the transaction ends.
CommitAfterLookup(h) ==
    /\ req[h].pc = "commit"
    /\ FreeConn
    /\ LET r == req[h] IN
       /\ users' = [users EXCEPT ![r.user] =
                        [email  |-> IF r.op = "signup" THEN r.email ELSE users[r.user].email,
                         roles  |-> r.roles,
                         active |-> r.op = "signup" \/ users[r.user].active]]
       /\ Dir!WithProfile(r.user, r.role)
    /\ req' = [req EXCEPT ![h].pc = "answer"]
    /\ UNCHANGED jar

\* The transaction's writes take effect: a new row, or an updated one.
Commit(h) ==
    /\ req[h].pc = "commit"
    /\ LET r == req[h] IN
       /\ users' = [users EXCEPT ![r.user] =
                        [email  |-> IF r.op = "signup" THEN r.email ELSE users[r.user].email,
                         roles  |-> r.roles,
                         active |-> r.op = "signup" \/ users[r.user].active]]
       /\ Dir!WithProfile(r.user, r.role)
    /\ req' = [req EXCEPT ![h].pc = "answer"]
    /\ UNCHANGED jar

\* generateTokens and both cookies, in the browser that asked.
Answer(h) ==
    /\ req[h].pc = "answer"
    /\ LET token == [user |-> req[h].user, roles |-> req[h].roles] IN
       jar' = [jar EXCEPT ![req[h].browser] = [access |-> token, refresh |-> token]]
    /\ req' = [req EXCEPT ![h] = NoRequest]
    /\ UNCHANGED <<users, profiles>>

\* A statement fails, the client hangs up, the answer is lost or the process
\* dies, which ends every request at once.  The database rolls back what was
\* not committed; what was committed stays.
Cut(h) ==
    /\ req[h] # NoRequest
    /\ GiveUp(h)

-----------------------------------------------------------------------------
(* Beside the requests.                                                    *)

\* POST /api/auth/logout: ClearAuthCookies.
Logout(b) ==
    /\ jar' = [jar EXCEPT ![b] = NoCookies]
    /\ UNCHANGED <<users, profiles, req>>

\* The MaxAge of a cookie, and the ExpiresAt of the token in it, are over.
CookieExpires(b) ==
    /\ \E c \in {"access", "refresh"} :
          /\ jar[b][c] # NoClaims
          /\ jar' = [jar EXCEPT ![b] = [jar[b] EXCEPT ![c] = NoClaims]]
    /\ UNCHANGED <<users, profiles, req>>

\* No endpoint writes users.is_active; an operator does, in the database.
Deactivate(u) ==
    /\ users[u] # Dir!NoUser
    /\ users[u].active
    /\ ~RowLocked(u)
    /\ Dir!Deactivate(u)
    /\ UNCHANGED <<jar, req>>

-----------------------------------------------------------------------------
Statement(h) ==
    \/ CheckEmail(h)
    \/ FindUser(h)
    \/ RefreshTokens(h)
    \/ ReadRoles(h)
    \/ Begin(h)
    \/ InsertUser(h)
    \/ UpdateRoles(h)
    \/ InsertProfile(h)
    \/ Commit(h)
    \/ Answer(h)

Request(h) ==
    \E b \in Browsers :
        \/ \E e \in Emails : LoginRequest(h, b, e) \/ \E r \in Roles : SignupRequest(h, b, e, r)
        \/ RefreshRequest(h, b)
        \/ UpgradeRequest(h, b)

Next ==
    \/ \E h \in Handlers : Request(h) \/ Statement(h) \/ Cut(h)
    \/ \E b \in Browsers : Logout(b) \/ CookieExpires(b)
    \/ \E u \in Users : Deactivate(u)

Spec == Init /\ [][Next]_vars

\* The pool and the lock queues of the database are first come, first
\* served: a request whose next statement is possible again and again gets
\* its turn, however many others ask for the same connection or row.
FairSpec == Spec /\ \A h \in Handlers : SF_vars(Statement(h))

-----------------------------------------------------------------------------
(* Properties.                                                             *)

\* Two signups with one email end in one account, although checkEmailFree
\* runs before the transaction and forgets its errors.
EmailsUnique == Dir!EmailsUnique

\* Whenever requests are cut off, a user has exactly one profile for each
\* role: the two INSERTs of a signup, and the UPDATE and INSERT of an
\* upgrade, are seen together or not at all, and two concurrent upgrades
\* that both read "no recruiter yet" make one profile.
ProfilesMatchRoles == Dir!ProfilesMatchRoles

\* Tokens never promise more than the database holds: the user exists and
\* has the roles, and the profiles, that RequireAuth and AuthorizeRoles will
\* take from the token for days, whatever was committed or rolled back after
\* or while they were issued.
Honest(c) ==
    c # NoClaims =>
        /\ Exists(c.user)
        /\ c.roles \subseteq users[c.user].roles
        /\ \A r \in c.roles : profiles[c.user][r] = 1
TokensHonest == \A b \in Browsers : Honest(jar[b].access) /\ Honest(jar[b].refresh)

\* The tables change only as the directory allows: accounts appear whole,
\* roles are added to what is there and never lost to a stale read, and
\* nobody's email or profile moves.
ImplementsDirectory == Dir!DirectorySpec

\* UpgradeToRecruiter does not look at is_active, so that a deactivated job
\* seeker whose access token still lives can get new tokens by an upgrade, and
\* an answer may be on its way.  That is all there is: a deactivated user who
\* is a recruiter already, or whom no cookie still calls a job seeker, gets no
\* new token, by whichever requests he tries next or has in progress.
LockedOut(u) ==
    /\ Exists(u) /\ ~users[u].active
    /\ \A h \in Handlers : req[h].pc = "answer" => req[h].user # u
    /\ \/ "RECRUITER" \in users[u].roles
       \/ /\ \A h \in Handlers : req[h].pc # "none" /\ req[h].op = "upgrade" => req[h].user # u
          /\ \A b \in Browsers :
                jar[b].access # NoClaims /\ "JOB_SEEKER" \in jar[b].access.roles
                    => jar[b].access.user # u
NoNewToken(u) ==
    \A b \in Browsers, c \in {"access", "refresh"} :
        jar'[b][c] \in {jar[b][c], NoClaims} \/ jar'[b][c].user # u
LockedOutForGood == [][\A u \in Users : LockedOut(u) => LockedOut(u)' /\ NoNewToken(u)]_vars

\* "Re-issue cookies so the RECRUITER role is active immediately (no
\* re-login required)" (handlers/auth.go): once a browser holds a token with
\* a role of its user, no later answer to it takes the role away.
RoleStaysActive ==
    [][\A b \in Browsers :
          /\ jar[b].access # NoClaims /\ jar'[b].access # NoClaims
          /\ jar'[b].access.user = jar[b].access.user
          => jar[b].access.roles \subseteq jar'[b].access.roles]_vars

\* Every request is answered or cut off: requests that wait for a pool
\* connection or for another transaction's row or email never wait for each
\* other in a circle, because nothing that holds a connection asks for one.
EveryRequestAnswered ==
    \A h \in Handlers : req[h] # NoRequest ~> req[h] = NoRequest
=============================================================================
