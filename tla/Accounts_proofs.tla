--------------------------- MODULE Accounts_proofs ---------------------------
(***************************************************************************)
(* Theorems about Accounts, for every number of users, addresses,          *)
(* browsers, requests and pool connections.                                *)
(***************************************************************************)
EXTENDS Accounts, TLAPS

-----------------------------------------------------------------------------
(* The inductive invariant.                                                *)

\* A request whose transaction has written a user's row.
Holds(r) == r.pc \in {"writeProfile", "commit"}

\* The row of a signup: nobody sees it yet, and nobody has its address.
NewRow(r) ==
    /\ ~Exists(r.user)
    /\ ~Dir!EmailTaken(r.email)
    /\ r.roles = {r.role}

\* An upgrade still writes what the row had when it was read, and more.
StillSeeker(r) ==
    /\ users[r.user].roles \subseteq r.roles
    /\ r.roles \subseteq users[r.user].roles \cup {"RECRUITER"}
    /\ "RECRUITER" \in r.roles
    /\ r.pc = "commit" => "RECRUITER" \notin users[r.user].roles

\* What the database says of the user of a request.
Backed(r) ==
    /\ r.op = "signup" /\ Holds(r) => NewRow(r)
    /\ Known(r) /\ ~(r.op = "signup" /\ Holds(r)) => Exists(r.user)
    /\ r.op = "upgrade" => r.role = "RECRUITER"
    /\ r.op = "upgrade" /\ r.pc \in {"begin", "writeUser", "writeProfile", "commit"}
          => StillSeeker(r)
    /\ r.pc = "answer" => Honest([user |-> r.user, roles |-> r.roles])

\* Two transactions never hold the same row, or rows with the same email.
Apart(r, q) ==
    Holds(r) /\ Holds(q) =>
        /\ r.user # q.user
        /\ r.op = "signup" /\ q.op = "signup" => r.email # q.email

AllBacked == \A h \in Handlers : req[h] # NoRequest => Backed(req[h])

AllApart ==
    \A g, h \in Handlers :
        g # h /\ req[g] # NoRequest /\ req[h] # NoRequest => Apart(req[g], req[h])

Consistent ==
    /\ TypeOK
    /\ EmailsUnique
    /\ ProfilesMatchRoles
    /\ TokensHonest
    /\ AllBacked
    /\ AllApart

LEMMA InitConsistent == Init => Consistent
  <1> SUFFICES ASSUME Init PROVE Consistent
    OBVIOUS
  <1>1. TypeOK
    BY DEF Init, TypeOK, Dir!DirectoryInit, Roles, Dir!Roles, NoCookies
  <1>2. EmailsUnique /\ ProfilesMatchRoles
    BY DEF Init, EmailsUnique, Dir!EmailsUnique, ProfilesMatchRoles, Dir!ProfilesMatchRoles,
           Dir!DirectoryInit, Dir!Exists, Dir!NoUser
  <1>3. TokensHonest
    BY DEF Init, TokensHonest, Honest, NoCookies
  <1>4. AllBacked /\ AllApart
    BY DEF Init, AllBacked, AllApart
  <1> QED
    BY <1>1, <1>2, <1>3, <1>4 DEF Consistent

\* NoRequest has no step to take.
LEMMA RealRequest ==
    ASSUME TypeOK, NEW h \in Handlers, req[h].pc # "none"
    PROVE  req[h] # NoRequest /\ RequestOK(req[h]) /\ req[h] \in Requests
  BY DEF TypeOK, NoRequest, RequestOK

-----------------------------------------------------------------------------
(* Steps that only change one request.                                     *)

LEMMA ContinueStep ==
    ASSUME Consistent, NEW h \in Handlers, NEW r,
           req' = [req EXCEPT ![h] = r], UNCHANGED <<users, profiles, jar>>,
           r # NoRequest => /\ RequestOK(r)
                            /\ Backed(r)
                            /\ \A g \in Handlers \ {h} :
                                  req[g] # NoRequest => Apart(r, req[g])
    PROVE  Consistent'
  <1> USE DEF Consistent
  <1>1. /\ req'[h] = r
        /\ \A g \in Handlers \ {h} : req'[g] = req[g]
    BY DEF TypeOK
  <1>2. TypeOK'
    BY <1>1 DEF TypeOK, RequestOK
  <1>3. EmailsUnique' /\ ProfilesMatchRoles' /\ TokensHonest'
    BY DEF EmailsUnique, Dir!EmailsUnique, ProfilesMatchRoles, Dir!ProfilesMatchRoles,
           TokensHonest, Honest, Exists, Dir!Exists
  <1>4. \A q : Backed(q)' <=> Backed(q)
    BY DEF Backed, NewRow, StillSeeker, Honest, Exists, Dir!Exists, Dir!EmailTaken, Known, Holds
  <1>5. AllBacked'
    BY <1>1, <1>4 DEF AllBacked
  <1>6. AllApart'
    BY <1>1 DEF AllApart, Apart, Holds
  <1> QED
    BY <1>2, <1>3, <1>5, <1>6
LEMMA GiveUpStep ==
    ASSUME Consistent, NEW h \in Handlers, GiveUp(h)
    PROVE  Consistent'
  BY ContinueStep DEF GiveUp, Continue

\* A new request holds nothing and knows its user from a token at most.
LEMMA RequestStep ==
    ASSUME Consistent, NEW h \in Handlers, Request(h)
    PROVE  Consistent'
  <1> USE DEF Roles, Dir!Roles
  <1>1. ASSUME NEW b \in Browsers, NEW e \in Emails, LoginRequest(h, b, e)
        PROVE  Consistent'
    <2> DEFINE r == [NewRequest("login", "findUser", b) EXCEPT !.email = e]
    <2>1. /\ r \in Requests /\ r.op = "login" /\ r.pc = "findUser" /\ r.email = e
      BY DEF NewRequest, Requests, Ops, Steps
    <2>2. RequestOK(r) /\ Backed(r) /\ ~Holds(r)
      BY <2>1 DEF RequestOK, Backed, Known, Flow, Holds
    <2> HIDE DEF r
    <2>3. \A q : Apart(r, q)
      BY <2>2 DEF Apart
    <2>4. req' = [req EXCEPT ![h] = r] /\ UNCHANGED <<users, profiles, jar>>
      BY <1>1 DEF LoginRequest, Arrive, r
    <2> QED
      BY <2>2, <2>3, <2>4, ContinueStep
  <1>2. ASSUME NEW b \in Browsers, NEW e \in Emails, NEW x \in Roles, SignupRequest(h, b, e, x)
        PROVE  Consistent'
    <2> DEFINE r == [NewRequest("signup", "checkEmail", b) EXCEPT !.email = e, !.role = x]
    <2>1. /\ r \in Requests /\ r.op = "signup" /\ r.pc = "checkEmail" /\ r.email = e
      BY DEF NewRequest, Requests, Ops, Steps
    <2>2. RequestOK(r) /\ Backed(r) /\ ~Holds(r)
      BY <2>1 DEF RequestOK, Backed, Known, Flow, Holds
    <2> HIDE DEF r
    <2>3. \A q : Apart(r, q)
      BY <2>2 DEF Apart
    <2>4. req' = [req EXCEPT ![h] = r] /\ UNCHANGED <<users, profiles, jar>>
      BY <1>2 DEF SignupRequest, Arrive, r
    <2> QED
      BY <2>2, <2>3, <2>4, ContinueStep
  <1>3. ASSUME NEW b \in Browsers, NEW op \in {"refresh", "upgrade"}, NEW c,
               c \in {jar[b].access, jar[b].refresh}, c # NoClaims,
               Arrive(h, [NewRequest(op, "readUser", b) EXCEPT !.user = c.user])
        PROVE  Consistent'
    <2> DEFINE r == [NewRequest(op, "readUser", b) EXCEPT !.user = c.user]
    <2>1. c \in Claims /\ Honest(c)
      BY <1>3 DEF Consistent, TypeOK, TokensHonest
    <2>2. c.user \in Users /\ Exists(c.user)
      BY <1>3, <2>1 DEF Claims, Honest
    <2>3. /\ r \in Requests /\ r.op = op /\ r.pc = "readUser" /\ r.user = c.user
          /\ r.role = "RECRUITER"
      BY <2>2 DEF NewRequest, Requests, Ops, Steps
    <2>4. RequestOK(r) /\ Backed(r) /\ ~Holds(r)
      BY <2>2, <2>3 DEF RequestOK, Backed, Known, Flow, Holds
    <2>5. req' = [req EXCEPT ![h] = r] /\ UNCHANGED <<users, profiles, jar>>
      BY <1>3 DEF Arrive
    <2> HIDE DEF r
    <2>6. \A q : Apart(r, q)
      BY <2>4 DEF Apart
    <2> QED
      BY <2>4, <2>5, <2>6, ContinueStep
  <1> QED
    BY <1>1, <1>2, <1>3 DEF Request, RefreshRequest, UpgradeRequest

\* CheckEmail and Begin only move on.
LEMMA MoveOn ==
    ASSUME Consistent, NEW h \in Handlers, NEW pc \in {"begin", "writeUser"},
           \/ req[h].pc = "checkEmail" /\ pc = "begin"
           \/ req[h].pc = "begin" /\ pc = "writeUser",
           Continue(h, [req[h] EXCEPT !.pc = pc])
    PROVE  Consistent'
  <1> DEFINE r == [req[h] EXCEPT !.pc = pc]
  <1>1. req[h] # NoRequest /\ RequestOK(req[h]) /\ req[h] \in Requests
    BY RealRequest DEF Consistent
  <1>2. /\ r \in Requests /\ r.op = req[h].op /\ r.pc = pc /\ r.user = req[h].user
        /\ r.email = req[h].email /\ r.role = req[h].role /\ r.roles = req[h].roles
    BY <1>1 DEF Requests, Steps
  <1>3. Continue(h, r)
    OBVIOUS
  <1> HIDE DEF r
  <1>4. req[h].pc = "checkEmail" => req[h].op = "signup"
    BY <1>1 DEF RequestOK, Flow, Requests, Ops
  <1>5. RequestOK(r)
    BY <1>1, <1>2, <1>4 DEF RequestOK, Known, Flow, Requests, Ops
  <1>6. Backed(req[h])
    BY <1>1 DEF Consistent, AllBacked
  <1>7. Backed(r) /\ ~Holds(r)
    BY <1>2, <1>4, <1>6 DEF Backed, Known, Holds, StillSeeker
  <1>8. \A q : Apart(r, q)
    BY <1>7 DEF Apart
  <1> QED
    BY <1>3, <1>5, <1>7, <1>8, ContinueStep DEF Continue
LEMMA FindUserStep ==
    ASSUME Consistent, NEW h \in Handlers, FindUser(h)
    PROVE  Consistent'
  <1>1. ASSUME NEW u \in Users, Exists(u),
               Continue(h, [req[h] EXCEPT !.pc = "answer", !.user = u, !.roles = users[u].roles])
        PROVE  Consistent'
    <2> DEFINE r == [req[h] EXCEPT !.pc = "answer", !.user = u, !.roles = users[u].roles]
    <2>1. req[h] # NoRequest /\ RequestOK(req[h]) /\ req[h] \in Requests /\ req[h].pc = "findUser"
      BY RealRequest DEF Consistent, FindUser
    <2>2. users[u].roles \in SUBSET Roles
      BY <1>1 DEF Consistent, TypeOK, Dir!UserRow, Dir!NoUser, Roles, Dir!Exists, Exists
    <2>3. /\ r \in Requests /\ r.op = req[h].op /\ r.pc = "answer" /\ r.user = u
          /\ r.email = req[h].email /\ r.roles = users[u].roles
      BY <2>1, <2>2 DEF Requests, Steps
    <2>4. Continue(h, r)
      BY <1>1
    <2> HIDE DEF r
    <2>5. RequestOK(r)
      BY <2>1, <2>3 DEF RequestOK, Flow, Requests, Ops
    <2>6. Honest([user |-> u, roles |-> users[u].roles])
      BY <1>1, <2>2 DEF Honest, Consistent, ProfilesMatchRoles, Dir!ProfilesMatchRoles, Roles
    <2>7. r.op = "login"
      BY <2>1, <2>3 DEF RequestOK, Flow, Requests, Ops
    <2>8. Backed(r) /\ ~Holds(r)
      BY <1>1, <2>3, <2>6, <2>7 DEF Backed, Holds
    <2>9. \A q : Apart(r, q)
      BY <2>8 DEF Apart
    <2> QED
      BY <2>4, <2>5, <2>8, <2>9, ContinueStep DEF Continue
  <1> QED
    BY <1>1, GiveUpStep DEF FindUser

LEMMA RefreshTokensStep ==
    ASSUME Consistent, NEW h \in Handlers, RefreshTokens(h)
    PROVE  Consistent'
  <1>1. PICK u \in Users : u = req[h].user
    BY RealRequest DEF Consistent, RefreshTokens, At, RequestOK, Known
  <1>2. ASSUME Exists(u),
               Continue(h, [req[h] EXCEPT !.pc = "answer", !.roles = users[u].roles])
        PROVE  Consistent'
    <2> DEFINE r == [req[h] EXCEPT !.pc = "answer", !.roles = users[u].roles]
    <2>1. /\ req[h] # NoRequest /\ RequestOK(req[h]) /\ req[h] \in Requests
          /\ req[h].pc = "readUser" /\ req[h].op = "refresh"
      BY RealRequest DEF Consistent, RefreshTokens, At
    <2>2. users[u].roles \in SUBSET Roles
      BY <1>2 DEF Consistent, TypeOK, Dir!UserRow, Dir!NoUser, Roles, Dir!Exists, Exists
    <2>3. /\ r \in Requests /\ r.op = req[h].op /\ r.pc = "answer" /\ r.user = u
          /\ r.email = req[h].email /\ r.roles = users[u].roles
      BY <1>1, <2>1, <2>2 DEF Requests, Steps
    <2>4. Continue(h, r)
      BY <1>2
    <2> HIDE DEF r
    <2>5. RequestOK(r)
      BY <2>1, <2>3 DEF RequestOK, Flow, Requests, Ops
    <2>6. Honest([user |-> u, roles |-> users[u].roles])
      BY <1>2, <2>2 DEF Honest, Consistent, ProfilesMatchRoles, Dir!ProfilesMatchRoles, Roles
    <2>7. Backed(r) /\ ~Holds(r)
      BY <1>2, <2>1, <2>3, <2>6 DEF Backed, Holds
    <2>8. \A q : Apart(r, q)
      BY <2>7 DEF Apart
    <2> QED
      BY <2>4, <2>5, <2>7, <2>8, ContinueStep DEF Continue
  <1> QED
    BY <1>1, <1>2, GiveUpStep DEF RefreshTokens

LEMMA ReadRolesStep ==
    ASSUME Consistent, NEW h \in Handlers, ReadRoles(h)
    PROVE  Consistent'
  <1>1. PICK u \in Users : u = req[h].user
    BY RealRequest DEF Consistent, ReadRoles, At, RequestOK, Known
  <1>2. ASSUME Exists(u),
               Continue(h, [req[h] EXCEPT !.pc = "begin",
                                          !.roles = users[u].roles \cup {"RECRUITER"}])
        PROVE  Consistent'
    <2> DEFINE r == [req[h] EXCEPT !.pc = "begin", !.roles = users[u].roles \cup {"RECRUITER"}]
    <2>1. /\ req[h] # NoRequest /\ RequestOK(req[h]) /\ req[h] \in Requests
          /\ req[h].pc = "readUser" /\ req[h].op = "upgrade"
      BY RealRequest DEF Consistent, ReadRoles, At
    <2>2. users[u].roles \in SUBSET Roles /\ "RECRUITER" \in Roles
      BY <1>2 DEF Consistent, TypeOK, Dir!UserRow, Dir!NoUser, Roles, Dir!Roles, Dir!Exists, Exists
    <2>3. /\ r \in Requests /\ r.op = "upgrade" /\ r.pc = "begin" /\ r.user = u
          /\ r.email = req[h].email /\ r.roles = users[u].roles \cup {"RECRUITER"}
          /\ r.role = req[h].role
      BY <1>1, <2>1, <2>2 DEF Requests, Steps
    <2>4. Continue(h, r)
      BY <1>2
    <2> HIDE DEF r
    <2>5. RequestOK(r)
      BY <2>1, <2>3 DEF RequestOK, Flow, Requests, Ops
    <2>6. req[h].role = "RECRUITER"
      BY <2>1 DEF Consistent, AllBacked, Backed
    <2>7. Backed(r) /\ ~Holds(r)
      BY <1>2, <2>1, <2>3, <2>6 DEF Backed, Holds, StillSeeker
    <2>8. \A q : Apart(r, q)
      BY <2>7 DEF Apart
    <2> QED
      BY <2>4, <2>5, <2>7, <2>8, ContinueStep DEF Continue
  <1> QED
    BY <1>1, <1>2, GiveUpStep DEF ReadRoles
-----------------------------------------------------------------------------
(* The transaction.                                                        *)

LEMMA InsertUserStep ==
    ASSUME Consistent, NEW h \in Handlers, InsertUser(h)
    PROVE  Consistent'
  <1>1. /\ req[h] # NoRequest /\ RequestOK(req[h]) /\ req[h] \in Requests
        /\ req[h].pc = "writeUser" /\ req[h].op = "signup"
    BY RealRequest DEF Consistent, InsertUser, At
  <1>2. ASSUME ~Dir!EmailTaken(req[h].email), NEW u \in Users, FreshId(u),
               Continue(h, [req[h] EXCEPT !.pc = "writeProfile", !.user = u,
                                          !.roles = {req[h].role}])
        PROVE  Consistent'
    <2> DEFINE r == [req[h] EXCEPT !.pc = "writeProfile", !.user = u, !.roles = {req[h].role}]
    <2>1. /\ r \in Requests /\ r.op = "signup" /\ r.pc = "writeProfile" /\ r.user = u
          /\ r.email = req[h].email /\ r.roles = {req[h].role} /\ r.role = req[h].role
      BY <1>1 DEF Requests, Steps
    <2>2. Continue(h, r)
      BY <1>2
    <2> HIDE DEF r
    <2>3. RequestOK(r)
      BY <1>1, <2>1 DEF RequestOK, Flow
    <2>4. Backed(r)
      BY <1>2, <2>1 DEF Backed, Holds, NewRow, FreshId
    <2>5. ASSUME NEW g \in Handlers, req[g] # NoRequest, Holds(req[g])
          PROVE  req[g].user # u /\ (req[g].op = "signup" => req[g].email # req[h].email)
      BY <1>2, <2>5 DEF FreshId, InsertUser, EmailLocked, HoldsRow, Holds
    <2>6. \A g \in Handlers : req[g] # NoRequest => Apart(r, req[g])
      BY <2>1, <2>5 DEF Apart
    <2> QED
      BY <2>2, <2>3, <2>4, <2>6, ContinueStep DEF Continue
  <1> QED
    BY <1>2, GiveUpStep DEF InsertUser

LEMMA UpdateRolesStep ==
    ASSUME Consistent, NEW h \in Handlers, UpdateRoles(h)
    PROVE  Consistent'
  <1> DEFINE r == [req[h] EXCEPT !.pc = "writeProfile"]
  <1>1. /\ req[h] # NoRequest /\ RequestOK(req[h]) /\ req[h] \in Requests /\ Backed(req[h])
        /\ req[h].pc = "writeUser" /\ req[h].op = "upgrade"
    BY RealRequest DEF Consistent, UpdateRoles, At, AllBacked
  <1>2. /\ r \in Requests /\ r.op = "upgrade" /\ r.pc = "writeProfile"
        /\ r.user = req[h].user /\ r.email = req[h].email /\ r.roles = req[h].roles
        /\ r.role = req[h].role
    BY <1>1 DEF Requests, Steps
  <1>3. Continue(h, r)
    BY DEF UpdateRoles
  <1> HIDE DEF r
  <1>4. RequestOK(r)
    BY <1>1, <1>2 DEF RequestOK, Flow, Known
  <1>5. Backed(r)
    BY <1>1, <1>2 DEF Backed, Holds, StillSeeker, Known
  <1>6. ASSUME NEW g \in Handlers, req[g] # NoRequest, Holds(req[g])
        PROVE  req[g].user # r.user
    BY <1>2, <1>6 DEF UpdateRoles, RowLocked, HoldsRow, Holds
  <1>7. \A g \in Handlers : req[g] # NoRequest => Apart(r, req[g])
    BY <1>2, <1>6 DEF Apart
  <1> QED
    BY <1>3, <1>4, <1>5, <1>7, ContinueStep DEF Continue

LEMMA InsertProfileStep ==
    ASSUME Consistent, NEW h \in Handlers, InsertProfile(h)
    PROVE  Consistent'
  <1>1. /\ req[h] # NoRequest /\ RequestOK(req[h]) /\ req[h] \in Requests /\ Backed(req[h])
        /\ req[h].pc = "writeProfile" /\ req[h].user \in Users
    BY RealRequest DEF Consistent, InsertProfile, AllBacked, RequestOK, Known
  <1>2. ASSUME ~(profiles[req[h].user][req[h].role] > 0),
               Continue(h, [req[h] EXCEPT !.pc = "commit"])
        PROVE  Consistent'
    <2> DEFINE r == [req[h] EXCEPT !.pc = "commit"]
    <2>1. /\ r \in Requests /\ r.op = req[h].op /\ r.pc = "commit"
          /\ r.user = req[h].user /\ r.email = req[h].email /\ r.roles = req[h].roles
          /\ r.role = req[h].role
      BY <1>1 DEF Requests, Steps
    <2>2. Continue(h, r)
      BY <1>2
    <2> HIDE DEF r
    <2>3. RequestOK(r)
      BY <1>1, <2>1 DEF RequestOK, Flow, Known, Requests, Ops
    <2>4. req[h].role \in Roles
      BY <1>1 DEF Requests
    <2>5. req[h].role \notin users[req[h].user].roles
      BY <1>1, <1>2, <2>4
      DEF Consistent, ProfilesMatchRoles, Dir!ProfilesMatchRoles, Roles
    <2>6. Backed(r)
      BY <1>1, <2>1, <2>5 DEF Backed, Holds, StillSeeker, Known, NewRow
    <2>7. \A g \in Handlers \ {h} : req[g] # NoRequest => Apart(r, req[g])
      BY <1>1, <2>1 DEF Consistent, AllApart, Apart, Holds
    <2> QED
      BY <2>2, <2>3, <2>6, <2>7, ContinueStep DEF Continue
  <1> QED
    BY <1>2, GiveUpStep DEF InsertProfile
\* The rows after a commit: one user's row is new or has one role more.
LEMMA CommitRows ==
    ASSUME Consistent, NEW h \in Handlers, Commit(h)
    PROVE  LET r == req[h] IN
           /\ r # NoRequest /\ RequestOK(r) /\ r \in Requests /\ Backed(r) /\ Holds(r)
           /\ r.user \in Users /\ r.role \in Roles /\ r.role \notin users[r.user].roles
           /\ profiles[r.user][r.role] = 0
           /\ r.op = "signup" => NewRow(r) /\ users[r.user].roles = {}
           /\ r.op = "upgrade" => Exists(r.user)
           /\ r.op \in {"signup", "upgrade"}
           /\ r.roles = users[r.user].roles \cup {r.role}
           /\ users'[r.user] \in Dir!UserRow
           /\ users'[r.user].roles = r.roles
           /\ users'[r.user].email = IF r.op = "signup" THEN r.email ELSE users[r.user].email
           /\ users'[r.user] # Dir!NoUser
           /\ \A u \in Users \ {r.user} : users'[u] = users[u] /\ profiles'[u] = profiles[u]
           /\ profiles' \in [Users -> [Roles -> Nat]]
           /\ \A x \in Roles : profiles'[r.user][x] =
                 profiles[r.user][x] + IF x = r.role THEN 1 ELSE 0
           /\ users' \in [Users -> Dir!UserRow \cup {Dir!NoUser}]
  <1> DEFINE r == req[h]
  <1>1. /\ r # NoRequest /\ RequestOK(r) /\ r \in Requests /\ Backed(r) /\ Holds(r)
        /\ r.pc = "commit" /\ r.user \in Users /\ r.role \in Roles
        /\ r.op \in {"signup", "upgrade"}
    BY RealRequest DEF Consistent, Commit, AllBacked, RequestOK, Known, Holds, Requests, Flow, Ops
  <1>2. PICK u \in Users : u = r.user
    BY <1>1
  <1>3. /\ users \in [Users -> Dir!UserRow \cup {Dir!NoUser}]
        /\ profiles \in [Users -> [Roles -> Nat]]
    BY DEF Consistent, TypeOK
  <1>4. /\ r.op = "signup" => NewRow(r) /\ users[u].roles = {}
        /\ r.op = "upgrade" => Exists(u) /\ StillSeeker(r) /\ r.role = "RECRUITER"
    BY <1>1, <1>2 DEF Backed, NewRow, Known, Exists, Dir!Exists, Dir!NoUser
  <1>5. r.role \notin users[u].roles /\ r.roles = users[u].roles \cup {r.role}
    BY <1>1, <1>2, <1>4 DEF NewRow, StillSeeker
  <1>6. profiles[u][r.role] = 0
    BY <1>1, <1>5 DEF Consistent, ProfilesMatchRoles, Dir!ProfilesMatchRoles, Roles
  <1>7. PICK row : /\ row = [email  |-> IF r.op = "signup" THEN r.email ELSE users[u].email,
                             roles  |-> r.roles,
                             active |-> r.op = "signup" \/ users[u].active]
                   /\ users' = [users EXCEPT ![u] = row]
    BY <1>2 DEF Commit
  <1>8. /\ r.op = "signup" => r.email \in Emails
        /\ r.op = "upgrade" => users[u] \in Dir!UserRow
    BY <1>1, <1>3, <1>4 DEF RequestOK, Exists, Dir!Exists
  <1>9. row.email = (IF r.op = "signup" THEN r.email ELSE users[u].email) /\ row.roles = r.roles
    BY <1>7
  <1>10. row \in Dir!UserRow
    <2>1. CASE r.op = "signup"
      BY <1>1, <1>7, <1>8, <2>1 DEF Dir!UserRow, Requests, Roles
    <2>2. CASE r.op = "upgrade"
      BY <1>1, <1>7, <1>8, <2>2 DEF Dir!UserRow, Requests, Roles
    <2> QED
      BY <1>1, <2>1, <2>2
  <1>11. /\ users' \in [Users -> Dir!UserRow \cup {Dir!NoUser}] /\ users'[u] = row
         /\ \A v \in Users \ {u} : users'[v] = users[v]
    BY <1>3, <1>7, <1>10
  <1>12. users'[u] # Dir!NoUser
    <2>1. row.roles # {}
      BY <1>5, <1>9
    <2> QED
      BY <1>11, <2>1 DEF Dir!NoUser
  <1>13. /\ profiles' \in [Users -> [Roles -> Nat]]
         /\ \A v \in Users \ {u} : profiles'[v] = profiles[v]
         /\ \A x \in Roles : profiles'[u][x] = profiles[u][x] + IF x = r.role THEN 1 ELSE 0
    BY <1>1, <1>2, <1>3 DEF Commit, Dir!WithProfile
  <1> QED
    BY <1>1, <1>2, <1>4, <1>5, <1>6, <1>9, <1>10, <1>11, <1>12, <1>13 DEF Exists, Dir!Exists
\* What was true of a token stays true: nobody loses a row, a role or a
\* profile by a commit.
LEMMA CommitKeepsHonest ==
    ASSUME Consistent, NEW h \in Handlers, Commit(h), NEW c, Honest(c),
           c = NoClaims \/ (c.user \in Users /\ c.roles \subseteq Roles)
    PROVE  c # NoClaims =>
              /\ users'[c.user] # Dir!NoUser
              /\ c.roles \subseteq users'[c.user].roles
              /\ \A r \in c.roles : profiles'[c.user][r] = 1
  <1> SUFFICES ASSUME c # NoClaims, c.user \in Users, c.roles \subseteq Roles
               PROVE  /\ users'[c.user] # Dir!NoUser
                      /\ c.roles \subseteq users'[c.user].roles
                      /\ \A r \in c.roles : profiles'[c.user][r] = 1
    OBVIOUS
  <1>1. /\ Exists(c.user) /\ c.roles \subseteq users[c.user].roles
        /\ \A r \in c.roles : profiles[c.user][r] = 1
    BY DEF Honest
  <1>2. CASE c.user # req[h].user
    BY <1>1, <1>2, CommitRows DEF Exists, Dir!Exists
  <1>3. CASE c.user = req[h].user
    <2>1. req[h].role \notin c.roles
      BY <1>1, <1>3, CommitRows
    <2> QED
      BY <1>1, <1>3, <2>1, CommitRows
  <1> QED
    BY <1>2, <1>3

\* Another request does not notice the commit, or finds its user's row with
\* what it is going to write itself.
LEMMA CommitKeepsBacked ==
    ASSUME Consistent, NEW h \in Handlers, Commit(h), NEW g \in Handlers \ {h},
           req[g] # NoRequest
    PROVE  Backed(req[g])'
  <1> DEFINE r == req[h]
             q == req[g]
  <1>1. RequestOK(q) /\ q \in Requests /\ Backed(q) /\ Apart(q, r)
    BY CommitRows DEF Consistent, TypeOK, AllBacked, AllApart, RequestOK, NoRequest
  <1>2. req'[g] = q
    BY DEF Commit
  <1>3. ASSUME q.op = "signup", Holds(q)
        PROVE  NewRow(q)'
    <2>1. q.user # r.user /\ (r.op = "signup" => q.email # r.email) /\ q.user \in Users
      BY <1>1, <1>3, CommitRows DEF Apart, RequestOK, Known, Holds
    <2>2. NewRow(q)
      BY <1>1, <1>3 DEF Backed
    <2>3. users'[q.user] = Dir!NoUser
      BY <2>1, <2>2, CommitRows DEF NewRow, Exists, Dir!Exists
    <2>4. \A u \in Users : users'[u] # Dir!NoUser => users'[u].email # q.email
      BY <2>1, <2>2, CommitRows DEF NewRow, Exists, Dir!Exists, Dir!EmailTaken
    <2> QED
      BY <1>2, <2>2, <2>3, <2>4 DEF NewRow, Exists, Dir!Exists, Dir!EmailTaken
  <1>4. ASSUME Known(q), ~(q.op = "signup" /\ Holds(q))
        PROVE  users'[q.user] # Dir!NoUser
    <2>1. q.user \in Users /\ users[q.user] # Dir!NoUser
      BY <1>1, <1>4 DEF Backed, RequestOK, Exists, Dir!Exists
    <2> QED
      BY <2>1, CommitRows
  <1>5. ASSUME q.op = "upgrade", q.pc \in {"begin", "writeUser", "writeProfile", "commit"}
        PROVE  StillSeeker(q)'
    <2>1. q.user \in Users /\ StillSeeker(q) /\ Exists(q.user)
      BY <1>1, <1>5 DEF Backed, RequestOK, Known
    <2>2. CASE q.user # r.user
      BY <1>2, <2>1, <2>2, CommitRows DEF StillSeeker
    <2>3. CASE q.user = r.user
      <3>1. r.op = "upgrade" /\ ~Holds(q)
        BY <1>1, <2>1, <2>3, CommitRows DEF NewRow, Apart
      <3>2. r.role = "RECRUITER"
        BY <3>1, CommitRows DEF Backed
      <3>3. users'[q.user].roles = users[q.user].roles \cup {"RECRUITER"}
        BY <2>3, <3>2, CommitRows
      <3>4. q.pc # "commit"
        BY <3>1 DEF Holds
      <3> QED
        BY <1>2, <2>1, <3>3, <3>4 DEF StillSeeker
    <2> QED
      BY <2>2, <2>3
  <1>6. ASSUME q.pc = "answer"
        PROVE  Honest([user |-> q.user, roles |-> q.roles])'
    <2>1. q.user \in Users /\ q.roles \subseteq Roles
      BY <1>1, <1>6 DEF RequestOK, Known, Requests
    <2>2. PICK c : c = [user |-> q.user, roles |-> q.roles]
      OBVIOUS
    <2>3. Honest(c) /\ c.user = q.user /\ c.roles = q.roles
      BY <1>1, <1>6, <2>2 DEF Backed
    <2>4. /\ c # NoClaims => /\ users'[c.user] # Dir!NoUser
                             /\ c.roles \subseteq users'[c.user].roles
                             /\ \A x \in c.roles : profiles'[c.user][x] = 1
      BY <2>1, <2>3, CommitKeepsHonest
    <2> QED
      BY <1>2, <2>2, <2>4 DEF Honest, Exists, Dir!Exists
  <1>7. q.op = "upgrade" => q.role = "RECRUITER"
    BY <1>1 DEF Backed
  <1> QED
    BY <1>2, <1>3, <1>4, <1>5, <1>6, <1>7 DEF Backed, Holds, Known, Exists, Dir!Exists
LEMMA CommitStep ==
    ASSUME Consistent, NEW h \in Handlers, Commit(h)
    PROVE  Consistent'
  <1> DEFINE r == req[h]
  <1>1. PICK q : q = [r EXCEPT !.pc = "answer"] /\ req' = [req EXCEPT ![h] = q]
    BY DEF Commit
  <1>2. /\ q \in Requests /\ q.op = r.op /\ q.pc = "answer" /\ q.user = r.user
        /\ q.email = r.email /\ q.roles = r.roles /\ q.role = r.role
    BY <1>1, CommitRows DEF Requests, Steps
  <1>. /\ req'[h] = q /\ jar' = jar
       /\ \A g \in Handlers \ {h} : req'[g] = req[g]
       /\ req' \in [Handlers -> Requests \cup {NoRequest}]
    BY <1>1, <1>2 DEF Commit, Consistent, TypeOK
  <1>3. TypeOK'
    <2>1. RequestOK(q)
      BY <1>2, CommitRows DEF RequestOK, Known, Flow, Holds
    <2>2. \A g \in Handlers : req'[g] = NoRequest \/ RequestOK(req'[g])
      BY <1>1, <1>2, <2>1 DEF Consistent, TypeOK
    <2> QED
      BY <1>1, <2>2, CommitRows DEF Consistent, TypeOK, RequestOK, Known
  <1>4. EmailsUnique'
    <2>1. ASSUME NEW u \in Users \ {r.user}, users'[u] # Dir!NoUser
          PROVE  users'[u].email # users'[r.user].email
      <3>1. users[u] # Dir!NoUser /\ users'[u] = users[u]
        BY <2>1, CommitRows
      <3>2. CASE r.op = "signup"
        BY <3>1, <3>2, CommitRows DEF NewRow, Dir!EmailTaken, Dir!Exists
      <3>3. CASE r.op = "upgrade"
        BY <3>1, <3>3, CommitRows
        DEF Consistent, EmailsUnique, Dir!EmailsUnique, Exists, Dir!Exists
      <3> QED
        BY <3>2, <3>3, CommitRows
    <2>2. ASSUME NEW u \in Users, NEW v \in Users, users'[u] # Dir!NoUser,
                 users'[v] # Dir!NoUser, users'[u].email = users'[v].email
          PROVE  u = v
      BY <2>1, <2>2, CommitRows DEF Consistent, EmailsUnique, Dir!EmailsUnique, Dir!Exists
    <2> QED
      BY <2>2 DEF EmailsUnique, Dir!EmailsUnique, Dir!Exists
  <1>5. ProfilesMatchRoles'
    <2> SUFFICES ASSUME NEW u \in Users, NEW x \in Dir!Roles
                 PROVE  profiles'[u][x] = IF x \in users'[u].roles THEN 1 ELSE 0
      BY DEF ProfilesMatchRoles, Dir!ProfilesMatchRoles
    <2>1. profiles[u][x] = IF x \in users[u].roles THEN 1 ELSE 0
      BY DEF Consistent, ProfilesMatchRoles, Dir!ProfilesMatchRoles
    <2>2. CASE u # r.user
      BY <2>1, <2>2, CommitRows
    <2>3. CASE u = r.user
      BY <2>1, <2>3, CommitRows DEF Roles
    <2> QED
      BY <2>2, <2>3
  <1>6. TokensHonest'
    <2> SUFFICES ASSUME NEW b \in Browsers, NEW c, c \in {jar[b].access, jar[b].refresh}
                 PROVE  c # NoClaims => /\ users'[c.user] # Dir!NoUser
                                        /\ c.roles \subseteq users'[c.user].roles
                                        /\ \A x \in c.roles : profiles'[c.user][x] = 1
      BY <1>1 DEF TokensHonest, Honest, Exists, Dir!Exists
    <2>1. Honest(c) /\ c \in Claims \cup {NoClaims}
      BY DEF Consistent, TokensHonest, TypeOK
    <2> QED
      BY <2>1, CommitKeepsHonest DEF Claims
  <1>7. AllBacked'
    <2>1. ASSUME NEW g \in Handlers \ {h}, req'[g] # NoRequest
          PROVE  Backed(req[g])'
      BY <1>1, <2>1, CommitKeepsBacked
    <2>2. Honest([user |-> r.user, roles |-> r.roles])'
      <3>1. \A x \in r.roles : profiles'[r.user][x] = 1
        BY CommitRows DEF Consistent, ProfilesMatchRoles, Dir!ProfilesMatchRoles, Requests, Roles
      <3>2. req'[h].user = r.user /\ req'[h].roles = r.roles
        BY <1>2
      <3> QED
        BY <3>1, <3>2, CommitRows DEF Honest, Exists, Dir!Exists
    <2>3. Backed(req[h])'
      <3>1. r.op = "upgrade" => r.role = "RECRUITER"
        BY CommitRows DEF Backed
      <3> QED
        BY <1>2, <2>2, <3>1, CommitRows DEF Backed, Holds, Exists, Dir!Exists
    <2> QED
      BY <2>1, <2>3 DEF AllBacked
  <1>8. AllApart'
    <2>1. ~Holds(q)
      BY <1>2 DEF Holds
    <2>2. \A g \in Handlers \ {h} : req'[g] = req[g]
      OBVIOUS
    <2>3. \A f, g \in Handlers : Apart(req'[f], req'[g]) \/ f = g \/ req[f] = NoRequest
                                  \/ req[g] = NoRequest
      BY <2>1, <2>2 DEF Consistent, AllApart, Apart
    <2> QED
      BY <2>2, <2>3, CommitRows DEF AllApart, Apart, Holds
  <1> QED
    BY <1>3, <1>4, <1>5, <1>6, <1>7, <1>8 DEF Consistent

-----------------------------------------------------------------------------
(* Cookies, and the operator.                                              *)

\* Steps that leave the tables alone and put honest tokens in a jar.
LEMMA JarStep ==
    ASSUME Consistent, UNCHANGED <<users, profiles, req>>, NEW b \in Browsers,
           NEW a \in Claims \cup {NoClaims}, NEW f \in Claims \cup {NoClaims},
           Honest(a), Honest(f),
           jar' = [jar EXCEPT ![b] = [access |-> a, refresh |-> f]]
    PROVE  Consistent'
  <1> USE DEF Consistent
  <1>1. TypeOK'
    BY DEF TypeOK, RequestOK
  <1>2. EmailsUnique' /\ ProfilesMatchRoles'
    BY DEF EmailsUnique, Dir!EmailsUnique, ProfilesMatchRoles, Dir!ProfilesMatchRoles, Dir!Exists
  <1>3. TokensHonest'
    BY DEF TypeOK, TokensHonest, Honest, Exists, Dir!Exists
  <1>4. AllBacked' /\ AllApart'
    BY DEF AllBacked, Backed, NewRow, StillSeeker, Honest, Exists, Dir!Exists, Dir!EmailTaken,
           Known, Holds, AllApart, Apart
  <1> QED
    BY <1>1, <1>2, <1>3, <1>4

LEMMA AnswerStep ==
    ASSUME Consistent, NEW h \in Handlers, Answer(h)
    PROVE  Consistent'
  <1> USE DEF Consistent
  <1>1. /\ req[h] # NoRequest /\ RequestOK(req[h]) /\ req[h] \in Requests /\ Backed(req[h])
        /\ req[h].pc = "answer" /\ req[h].user \in Users /\ req[h].browser \in Browsers
    BY RealRequest DEF Answer, AllBacked, RequestOK, Known, Requests
  <1>2. PICK c : c = [user |-> req[h].user, roles |-> req[h].roles]
    OBVIOUS
  <1>3. c \in Claims /\ Honest(c)
    BY <1>1, <1>2 DEF Backed, Claims, Requests
  <1>4. jar' = [jar EXCEPT ![req[h].browser] = [access |-> c, refresh |-> c]]
    BY <1>2 DEF Answer
  <1>5. req' = [req EXCEPT ![h] = NoRequest] /\ users' = users /\ profiles' = profiles
    BY DEF Answer
  <1>6. TypeOK'
    BY <1>1, <1>3, <1>4, <1>5 DEF TypeOK, RequestOK
  <1>7. EmailsUnique' /\ ProfilesMatchRoles'
    BY <1>5
    DEF EmailsUnique, Dir!EmailsUnique, ProfilesMatchRoles, Dir!ProfilesMatchRoles, Dir!Exists
  <1>8. TokensHonest'
    BY <1>1, <1>3, <1>4, <1>5 DEF TypeOK, TokensHonest, Honest, Exists, Dir!Exists
  <1>9. AllBacked' /\ AllApart'
    <2>1. \A q : Backed(q)' <=> Backed(q)
      BY <1>5 DEF Backed, NewRow, StillSeeker, Honest, Exists, Dir!Exists, Dir!EmailTaken,
                  Known, Holds
    <2>2. \A g \in Handlers : req'[g] # NoRequest => g # h /\ req'[g] = req[g]
      BY <1>5 DEF TypeOK
    <2> QED
      BY <2>1, <2>2 DEF AllBacked, AllApart, Apart, Holds
  <1> QED
    BY <1>6, <1>7, <1>8, <1>9

LEMMA CookieStep ==
    ASSUME Consistent, NEW b \in Browsers, Logout(b) \/ CookieExpires(b)
    PROVE  Consistent'
  <1>1. Honest(NoClaims) /\ Honest(jar[b].access) /\ Honest(jar[b].refresh)
    BY DEF Honest, Consistent, TokensHonest
  <1>2. /\ jar[b].access \in Claims \cup {NoClaims} /\ jar[b].refresh \in Claims \cup {NoClaims}
        /\ jar[b] = [access |-> jar[b].access, refresh |-> jar[b].refresh]
    BY DEF Consistent, TypeOK
  <1>3. \E a, f \in Claims \cup {NoClaims} :
           /\ Honest(a) /\ Honest(f)
           /\ jar' = [jar EXCEPT ![b] = [access |-> a, refresh |-> f]]
    <2>1. CASE Logout(b)
      BY <1>1, <2>1 DEF Logout, NoCookies
    <2>2. CASE jar' = [jar EXCEPT ![b] = [jar[b] EXCEPT !["access"] = NoClaims]]
      <3>1. [jar[b] EXCEPT !["access"] = NoClaims] = [access |-> NoClaims, refresh |-> jar[b].refresh]
        BY <1>2
      <3> QED
        BY <1>1, <1>2, <2>2, <3>1
    <2>3. CASE jar' = [jar EXCEPT ![b] = [jar[b] EXCEPT !["refresh"] = NoClaims]]
      <3>1. [jar[b] EXCEPT !["refresh"] = NoClaims] = [access |-> jar[b].access, refresh |-> NoClaims]
        BY <1>2
      <3> QED
        BY <1>1, <1>2, <2>3, <3>1
    <2> QED
      BY <2>1, <2>2, <2>3 DEF CookieExpires
  <1> QED
    BY <1>3, JarStep DEF Logout, CookieExpires

LEMMA DeactivateStep ==
    ASSUME Consistent, NEW u \in Users, Deactivate(u)
    PROVE  Consistent'
  <1> USE DEF Consistent
  <1>1. users[u] \in Dir!UserRow
    BY DEF TypeOK, Deactivate
  <1>2. PICK row : /\ row = [email |-> users[u].email, roles |-> users[u].roles, active |-> FALSE]
                   /\ users' = [users EXCEPT ![u] = row]
    BY DEF Deactivate, Dir!Deactivate
  <1>3. row \in Dir!UserRow /\ row.email = users[u].email /\ row.roles = users[u].roles
        /\ row # Dir!NoUser
    <2>1. row \in Dir!UserRow /\ row.email = users[u].email /\ row.roles = users[u].roles
      BY <1>1, <1>2 DEF Dir!UserRow
    <2>2. users[u].roles # {} => row # Dir!NoUser
      BY <2>1 DEF Dir!NoUser
    <2>3. DOMAIN row = {"email", "roles", "active"} /\ DOMAIN Dir!NoUser = {"roles"}
      BY <1>2 DEF Dir!NoUser
    <2> QED
      BY <2>1, <2>3
  <1>4. /\ users' \in [Users -> Dir!UserRow \cup {Dir!NoUser}]
        /\ profiles' = profiles /\ jar' = jar /\ req' = req
        /\ \A v \in Users : /\ users'[v].roles = users[v].roles
                            /\ users'[v].email = users[v].email
                            /\ users'[v] = Dir!NoUser <=> users[v] = Dir!NoUser
    BY <1>1, <1>2, <1>3 DEF TypeOK, Deactivate, Dir!Deactivate
  <1>5. TypeOK'
    BY <1>4 DEF TypeOK, RequestOK
  <1>6. EmailsUnique' /\ ProfilesMatchRoles'
    BY <1>4 DEF EmailsUnique, Dir!EmailsUnique, ProfilesMatchRoles, Dir!ProfilesMatchRoles, Dir!Exists
  <1>7. \A c : c.user \in Users /\ Honest(c) => Honest(c)'
    BY <1>4 DEF Honest, Exists, Dir!Exists
  <1>8. TokensHonest'
    BY <1>4, <1>7 DEF TokensHonest, TypeOK, Claims, Honest, Exists, Dir!Exists
  <1>9. AllBacked' /\ AllApart'
    <2>1. ASSUME NEW h \in Handlers, req[h] # NoRequest
          PROVE  Backed(req[h])'
      <3>1. RequestOK(req[h]) /\ Backed(req[h])
        BY <2>1 DEF TypeOK, AllBacked
      <3>2. Known(req[h]) => req[h].user \in Users
        BY <3>1 DEF RequestOK
      <3>3. NewRow(req[h]) /\ Known(req[h]) => NewRow(req[h])'
        BY <1>4, <3>2 DEF NewRow, Exists, Dir!Exists, Dir!EmailTaken
      <3>4. StillSeeker(req[h]) /\ Known(req[h]) => StillSeeker(req[h])'
        BY <1>4, <3>2 DEF StillSeeker
      <3>5. Exists(req[h].user) /\ Known(req[h]) => Exists(req[h].user)'
        BY <1>4, <3>2 DEF Exists, Dir!Exists
      <3>6. Honest([user |-> req[h].user, roles |-> req[h].roles]) /\ Known(req[h])
               => Honest([user |-> req[h].user, roles |-> req[h].roles])'
        BY <1>4, <3>2 DEF Honest, Exists, Dir!Exists
      <3> QED
        BY <1>4, <3>1, <3>3, <3>4, <3>5, <3>6 DEF Backed, Holds, Known
    <2> QED
      BY <1>4, <2>1 DEF AllBacked, AllApart, Apart, Holds
  <1> QED
    BY <1>5, <1>6, <1>8, <1>9

-----------------------------------------------------------------------------
(* Theorems.                                                               *)

\* Whatever requests interleave, wait, fail or are cut off, the tables, the
\* requests in progress and the cookies agree.
THEOREM ConsistentAccounts == Spec => []Consistent
  <1>1. Consistent /\ [Next]_vars => Consistent'
    <2> SUFFICES ASSUME Consistent, [Next]_vars PROVE Consistent'
      OBVIOUS
    <2>1. ASSUME NEW h \in Handlers, Statement(h)
          PROVE  Consistent'
      BY <2>1, MoveOn, GiveUpStep, FindUserStep, RefreshTokensStep, ReadRolesStep,
         InsertUserStep, UpdateRolesStep, InsertProfileStep, CommitStep, AnswerStep
      DEF Statement, CheckEmail, Begin
    <2>2. ASSUME NEW h \in Handlers, Request(h) \/ Cut(h)
          PROVE  Consistent'
      BY <2>2, RequestStep, GiveUpStep DEF Cut
    <2>3. CASE UNCHANGED vars
      BY <2>3
      DEF vars, Consistent, TypeOK, RequestOK, EmailsUnique, Dir!EmailsUnique, ProfilesMatchRoles,
          Dir!ProfilesMatchRoles, TokensHonest, Honest, Exists, Dir!Exists, AllBacked, Backed,
          NewRow, StillSeeker, Dir!EmailTaken, Known, Holds, AllApart, Apart
    <2> QED
      BY <2>1, <2>2, <2>3, CookieStep, DeactivateStep DEF Next
  <1> QED
    BY <1>1, InitConsistent, PTL DEF Spec
THEOREM TypeCorrect == Spec => []TypeOK
  <1>1. Consistent => TypeOK
    BY DEF Consistent
  <1> QED
    BY <1>1, ConsistentAccounts, PTL

\* However signups race, an email names one account.
THEOREM OneAccountPerEmail == Spec => []EmailsUnique
  <1>1. Consistent => EmailsUnique
    BY DEF Consistent
  <1> QED
    BY <1>1, ConsistentAccounts, PTL

\* However signups and upgrades race or fail half-way, a user has exactly
\* the profiles of the roles.
THEOREM OneProfilePerRole == Spec => []ProfilesMatchRoles
  <1>1. Consistent => ProfilesMatchRoles
    BY DEF Consistent
  <1> QED
    BY <1>1, ConsistentAccounts, PTL

\* A token in a cookie is backed by committed rows, for as long as it lives.
THEOREM TokensAreHonest == Spec => []TokensHonest
  <1>1. Consistent => TokensHonest
    BY DEF Consistent
  <1> QED
    BY <1>1, ConsistentAccounts, PTL

\* A commit is the directory's SignUp or GainRole, whatever was read before
\* the transaction began.
LEMMA CommitRefines ==
    ASSUME Consistent, NEW h \in Handlers, Commit(h)
    PROVE  Dir!DirectoryNext
  <1> DEFINE r == req[h]
  <1>1. PICK u \in Users, x \in Dir!Roles : u = r.user /\ x = r.role
    BY CommitRows DEF Roles
  <1>2. Dir!WithProfile(u, x)
    BY <1>1 DEF Commit
  <1>3. users' = [users EXCEPT ![u] =
                    [email  |-> IF r.op = "signup" THEN r.email ELSE users[u].email,
                     roles  |-> users[u].roles \cup {x},
                     active |-> r.op = "signup" \/ users[u].active]]
    BY <1>1, CommitRows DEF Commit
  <1>4. CASE r.op = "signup"
    <2>1. r.email \in Emails /\ ~Exists(u) /\ ~Dir!EmailTaken(r.email) /\ users[u].roles = {}
      BY <1>1, <1>4, CommitRows DEF RequestOK, NewRow
    <2>2. users' = [users EXCEPT ![u] = [email |-> r.email, roles |-> {x}, active |-> TRUE]]
      BY <1>3, <1>4, <2>1
    <2>3. Dir!SignUp(u, r.email, x)
      BY <1>2, <2>1, <2>2 DEF Dir!SignUp, Exists
    <2> QED
      BY <2>1, <2>3 DEF Dir!DirectoryNext
  <1>5. CASE r.op = "upgrade"
    <2>1. Exists(u) /\ x \notin users[u].roles
      BY <1>1, <1>5, CommitRows
    <2>2. users[u].active \in BOOLEAN
      BY <2>1 DEF Consistent, TypeOK, Dir!UserRow, Exists, Dir!Exists
    <2>3. (r.op = "signup" \/ users[u].active) = users[u].active
      BY <1>5, <2>2
    <2>4. users' = [users EXCEPT ![u] = [email |-> users[u].email,
                      roles |-> users[u].roles \cup {x}, active |-> users[u].active]]
      BY <1>3, <1>5, <2>3
    <2>5. Dir!GainRole(u, x)
      BY <1>2, <2>1, <2>4 DEF Dir!GainRole, Exists
    <2> QED
      BY <2>5 DEF Dir!DirectoryNext
  <1> QED
    BY <1>4, <1>5, CommitRows

\* The service, with its transactions, locks, stale reads and lost answers,
\* implements the directory.
THEOREM AccountsImplementsDirectory == Spec => ImplementsDirectory
  <1>1. Init => Dir!DirectoryInit
    BY DEF Init
  <1>2. Consistent /\ [Next]_vars => [Dir!DirectoryNext]_(Dir!directory)
    <2> SUFFICES ASSUME Consistent, [Next]_vars PROVE Dir!DirectoryNext \/ UNCHANGED <<users, profiles>>
      BY DEF Dir!directory
    <2>1. ASSUME NEW h \in Handlers, Statement(h)
          PROVE  Dir!DirectoryNext \/ UNCHANGED <<users, profiles>>
      BY <2>1, CommitRefines
      DEF Statement, CheckEmail, FindUser, RefreshTokens, ReadRoles, Begin, InsertUser, UpdateRoles,
          InsertProfile, Answer, GiveUp, Continue
    <2>2. ASSUME NEW h \in Handlers, Request(h) \/ Cut(h)
          PROVE  UNCHANGED <<users, profiles>>
      BY <2>2
      DEF Request, LoginRequest, SignupRequest, RefreshRequest, UpgradeRequest, Arrive, Cut,
          GiveUp, Continue
    <2>3. ASSUME NEW b \in Browsers, Logout(b) \/ CookieExpires(b)
          PROVE  UNCHANGED <<users, profiles>>
      BY <2>3 DEF Logout, CookieExpires
    <2>4. ASSUME NEW u \in Users, Deactivate(u)
          PROVE  Dir!DirectoryNext
      BY <2>4 DEF Deactivate, Dir!DirectoryNext
    <2>5. CASE UNCHANGED vars
      BY <2>5 DEF vars
    <2> QED
      BY <2>1, <2>2, <2>3, <2>4, <2>5 DEF Next
  <1> QED
    BY <1>1, <1>2, ConsistentAccounts, PTL DEF Spec, ImplementsDirectory, Dir!DirectorySpec

-----------------------------------------------------------------------------
(* Locked out.                                                             *)

\* A request from which a locked out user has nothing to hope for.
Hopeless(r, u) ==
    r # NoRequest =>
        /\ r.pc = "answer" => r.user # u
        /\ r.op = "upgrade" => r.user # u \/ "RECRUITER" \in users[u].roles

LEMMA LockedRequests ==
    ASSUME Consistent, NEW u \in Users, LockedOut(u), NEW h \in Handlers
    PROVE  Hopeless(req[h], u)
  <1>1. req[h] # NoRequest => req[h].pc # "none"
    BY DEF Consistent, TypeOK, Requests, Steps
  <1> QED
    BY <1>1 DEF LockedOut, Hopeless

\* A step of one request, other than its commit and its answer.
LEMMA LockedContinue ==
    ASSUME Consistent, NEW u \in Users, LockedOut(u), NEW h \in Handlers, NEW r,
           req' = [req EXCEPT ![h] = r], UNCHANGED <<users, profiles, jar>>, Hopeless(r, u)
    PROVE  LockedOut(u)' /\ NoNewToken(u)
  <1>1. \A g \in Handlers : req'[g] = IF g = h THEN r ELSE req[g]
    BY DEF Consistent, TypeOK
  <1>2. \A g \in Handlers : Hopeless(req'[g], u)
    BY <1>1, LockedRequests
  <1>3. \A g \in Handlers : req'[g].pc # "none" => req'[g] # NoRequest
    BY DEF NoRequest
  <1>4. \A g \in Handlers : req'[g].pc = "answer" => req'[g].user # u
    BY <1>2, <1>3 DEF Hopeless
  <1>5. \A g \in Handlers : req'[g].pc # "none" /\ req'[g].op = "upgrade" =>
                               req'[g].user # u \/ "RECRUITER" \in users[u].roles
    BY <1>2, <1>3 DEF Hopeless
  <1>6. LockedOut(u)'
    BY <1>4, <1>5 DEF LockedOut, Exists, Dir!Exists
  <1> QED
    BY <1>6 DEF NoNewToken

LEMMA LockedGiveUp ==
    ASSUME Consistent, NEW u \in Users, LockedOut(u), NEW h \in Handlers, GiveUp(h)
    PROVE  LockedOut(u)' /\ NoNewToken(u)
  BY LockedContinue DEF GiveUp, Continue, Hopeless

\* A new request answers nothing yet; an upgrade needs a token that says
\* JOB_SEEKER.
LEMMA LockedRequest ==
    ASSUME Consistent, NEW u \in Users, LockedOut(u), NEW h \in Handlers, Request(h)
    PROVE  LockedOut(u)' /\ NoNewToken(u)
  <1>1. ASSUME NEW r, Arrive(h, r), r.pc # "answer",
               r.op = "upgrade" => r.user # u \/ "RECRUITER" \in users[u].roles
        PROVE  LockedOut(u)' /\ NoNewToken(u)
    BY <1>1, LockedContinue DEF Arrive, Hopeless
  <1>2. ASSUME NEW b \in Browsers, NEW e \in Emails, LoginRequest(h, b, e)
        PROVE  LockedOut(u)' /\ NoNewToken(u)
    BY <1>1, <1>2 DEF LoginRequest, NewRequest
  <1>3. ASSUME NEW b \in Browsers, NEW e \in Emails, NEW x \in Roles, SignupRequest(h, b, e, x)
        PROVE  LockedOut(u)' /\ NoNewToken(u)
    BY <1>1, <1>3 DEF SignupRequest, NewRequest
  <1>4. ASSUME NEW b \in Browsers, RefreshRequest(h, b)
        PROVE  LockedOut(u)' /\ NoNewToken(u)
    BY <1>1, <1>4 DEF RefreshRequest, NewRequest
  <1>5. ASSUME NEW b \in Browsers, UpgradeRequest(h, b)
        PROVE  LockedOut(u)' /\ NoNewToken(u)
    <2>1. jar[b].access.user # u \/ "RECRUITER" \in users[u].roles
      BY <1>5 DEF LockedOut, UpgradeRequest
    <2> QED
      BY <1>1, <1>5, <2>1 DEF UpgradeRequest, NewRequest
  <1> QED
    BY <1>2, <1>3, <1>4, <1>5 DEF Request

\* A statement that leaves the request with its user, or with an active one.
LEMMA LockedStatement ==
    ASSUME Consistent, NEW u \in Users, LockedOut(u), NEW h \in Handlers,
           \/ CheckEmail(h) \/ FindUser(h) \/ RefreshTokens(h) \/ ReadRoles(h) \/ Begin(h)
           \/ InsertUser(h) \/ UpdateRoles(h) \/ InsertProfile(h)
    PROVE  LockedOut(u)' /\ NoNewToken(u)
  <1> DEFINE q == req[h]
  <1>1. q # NoRequest /\ q \in Requests /\ RequestOK(q) /\ Hopeless(q, u)
    BY RealRequest, LockedRequests
    DEF Consistent, CheckEmail, FindUser, RefreshTokens, ReadRoles, Begin, InsertUser,
        UpdateRoles, InsertProfile, At
  <1>2. ASSUME NEW r, Continue(h, r), r.pc # "answer", r.op = q.op,
               r.op = "upgrade" => r.user = q.user
        PROVE  LockedOut(u)' /\ NoNewToken(u)
    BY <1>1, <1>2, LockedContinue DEF Continue, Hopeless
  <1>3. ASSUME NEW r, Continue(h, r), r.op # "upgrade", r.user # u
        PROVE  LockedOut(u)' /\ NoNewToken(u)
    BY <1>3, LockedContinue DEF Continue, Hopeless
  <1>4. ASSUME NEW pc \in Steps \ {"answer"}, Continue(h, [q EXCEPT !.pc = pc])
        PROVE  LockedOut(u)' /\ NoNewToken(u)
    BY <1>1, <1>2, <1>4 DEF Requests
  <1>5. CASE CheckEmail(h)
    BY <1>4, <1>5, LockedGiveUp DEF CheckEmail, Steps
  <1>6. CASE FindUser(h)
    <2>1. q.op = "login"
      <3>1. q.pc = "findUser" /\ q.pc \in Flow[q.op] /\ q.op \in Ops
        BY <1>1, <1>6 DEF FindUser, RequestOK, Requests
      <3> HIDE DEF q
      <3> QED
        BY <3>1 DEF Flow, Ops
    <2>2. ASSUME NEW v \in Users, users[v].active,
                 Continue(h, [q EXCEPT !.pc = "answer", !.user = v, !.roles = users[v].roles])
          PROVE  LockedOut(u)' /\ NoNewToken(u)
      BY <1>1, <1>3, <2>1, <2>2 DEF LockedOut, Requests
    <2> QED
      BY <1>6, <2>2, LockedGiveUp DEF FindUser
  <1>7. CASE RefreshTokens(h)
    <2>1. ASSUME users[q.user].active,
                 Continue(h, [q EXCEPT !.pc = "answer", !.roles = users[q.user].roles])
          PROVE  LockedOut(u)' /\ NoNewToken(u)
      BY <1>1, <1>3, <1>7, <2>1 DEF LockedOut, Requests, RefreshTokens, At
    <2> QED
      BY <1>7, <2>1, LockedGiveUp DEF RefreshTokens
  <1>8. CASE ReadRoles(h)
    <2>1. ASSUME NEW x, Continue(h, [q EXCEPT !.pc = "begin", !.roles = x])
          PROVE  LockedOut(u)' /\ NoNewToken(u)
      BY <1>1, <1>2, <2>1 DEF Requests
    <2> QED
      BY <1>8, <2>1, LockedGiveUp DEF ReadRoles
  <1>9. CASE Begin(h)
    BY <1>4, <1>9 DEF Begin, Steps
  <1>10. CASE InsertUser(h)
    <2>1. ASSUME NEW v, NEW x,
                 Continue(h, [q EXCEPT !.pc = "writeProfile", !.user = v, !.roles = x])
          PROVE  LockedOut(u)' /\ NoNewToken(u)
      BY <1>1, <1>2, <1>10, <2>1 DEF Requests, InsertUser, At
    <2> QED
      BY <1>10, <2>1, LockedGiveUp DEF InsertUser
  <1>11. CASE UpdateRoles(h)
    BY <1>4, <1>11 DEF UpdateRoles, Steps
  <1>12. CASE InsertProfile(h)
    BY <1>4, <1>12, LockedGiveUp DEF InsertProfile, Steps
  <1> QED
    BY <1>5, <1>6, <1>7, <1>8, <1>9, <1>10, <1>11, <1>12

\* What commits is about somebody else: a signup about a new user, an upgrade
\* about one who is no recruiter and has asked for it.
LEMMA LockedCommit ==
    ASSUME Consistent, NEW u \in Users, LockedOut(u), NEW h \in Handlers, Commit(h)
    PROVE  LockedOut(u)' /\ NoNewToken(u)
  <1> DEFINE q == req[h]
  <1>1. q # NoRequest /\ q \in Requests /\ Hopeless(q, u)
    BY CommitRows, LockedRequests
  <1>2. q.user # u
    <2>1. CASE q.op = "signup"
      BY <2>1, CommitRows DEF NewRow, LockedOut
    <2>2. CASE q.op = "upgrade"
      <3>1. q.role = "RECRUITER" /\ q.role \notin users[q.user].roles
        BY <2>2, CommitRows DEF Backed
      <3> QED
        BY <1>1, <2>2, <3>1 DEF Hopeless
    <2> QED
      BY <2>1, <2>2, CommitRows
  <1>3. users'[u] = users[u] /\ jar' = jar
    BY <1>2, CommitRows DEF Commit
  <1>4. \A g \in Handlers : req'[g].user = req[g].user /\ req'[g].op = req[g].op
    BY <1>1 DEF Commit, Requests, Consistent, TypeOK
  <1>5. \A g \in Handlers \ {h} : req'[g] = req[g]
    BY DEF Commit
  <1>6. \A g \in Handlers : req'[g].pc = "answer" => req'[g].user # u
    BY <1>2, <1>4, <1>5 DEF LockedOut
  <1>7. \A g \in Handlers : req'[g].pc # "none" /\ req'[g].op = "upgrade" =>
                               req'[g].user # u \/ "RECRUITER" \in users[u].roles
    BY <1>2, <1>4, <1>5 DEF LockedOut
  <1>8. LockedOut(u)'
    BY <1>3, <1>6, <1>7 DEF LockedOut, Exists, Dir!Exists
  <1> QED
    BY <1>3, <1>8 DEF NoNewToken

\* Steps that leave the tables alone and put a token of u in no jar.
LEMMA LockedJar ==
    ASSUME Consistent, NEW u \in Users, LockedOut(u), UNCHANGED <<users, profiles>>,
           \A g \in Handlers : req'[g] \in {req[g], NoRequest},
           NoNewToken(u)
    PROVE  LockedOut(u)'
  <1>1. \A g \in Handlers : req'[g].pc # "none" => req'[g] = req[g]
    BY DEF NoRequest
  <1>2. \A b \in Browsers : jar'[b].access \in {jar[b].access, NoClaims} \/ jar'[b].access.user # u
    BY DEF NoNewToken
  <1>3. \A g \in Handlers : req'[g].pc = "answer" => req'[g].user # u
    BY <1>1 DEF LockedOut
  <1>4. \/ "RECRUITER" \in users[u].roles
        \/ /\ \A g \in Handlers : req'[g].pc # "none" /\ req'[g].op = "upgrade" => req'[g].user # u
           /\ \A b \in Browsers :
                 jar'[b].access # NoClaims /\ "JOB_SEEKER" \in jar'[b].access.roles
                     => jar'[b].access.user # u
    BY <1>1, <1>2 DEF LockedOut
  <1> QED
    BY <1>3, <1>4 DEF LockedOut, Exists, Dir!Exists

LEMMA LockedAnswer ==
    ASSUME Consistent, NEW u \in Users, LockedOut(u), NEW h \in Handlers, Answer(h)
    PROVE  LockedOut(u)' /\ NoNewToken(u)
  <1>1. req[h].user # u
    BY DEF LockedOut, Answer
  <1>2. PICK c : c = [user |-> req[h].user, roles |-> req[h].roles]
    OBVIOUS
  <1>3. jar' = [jar EXCEPT ![req[h].browser] = [access |-> c, refresh |-> c]] /\ c.user # u
    BY <1>1, <1>2 DEF Answer
  <1>4. \A b \in Browsers : jar'[b] = jar[b] \/ (jar'[b].access = c /\ jar'[b].refresh = c)
    BY <1>3 DEF Consistent, TypeOK
  <1>5. NoNewToken(u)
    BY <1>3, <1>4 DEF NoNewToken
  <1>6. \A g \in Handlers : req'[g] \in {req[g], NoRequest}
    BY DEF Answer, Consistent, TypeOK
  <1> QED
    BY <1>5, <1>6, LockedJar DEF Answer

LEMMA LockedCookies ==
    ASSUME Consistent, NEW u \in Users, LockedOut(u), NEW b \in Browsers,
           Logout(b) \/ CookieExpires(b)
    PROVE  LockedOut(u)' /\ NoNewToken(u)
  <1>1. \A x \in Browsers : jar'[x] = jar[x] \/ x = b
    BY DEF Logout, CookieExpires, Consistent, TypeOK
  <1>2. jar[b] = [access |-> jar[b].access, refresh |-> jar[b].refresh]
    BY DEF Consistent, TypeOK
  <1>3. /\ jar'[b].access \in {jar[b].access, NoClaims}
        /\ jar'[b].refresh \in {jar[b].refresh, NoClaims}
    BY <1>2 DEF Logout, CookieExpires, NoCookies, Consistent, TypeOK
  <1>4. NoNewToken(u)
    BY <1>1, <1>3 DEF NoNewToken
  <1> QED
    BY <1>4, LockedJar DEF Logout, CookieExpires

\* Somebody else: u is inactive already.
LEMMA LockedDeactivate ==
    ASSUME Consistent, NEW u \in Users, LockedOut(u), NEW v \in Users, Deactivate(v)
    PROVE  LockedOut(u)' /\ NoNewToken(u)
  <1>1. v # u
    BY DEF Deactivate, LockedOut
  <1>2. users'[u] = users[u] /\ jar' = jar /\ req' = req
    BY <1>1 DEF Deactivate, Dir!Deactivate, Consistent, TypeOK
  <1> QED
    BY <1>2 DEF LockedOut, NoNewToken, Exists, Dir!Exists

\* A deactivated user gets new tokens by an upgrade that a cookie or a request
\* still allows, and by nothing else: once that is over he is locked out for
\* good, however many refreshes, logins and upgrades race.
THEOREM LockedOutStaysOut == Spec => LockedOutForGood
  <1>1. Consistent /\ [Next]_vars
           => [\A u \in Users : LockedOut(u) => LockedOut(u)' /\ NoNewToken(u)]_vars
    <2> SUFFICES ASSUME Consistent, Next, NEW u \in Users, LockedOut(u)
                 PROVE  LockedOut(u)' /\ NoNewToken(u)
      OBVIOUS
    <2>1. ASSUME NEW h \in Handlers, Statement(h)
          PROVE  LockedOut(u)' /\ NoNewToken(u)
      BY <2>1, LockedStatement, LockedCommit, LockedAnswer DEF Statement
    <2>2. ASSUME NEW h \in Handlers, Request(h) \/ Cut(h)
          PROVE  LockedOut(u)' /\ NoNewToken(u)
      BY <2>2, LockedRequest, LockedGiveUp DEF Cut
    <2> QED
      BY <2>1, <2>2, LockedCookies, LockedDeactivate DEF Next
  <1> QED
    BY <1>1, ConsistentAccounts, PTL DEF Spec, LockedOutForGood

-----------------------------------------------------------------------------
(* The directory by itself.                                                *)

DirectoryTypes ==
    /\ users \in [Users -> Dir!UserRow \cup {Dir!NoUser}]
    /\ profiles \in [Users -> [Dir!Roles -> Nat]]

DirectoryKeeps == DirectoryTypes /\ Dir!EmailsUnique /\ Dir!ProfilesMatchRoles

\* A step gives one user a row that keeps his address or takes a free one, and
\* one profile for each role that is new in it.
LEMMA RowStep ==
    ASSUME DirectoryKeeps, NEW u \in Users, NEW row \in Dir!UserRow,
           users' = [users EXCEPT ![u] = row],
           (Dir!Exists(u) /\ row.email = users[u].email) \/ ~Dir!EmailTaken(row.email),
           profiles' \in [Users -> [Dir!Roles -> Nat]],
           \A v \in Users \ {u} : profiles'[v] = profiles[v],
           \A x \in Dir!Roles : profiles'[u][x] = IF x \in row.roles THEN 1 ELSE 0
    PROVE  DirectoryKeeps'
  <1>1. users'[u] = row /\ \A v \in Users \ {u} : users'[v] = users[v]
    BY DEF DirectoryKeeps, DirectoryTypes
  <1>2. DirectoryTypes'
    BY DEF DirectoryKeeps, DirectoryTypes
  <1>3. \A v \in Users \ {u} : users[v] # Dir!NoUser => users[v].email # row.email
    BY DEF DirectoryKeeps, Dir!EmailsUnique, Dir!EmailTaken, Dir!Exists
  <1>4. Dir!EmailsUnique'
    BY <1>1, <1>3 DEF DirectoryKeeps, Dir!EmailsUnique, Dir!Exists
  <1>5. Dir!ProfilesMatchRoles'
    BY <1>1 DEF DirectoryKeeps, Dir!ProfilesMatchRoles
  <1> QED
    BY <1>2, <1>4, <1>5 DEF DirectoryKeeps

\* Whatever implements the directory has one account for an address and the
\* profiles of the roles.
THEOREM DirectoryKeepsItsPromises ==
    Dir!DirectorySpec => [](Dir!EmailsUnique /\ Dir!ProfilesMatchRoles)
  <1>1. Dir!DirectoryInit => DirectoryKeeps
    BY DEF Dir!DirectoryInit, DirectoryKeeps, DirectoryTypes, Dir!EmailsUnique,
           Dir!ProfilesMatchRoles, Dir!Exists, Dir!NoUser
  <1>2. DirectoryKeeps /\ [Dir!DirectoryNext]_(Dir!directory) => DirectoryKeeps'
    <2> SUFFICES ASSUME DirectoryKeeps, [Dir!DirectoryNext]_(Dir!directory)
                 PROVE  DirectoryKeeps'
      OBVIOUS
    <2>1. ASSUME NEW u \in Users, NEW e \in Emails, NEW x \in Dir!Roles, Dir!SignUp(u, e, x)
          PROVE  DirectoryKeeps'
      <3>1. PICK row : /\ row = [email |-> e, roles |-> {x}, active |-> TRUE]
                       /\ users' = [users EXCEPT ![u] = row]
        BY <2>1 DEF Dir!SignUp
      <3>2. row \in Dir!UserRow /\ row.email = e /\ row.roles = {x}
        BY <3>1 DEF Dir!UserRow
      <3>3. users[u].roles = {}
        BY <2>1 DEF Dir!SignUp, Dir!Exists, Dir!NoUser
      <3>4. \A y \in Dir!Roles : profiles[u][y] = 0
        BY <3>3 DEF DirectoryKeeps, Dir!ProfilesMatchRoles
      <3>5. /\ profiles' \in [Users -> [Dir!Roles -> Nat]]
            /\ \A v \in Users \ {u} : profiles'[v] = profiles[v]
            /\ \A y \in Dir!Roles : profiles'[u][y] = IF y \in row.roles THEN 1 ELSE 0
        BY <2>1, <3>2, <3>4
        DEF Dir!SignUp, Dir!WithProfile, DirectoryKeeps, DirectoryTypes
      <3>6. ~Dir!EmailTaken(row.email)
        BY <2>1, <3>2 DEF Dir!SignUp
      <3> QED
        BY <3>1, <3>2, <3>5, <3>6, RowStep
    <2>2. ASSUME NEW u \in Users, NEW x \in Dir!Roles, Dir!GainRole(u, x)
          PROVE  DirectoryKeeps'
      <3>1. users[u] \in Dir!UserRow
        BY <2>2 DEF Dir!GainRole, Dir!Exists, DirectoryKeeps, DirectoryTypes
      <3>2. PICK row : /\ row = [email |-> users[u].email, roles |-> users[u].roles \cup {x},
                                 active |-> users[u].active]
                       /\ users' = [users EXCEPT ![u] = row]
        BY <2>2 DEF Dir!GainRole
      <3>3. row \in Dir!UserRow /\ row.email = users[u].email /\ row.roles = users[u].roles \cup {x}
        BY <3>1, <3>2 DEF Dir!UserRow
      <3>4. \A y \in Dir!Roles : profiles[u][y] = IF y \in users[u].roles THEN 1 ELSE 0
        BY DEF DirectoryKeeps, Dir!ProfilesMatchRoles
      <3>5. /\ profiles' \in [Users -> [Dir!Roles -> Nat]]
            /\ \A v \in Users \ {u} : profiles'[v] = profiles[v]
            /\ \A y \in Dir!Roles : profiles'[u][y] = IF y \in row.roles THEN 1 ELSE 0
        BY <2>2, <3>3, <3>4
        DEF Dir!GainRole, Dir!WithProfile, DirectoryKeeps, DirectoryTypes
      <3>6. Dir!Exists(u)
        BY <2>2 DEF Dir!GainRole
      <3> QED
        BY <3>2, <3>3, <3>5, <3>6, RowStep
    <2>3. ASSUME NEW u \in Users, Dir!Deactivate(u)
          PROVE  DirectoryKeeps'
      <3>1. users[u] \in Dir!UserRow
        BY <2>3 DEF Dir!Deactivate, Dir!Exists, DirectoryKeeps, DirectoryTypes
      <3>2. PICK row : /\ row = [email |-> users[u].email, roles |-> users[u].roles,
                                 active |-> FALSE]
                       /\ users' = [users EXCEPT ![u] = row]
        BY <2>3 DEF Dir!Deactivate
      <3>3. row \in Dir!UserRow /\ row.email = users[u].email /\ row.roles = users[u].roles
        BY <3>1, <3>2 DEF Dir!UserRow
      <3>4. /\ profiles' \in [Users -> [Dir!Roles -> Nat]]
            /\ \A v \in Users \ {u} : profiles'[v] = profiles[v]
            /\ \A y \in Dir!Roles : profiles'[u][y] = IF y \in row.roles THEN 1 ELSE 0
        BY <2>3, <3>3
        DEF Dir!Deactivate, DirectoryKeeps, DirectoryTypes, Dir!ProfilesMatchRoles
      <3>5. Dir!Exists(u)
        BY <2>3 DEF Dir!Deactivate
      <3> QED
        BY <3>2, <3>3, <3>4, <3>5, RowStep
    <2>4. CASE UNCHANGED Dir!directory
      BY <2>4 DEF Dir!directory, DirectoryKeeps, DirectoryTypes, Dir!EmailsUnique,
                  Dir!ProfilesMatchRoles, Dir!Exists
    <2> QED
      BY <2>1, <2>2, <2>3, <2>4 DEF Dir!DirectoryNext
  <1>3. DirectoryKeeps => Dir!EmailsUnique /\ Dir!ProfilesMatchRoles
    BY DEF DirectoryKeeps
  <1> QED
    BY <1>1, <1>2, <1>3, PTL DEF Dir!DirectorySpec
=============================================================================
