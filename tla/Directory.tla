------------------------------ MODULE Directory ------------------------------
(***************************************************************************)
(* What the account service promises, free of transactions, cookies and    *)
(* concurrent requests: a user appears together with the profile that goes *)
(* with the first role, and gains a role together with its profile.        *)
(* Accounts implements it; the tables are users, job_seeker_profiles and   *)
(* recruiter_profiles of internal/db/migrations.                           *)
(***************************************************************************)
EXTENDS Naturals

CONSTANTS Users, Emails

VARIABLES
    users,     \* users[u]: the committed row of a user
    profiles   \* profiles[u][r]: how many profile rows user u has for role r

directory == <<users, profiles>>

Roles == {"JOB_SEEKER", "RECRUITER"}

NoUser == [roles |-> {}]
UserRow == [email : Emails, roles : SUBSET Roles, active : BOOLEAN]

Exists(u) == users[u] # NoUser

EmailTaken(e) == \E u \in Users : Exists(u) /\ users[u].email = e

WithProfile(u, r) ==
    profiles' = [profiles EXCEPT ![u] = [profiles[u] EXCEPT ![r] = profiles[u][r] + 1]]

DirectoryInit ==
    /\ users = [u \in Users |-> NoUser]
    /\ profiles = [u \in Users |-> [r \in Roles |-> 0]]

SignUp(u, e, r) ==
    /\ ~Exists(u)
    /\ ~EmailTaken(e)
    /\ users' = [users EXCEPT ![u] = [email |-> e, roles |-> {r}, active |-> TRUE]]
    /\ WithProfile(u, r)

GainRole(u, r) ==
    /\ Exists(u)
    /\ r \notin users[u].roles
    /\ users' = [users EXCEPT ![u] =
                    [email |-> users[u].email, roles |-> users[u].roles \cup {r},
                     active |-> users[u].active]]
    /\ WithProfile(u, r)

Deactivate(u) ==
    /\ Exists(u)
    /\ users' = [users EXCEPT ![u] =
                    [email |-> users[u].email, roles |-> users[u].roles,
                     active |-> FALSE]]
    /\ UNCHANGED profiles

DirectoryNext ==
    \E u \in Users :
        \/ \E e \in Emails, r \in Roles : SignUp(u, e, r)
        \/ \E r \in Roles : GainRole(u, r)
        \/ Deactivate(u)

DirectorySpec == DirectoryInit /\ [][DirectoryNext]_directory

-----------------------------------------------------------------------------
(* What a reader of the directory can rely on.                             *)

\* An email names one account.
EmailsUnique ==
    \A u, v \in Users : Exists(u) /\ Exists(v) /\ users[u].email = users[v].email => u = v

\* A user has one profile for each role, and none for the others: the
\* look-ups by which every other service finds the caller's profile id
\* succeed exactly for the callers whose role allows the request.
ProfilesMatchRoles ==
    \A u \in Users, r \in Roles :
        profiles[u][r] = IF r \in users[u].roles THEN 1 ELSE 0
=============================================================================
