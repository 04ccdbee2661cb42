-------------------------------- MODULE Board --------------------------------
(***************************************************************************)
(* What the job board promises, free of queues, workers and statements:    *)
(* every operation of a seeker, a recruiter or the operator takes effect   *)
(* on the three tables at once.  SeekerTasks and Requests implement it:    *)
(* the tables jobs, applications and saved_jobs (internal/db/migrations)   *)
(* are the same here, and everything between a request and its effect is   *)
(* hidden.                                                                 *)
(***************************************************************************)
CONSTANTS
    Seekers, Jobs, Statuses,
    AppIds,     \* identities of application rows
    OnePerJob,  \* does the board promise one application per seeker and job?
    MayClear    \* may the operator start afresh?

VARIABLES jobs, apps, saved

boardVars == <<jobs, apps, saved>>

JobStates == {"unposted", "active", "inactive", "deleted"}

Applications ==
    [id : AppIds, job : Jobs, seeker : Seekers, status : Statuses]

\* The row of job j is in the table.
JobExists(j) == jobs[j] \in {"active", "inactive"}

HasApplied(s, j) == \E a \in apps : a.seeker = s /\ a.job = j

BoardInit ==
    /\ jobs = [j \in Jobs |-> "unposted"]
    /\ apps = {}
    /\ saved = {}

Post(j) ==
    /\ jobs[j] = "unposted"
    /\ jobs' = [jobs EXCEPT ![j] = "active"]
    /\ UNCHANGED <<apps, saved>>

Close(j) ==
    /\ jobs[j] = "active"
    /\ jobs' = [jobs EXCEPT ![j] = "inactive"]
    /\ UNCHANGED <<apps, saved>>

\* A job takes its applications and bookmarks with it.
Delete(j) ==
    /\ JobExists(j)
    /\ jobs' = [jobs EXCEPT ![j] = "deleted"]
    /\ apps' = {a \in apps : a.job # j}
    /\ saved' = {b \in saved : b[2] # j}

\* A new application starts as "submitted", for a job on the board, under an
\* identity no other row has.
Apply(s, j) ==
    /\ JobExists(j)
    /\ OnePerJob => ~HasApplied(s, j)
    /\ \E i \in AppIds :
          /\ \A a \in apps : a.id # i
          /\ apps' = apps \cup
                {[id |-> i, job |-> j, seeker |-> s, status |-> "submitted"]}
    /\ UNCHANGED <<jobs, saved>>

Withdraw(a) ==
    /\ apps' = apps \ {a}
    /\ UNCHANGED <<jobs, saved>>

\* Only the status of a row can change, never its job or its seeker.
Decide(a, st) ==
    /\ apps' = (apps \ {a}) \cup {[a EXCEPT !.status = st]}
    /\ UNCHANGED <<jobs, saved>>

Save(s, j) ==
    /\ JobExists(j)
    /\ saved' = saved \cup {<<s, j>>}
    /\ UNCHANGED <<jobs, apps>>

Unsave(s, j) ==
    /\ saved' = saved \ {<<s, j>>}
    /\ UNCHANGED <<jobs, apps>>

\* The operator starts afresh: cmd/seed removes rows by the table, and with a
\* job all that hangs on it.
Clear ==
    /\ MayClear
    /\ \E js \in SUBSET Jobs :
          /\ jobs' = [j \in Jobs |->
                        IF j \in js /\ JobExists(j) THEN "deleted" ELSE jobs[j]]
          /\ apps' \in SUBSET {a \in apps : a.job \notin js}
          /\ saved' \in SUBSET {b \in saved : b[2] \notin js}

BoardNext ==
    \/ Clear
    \/ \E j \in Jobs : Post(j) \/ Close(j) \/ Delete(j)
    \/ \E s \in Seekers, j \in Jobs : Apply(s, j) \/ Save(s, j) \/ Unsave(s, j)
    \/ \E a \in apps : Withdraw(a) \/ \E st \in Statuses : Decide(a, st)

BoardSpec == BoardInit /\ [][BoardNext]_boardVars

-----------------------------------------------------------------------------
(* What a reader of the board can rely on.                                 *)

\* No seeker has two live applications to one job.
OneApplicationEach ==
    \A a, b \in apps : a.seeker = b.seeker /\ a.job = b.job => a = b

\* Applications and bookmarks point at jobs that are still on the board, so
\* the inner joins of the listing queries drop no row.
NoOrphans ==
    /\ \A a \in apps : JobExists(a.job)
    /\ \A b \in saved : JobExists(b[2])

\* Row identities are unique.
IdsUnique == \A a, b \in apps : a.id = b.id => a = b
=============================================================================
