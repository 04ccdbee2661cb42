------------------------------ MODULE Requests ------------------------------
(***************************************************************************)
(* Requests that are answered by the handler itself, not by a worker:      *)
(* recruiters post, edit and delete jobs, look at applications and decide  *)
(* on them; seekers withdraw and unsave; everybody reads a job, lists what *)
(* is theirs, and has a profile.  Each runs a handful of SQL statements,   *)
(* none in a transaction, interleaved with other requests, with the        *)
(* workers' INSERTs and with cmd/seed, and is then answered a status code: *)
(* WriteError classifies what the services return.                         *)
(*                                                                         *)
(* An action is one statement and the code around it.  SeekerTasks has the *)
(* writes of these requests beside the workers' in detail; here are their  *)
(* answers, the columns that an edit sets, and profiles that vanish.       *)
(***************************************************************************)
EXTENDS Naturals

CONSTANTS
    Seekers, Recruiters,
    Jobs,         \* ids of jobs
    JobOwner,     \* JobOwner[j]: the recruiter who posts job j
    AppIds,       \* ids of rows of applications
    Fields,       \* the columns of jobs that UpdateJobRequest can set
    Statuses,     \* values of the enum application_status
    Handlers,     \* requests that can be in progress at once
    MaxDbErrors   \* bound: how many statements fail for reasons of their own

ASSUME RequestsAssumption ==
    /\ Recruiters # {}
    /\ Seekers \cap Recruiters = {}    \* an upgraded user counts as two, one a role
    /\ JobOwner \in [Jobs -> Recruiters]
    /\ "submitted" \in Statuses
    /\ MaxDbErrors \in Nat

VARIABLES
    profiles,           \* users whose row in the table of profiles exists
    jobs, apps, saved,  \* the tables, see Board
    field,              \* field[j][f]: which request has set column f of job j
    sent,               \* ids of applications that have ever been inserted
    req,                \* req[h]: a request in progress, or its answer
    dbErrs

boardTables == <<jobs, apps, saved>>
tables == <<profiles, boardTables, field, sent>>
vars == <<tables, req, dbErrs>>

\* The tables alone.  Nothing here keeps a seeker from applying twice.
Board == INSTANCE Board WITH
    jobs <- jobs, apps <- apps, saved <- saved,
    OnePerJob <- FALSE, MayClear <- TRUE

-----------------------------------------------------------------------------
(* Requests and their routes.                                              *)

Users == Seekers \cup Recruiters

\* An id in a path that is no UUID, so that PostgreSQL refuses the query.
NotAnId == "notAnId"

\* The content of a column since CreateJob.
AsPosted == "asPosted"

JobRoutes == {"update", "delete", "applicants"}
AppRoutes == {"status", "withdraw"}
ProfileRoutes == {"getProfile", "patchProfile"}
RecruiterRoutes == JobRoutes \cup {"create", "status", "listOwn"} \cup ProfileRoutes
SeekerRoutes == {"withdraw", "unsave", "listOwn"} \cup ProfileRoutes
BodyRoutes == {"create", "update", "status", "patchProfile"}
Routes == RecruiterRoutes \cup SeekerRoutes \cup {"get"}

Request ==
    [op     : Routes,
     user   : Users,
     target : Jobs \cup AppIds \cup {NotAnId},   \* the id in the path
     body   : {"valid", "unstorable", "invalid", "malformed"},
     sets   : SUBSET Fields,                     \* what UpdateJobRequest supplies
     status : Statuses,
     pc     : {"start", "owner", "write", "read"},
     wrote  : BOOLEAN]                           \* has it changed a row?

Codes == {200, 201, 400, 401, 403, 404, 409, 500}
Answer == [pc : {"answered"}, code : Codes]
NoRequest == [pc |-> "none"]

TypeOK ==
    /\ profiles \subseteq Users
    /\ jobs \in [Jobs -> {"unposted", "active", "deleted"}]
    /\ apps \subseteq Board!Applications
    /\ saved \subseteq Seekers \X Jobs
    /\ field \in [Jobs -> [Fields -> Handlers \cup {AsPosted}]]
    /\ sent \subseteq AppIds
    /\ req \in [Handlers -> Request \cup Answer \cup {NoRequest}]
    /\ dbErrs \in 0 .. MaxDbErrors

Init ==
    /\ profiles = Users
    /\ Board!BoardInit
    /\ field = [j \in Jobs |-> [f \in Fields |-> AsPosted]]
    /\ sent = {}
    /\ req = [h \in Handlers |-> NoRequest]
    /\ dbErrs = 0

\* The id in the path names a row that is there.
JobThere(i) == i \in Jobs /\ Board!JobExists(i)
AppThere(i) == \E a \in apps : a.id = i
There(op, i) == IF op \in AppRoutes THEN AppThere(i) ELSE JobThere(i)

\* Whose row it is, for the comparison with the caller's profile id.
Owns(u, op, i) ==
    CASE op \in JobRoutes  -> JobOwner[i] = u
      [] op = "status"     -> \E a \in apps : a.id = i /\ JobOwner[a.job] = u
      [] op = "withdraw"   -> \E a \in apps : a.id = i /\ a.seeker = u

-----------------------------------------------------------------------------
(* Errors and answers.                                                     *)

AppError(code) == [kind |-> "app", code |-> code]
Other(kind) == [kind |-> kind]

\* WriteError's classification.  Of the errors of these requests, those that
\* are neither an AppError nor the validator's end as 500.
classifyError(err) ==
    CASE err.kind = "app"              -> err.code
      [] err.kind = "uniqueViolation" -> 409
      [] err.kind = "jwt"              -> 401
      [] err.kind = "validator"        -> 400
      [] OTHER                         -> 500

Says(h, code) == req' = [req EXCEPT ![h] = [pc |-> "answered", code |-> code]]

Fails(h, err) == Says(h, classifyError(err))

Goto(h, pc) == req' = [req EXCEPT ![h].pc = pc]

DbError ==
    /\ dbErrs < MaxDbErrors
    /\ dbErrs' = dbErrs + 1

\* The statement fails for a reason of its own: the database or the client is
\* gone, 30 seconds are over (chiMiddleware.Timeout), or PostgreSQL has to
\* end a deadlock.
Broken(h, err) ==
    /\ DbError
    /\ Fails(h, err)
    /\ UNCHANGED tables

-----------------------------------------------------------------------------
(* The request arrives, with a token of the role that its route asks for.  *)
(* The profile may be gone: tokens outlive it.  Clients know the ids of    *)
(* rows that are or were there.                                            *)

Callers(op) ==
    IF op = "get" THEN {CHOOSE u \in Users : TRUE}
    ELSE {u \in Users : \/ u \in Recruiters /\ op \in RecruiterRoutes
                        \/ u \in Seekers /\ op \in SeekerRoutes}

Targets(op) ==
    {NotAnId} \cup
    IF op \in AppRoutes THEN sent
    ELSE IF op \in JobRoutes \cup {"unsave", "get"}
         THEN {j \in Jobs : jobs[j] # "unposted"}
         ELSE {}

\* A request whose body DecodeAndValidate will accept; a route without a body
\* counts as one.  The free text of a body may still be unstorable: it has a
\* U+0000, which is no character of a TEXT, or a category that is too long for
\* idx_jobs_is_active_category.
AcceptedBodies == {"valid", "unstorable"}
TextRoutes == BodyRoutes \ {"status"}

ValidRequests(op) ==
    {r \in [op     : {op},
            user   : Callers(op),
            target : Targets(op),
            body   : IF op \in TextRoutes THEN AcceptedBodies ELSE {"valid"},
            sets   : IF op = "update" THEN SUBSET Fields ELSE {{}},
            status : IF op = "status" THEN Statuses ELSE {"submitted"},
            pc     : {"start"},
            wrote  : {FALSE}] :
        r.op = "update" /\ r.sets = {} => r.body = "valid"}

\* A request whose body is turned down, whatever else it says.
InvalidRequests(op) ==
    [op : {op}, user : Callers(op), target : {NotAnId},
     body : {"invalid", "malformed"}, sets : {{}}, status : {"submitted"},
     pc : {"start"}, wrote : {FALSE}]

Arrive(h) ==
    /\ req[h].pc \in {"none", "answered"}
    /\ \/ \E op \in Routes : \E r \in ValidRequests(op) : req' = [req EXCEPT ![h] = r]
       \/ \E op \in BodyRoutes : \E r \in InvalidRequests(op) : req' = [req EXCEPT ![h] = r]
    /\ UNCHANGED <<tables, dbErrs>>

\* DecodeAndValidate passes on what the JSON decoder says; the handlers hand
\* that to WriteError as it is.
RejectBody(h) ==
    /\ req[h].pc = "start"
    /\ req[h].body \notin AcceptedBodies
    /\ Fails(h, Other(IF req[h].body = "malformed" THEN "json" ELSE "validator"))
    /\ UNCHANGED <<tables, dbErrs>>

At(h, pc, ops) ==
    /\ req[h].pc = pc
    /\ req[h].op \in ops
    /\ req[h].body \in AcceptedBodies

\* Mutant: whoever calls is looked for among the job seekers.
FindSeekerProfile(h) ==
    /\ At(h, "start", Routes \ (ProfileRoutes \cup {"get"}))
    /\ IF req[h].user \in profiles \cap Seekers
       THEN Goto(h, CASE req[h].op \in JobRoutes \cup AppRoutes -> "owner"
                      [] req[h].op \in {"create", "unsave"}      -> "write"
                      [] req[h].op = "listOwn"                   -> "read")
       ELSE Fails(h, AppError(404))
    /\ UNCHANGED <<tables, dbErrs>>

\* getRecruiterProfileID, getRecruiterID, getJobSeekerID: any error is a 404.
FindProfile(h) ==
    /\ At(h, "start", Routes \ (ProfileRoutes \cup {"get"}))
    /\ \/ /\ IF req[h].user \in profiles
             THEN Goto(h, CASE req[h].op \in JobRoutes \cup AppRoutes -> "owner"
                            [] req[h].op \in {"create", "unsave"}      -> "write"
                            [] req[h].op = "listOwn"                   -> "read")
             ELSE Fails(h, AppError(404))
          /\ UNCHANGED <<tables, dbErrs>>
       \/ Broken(h, AppError(404))

\* The SELECT of the owner, before a write or a listing of applicants.  An
\* UpdateJob that supplies no column goes on to the answer.
CheckOwner(h) ==
    /\ At(h, "owner", JobRoutes \cup AppRoutes)
    /\ \/ /\ IF ~There(req[h].op, req[h].target) THEN Fails(h, AppError(404))
             ELSE IF ~Owns(req[h].user, req[h].op, req[h].target)
             THEN Fails(h, AppError(403))
             ELSE Goto(h, IF \/ req[h].op = "applicants"
                             \/ req[h].op = "update" /\ req[h].sets = {}
                          THEN "read" ELSE "write")
          /\ UNCHANGED <<tables, dbErrs>>
       \/ Broken(h, AppError(404))

-----------------------------------------------------------------------------
(* The writes.  One that fails may have taken effect all the same, with    *)
(* its answer lost; the request then ends as 500.                          *)

\* The write is done: on to the fetch of the row for the answer.
Written(h, changed) ==
    req' = [req EXCEPT ![h].pc = "read", ![h].wrote = changed]

Storable(h) == req[h].body = "valid"

\* PostgreSQL refuses the text of the body, and the service returns what it says.
DataRefused(h) ==
    /\ ~Storable(h)
    /\ Fails(h, Other("data"))
    /\ UNCHANGED <<tables, dbErrs>>

\* CreateJob: INSERT ... RETURNING id.  The foreign key turns it down when
\* the profile has gone since it was looked up.
InsertJob(h, j) ==
    /\ Storable(h)
    /\ jobs[j] = "unposted"
    /\ JobOwner[j] = req[h].user
    /\ req[h].user \in profiles
    /\ jobs' = [jobs EXCEPT ![j] = "active"]
    /\ UNCHANGED <<profiles, apps, saved, field, sent>>

CreateJob(h) ==
    /\ At(h, "write", {"create"})
    /\ \/ \E j \in Jobs :
             /\ InsertJob(h, j)
             /\ req' = [req EXCEPT ![h].pc = "read", ![h].wrote = TRUE, ![h].target = j]
             /\ UNCHANGED dbErrs
       \/ /\ req[h].user \notin profiles
          /\ Fails(h, Other("foreignKey"))
          /\ UNCHANGED <<tables, dbErrs>>
       \/ DataRefused(h)
       \/ /\ DbError
          /\ Fails(h, Other("db"))
          /\ UNCHANGED tables \/ \E j \in Jobs : InsertJob(h, j)

\* UPDATE jobs SET <the columns supplied> WHERE id = $1: no row, no effect.
SetColumns(h, columns) ==
    /\ field' = [j \in Jobs |-> [f \in Fields |->
                    IF j = req[h].target /\ JobThere(req[h].target) /\ f \in columns THEN h
                    ELSE field[j][f]]]
    /\ UNCHANGED <<profiles, boardTables, sent>>

\* Mutant: the row that the owner check has read is written back whole.
UpdateWholeRow(h) ==
    /\ At(h, "write", {"update"})
    /\ Storable(h)
    /\ SetColumns(h, Fields)
    /\ Written(h, JobThere(req[h].target))
    /\ UNCHANGED dbErrs

\* Without a row to change, a category too long for the index goes unnoticed.
UpdateJob(h) ==
    /\ At(h, "write", {"update"})
    /\ \/ /\ Storable(h) \/ ~JobThere(req[h].target)
          /\ SetColumns(h, req[h].sets)
          /\ Written(h, JobThere(req[h].target))
          /\ UNCHANGED dbErrs
       \/ DataRefused(h)
       \/ /\ DbError
          /\ Fails(h, Other("db"))
          /\ UNCHANGED tables \/ (Storable(h) /\ SetColumns(h, req[h].sets))

\* Mutant: saved_jobs has no ON DELETE CASCADE.
RemoveJobsOnly(js) ==
    /\ jobs' = [j \in Jobs |->
                  IF j \in js /\ Board!JobExists(j) THEN "deleted" ELSE jobs[j]]
    /\ apps' = {a \in apps : a.job \notin js}
    /\ UNCHANGED saved

\* DELETE FROM jobs WHERE id = $1, cascading.
RemoveJobs(js) ==
    /\ jobs' = [j \in Jobs |->
                  IF j \in js /\ Board!JobExists(j) THEN "deleted" ELSE jobs[j]]
    /\ apps' = {a \in apps : a.job \notin js}
    /\ saved' = {b \in saved : b[2] \notin js}

DeleteJob(h) ==
    /\ At(h, "write", {"delete"})
    /\ \/ RemoveJobs({req[h].target}) /\ Says(h, 200) /\ UNCHANGED dbErrs
       \/ /\ DbError
          /\ Fails(h, Other("db"))
          /\ UNCHANGED boardTables \/ RemoveJobs({req[h].target})
    /\ UNCHANGED <<profiles, field, sent>>

\* WithdrawApplication: DELETE FROM applications WHERE id = $1.
RemoveApplication(h) ==
    /\ apps' = {a \in apps : a.id # req[h].target}
    /\ UNCHANGED <<profiles, jobs, saved, field, sent>>

WithdrawApplication(h) ==
    /\ At(h, "write", {"withdraw"})
    /\ \/ RemoveApplication(h) /\ Says(h, 200) /\ UNCHANGED dbErrs
       \/ /\ DbError
          /\ Fails(h, Other("db"))
          /\ UNCHANGED tables \/ RemoveApplication(h)

\* UpdateApplicationStatus: UPDATE applications SET status WHERE id = $1.
SetStatus(h) ==
    /\ apps' = {IF a.id = req[h].target THEN [a EXCEPT !.status = req[h].status]
                ELSE a : a \in apps}
    /\ UNCHANGED <<profiles, jobs, saved, field, sent>>

\* Mutant: the answer is given without reading the row again.
UpdateStatusBlindly(h) ==
    /\ At(h, "write", {"status"})
    /\ SetStatus(h)
    /\ Says(h, 200)
    /\ UNCHANGED dbErrs

UpdateApplicationStatus(h) ==
    /\ At(h, "write", {"status"})
    /\ \/ SetStatus(h) /\ Written(h, AppThere(req[h].target)) /\ UNCHANGED dbErrs
       \/ /\ DbError
          /\ Fails(h, Other("db"))
          /\ UNCHANGED tables \/ SetStatus(h)

\* UnsaveJob: one DELETE by job and profile.  The id from the path has met no
\* query yet, and what PostgreSQL says of it is no AppError.
UnsaveJob(h) ==
    /\ At(h, "write", {"unsave"})
    /\ LET pair == <<req[h].user, req[h].target>> IN
       \/ /\ req[h].target = NotAnId
          /\ Fails(h, Other("syntax"))
          /\ UNCHANGED <<saved, dbErrs>>
       \/ /\ req[h].target # NotAnId
          /\ saved' = saved \ {pair}
          /\ IF pair \in saved THEN Says(h, 200) ELSE Fails(h, AppError(404))
          /\ UNCHANGED dbErrs
       \/ /\ DbError
          /\ Fails(h, Other("db"))
          /\ saved' = saved \/ saved' = saved \ {pair}
    /\ UNCHANGED <<profiles, jobs, apps, field, sent>>

-----------------------------------------------------------------------------
(* The reads that make up the answers.                                     *)

\* Mutant: the error of the row scan is returned as it is.
FetchJobRaw(h) ==
    /\ At(h, "start", {"get"}) \/ At(h, "read", {"create", "update"})
    /\ IF JobThere(req[h].target) THEN Says(h, IF req[h].op = "create" THEN 201 ELSE 200)
       ELSE Fails(h, Other("noRows"))
    /\ UNCHANGED <<tables, dbErrs>>

\* GetJobByID, for GET /api/jobs/:id and for the answers of CreateJob and
\* UpdateJob: any error is a 404.
FetchJob(h) ==
    /\ At(h, "start", {"get"}) \/ At(h, "read", {"create", "update"})
    /\ \/ /\ IF JobThere(req[h].target) THEN Says(h, IF req[h].op = "create" THEN 201 ELSE 200)
             ELSE Fails(h, AppError(404))
          /\ UNCHANGED <<tables, dbErrs>>
       \/ Broken(h, AppError(404))

\* The SELECT at the end of UpdateApplicationStatus: its error is passed on.
FetchApplication(h) ==
    /\ At(h, "read", {"status"})
    /\ \/ /\ IF AppThere(req[h].target) THEN Says(h, 200) ELSE Fails(h, Other("noRows"))
          /\ UNCHANGED <<tables, dbErrs>>
       \/ Broken(h, Other("db"))

\* GetApplicationsForJob, GetJobsByRecruiter, GetApplications, GetSavedJobs:
\* a result that breaks off after the first rows is answered as a whole one,
\* because rows.Err() is not looked at.
List(h) ==
    /\ At(h, "read", {"applicants", "listOwn"})
    /\ \/ Says(h, 200) /\ UNCHANGED dbErrs
       \/ DbError /\ (Says(h, 200) \/ Fails(h, Other("db")))
    /\ UNCHANGED tables

-----------------------------------------------------------------------------
(* Profiles.                                                               *)

SeekerColumns ==
    {"id", "user_id", "bio", "location", "skills", "education", "experience",
     "resume_url"}
RecruiterColumns ==
    {"id", "user_id", "company_name", "company_website", "description", "industry"}

\* The columns of the table that holds the profile of u.
ProfileColumns(u) == IF u \in Seekers THEN SeekerColumns ELSE RecruiterColumns

\* The columns that the UPDATE ... RETURNING of a profile names.
PatchedColumns(u) == ProfileColumns(u) \cup {"created_at", "updated_at"}

\* The times in the answer are those of the row in users: no such problem.
GetProfile(h) ==
    /\ At(h, "start", {"getProfile"})
    /\ \/ /\ IF req[h].user \in profiles THEN Says(h, 200) ELSE Fails(h, AppError(404))
          /\ UNCHANGED <<tables, dbErrs>>
       \/ Broken(h, AppError(404))

\* UpdateJobSeekerProfile, UpdateRecruiterProfile: any error is a 404, and a
\* column that the table does not have is an error, like unstorable text.
PatchProfile(h) ==
    /\ At(h, "start", {"patchProfile"})
    /\ LET u == req[h].user IN
       \/ /\ IF u \in profiles /\ Storable(h) /\ PatchedColumns(u) \subseteq ProfileColumns(u)
             THEN Says(h, 200) ELSE Fails(h, AppError(404))
          /\ UNCHANGED <<tables, dbErrs>>
       \/ Broken(h, AppError(404))

-----------------------------------------------------------------------------
(* What else writes to these tables.                                       *)

\* A worker's INSERT of an application, or of a saved job: see SeekerTasks.
WorkerInserts(s, j) ==
    /\ s \in profiles
    /\ Board!JobExists(j)
    /\ \/ /\ \E i \in AppIds \ sent :
                /\ sent' = sent \cup {i}
                /\ apps' = apps \cup
                      {[id |-> i, job |-> j, seeker |-> s, status |-> "submitted"]}
          /\ UNCHANGED saved
       \/ saved' = saved \cup {<<s, j>>} /\ UNCHANGED <<apps, sent>>
    /\ UNCHANGED <<profiles, jobs, field, req, dbErrs>>

\* A profile takes along the jobs, applications and saved jobs that refer to it.
RemoveProfiles(us) ==
    /\ profiles' = profiles \ us
    /\ jobs' = [j \in Jobs |->
                  IF JobOwner[j] \in us /\ Board!JobExists(j) THEN "deleted" ELSE jobs[j]]
    /\ apps' = {a \in apps : a.seeker \notin us /\ JobOwner[a.job] \notin us}
    /\ saved' = {b \in saved : b[1] \notin us /\ JobOwner[b[2]] \notin us}

\* cmd/seed, run against the live database: DELETE FROM, table by table, each
\* statement for itself.  Since one that fails is only a warning, and there
\* can be another run, any of the six may be next.  A row that was added
\* after the statement had begun stays; profiles and users are not added here.
\* The accounts and the job that the seeder then inserts are none of these.
SeederDeletes ==
    /\ \/ saved' \in SUBSET saved /\ UNCHANGED <<profiles, jobs, apps>>
       \/ apps' \in SUBSET apps /\ UNCHANGED <<profiles, jobs, saved>>
       \/ \E js \in SUBSET Jobs : RemoveJobs(js) /\ UNCHANGED profiles
       \/ \E us \in {Seekers, Recruiters, Users} : RemoveProfiles(us)
    /\ UNCHANGED <<field, sent, req, dbErrs>>

-----------------------------------------------------------------------------
Step(h) ==
    \/ RejectBody(h)
    \/ FindProfile(h)
    \/ CheckOwner(h)
    \/ CreateJob(h)
    \/ UpdateJob(h)
    \/ DeleteJob(h)
    \/ WithdrawApplication(h)
    \/ UpdateApplicationStatus(h)
    \/ UnsaveJob(h)
    \/ FetchJob(h)
    \/ FetchApplication(h)
    \/ List(h)
    \/ GetProfile(h)
    \/ PatchProfile(h)

Next ==
    \/ \E h \in Handlers : Arrive(h) \/ Step(h)
    \/ \E s \in Seekers, j \in Jobs : WorkerInserts(s, j)
    \/ SeederDeletes

Spec == Init /\ [][Next]_vars

-----------------------------------------------------------------------------
(* Properties.                                                             *)

\* This step answers request h with the code; no statement of it has failed
\* for reasons of its own.
Answers(h, code) ==
    /\ req[h].pc \notin {"none", "answered"}
    /\ req'[h] = [pc |-> "answered", code |-> code]
Cleanly(h, code) == Answers(h, code) /\ dbErrs' = dbErrs

\* UpdateJob "applies partial field updates to a job, enforcing recruiter
\* ownership": whatever runs between its three statements, a column of a job
\* changes only by a request of the owner that supplies this column, so that
\* of two edits of different columns at once neither undoes the other.
Edits ==
    \A j \in Jobs, f \in Fields : field'[j][f] # field[j][f] =>
        \E h \in Handlers :
            /\ field'[j][f] = h
            /\ req[h].pc = "write" /\ req[h].op = "update" /\ req[h].target = j
            /\ f \in req[h].sets /\ req[h].user = JobOwner[j]
EditsAreTheOwners == [][Edits]_vars

\* A client that reads 200 or 201 can rely on it: the row was there when the
\* statement ran, which changed it; what was to be deleted is gone.  No
\* statement looks at the number of rows it has changed, but UnsaveJob's.
Done(h) ==
    CASE req[h].op \in {"create", "status"} -> req[h].wrote
      [] req[h].op = "update"               -> req[h].wrote \/ req[h].sets = {}
      [] req[h].op = "delete"   -> jobs'[req[h].target] = "deleted"
      [] req[h].op = "withdraw" -> \A a \in apps' : a.id # req[h].target
      [] req[h].op = "unsave" ->
            /\ <<req[h].user, req[h].target>> \in saved
            /\ <<req[h].user, req[h].target>> \notin saved'
      [] OTHER -> TRUE
OkMeansDone ==
    [][\A h \in Handlers : Cleanly(h, 200) \/ Cleanly(h, 201) => Done(h)]_vars

\* 404 says that something is missing, at this moment: the profile of the
\* caller, or the row the path names, or the one that CreateJob has inserted.
\* (Profiles apart, see below.)
Missing(h) ==
    \/ req[h].op # "get" /\ req[h].user \notin profiles
    \/ /\ req[h].op \in JobRoutes \cup AppRoutes \cup {"get"} \/ req[h].pc = "read"
       /\ ~There(req[h].op, req[h].target)
    \/ req[h].op = "unsave" /\ <<req[h].user, req[h].target>> \notin saved
NotFoundIsTrue ==
    [][\A h \in Handlers :
          Cleanly(h, 404) /\ req[h].op # "patchProfile" => Missing(h)]_vars

\* 500, unless a statement has failed for reasons of its own, has one of five
\* causes: a body that is no JSON, text in CreateJob or UpdateJob that the
\* validator accepts and PostgreSQL does not, an id that is no UUID in
\* DELETE /saved/:jobId, a profile that went between two statements of
\* CreateJob, and an application that went after UpdateApplicationStatus had
\* looked up its owner.
Surprise(h) ==
    \/ req[h].body = "malformed"
    \/ /\ req[h].op \in {"create", "update"} /\ req[h].pc = "write"
       /\ req[h].body = "unstorable"
    \/ req[h].op = "unsave" /\ req[h].target = NotAnId
    \/ req[h].op = "create" /\ req[h].user \notin profiles
    \/ req[h].op = "status" /\ req[h].pc = "read" /\ ~AppThere(req[h].target)
ServerErrorsHaveACause ==
    [][\A h \in Handlers : Cleanly(h, 500) => Surprise(h)]_vars

\* PATCH /api/jobseeker/profile and /api/recruiter/profile tell nobody whose
\* profile is there that it is not.
ProfileIsFound ==
    [][\A h \in Handlers :
          Cleanly(h, 404) /\ req[h].op = "patchProfile" => req[h].user \notin profiles]_vars

\* The tables only ever change as the abstract board allows.
ImplementsBoard == Board!BoardSpec
=============================================================================
