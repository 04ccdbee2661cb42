----------------------------- MODULE SeekerTasks -----------------------------
(***************************************************************************)
(* Applications and saved jobs: the asynchronous pipeline from a job       *)
(* seeker's request to the row in the database, interleaved with every     *)
(* other request that writes the same rows.                                *)
(*                                                                         *)
(* A request to apply or to save is answered 202 once a task is in the     *)
(* queue.  A worker slot takes the task and runs                           *)
(* JobSeekerService.ApplyToJob or SaveJob, one SQL statement after         *)
(* another, each its own transaction; the other requests run their         *)
(* statements in between.  An action here is one statement together with   *)
(* everything the code does before the next one.  The lookup of the        *)
(* caller's profile id, which precedes every operation, reads rows that    *)
(* are never changed and is part of the action that follows it.  A request *)
(* turned down by its first statement changes nothing and is no step.      *)
(***************************************************************************)
EXTENDS TaskQueue, FiniteSets

CONSTANTS
    Seekers,      \* users with a job seeker profile
    Recruiters,   \* users with a recruiter profile
    Jobs,         \* ids of the jobs that are ever posted
    JobOwner,     \* JobOwner[j]: the recruiter who posts job j
    Statuses,     \* values of the enum application_status
    Workers,      \* worker slots, as many as QUEUE_CONCURRENCY
    Handlers,     \* HTTP requests that can be in progress at once
    MaxRestarts,  \* bound: how often the server process goes down
    MaxDbErrors   \* bound: how many statements fail for reasons of their own

ASSUME TasksAssumption ==
    /\ JobOwner \in [Jobs -> Recruiters]
    /\ "submitted" \in Statuses
    /\ MaxRestarts \in Nat
    /\ MaxDbErrors \in Nat

\* QUEUE_CONCURRENCY is a number.
ASSUME PoolAssumption == IsFiniteSet(Workers)

VARIABLES
    payload,    \* payload[t]: what the task was asked to do
    jobs,       \* jobs[j]: the row of job j and its is_active column
    apps,       \* the rows of applications
    saved,      \* the rows of saved_jobs, as pairs of a seeker and a job
    written,    \* written[t]: how often an INSERT of task t has taken effect
    worker,     \* worker[w]: the task a slot runs and its next statement
    handler,    \* handler[h]: a request whose checks have passed
    restarts, dbErrs

tables == <<jobs, apps, saved>>
faults == <<restarts, dbErrs>>
vars == <<queue, payload, tables, written, worker, handler, faults>>

-----------------------------------------------------------------------------
(* The board these operations work on.                                     *)

\* A row's id is fresh; <<t, n>> names the n-th row a task has inserted.
AppIds == Tasks \X (1 .. MaxRetry + MaxRestarts + 1)

OneWorker == \A v, w \in Workers : v = w

\* One worker and a database that answers: then nobody applies twice.
OnePerJob == OneWorker /\ MaxDbErrors = 0

\* The mapping: the tables are the board's; the queue, the payloads, the slots
\* and the requests in progress are hidden.
Board == INSTANCE Board WITH
    jobs <- jobs, apps <- apps, saved <- saved,
    AppIds <- AppIds, OnePerJob <- OnePerJob, MayClear <- FALSE

Payload == [kind : {"apply", "save"}, seeker : Seekers, job : Jobs]
NoPayload == [kind |-> "none"]

Idle == [pc |-> "idle"]
Busy == [pc : {"checkJob", "checkDup", "insert", "result", "complete"}, task : Tasks]

NoRequest == [op |-> "none"]
WithdrawRequest == [op : {"withdraw"}, seeker : Seekers, id : AppIds]
DeleteRequest == [op : {"delete"}, recruiter : Recruiters, job : Jobs]
StatusRequest ==
    [op : {"status"}, recruiter : Recruiters, id : AppIds, status : Statuses]

TypeOK ==
    /\ QueueTypeOK
    /\ payload \in [Tasks -> Payload \cup {NoPayload}]
    /\ \A t \in Tasks : queue[t].state # "unused" => payload[t] \in Payload
    /\ jobs \in [Jobs -> Board!JobStates]
    /\ apps \subseteq Board!Applications
    /\ saved \subseteq Seekers \X Jobs
    /\ written \in [Tasks -> Nat]
    /\ worker \in [Workers -> Busy \cup {Idle}]
    /\ handler \in [Handlers ->
          {NoRequest} \cup WithdrawRequest \cup DeleteRequest \cup StatusRequest]
    /\ restarts \in 0 .. MaxRestarts
    /\ dbErrs \in 0 .. MaxDbErrors

Init ==
    /\ QueueInit
    /\ payload = [t \in Tasks |-> NoPayload]
    /\ Board!BoardInit
    /\ written = [t \in Tasks |-> 0]
    /\ worker = [w \in Workers |-> Idle]
    /\ handler = [h \in Handlers |-> NoRequest]
    /\ restarts = 0
    /\ dbErrs = 0

-----------------------------------------------------------------------------
(* POST /api/jobseeker/apply/:jobId and /saved/:jobId: queue and answer.   *)
(* The job may be gone by now, but its id has been seen on the board.      *)

Submit(kind, s, j) ==
    /\ jobs[j] # "unposted"
    /\ \E t \in Tasks :
          /\ Enqueue(t)
          /\ payload' = [payload EXCEPT ![t] =
                            [kind |-> kind, seeker |-> s, job |-> j]]
    /\ UNCHANGED <<tables, written, worker, handler, faults>>

ApplyToJobRequest(s, j) == Submit("apply", s, j)
SaveJobRequest(s, j) == Submit("save", s, j)

-----------------------------------------------------------------------------
(* The worker.                                                             *)

At(w, kind, pc) ==
    /\ worker[w].pc = pc
    /\ payload[worker[w].task].kind = kind

\* The handler goes on to its next statement.
Goto(w, pc) ==
    /\ worker' = [worker EXCEPT ![w].pc = pc]
    /\ UNCHANGED queue

\* The handler returns an error: asynq records it and the slot is free.
Fail(w, err) ==
    /\ HandleFailed(worker[w].task, err)
    /\ worker' = [worker EXCEPT ![w] = Idle]

DbError ==
    /\ dbErrs < MaxDbErrors
    /\ dbErrs' = dbErrs + 1

StartTask(w) ==
    /\ worker[w] = Idle
    /\ \E t \in Tasks :
          /\ Dequeue(t)
          /\ worker' = [worker EXCEPT ![w] = [pc |-> "checkJob", task |-> t]]
    /\ UNCHANGED <<payload, tables, written, handler, faults>>

\* Mutant: ApplyToJob asks for a job, not for an active one, as SaveJob does.
ApplyCheckExists(w) ==
    /\ At(w, "apply", "checkJob")
    /\ IF Board!JobExists(payload[worker[w].task].job)
       THEN Goto(w, "checkDup")
       ELSE Fail(w, "404")
    /\ UNCHANGED <<payload, tables, written, handler, faults>>

\* ApplyToJob, SELECT is_active: any error reads as "not found".
ApplyCheckJob(w) ==
    /\ At(w, "apply", "checkJob")
    /\ LET j == payload[worker[w].task].job IN
       \/ /\ jobs[j] = "active"
          /\ Goto(w, "checkDup")
          /\ UNCHANGED dbErrs
       \/ /\ jobs[j] = "inactive"
          /\ Fail(w, "410")
          /\ UNCHANGED dbErrs
       \/ /\ ~Board!JobExists(j)
          /\ Fail(w, "404")
          /\ UNCHANGED dbErrs
       \/ /\ DbError
          /\ Fail(w, "404")
    /\ UNCHANGED <<payload, tables, written, handler, restarts>>

\* Mutant: the duplicate check left out.
ApplyWithoutDuplicateCheck(w) ==
    /\ At(w, "apply", "checkDup")
    /\ Goto(w, "insert")
    /\ UNCHANGED <<payload, tables, written, handler, faults>>

\* ApplyToJob, SELECT EXISTS: an error of this statement is dropped, and the
\* answer it did not give counts as "no".
ApplyCheckDuplicate(w) ==
    /\ At(w, "apply", "checkDup")
    /\ LET p == payload[worker[w].task] IN
       \/ /\ Board!HasApplied(p.seeker, p.job)
          /\ Fail(w, "409")
          /\ UNCHANGED dbErrs
       \/ /\ ~Board!HasApplied(p.seeker, p.job)
          /\ Goto(w, "insert")
          /\ UNCHANGED dbErrs
       \/ /\ DbError
          /\ Goto(w, "insert")
    /\ UNCHANGED <<payload, tables, written, handler, restarts>>

\* The row ApplyToJob inserts.
NewApplication(t) ==
    [id |-> <<t, written[t] + 1>>, job |-> payload[t].job,
     seeker |-> payload[t].seeker, status |-> "submitted"]

\* Mutant: no foreign key from applications and saved_jobs to jobs.
InsertRowUnchecked(t) ==
    /\ written' = [written EXCEPT ![t] = @ + 1]
    /\ IF payload[t].kind = "apply"
       THEN apps' = apps \cup {NewApplication(t)} /\ UNCHANGED saved
       ELSE saved' = saved \cup {<<payload[t].seeker, payload[t].job>>}
            /\ UNCHANGED apps
    /\ UNCHANGED jobs

\* The INSERT takes effect: the foreign key asks for the job, and a save is
\* an upsert on (job_id, job_seeker_id).
InsertRow(t) ==
    /\ Board!JobExists(payload[t].job)
    /\ written' = [written EXCEPT ![t] = @ + 1]
    /\ IF payload[t].kind = "apply"
       THEN apps' = apps \cup {NewApplication(t)} /\ UNCHANGED saved
       ELSE saved' = saved \cup {<<payload[t].seeker, payload[t].job>>}
            /\ UNCHANGED apps
    /\ UNCHANGED jobs

\* Mutant: an error of the INSERT is dropped like that of the duplicate check.
InsertErrorDropped(w) ==
    /\ worker[w].pc = "insert"
    /\ \/ InsertRow(worker[w].task)
       \/ UNCHANGED <<tables, written>>
    /\ Goto(w, "result")
    /\ UNCHANGED <<payload, handler, faults>>

\* The INSERT of ApplyToJob and of SaveJob.  It can fail without an effect,
\* and it can take effect while its answer is lost.  A cover letter with a
\* U+0000 passes the validator and is refused here; which letters have one is
\* not kept, so that a retry may get through where the code's would not.
Insert(w) ==
    /\ worker[w].pc = "insert"
    /\ LET t == worker[w].task IN
       \/ /\ InsertRow(t)
          /\ Goto(w, "result")
          /\ UNCHANGED dbErrs
       \/ /\ ~Board!JobExists(payload[t].job) \/ payload[t].kind = "apply"
          /\ Fail(w, "db")
          /\ UNCHANGED <<tables, written, dbErrs>>
       \/ /\ DbError
          /\ Fail(w, "db")
          /\ InsertRow(t) \/ UNCHANGED <<tables, written>>
    /\ UNCHANGED <<payload, handler, restarts>>

\* Mutant: SaveJob asks for an active job, as ApplyToJob does.
SaveCheckActive(w) ==
    /\ At(w, "save", "checkJob")
    /\ IF jobs[payload[worker[w].task].job] = "active"
       THEN Goto(w, "insert")
       ELSE Fail(w, "410")
    /\ UNCHANGED <<payload, tables, written, handler, faults>>

\* SaveJob, SELECT EXISTS: closed jobs can be saved, and an error counts as
\* "no such job".
SaveCheckJob(w) ==
    /\ At(w, "save", "checkJob")
    /\ LET j == payload[worker[w].task].job IN
       \/ /\ Board!JobExists(j)
          /\ Goto(w, "insert")
          /\ UNCHANGED dbErrs
       \/ /\ ~Board!JobExists(j)
          /\ Fail(w, "404")
          /\ UNCHANGED dbErrs
       \/ /\ DbError
          /\ Fail(w, "404")
    /\ UNCHANGED <<payload, tables, written, handler, restarts>>

\* Mutant: the handler returns an error of ResultWriter().Write.
WriteResultOrFail(w) ==
    /\ worker[w].pc = "result"
    /\ \/ /\ StoreResult(worker[w].task)
          /\ worker' = [worker EXCEPT ![w].pc = "complete"]
       \/ Fail(w, "db")
    /\ UNCHANGED <<payload, tables, written, handler, faults>>

\* ResultWriter().Write: its error is dropped, so that a completed task may
\* be one without a result.
WriteResult(w) ==
    /\ worker[w].pc = "result"
    /\ StoreResult(worker[w].task) \/ UNCHANGED queue
    /\ worker' = [worker EXCEPT ![w].pc = "complete"]
    /\ UNCHANGED <<payload, tables, written, handler, faults>>

CompleteTask(w) ==
    /\ worker[w].pc = "complete"
    /\ MarkAsComplete(worker[w].task)
    /\ worker' = [worker EXCEPT ![w] = Idle]
    /\ UNCHANGED <<payload, tables, written, handler, faults>>

-----------------------------------------------------------------------------
(* The queue's own timers.                                                 *)

Held(t) == \E w \in Workers : worker[w] # Idle /\ worker[w].task = t

RetryDue(t) ==
    /\ ForwardRetry(t)
    /\ UNCHANGED <<payload, tables, written, worker, handler, faults>>

\* Mutant: the recoverer does not ask whether the worker is still there.
LeaseExpiredAnyway(t) ==
    /\ queue[t].state = "active"
    /\ HandleFailed(t, "lease")
    /\ UNCHANGED <<payload, tables, written, worker, handler, faults>>

\* The recoverer finds an active task whose worker is gone.
LeaseExpired(t) ==
    /\ queue[t].state = "active"
    /\ ~Held(t)
    /\ HandleFailed(t, "lease")
    /\ UNCHANGED <<payload, tables, written, worker, handler, faults>>

ForgetTask(t) ==
    /\ RetentionOver(t)
    /\ UNCHANGED <<payload, tables, written, worker, handler, faults>>

-----------------------------------------------------------------------------
(* Requests that write to the same tables at once.                         *)

\* JobService.CreateJob: one INSERT, is_active defaults to TRUE.
CreateJob(j) ==
    /\ jobs[j] = "unposted"
    /\ jobs' = [jobs EXCEPT ![j] = "active"]
    /\ UNCHANGED <<queue, payload, apps, saved, written, worker, handler, faults>>

\* No endpoint writes jobs.is_active; an operator does, in the database.
DeactivateJob(j) ==
    /\ jobs[j] = "active"
    /\ jobs' = [jobs EXCEPT ![j] = "inactive"]
    /\ UNCHANGED <<queue, payload, apps, saved, written, worker, handler, faults>>

Accept(h, req) ==
    /\ handler[h] = NoRequest
    /\ handler' = [handler EXCEPT ![h] = req]
    /\ UNCHANGED <<queue, payload, tables, written, worker, faults>>

Finish(h) ==
    /\ handler' = [handler EXCEPT ![h] = NoRequest]
    /\ UNCHANGED <<queue, payload, written, worker, faults>>

\* Mutant: DeleteJob without the owner check.
DeleteAnyJobCheck(h, r, j) ==
    /\ Board!JobExists(j)
    /\ Accept(h, [op |-> "delete", recruiter |-> r, job |-> j])

\* DeleteJob: the caller owns the job.
DeleteJobCheck(h, r, j) ==
    /\ Board!JobExists(j)
    /\ JobOwner[j] = r
    /\ Accept(h, [op |-> "delete", recruiter |-> r, job |-> j])

\* Mutant: saved_jobs.job_id without ON DELETE CASCADE.
DeleteJobKeepsSaved(h) ==
    /\ handler[h].op = "delete"
    /\ LET j == handler[h].job IN
       /\ jobs' = [jobs EXCEPT ![j] = IF Board!JobExists(j) THEN "deleted" ELSE @]
       /\ apps' = {a \in apps : a.job # j}
       /\ UNCHANGED saved
    /\ Finish(h)

\* DeleteJob: DELETE, cascading to applications and saved_jobs.
DeleteJob(h) ==
    /\ handler[h].op = "delete"
    /\ LET j == handler[h].job IN
       IF Board!JobExists(j)
       THEN /\ jobs' = [jobs EXCEPT ![j] = "deleted"]
            /\ apps' = {a \in apps : a.job # j}
            /\ saved' = {b \in saved : b[2] # j}
       ELSE UNCHANGED tables
    /\ Finish(h)

\* Mutant: WithdrawApplication without the owner check.
WithdrawAnyCheck(h, s, a) ==
    Accept(h, [op |-> "withdraw", seeker |-> s, id |-> a.id])

\* WithdrawApplication: the application belongs to the caller.
WithdrawCheck(h, s, a) ==
    /\ a.seeker = s
    /\ Accept(h, [op |-> "withdraw", seeker |-> s, id |-> a.id])

\* WithdrawApplication: DELETE by id alone.
WithdrawApplication(h) ==
    /\ handler[h].op = "withdraw"
    /\ apps' = {a \in apps : a.id # handler[h].id}
    /\ UNCHANGED <<jobs, saved>>
    /\ Finish(h)

\* Mutant: UpdateApplicationStatus without the owner check.
StatusAnyCheck(h, r, a, st) ==
    Accept(h, [op |-> "status", recruiter |-> r, id |-> a.id, status |-> st])

\* UpdateApplicationStatus: the caller owns the job applied to.
StatusCheck(h, r, a, st) ==
    /\ JobOwner[a.job] = r
    /\ Accept(h, [op |-> "status", recruiter |-> r, id |-> a.id, status |-> st])

\* UpdateApplicationStatus: UPDATE by id alone; the row may be gone.  The
\* SELECT after it only fetches the answer.
UpdateApplicationStatus(h) ==
    /\ handler[h].op = "status"
    /\ apps' = {IF a.id = handler[h].id
                THEN [a EXCEPT !.status = handler[h].status] ELSE a : a \in apps}
    /\ UNCHANGED <<jobs, saved>>
    /\ Finish(h)

\* The second statement of a request fails: 500, and nothing has changed.
RequestFails(h) ==
    /\ handler[h] # NoRequest
    /\ DbError
    /\ handler' = [handler EXCEPT ![h] = NoRequest]
    /\ UNCHANGED <<queue, payload, tables, written, worker, restarts>>

\* UnsaveJob: one DELETE; no row deleted is a 404.
UnsaveJob(s, j) ==
    /\ <<s, j>> \in saved
    /\ saved' = saved \ {<<s, j>>}
    /\ UNCHANGED <<queue, payload, jobs, apps, written, worker, handler, faults>>

-----------------------------------------------------------------------------
(* The server process.                                                     *)

GoDown ==
    /\ restarts < MaxRestarts
    /\ restarts' = restarts + 1
    /\ worker' = [w \in Workers |-> Idle]
    /\ handler' = [h \in Handlers |-> NoRequest]
    /\ UNCHANGED <<payload, tables, written, dbErrs>>

\* The process dies: its tasks stay active until their leases expire.
Crash ==
    /\ GoDown
    /\ UNCHANGED queue

\* SIGTERM, and asynq's shutdown timeout is over: the tasks still running
\* are pushed back to the queue.
ShutdownTimeout ==
    /\ \E t \in Tasks : Held(t)
    /\ GoDown
    /\ queue' = [t \in Tasks |->
                    IF Held(t) THEN [queue[t] EXCEPT !.state = "pending"]
                    ELSE queue[t]]

-----------------------------------------------------------------------------
WorkerStep(w) ==
    \/ StartTask(w)
    \/ ApplyCheckJob(w)
    \/ ApplyCheckDuplicate(w)
    \/ SaveCheckJob(w)
    \/ Insert(w)
    \/ WriteResult(w)
    \/ CompleteTask(w)

QueueStep(t) == RetryDue(t) \/ LeaseExpired(t)

RequestStep ==
    \/ \E s \in Seekers, j \in Jobs :
          ApplyToJobRequest(s, j) \/ SaveJobRequest(s, j) \/ UnsaveJob(s, j)
    \/ \E j \in Jobs : CreateJob(j) \/ DeactivateJob(j)
    \/ \E h \in Handlers :
          \/ \E r \in Recruiters, j \in Jobs : DeleteJobCheck(h, r, j)
          \/ \E a \in apps :
                \/ \E s \in Seekers : WithdrawCheck(h, s, a)
                \/ \E r \in Recruiters, st \in Statuses : StatusCheck(h, r, a, st)
          \/ DeleteJob(h) \/ WithdrawApplication(h) \/ UpdateApplicationStatus(h)
          \/ RequestFails(h)

Next ==
    \/ \E w \in Workers : WorkerStep(w)
    \/ \E t \in Tasks : QueueStep(t) \/ ForgetTask(t)
    \/ RequestStep
    \/ Crash
    \/ ShutdownTimeout

Spec == Init /\ [][Next]_vars

\* The worker pool and the queue's timers keep running; users and faults
\* need not do anything.
SystemStep == (\E w \in Workers : WorkerStep(w)) \/ (\E t \in Tasks : QueueStep(t))

FairSpec == Spec /\ WF_vars(SystemStep)

-----------------------------------------------------------------------------
(* Properties.                                                             *)

\* A task is run by one slot at a time, and the queue knows it: whatever
\* crashes, requeues and expired leases do to a task, no second slot can
\* start it while makeApplyHandler or makeSaveHandler is still in it.
ExclusiveDelivery ==
    \A w \in Workers : worker[w] # Idle =>
        /\ queue[worker[w].task].state = "active"
        /\ \A v \in Workers \ {w} :
              worker[v] # Idle => worker[v].task # worker[w].task

\* GetJobStatus answers "completed" only for a task whose INSERT did take
\* effect, however many attempts that took and whoever made them.
CompletedWasRecorded ==
    \A t \in Tasks : GetJobStatus(t).status = "completed" => written[t] >= 1

\* A poller that has read "completed" or "failed" from GetJobStatus may stop:
\* the answer never changes again, except to a 404 once the retention time
\* of a completed task is over.
FinalAnswers ==
    \A t \in Tasks :
        GetJobStatus(t).status \in {"completed", "failed"} =>
            \/ GetJobStatus(t)' = GetJobStatus(t)
            \/ /\ GetJobStatus(t).status = "completed"
               /\ GetJobStatus(t)' = JobNotFound
PollIsFinal == [][FinalAnswers]_vars

\* ApplyToJob and SaveJob are not idempotent: an attempt that inserted its
\* row and was then cut off is made again.  Every INSERT of a task after its
\* first is paid for by a fault (a process gone, a statement's answer lost);
\* the retries that asynq makes on its own account repeat nothing.
RewritesNeedAFault ==
    \A t \in Tasks : written[t] <= 1 + restarts + dbErrs

\* Two slots at work and tasks retried: as long as neither the process nor a
\* statement has failed, the answer of GetJobStatus at the end tells whether
\* the rows of the task were written: once if "completed", and not at all if
\* "failed".
EffectMatchesStatus ==
    restarts = 0 /\ dbErrs = 0 => \A t \in Tasks :
        /\ queue[t].state = "completed" => written[t] = 1
        /\ queue[t].state = "archived" => written[t] = 0

\* SaveJob gives up for one reason only: the job is gone.  It is never in
\* the way of itself, unlike ApplyToJob, whose own row turns a second
\* attempt down.  (As long as no statement has failed for other reasons.)
SaveFailsOnlyWithoutJob ==
    dbErrs = 0 => \A t \in Tasks :
        /\ queue[t].state = "archived"
        /\ payload[t].kind = "save"
        /\ queue[t].lastErr # "lease"
        => ~Board!JobExists(payload[t].job)

\* ApplyToJob refuses a seeker who "already applied" (409): no seeker has
\* two live applications to a job.
OneApplicationEach == Board!OneApplicationEach

\* The duplicate check and the INSERT after it are two statements, and an error
\* of the check reads as "no": two slots can both be past it, and a second
\* application appears.  But it is the slots and the failed statements that
\* bound how many, and not the requests, retries and restarts, of which there
\* is no end.
DuplicatesAreBounded ==
    \A s \in Seekers, j \in Jobs :
        Cardinality({a \in apps : a.seeker = s /\ a.job = j})
            <= Cardinality(Workers) + dbErrs

\* is_active is read two statements before the INSERT, so that a job can get
\* an application after it was deactivated.  Only from a slot that had read
\* the column before: once those are through, the job stays closed, whatever
\* tasks for it are queued, retried or sent in.
Closed(j) ==
    /\ jobs[j] \in {"inactive", "deleted"}
    /\ \A w \in Workers :
          At(w, "apply", "checkDup") \/ At(w, "apply", "insert") =>
              payload[worker[w].task].job # j
StaysClosed(j) ==
    /\ Closed(j)'
    /\ \A b \in apps' : b.job = j => \E a \in apps : a.id = b.id
ClosedJobsGetNoApplications == [][\A j \in Jobs : Closed(j) => StaysClosed(j)]_vars

\* applications and saved_jobs never point at a job that DeleteJob removed,
\* although their INSERT runs statements after the job was looked up: the
\* inner joins of GetApplications and GetSavedJobs drop no row.
NoOrphans == Board!NoOrphans

\* A row of applications disappears in a step of a request that its own
\* seeker (WithdrawApplication) or the owner of its job (DeleteJob) made,
\* although both delete by an id that was checked a statement earlier.
RemovedByOwner(a) ==
    \E h \in Handlers :
        /\ handler[h] # NoRequest /\ handler'[h] = NoRequest
        /\ \/ handler[h].op = "withdraw" /\ handler[h].seeker = a.seeker
           \/ handler[h].op = "delete" /\ handler[h].recruiter = JobOwner[a.job]
Removals == \A a \in apps : (\A b \in apps' : b.id # a.id) => RemovedByOwner(a)
OnlyOwnersRemove == [][Removals]_vars

\* The status of an application changes only by a request of the recruiter
\* who owns the job (UpdateApplicationStatus), and only the status: a row
\* stays with its seeker and its job, and its id is never used again for
\* somebody else's row while a checked request still holds that id.
DecidedByOwner(a) ==
    \E h \in Handlers :
        /\ handler[h].op = "status" /\ handler[h].id = a.id
        /\ handler[h].recruiter = JobOwner[a.job]
Decisions ==
    \A a \in apps, b \in apps' : a.id = b.id =>
        /\ a.seeker = b.seeker /\ a.job = b.job
        /\ a.status # b.status => DecidedByOwner(a)
OnlyOwnersDecide == [][Decisions]_vars

\* A request that has passed its check can only hit the rows it was checked
\* against: the id it holds names a row of the caller, or no row at all.
CheckedIdStaysOwn ==
    \A h \in Handlers, a \in apps :
        /\ handler[h].op = "withdraw" /\ handler[h].id = a.id
              => handler[h].seeker = a.seeker
        /\ handler[h].op = "status" /\ handler[h].id = a.id
              => handler[h].recruiter = JobOwner[a.job]

\* What the code promises a seeker (README.md, "Apply to job (async -> 202)"):
\* every accepted task comes to an end, whatever faults happened on the way.
EveryTaskEnds ==
    \A t \in Tasks :
        queue[t].state = "pending" ~>
            queue[t].state \in {"completed", "archived", "expired"}

\* Why it does: every step of the slots and of the queue's timers takes work
\* off some task, and nothing puts work back onto an accepted one: no other
\* task, no request, no failing statement and no lease that runs out, however
\* they interleave.  Only a failure of the task itself and a restart make it
\* start over, and both are counted.
Slot(t) == CHOOSE w \in Workers : worker[w] # Idle /\ worker[w].task = t
Stage(t) ==
    IF Held(t)
    THEN [checkJob |-> 5, checkDup |-> 4, insert |-> 3, result |-> 2,
          complete |-> 1][worker[Slot(t)].pc]
    ELSE [retry |-> 7, pending |-> 6, active |-> 1][queue[t].state]
WorkLeft(t) ==
    IF queue[t].state \in {"pending", "active", "retry"}
    THEN Stage(t) + 8 * ((MaxRetry - queue[t].retried) + (MaxRestarts - restarts))
    ELSE 0
Progress ==
    /\ \A t \in Tasks : queue[t].state # "unused" => WorkLeft(t)' <= WorkLeft(t)
    /\ SystemStep => \E t \in Tasks : WorkLeft(t)' < WorkLeft(t)
WorkRunsOut == [][Progress]_vars

\* The tables only ever change as the abstract board allows.
ImplementsBoard == Board!BoardSpec
=============================================================================
