# Verification of the job finder backend

The program is a job board's HTTP backend in Go: chi handlers, services that
talk SQL to PostgreSQL through a pgx pool, and an asynq queue in Redis whose
workers run in the same process. It has no tests. This directory holds TLA+
specifications of it, TLC configurations that check them on small instances,
and proofs that TLAPS checks for every instance.

- [Inventory](#inventory)
- [Modules and code](#modules-and-code)
- [Runs](#runs)
- [Fairness](#fairness)
- [Proofs](#proofs)
- [What the code gets wrong](#what-the-code-gets-wrong)
- [Not modelled](#not-modelled)
- [Plan](#plan)

Run a check with `tlc -workers 2 -config delivery.cfg MCSeekerTasks.tla`, a
proof with `tlapm Accounts_proofs.tla`. `PROJECT.json` lists runs, mutants,
hazards, findings, and the source lines of every definition.

## Inventory

| Component | State | Operations | Interacts with | What is hard |
|---|---|---|---|---|
| Task queue (`internal/queue`, `handlers/queue.go`) | task hashes in Redis: state, retries, last error, result | enqueue, take, store result, complete, fail, retry, archive, recover, forget; `GET /api/queue/job/:taskId` | called by the job seeker handlers, runs `JobSeekerService` | at-least-once delivery, crash between the row and its acknowledgement, retries of final errors, 30 s retention |
| Job seeker service (`services/jobseeker.go`) | `applications`, `saved_jobs` | ApplyToJob and SaveJob (by workers); WithdrawApplication, UnsaveJob, two listings, profile read and update (by requests) | writes rows that recruiters change and delete | check-then-act over several statements, several workers, dropped errors |
| Job service (`services/job.go`, `handlers/job.go`) | `jobs` | CreateJob, UpdateJob, DeleteJob, three listings | deleting cascades to applications and saved jobs | owner check and write apart; count and page apart |
| Recruiter service (`services/recruiter.go`) | `applications.status`, `recruiter_profiles` | UpdateApplicationStatus, GetApplicationsForJob, profile read and update | competes with withdrawals and deletions | check, update and fetch are three statements |
| Accounts (`services/auth.go`, `handlers/auth.go`, `utils`, `middleware/auth.go`) | `users`, the two profile tables, cookies in browsers | signups, login, refresh, upgrade, logout, me | every other service trusts the roles in its tokens | transactions cut off, stale reads, answers out of order, pool and row waits |
| Schema (`db/migrations`) | constraints and defaults | — | all services lean on UNIQUE, foreign keys and cascades | `applications` has no UNIQUE constraint |
| Profiles (`services/jobseeker.go`, `services/recruiter.go`) | the two profile tables | read and update one's own | rows made by signups and upgrades | columns that the migration does not create |
| Errors and validation (`middleware`) | — | classifyError, DecodeAndValidate | all handlers | which error becomes which status |
| Server (`cmd/server`, `db`) | the process, its pool, queue client and slots | start, stop on a signal | owns worker, queue client, pool; requests and tasks use them while it closes them | order of shutdown, three waits with limits, failures after the worker has started |
| Seeder (`cmd/seed`) | — | migrate, delete and insert demo data | the same tables as a live server, or another seeder | no transaction |
| Configuration, hashing, headers, `db/queries`, `sqlc.yaml` | — | — | — | nothing stateful; the queries are used by no code |

What makes the components correct:

- *Queue.* A task is run by one slot at a time; a final answer to a poller stays
  final; "completed" means that the row was written; retries by themselves
  repeat nothing; every accepted task ends.
- *Job seekers, jobs and recruiters.* A seeker has one application per job;
  rows never point at missing jobs; only the seeker, or the owner of the job,
  can make an application disappear, and only the owner of the job can change
  its status, although every request checks ownership one statement before it
  writes.
- *Requests and their answers.* An edit touches the columns it names, of the
  caller's own job, whatever runs between its statements; 200 and 201 mean that
  it was done, 404 that something is missing, 500 that something broke.
- *Server.* The stop takes nothing away from tasks and from requests that are
  quick enough, leaves no task behind, and comes to an end.
- *Seeder.* "Seeding complete!" is true, and whatever a run leaves behind, the
  next one repairs.
- *Accounts.* An email names one account; users and profiles appear together;
  nobody has two profiles for a role; roles are never lost to a stale read; a
  token never promises what the database does not hold; requests never wait
  for each other in a circle.

## Modules and code

| Module | What it is |
|---|---|
| `TaskQueue` | one task's hash in Redis and what asynq does to it as configured in `internal/queue`; `GetJobStatus` of `handlers/queue.go` |
| `Board` | abstract: the operations of seekers, recruiters and operator on `jobs`, `applications`, `saved_jobs`, each at once; if `MayClear`, the operator can empty tables |
| `SeekerTasks` | the pipeline: requests, queue, worker slots and the statements of the services, interleaved; extends `TaskQueue`, implements `Board` |
| `Requests` | the requests that are answered at once: all statements of `services/job.go` (but the paginated listing), `services/recruiter.go` and the rest of `services/jobseeker.go`, with their status codes; implements `Board` |
| `Directory` | abstract: accounts that appear and gain roles whole |
| `Accounts` | the statements of `services/auth.go`, transactions, locks, pool, cookies; implements `Directory` |
| `JobListing` | `GetAllJobs` and its handler: a client reads page after page while jobs come, change and go |
| `ServerLifecycle` | `cmd/server`: start-up, signals, `srv.Shutdown`, the deferred calls, beside requests and worker slots |
| `Seeder` | `cmd/seed`: migration, deletions, insertions; runs that overlap and fail |
| `MCSeekerTasks`, `MCRequests`, `MCAccounts`, `MCJobListing`, `MCSeeder` | constants and symmetry for TLC |
| `SeekerTasks_proofs`, `SeekerBoard_proofs`, `Requests_proofs`, `Accounts_proofs`, `JobListing_proofs`, `ServerLifecycle_proofs`, `Seeder_proofs`, `Board_proofs` | theorems |

Definitions marked `Mutant:` are plausible bugs. No specification uses them;
each one, put in the place of the definition that follows it, breaks a
property, which shows that the property depends on that piece of the code.

`SeekerTasks` and `Requests` overlap on purpose. The first has queue, slots,
retries and crashes, and of the requests only what they write; the second has
every request with its answer, the columns of an edit and profiles that vanish,
and of the workers only what they insert. Both implement `Board`, so what the
board promises holds for the tables whichever side writes. Only `Requests` has
a seeder beside it, and so only its `Board` may clear tables: that an application
disappears by its seeker or the job's owner alone (`OnlyOwnersRemove`) is a
statement about `SeekerTasks`, a server without a seeder. `ServerLifecycle`
has the same requests and slots once more, without their statements, around the
resources they need.

### SeekerTasks

An action is one SQL statement with the code up to the next one. `worker[w]` is
the program counter of a worker slot in `makeApplyHandler` or `makeSaveHandler`:

    idle --StartTask--> checkJob --ApplyCheckJob--> checkDup --ApplyCheckDuplicate--> insert
                        checkJob --SaveCheckJob------------------------------------> insert
    insert --Insert--> result --WriteResult--> complete --CompleteTask--> idle

and every error path leads through `Fail` (the handler returns an error) to
`HandleFailed` of the queue. `handler[h]` is a request of another user whose
ownership check has passed and whose write has not yet run: `WithdrawCheck` /
`WithdrawApplication`, `DeleteJobCheck` / `DeleteJob`, `StatusCheck` /
`UpdateApplicationStatus`. `CreateJob`, `UnsaveJob` and the enqueueing requests
have one writing statement. Requests turned down by their first statement
change nothing and are no steps.

Data is abstracted to what the properties tell apart. An application is its id,
job, seeker and status. A job is unposted, active, inactive or deleted; nothing
but an operator makes it inactive. Its id is known to a client only after it was
posted. The look-up of the caller's profile id is part of the action after it:
profiles are never deleted and their ids never change. `written[t]` is a history
variable: how often an INSERT of the task has taken effect.

Faults: `DbError` fails any statement (for an INSERT, before or after its
effect; for the duplicate check, as the "no" that the dropped error becomes);
`Crash` loses all slots and requests and leaves tasks active until
`LeaseExpired`; `ShutdownTimeout` pushes running tasks back to pending, as
asynq does when its shutdown timeout is over. `ResultWriter().Write` may fail
silently. An application can also be refused for its cover letter (a U+0000 is
valid JSON and no character of a TEXT); which letters are is not kept, so that
a retry may get through here where the program's fails again.

### Accounts

`req[h]` is a request in progress: its operation, its next statement, and what
it knows. The committed rows are `users` and `profiles`; a transaction's writes
sit in `req` until `Commit`. A request in a transaction holds a connection
(`InTx`), and once it has written, the lock of its user's row or of its new email
(`RowLocked`, `EmailLocked`). `jar[b]` are the claims in a browser's two cookies;
an answer replaces both. A browser has several requests in progress, and
their answers arrive in any order. `Cut` ends a request anywhere, which stands
for a failing statement, a client that hangs up, a lost answer and the death of
the process: what was committed stays, the rest is gone. Passwords are right,
since a wrong one changes nothing. `checkEmailFree` lets a taken email through
at times, because it drops its error.

### JobListing

`call` is a `GetAllJobs` between its two statements (`Count`, `List`), or its last
answer. `walk` is the client, which is not in this repository: it looks at one
page, or it goes on from the first page until a page is empty, or until the
`totalPages` of the latest answer. Of a job only its `created_at` and whether the
filters list it matter; an edit can change the latter. The sort order is a
sequence chosen among those that `created_at` allows, anew for every statement.
`stayed`, `entered`, `left`, `raced` and `cut` are history: the jobs listed all the
time, whether jobs joined or left the list, whether it changed between the two
statements, whether rows were lost. An int has `WordMax` as its largest value,
so that an offset wraps. A failing statement is answered 500, or, when it breaks
off while rows are read, 200 with the rows so far. Which of the two a negative
OFFSET becomes depends on when pgx reports it, and both are allowed. After the
walk the board rests (`Watched`).

### Requests

`req[h]` is a request in progress, at one of its statements: `FindProfile` (the
caller's profile id), `CheckOwner`, one of the writes, and the read for the
answer; or it is the answer, a status code. `classifyError` is applied where
the services return, to an error of one of the kinds it tells apart, and what
is wrapped in an `AppError` is a conjunct of each action: `FindProfile`,
`CheckOwner`, `FetchJob` and the profiles turn every error, a broken connection
included, into a 404, the writes and `FetchApplication` turn none.
A statement may fail (`DbError`, `Broken`), a write before or after its effect.

Data: a job is there or not, and each column that `UpdateJobRequest` can set
holds the request that set it last. A body is valid, turned down by the
validator, no JSON, or `unstorable`: accepted by the validator and refused by
PostgreSQL (`DataRefused`), because of a U+0000 in a text or a category too long
for `idx_jobs_is_active_category`. An id in a path is that of a row, there or
not any more, or no UUID. Tokens are good and of the right role, which
`Accounts` is about, but their user may be gone. A profile is a set of columns.
Operators that deactivate jobs do not occur, since no statement of these
requests looks at `is_active`.

`SeederDeletes` is one `DELETE FROM` of a seeder that is run against the live
database: of `saved_jobs`, `applications`, `jobs`, the two profile tables or
`users`, with what hangs on the rows. They are six statements without a
transaction, each of which may fail and is then skipped, and runs overlap, so
that any of them can be the next. Of `saved_jobs`, `applications` and `jobs`, rows
added after the statement had begun stay, so that it removes any part of the
table. Nothing else removes profiles. A user with both roles counts as two, as each
look-up is of the profile of one role.

### ServerLifecycle

`main` is the statement the main goroutine has reached, through start-up
(`StartSteps`), `serve`, and the stop (`StopSteps`: `srv.Shutdown`, then
`worker.Shutdown`, `qClient.Close`, `db.Close`, last deferred first). `listener`
is the goroutine of `ListenAndServe`. What start-up can meet is chosen at the
beginning: a configuration that is complete or not, a `REDIS_URL` that parses,
a database that answers, a free port. A failure in start-up, a signal before
`signal.Notify`, a taken port and SIGKILL are `End`: nothing deferred runs. A
request either enqueues or holds a connection for a while; a slot connects and
disconnects as often as it likes during a task. A statement may hang for ever.
`AbortTasks` is asynq's limit of 8 seconds on the wait for its handlers.

### Seeder

A run is a program counter into `Script`, and a row is its name and who inserted
it. `Delete` takes along what refers to the rows of the table; its failure is a
warning and may have had its effect. It empties the table at one moment (rows that
others commit while it runs are left to `Requests`). `Insert` is refused by a taken email or
missing parents, and any failure of it ends the run. `alone` and `faults` are
history: the runs nobody interfered with, and those with a failing statement.

## Runs

| Run | Shows | Bounds and why they are enough |
|---|---|---|
| `delivery` | TypeOK, ExclusiveDelivery, CompletedWasRecorded, EffectMatchesStatus, RewritesNeedAFault, NoOrphans, DuplicatesAreBounded, PollIsFinal, ClosedJobsGetNoApplications, WorkRunsOut | two slots and two tasks race; one retry, so that a task fails, is retried, and is archived; one restart and one failing statement, so that each kind of repetition occurs and both occur together; the operator closes a job at any moment |
| `board` | OneApplicationEach, SaveFailsOnlyWithoutJob, CheckedIdStaysOwn, ImplementsBoard, OnlyOwnersRemove, OnlyOwnersDecide | one slot and no failing statement: the configuration in which duplicates are impossible; two jobs, seekers, owners and requests: the least at which somebody else's row can be hit, and a deletion touches one job and spares the other |
| `liveness` | EveryTaskEnds | both kinds of tasks, a retry, a restart and a failing statement; one slot; no symmetry |
| `accounts` | EmailsUnique, ProfilesMatchRoles, TokensHonest, ImplementsDirectory, LockedOutForGood | two requests in progress, two addresses; a third user id, so that a second account can appear while ids are held by transactions; a user can be deactivated between any two statements of his requests |
| `answered` | EveryRequestAnswered | three requests share two connections: while two wait for each other's rows or emails, the third waits for the pool |
| `listing` | AnswerFits, NothingMissed, NothingTwice | three jobs in pages of one or two, every parameter up to the largest int 4, one failing statement: a job can join in front of, between and behind the rows already seen, and an offset can wrap |
| `requests` | EditsAreTheOwners, OkMeansDone, NotFoundIsTrue, ServerErrorsHaveACause, ImplementsBoard | two requests at once, so that anything can come between the statements of one; two columns, so that an edit can lose another's; an owner, another recruiter and a seeker; one job, which can go at any moment; two applications, so that a statement can hit both or spare one, and a DELETE of the seeder can empty one table and leave another; two statuses; one failing statement. `Apart` keeps these interesting cases from being multiplied with each other, see below |
| `lifecycle` | PoolOutlivesTasks, StopCutsOnlySlowRequests, CleanStopLeavesNothingActive, OnlyAPortClashAbandons, LastWaitEnds, SignalStops | every environment; two requests, one of each kind, or two that hold connections; two slots, one of which can hang while the other finishes; a task left from before beside those the requests make |
| `seeder` | RerunRepairs, CompleteMeansSeeded, LastToCompleteSeeds | three runs: one to leave a mess and two to overlap in it; one of them with failing statements, one registered account |
| `duplicate`, `stale_refresh`, `profile` | violations, see below | the least that shows them |

`delivery` is the one run that checks a `TypeOK`. The type invariants of the
other modules are proved for every value of the constants (`TypeCorrect` in each
proof module), and what a wrong type would break there shows in the properties
of their runs.

`Apart` (`MCRequests`) is a bound on combinations in the run `requests`. A
statement may fail in the middle of two requests, and the other one then goes on
alone; beside a second application, or one that gets or has another status than
"submitted", there is one request at a time; two columns are edited only before
anybody applies or saves. What lies behind these bounds is cut off. None of the
properties relates edits to applications, or a status to another request, and the
proofs have none of these bounds. The answer that a handler gave last is not part
of a state (`VIEW Unanswered`): nothing reads it, and the properties are about
the step that gives it.

Bounds on faults (`MaxRestarts`, `MaxDbErrors`) and on tasks cap what would be
unbounded; all runs set `CHECK_DEADLOCK FALSE`, since with all tasks used and
nobody asking for anything the system rests. Tasks, slots, handlers, users and
emails, runs of the seeder and the jobs of `JobListing` are interchangeable and used as symmetry sets in safety
runs; the jobs of `SeekerTasks`, seekers and recruiters are not, as `JobOwner`
tells them apart.

## Fairness

- `SeekerTasks!FairSpec`: weak fairness of `SystemStep`, all steps of worker
  slots and of the queue's forwarder and recoverer together. asynq keeps polling
  as long as the process runs, and a restart policy brings the process back
  (`docker-compose.yml`); restarts are bounded. Nothing is assumed of users,
  operators and faults. Fairness per slot is not needed.
- `Accounts!FairSpec`: strong fairness of each request's statements. pgxpool
  hands out connections first come, first served, and so does PostgreSQL with
  the locks of a row; a request that could go on again and again gets its turn.
  Weak fairness would not do, because others can take the connection in between.

- `ServerLifecycle!FairSpec`: weak fairness of the main goroutine's steps, which
  the Go scheduler gives it, timers of its waits included; of each request's
  time-out, which `chiMiddleware.Timeout` cancels after 30 seconds; and of each
  cancelled handler's return. Nothing is assumed of statements, nor of slots that
  are not cancelled: they may hang.

## Proofs

All theorems are of the form `Spec => []Inv`, `Spec => [][A]_vars` or
`Spec => Abstract`, for arbitrary constants under the named assumptions
(`QueueAssumption`, `TasksAssumption`, `AccountsAssumption`,
`RequestsAssumption`, `SeederAssumption`: numbers are naturals, each job has an
owner, "submitted" is a status, and in `Requests` seekers are told apart from
recruiters; `ListingAssumption`: there are fewer jobs than ints, and the default
page size is a page size; `PoolAssumption`: the number of worker slots, `QUEUE_CONCURRENCY`, is a number). But for the jobs of
`JobListing` and the slots of `SeekerTasks`, which are counted, sets of tasks,
users, requests and so on may be infinite.

**`SeekerTasks_proofs`.** The inductive invariant `Delivery` joins `TypeOK`,
`ExclusiveDelivery` and two budgets. `WriteBudget`: a delivery writes at most
once, so a task's writes are bounded by the deliveries that have ended (counted
by retries and restarts), plus one for the delivery under way. It makes the
bound on row ids inductive, and with it `TypeOK`. `FaultBudget`: a
write that was not the last step of its task is paid for by a restart or a
failed statement, because after an INSERT that is acknowledged the handler
cannot fail any more. `Recorded` ties the steps after the INSERT to a written
row. Theorems: `TypeCorrect`, `OneSlotPerTask`, `CompletedTasksAreRecorded`,
`RetriesAloneRepeatNothing`, `PollsAreFinal`, `EndsTellTheEffect`,
`SavesFailWithoutJob`. The last two need invariants of their own on top of
`Delivery`: without a fault, a task's writes are determined by where it stands;
and an error that a save task remembers was raised when its job was already
gone, which it stays, since ids are never used twice (`JobsAge`).

`TasksRunOut` is what can be proved here of `EveryTaskEnds`. `WorkLeft` is a variant:
the attempts and restarts a task may still use, eight times, plus how far it is
from its end. `ProgressStep` shows that every step of a slot or of the queue
takes some of it off one task (a restart or a failure that starts a task over
uses up an attempt, which weighs more than the way it goes back), and that
requests, faults and other tasks add to none. That such a step is taken as long
as a task is unfinished is fairness, and stays with TLC.

**`SeekerBoard_proofs`.** `Tables` says that row ids are fresh (an id
names a write that has happened), that requests hold ids of their caller's rows
or of none, that the foreign keys hold, and, under `OnePerJob`, that a slot
past its duplicate check still has nobody to compete with. It gives
`NoRowIsOrphaned`, `CheckedIdsStayOwn`, `OneWorkerAppliesOnce`, `OwnersRemove`,
`OwnersDecide`, and the refinement `SeekerTasksImplementsBoard`: each step is a
step of `Board` or leaves the tables alone. `OnePerJob` is part of the abstract
specification: with more slots, or statements that fail, `Board` lets a seeker
apply twice, as the code does.

How often, is `DuplicatesAreFew`. The bound is not inductive by itself; `FewEach`
is: the rows of a seeker and job, together with the slots that are at their
INSERT, are no more than the slots and the failed statements. A slot comes to
its INSERT either by a check that found no row at all, when only the slots
count, or by a check that failed, which pays for it. `ClosedJobsStayClosed`
needs no more than that a slot gets to its INSERT through both checks.

**`Accounts_proofs`.** `Consistent` says what a transaction in progress may
count on: the id and the email of a signup that has inserted are nobody
else's; of the upgrades that passed the row lock, one holds it, and its role is
not yet committed unless its profile INSERT will fail; the roles read before
the transaction are still the user's roles when they are written, or the
transaction cannot commit; tokens about to be answered are backed by committed
rows. Theorems: `TypeCorrect`, `OneAccountPerEmail`, `OneProfilePerRole`,
`TokensAreHonest`, `AccountsImplementsDirectory`, `LockedOutStaysOut`. For the
last, `Consistent` is enough: a commit is about somebody else, since a signup has
a new user (`NewRow`) and an upgrade one who is no recruiter yet
(`StillSeeker`), and an answer is on its way only for a user who was active, or
is a recruiter since. `DirectoryKeepsItsPromises` shows that `Directory` by
itself gives what its readers count on.

**`Board_proofs`.** The same for `Board`: it has no orphans and no id twice, and
one application each if it promises that (`BoardHasNoOrphans`,
`BoardTakesOneEach`). Together with the two refinements, the tables keep these
promises whichever requests and workers write to them.

**`Requests_proofs`.** `Inv` joins the types, `TablesSound` (ids were handed
out before, are unique, and point at existing jobs) and `RequestsSound`: the id a
request holds is one that is or was in a table, its owner has been looked up
and is fixed, and a request past its write is at the read that follows it.
`TablesAge` carries it over the steps of others: what is gone does not come
back. `TableStep` names the ways in which a step changes tables, so that
each fact about tables is proved once for all requests; the steps of a request are split
by what they answer. Each DELETE of the seeder is a `Clear` of the board: of the
jobs it removes, or of no job where it removes only applications or bookmarks
(`SeederDeletesIsBoardStep`). Theorems: `TypeCorrect`, `EditsStayWithTheOwner`,
`OkCanBeReliedOn`, `MissingIsMissing`, `FiveCauses`, `RequestsImplementsBoard`.

**`ServerLifecycle_proofs`.** `Inv` ties the resources to the step of `main`: the
pool is open from `db.Open` to the last deferred call and the client to the one
before (`OpenInv`), slots run only while `main` has not passed
`worker.Shutdown` (`SlotInv`), an active task has a slot or its process has
died (`TaskInv`), and requests are in progress after `srv.Shutdown` only if its
time was up (`RequestInv`). Theorems: `TasksHaveTheirPool`, `GracefulStop`,
`NothingIsLeftActive`, `GivingUpIsHarmless`. `ClosingThePoolEnds` is about the one
wait of the stop that has no limit: `ConnInv` says in whose hands a connection
is, and by the time of `db.Close` those are requests and tasks that have been
cancelled or will be. It is the part of `SignalStops` that does not need fairness.

**`JobListing_proofs`.** The argument is about ranks: the rank of a listed job is
the number of listed jobs that are newer. `WindowFits` says that a page holds
the jobs whose ranks are `offset` to `offset + size - 1`. Ranks do not grow
while nothing joins the list and do not fall while nothing leaves it, so that
the rows seen stay before the next page (`SeenInv`) and those not seen stay behind
it (`UnseenInv`). `PageInv` bounds the page a walk can reach, so that its offset
does not wrap into another page. `PagesAnnounced` is what the rounding of
`totalPages` comes to. Theorems: `TypeCorrect`, `PagesAddUp`, `WalksAreComplete`,
`WalksDoNotRepeat`.

**`Seeder_proofs`.** `Progress` gives the tables of a run that nobody has disturbed
as a function of its step: after the k-th DELETE the first k tables are empty,
because the rows that refer to them went before; then the rows are the first
ones of the demo data, so that no INSERT meets a taken email or lacks a parent.
Theorems: `TypeCorrect`, `OneMoreRunRepairs`, `CompleteIsSeeded`.

Of runs that overlap nothing of the kind is true: they delete each other's rows at
any step. `LastRunSeeds` rests on what they cannot do (`TogetherInv`). Foreign keys
and emails hold whoever writes (`LinkedInv`, `EmailsInv`), so that every row hangs on
one account and no name is there twice (`NamesOnce`). And a run that deletes an
admin is itself about to insert one, a run that deletes an application is about to
delete its job (`LeftInv`): if it does not fail and is not killed, what the last
run to complete finds missing at its end somebody else has put in. Its last
INSERT, of a bookmark, needs a job and a seeker, and they need the rest.

Only model-checked: the liveness properties `EveryTaskEnds`,
`EveryRequestAnswered` and `SignalStops` (liveness under fairness is beyond the
prover; of the first and the last the safety half is proved), and of course the
violations.

## What the code gets wrong

Shown by a run:

- `duplicate`: `ApplyToJob` checks for an earlier application and inserts in two
  statements, `applications` has no UNIQUE constraint, and five workers run by
  default: a double click makes two applications.
- `stale_refresh`: after an upgrade the RECRUITER role is not always "active
  immediately": the answer of a refresh that began earlier takes it away again.
- `profile`: both profile updates set and return columns that their tables do not
  have, so that every PATCH of a profile is answered 404 "Profile not found".

In the models, as behaviour that the properties allow for:

- `SeekerTasks`: a task that is cut off after its INSERT is run again, is refused
  because of its own row, and ends as "failed" with "You have already applied
  to this job". Final errors are retried like all others, so that a task refused as
  a duplicate applies hours later if the seeker has withdrawn meanwhile.
  A job that an operator closes can still get an application from a slot that
  has read `is_active` before, and from no other.
- `Accounts`: an upgrade does not look at `is_active`: a deactivated seeker with a
  live cookie can still make himself a recruiter, once, and gets new tokens for it.
  Logins and refreshes turn him away (`LockedOutForGood`).
- `JobListing`, `Requests`: no listing looks at `rows.Err()`; a result that breaks off
  is answered 200 as if it were whole. The page number has no upper limit, its
  offset wraps, and a page far behind the last one shows rows of another page, or
  has a negative OFFSET. `AnswerFits` holds for the offsets that fit (`InRange`).
- `Requests`: the five causes of a 500 that are no failure of the server
  (`Surprise`): a malformed body, where the comment on `DecodeAndValidate` wraps
  its error in a 400 and no handler does; text that the validator accepts and
  PostgreSQL does not, when a job is posted or edited; an id that is no UUID
  when unsaving;
  a job created for a profile that goes; a status set on an application that
  goes before it is read back. A job deleted at once is "created" with a 404.
  Two deletions of a row, both past their checks, are both answered 200. A
  database that is down reads as 404 wherever a look-up comes first.
- `Seeder`: two overlapping runs can both fail; with three, one may print "Seeding
  complete!" and a later one leave half of the data.
- `ServerLifecycle`: a signal before `signal.Notify` kills without a single deferred call,
  although the worker already runs tasks; a second signal during the stop does
  nothing.

Seen beside the models: `config.Load`, "fail fast, never silently", accepts
token lifetimes that are zero or negative, and a number of days so large that
the duration overflows.

## Not modelled

- asynq beyond its configuration: its default task timeout, trimming of the
  archive, Redis outages (in `ServerLifecycle`, too: a requeue at the stop
  reaches Redis), and a lease that runs out while its worker is alive.
  A slot whose process was told to stop but which goes on for a moment after
  its task was requeued does nothing that it could not have done just before.
- What reads return: the rows of the listings other than `GetAllJobs`, the content of
  profiles, `GetMe`. Wrong passwords, malformed tokens; headers, CORS,
  compression, logging.
- The texts of error messages; `classifyError` looks into one of them (the
  validator's) and is modelled by what it finds there.
- The content of the migration, other than as the schema everything else
  assumes; how long the seeder's connection attempts take. A missing
  `DATABASE_URL`, an unreadable file and a failed connection are the failures
  of `Migrate`.
- Configuration parsing and bcrypt: pure, run once or per call, without state.
- `notifications`, `reports` and `db/queries`: no code uses them.

## Plan

Done: the pipeline, the board, accounts, the listing, the requests with their
answers, the lifecycle, the seeder; their runs; every invariant, action property
and refinement that a run checks is also a theorem.

Left, in this order:

1. Of `EveryRequestAnswered`, the safety half: nobody who holds a connection, a row or
   an email waits for a connection, so that waiting requests never form a circle.
2. A refresh in progress at a logout sets the cookies again. The model has it;
   nothing in the repository says what a logout should mean for it.
3. Redis outages in `TaskQueue` and `ServerLifecycle`: a completion that cannot be
   acknowledged, a requeue that fails at the stop.
4. Should `applications` get its UNIQUE constraint: `OnePerJob` without its
   premises, and `duplicate` as a passing run.
