------------------------------ MODULE TaskQueue ------------------------------
(***************************************************************************)
(* The asynq queue that carries the asynchronous writes of job seekers:    *)
(* internal/queue/client.go puts a task in, internal/queue/worker.go runs  *)
(* it, internal/handlers/queue.go shows its state to the polling client.   *)
(* asynq itself is a library, modelled from how the code configures it:    *)
(* one queue, no SkipRetry, a bounded number of retries, and a retention   *)
(* time for completed tasks.                                               *)
(*                                                                         *)
(* A task is one Redis hash.  The module defines what each queue operation *)
(* does to it; SeekerTasks composes these operations with the database     *)
(* statements of the handlers.                                             *)
(***************************************************************************)
EXTENDS Naturals

CONSTANTS
    Tasks,      \* task ids (asynq generates a UUID per task, never reused)
    MaxRetry    \* failures after which a task is archived

ASSUME QueueAssumption == MaxRetry \in Nat

VARIABLE queue  \* queue[t]: the Redis hash of task t

TaskStates ==
    {"unused", "pending", "active", "retry", "completed", "archived", "expired"}

\* The last error recorded for a task: an AppError's status code, a raw
\* database error, or asynq's ErrLeaseExpired.
TaskErrors == {"none", "404", "409", "410", "db", "lease"}

TaskRow ==
    [state   : TaskStates,
     retried : Nat,
     lastErr : TaskErrors,
     result  : BOOLEAN]

FreshRow ==
    [state |-> "unused", retried |-> 0, lastErr |-> "none", result |-> FALSE]

QueueTypeOK ==
    /\ queue \in [Tasks -> TaskRow]
    /\ \A t \in Tasks : queue[t].retried <= MaxRetry

QueueInit == queue = [t \in Tasks |-> FreshRow]

-----------------------------------------------------------------------------
(* Operations on one task.                                                 *)

SetState(t, s) == queue' = [queue EXCEPT ![t].state = s]

\* Client.EnqueueApplyToJob / EnqueueSaveJob: the task is at once pending.
Enqueue(t) ==
    /\ queue[t].state = "unused"
    /\ SetState(t, "pending")

\* A worker slot takes a pending task and leases it.
Dequeue(t) ==
    /\ queue[t].state = "pending"
    /\ SetState(t, "active")

\* t.ResultWriter().Write: stored at once, before the task is completed.
StoreResult(t) == queue' = [queue EXCEPT ![t].result = TRUE]

\* The handler returned nil.
MarkAsComplete(t) == SetState(t, "completed")

Retried(row, err) ==
    [row EXCEPT !.state = "retry", !.retried = @ + 1, !.lastErr = err]
Archived(row, err) == [row EXCEPT !.state = "archived", !.lastErr = err]

\* Mutant: one failure too many before a task is archived.
HandleFailedLate(t, err) ==
    LET row == queue[t] IN
    queue' = [queue EXCEPT ![t] =
        IF row.retried <= MaxRetry THEN Retried(row, err) ELSE Archived(row, err)]

\* Mutant: a failure that is not counted, so that nothing is ever archived.
HandleFailedUncounted(t, err) ==
    queue' = [queue EXCEPT ![t].state = "retry", ![t].lastErr = err]

\* The handler returned an error, or the lease of its worker ran out.  The
\* code never wraps an error in asynq.SkipRetry, so every error is retried
\* until the retries are used up.
HandleFailed(t, err) ==
    LET row == queue[t] IN
    queue' = [queue EXCEPT ![t] =
        IF row.retried < MaxRetry THEN Retried(row, err) ELSE Archived(row, err)]

\* The retry delay is over.
ForwardRetry(t) ==
    /\ queue[t].state = "retry"
    /\ SetState(t, "pending")

\* Mutant: archived tasks are dropped as well.
RetentionOverAny(t) ==
    /\ queue[t].state \in {"completed", "archived"}
    /\ SetState(t, "expired")

\* completedTaskRetention is over: Redis drops the hash.
RetentionOver(t) ==
    /\ queue[t].state = "completed"
    /\ SetState(t, "expired")

-----------------------------------------------------------------------------
(* GET /api/queue/job/:taskId                                              *)

asynqStateToStatus(state) ==
    CASE state = "active"    -> "active"
      [] state = "pending"   -> "waiting"
      [] state = "retry"     -> "waiting"
      [] state = "archived"  -> "failed"
      [] state = "completed" -> "completed"

JobNotFound == [status |-> "404"]

GetJobStatus(t) ==
    LET info == queue[t] IN
    IF info.state \in {"unused", "expired"} THEN JobNotFound
    ELSE [status       |-> asynqStateToStatus(info.state),
          attemptsMade |-> info.retried,
          failedReason |-> IF info.state = "archived" THEN info.lastErr ELSE "none",
          result       |-> info.result]
=============================================================================
