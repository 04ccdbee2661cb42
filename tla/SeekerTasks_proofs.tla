------------------------- MODULE SeekerTasks_proofs -------------------------
(***************************************************************************)
(* Theorems about SeekerTasks, for every number of tasks, workers,         *)
(* requests, retries and faults.                                           *)
(***************************************************************************)
EXTENDS SeekerTasks, TLAPS

USE QueueAssumption, TasksAssumption

-----------------------------------------------------------------------------
(* The inductive invariant.                                                *)

\* Before its INSERT, and after it.
BeforeInsert(w) == worker[w].pc \in {"checkJob", "checkDup", "insert"}

\* Deliveries of task t that have ended and that may be followed by another
\* one: failures counted by the queue, and requeues by a process going down.
Ended(t) == queue[t].retried + restarts

\* A delivery writes at most once.
WriteBudget ==
    /\ \A t \in Tasks :
          /\ written[t] <= Ended(t) + 1
          /\ queue[t].state \in {"unused", "pending", "retry"}
                => written[t] <= Ended(t)
    /\ \A w \in Workers :
          BeforeInsert(w) => written[worker[w].task] <= Ended(worker[w].task)

\* The last delivery of t has written and will not be followed by another.
AfterInsert(w) == worker[w].pc \in {"result", "complete"}
Written(t) ==
    \/ queue[t].state \in {"completed", "expired"}
    \/ \E w \in Workers : AfterInsert(w) /\ worker[w].task = t

\* Every other write has been paid for by a fault.
FaultBudget ==
    \A t \in Tasks :
        /\ written[t] <= restarts + dbErrs + 1
        /\ Written(t) \/ written[t] <= restarts + dbErrs

\* What the slot does after its INSERT, and the "completed" it leads to,
\* follow a row that was written.
Recorded ==
    /\ \A w \in Workers : AfterInsert(w) => written[worker[w].task] >= 1
    /\ \A t \in Tasks : queue[t].state = "completed" => written[t] >= 1

Delivery ==
    TypeOK /\ ExclusiveDelivery /\ WriteBudget /\ FaultBudget /\ Recorded

\* Facts about the shape of the state that the steps below share.
LEMMA Shape ==
    ASSUME TypeOK
    PROVE  /\ \A t \in Tasks :
                 /\ queue[t] \in TaskRow
                 /\ queue[t].state \in TaskStates
                 /\ queue[t].retried \in Nat
                 /\ queue[t].retried <= MaxRetry
                 /\ written[t] \in Nat
           /\ \A w \in Workers : worker[w] # Idle =>
                 /\ worker[w] \in Busy
                 /\ worker[w].task \in Tasks
           /\ \A w \in Workers : worker[w].pc # "idle" => worker[w] # Idle
           /\ restarts \in Nat /\ dbErrs \in Nat
  BY DEF TypeOK, QueueTypeOK, TaskRow, Busy, Idle

LEMMA InitDelivery == Init => Delivery
  <1> SUFFICES ASSUME Init PROVE Delivery
    OBVIOUS
  <1>1. TypeOK
    BY DEF Init, QueueInit, FreshRow, TypeOK, QueueTypeOK, TaskRow, TaskStates,
           TaskErrors, Board!BoardInit, Board!JobStates
  <1>2. ExclusiveDelivery
    BY DEF Init, ExclusiveDelivery
  <1>3. WriteBudget
    BY DEF Init, WriteBudget, BeforeInsert, Ended, Idle, QueueInit, FreshRow
  <1>4. FaultBudget /\ Recorded
    BY DEF Init, FaultBudget, Recorded, AfterInsert, Idle, QueueInit, FreshRow
  <1> QED
    BY <1>1, <1>2, <1>3, <1>4 DEF Delivery

-----------------------------------------------------------------------------
(* What the queue's operations do to a row.                                *)

LEMMA FailedRow ==
    ASSUME QueueTypeOK, NEW t \in Tasks, NEW e \in TaskErrors, HandleFailed(t, e)
    PROVE  /\ QueueTypeOK'
           /\ queue'[t].state \in {"retry", "archived"}
           /\ queue'[t].lastErr = e
           /\ queue'[t].state = "retry" => queue'[t].retried = queue[t].retried + 1
           /\ queue'[t].state = "archived" => queue'[t].retried = queue[t].retried
           /\ \A u \in Tasks \ {t} : queue'[u] = queue[u]
  <1> DEFINE r == IF queue[t].retried < MaxRetry
                  THEN Retried(queue[t], e) ELSE Archived(queue[t], e)
  <1>1. queue' = [queue EXCEPT ![t] = r]
    BY DEF HandleFailed
  <1>2. /\ r \in TaskRow /\ r.retried <= MaxRetry
        /\ r.state \in {"retry", "archived"} /\ r.lastErr = e
        /\ r.state = "retry" => r.retried = queue[t].retried + 1
        /\ r.state = "archived" => r.retried = queue[t].retried
    <2>1. queue[t] \in TaskRow /\ queue[t].retried <= MaxRetry
      BY DEF QueueTypeOK
    <2>2. /\ Retried(queue[t], e) \in TaskRow
          /\ Retried(queue[t], e).state = "retry"
          /\ Retried(queue[t], e).lastErr = e
          /\ Retried(queue[t], e).retried = queue[t].retried + 1
      <3> DEFINE n == queue[t].retried + 1
      <3>1. n \in Nat
        BY <2>1 DEF TaskRow
      <3>2. Retried(queue[t], e) = [queue[t] EXCEPT !.state = "retry", !.retried = n,
                                                    !.lastErr = e]
        BY DEF Retried
      <3> HIDE DEF n
      <3> QED
        BY <3>1, <3>2, <2>1 DEF TaskRow, TaskStates, n
    <2>3. /\ Archived(queue[t], e) \in TaskRow
          /\ Archived(queue[t], e).state = "archived"
          /\ Archived(queue[t], e).lastErr = e
          /\ Archived(queue[t], e).retried = queue[t].retried
      BY <2>1 DEF TaskRow, TaskStates, Archived
    <2>4. queue[t].retried \in Nat
      BY <2>1 DEF TaskRow
    <2> QED
      BY <2>1, <2>2, <2>3, <2>4
  <1> HIDE DEF r
  <1> QED
    <2>1. queue \in [Tasks -> TaskRow]
      BY DEF QueueTypeOK
    <2>2. queue' \in [Tasks -> TaskRow]
      BY <1>1, <1>2, <2>1
    <2>3. queue'[t] = r /\ \A u \in Tasks \ {t} : queue'[u] = queue[u]
      BY <1>1, <2>1
    <2> QED
      BY <1>2, <2>2, <2>3 DEF QueueTypeOK

LEMMA SetStateRow ==
    ASSUME QueueTypeOK, NEW t \in Tasks, NEW s \in TaskStates, SetState(t, s)
    PROVE  /\ QueueTypeOK'
           /\ queue'[t] = [queue[t] EXCEPT !.state = s]
           /\ \A u \in Tasks \ {t} : queue'[u] = queue[u]
  BY DEF SetState, QueueTypeOK, TaskRow

-----------------------------------------------------------------------------
(* Every step keeps the types.                                             *)

LEMMA TypeStep ==
    ASSUME Delivery, [Next]_vars
    PROVE  TypeOK'
  <1>1. TypeOK
    BY DEF Delivery
  <1>2. QueueTypeOK
    BY <1>1 DEF TypeOK
  <1>3. \A w \in Workers : worker[w].pc # "idle" =>
            worker[w] \in Busy /\ worker[w].task \in Tasks
    BY <1>1, Shape
  <1> USE DEF tables, faults
  <1>4. CASE UNCHANGED vars
    BY <1>1, <1>4 DEF vars, TypeOK, QueueTypeOK, Board!Applications
  <1>5. ASSUME NEW kind \in {"apply", "save"}, NEW s \in Seekers, NEW j \in Jobs,
               Submit(kind, s, j)
        PROVE  TypeOK'
    <2>1. PICK t \in Tasks :
             /\ Enqueue(t)
             /\ payload' = [payload EXCEPT ![t] =
                               [kind |-> kind, seeker |-> s, job |-> j]]
      BY <1>5 DEF Submit
    <2>2. [kind |-> kind, seeker |-> s, job |-> j] \in Payload
      BY DEF Payload
    <2>3. QueueTypeOK' /\ \A u \in Tasks \ {t} : queue'[u] = queue[u]
      BY <1>2, <2>1, SetStateRow DEF Enqueue, TaskStates
    <2> QED
      BY <1>1, <1>5, <2>1, <2>2, <2>3 DEF TypeOK, Submit
  <1>6. ASSUME NEW w \in Workers, StartTask(w) PROVE TypeOK'
    <2>1. PICK t \in Tasks :
             Dequeue(t) /\ worker' = [worker EXCEPT ![w] = [pc |-> "checkJob", task |-> t]]
      BY <1>6 DEF StartTask
    <2>2. /\ QueueTypeOK' /\ \A u \in Tasks \ {t} : queue'[u] = queue[u]
          /\ queue[t].state = "pending"
      BY <1>2, <2>1, SetStateRow DEF Dequeue, TaskStates
    <2>3. [pc |-> "checkJob", task |-> t] \in Busy
      BY DEF Busy
    <2> QED
      BY <1>1, <1>6, <2>1, <2>2, <2>3 DEF TypeOK, StartTask
  <1>7. ASSUME NEW w \in Workers, NEW pc \in {"checkDup", "insert", "result", "complete"},
               worker[w].pc # "idle", Goto(w, pc)
        PROVE  /\ worker' \in [Workers -> Busy \cup {Idle}]
               /\ QueueTypeOK'
               /\ \A t \in Tasks : queue'[t].state # "unused" => queue[t].state # "unused"
    <2>1. worker[w] \in Busy
      BY <1>3, <1>7
    <2>2. [worker[w] EXCEPT !.pc = pc] \in Busy
      BY <2>1 DEF Busy
    <2> QED
      BY <1>1, <1>7, <2>2 DEF Goto, TypeOK, QueueTypeOK
  <1>8. ASSUME NEW w \in Workers, NEW e \in TaskErrors,
               worker[w].pc # "idle", queue[worker[w].task].state # "unused", Fail(w, e)
        PROVE  /\ worker' \in [Workers -> Busy \cup {Idle}]
               /\ QueueTypeOK'
               /\ \A t \in Tasks : queue'[t].state # "unused" => queue[t].state # "unused"
    BY <1>1, <1>2, <1>3, <1>8, FailedRow DEF Fail, TypeOK
  <1>9. \A w \in Workers : worker[w].pc # "idle" => queue[worker[w].task].state # "unused"
    BY DEF Delivery, ExclusiveDelivery, Idle
  <1>10. ASSUME NEW w \in Workers, ApplyCheckJob(w) PROVE TypeOK'
    BY <1>1, <1>7, <1>8, <1>9, <1>10 DEF ApplyCheckJob, At, DbError, TypeOK, TaskErrors
  <1>11. ASSUME NEW w \in Workers, ApplyCheckDuplicate(w) PROVE TypeOK'
    BY <1>1, <1>7, <1>8, <1>9, <1>11 DEF ApplyCheckDuplicate, At, DbError, TypeOK, TaskErrors
  <1>12. ASSUME NEW w \in Workers, SaveCheckJob(w) PROVE TypeOK'
    BY <1>1, <1>7, <1>8, <1>9, <1>12 DEF SaveCheckJob, At, DbError, TypeOK, TaskErrors
  <1>13. ASSUME NEW w \in Workers, worker[w].pc = "insert", InsertRow(worker[w].task)
         PROVE  /\ jobs' \in [Jobs -> Board!JobStates]
                /\ apps' \subseteq Board!Applications
                /\ saved' \subseteq Seekers \X Jobs
                /\ written' \in [Tasks -> Nat]
    <2> DEFINE t == worker[w].task
    <2>1. t \in Tasks
      BY <1>3, <1>13
    <2>2. payload[t] \in Payload
      BY <1>1, <1>9, <1>13, <2>1 DEF TypeOK
    <2>3. written[t] \in Nat /\ written[t] + 1 \in 1 .. MaxRetry + MaxRestarts + 1
      <3>1. written[t] <= Ended(t)
        BY <1>13 DEF Delivery, WriteBudget, BeforeInsert
      <3>2. /\ queue[t].retried \in Nat /\ queue[t].retried <= MaxRetry
            /\ restarts \in Nat /\ restarts <= MaxRestarts
            /\ written[t] \in Nat
        BY <1>1, <2>1, Shape DEF TypeOK
      <3> QED
        BY <3>1, <3>2 DEF Ended
    <2>4. NewApplication(t) \in Board!Applications
      BY <2>1, <2>2, <2>3 DEF NewApplication, Board!Applications, AppIds, Payload
    <2> QED
      BY <1>1, <1>13, <2>1, <2>2, <2>3, <2>4 DEF InsertRow, TypeOK, Payload
  <1>14. ASSUME NEW w \in Workers, Insert(w) PROVE TypeOK'
    BY <1>1, <1>7, <1>8, <1>9, <1>13, <1>14 DEF Insert, DbError, TypeOK, TaskErrors
  <1>15. ASSUME NEW w \in Workers, WriteResult(w) PROVE TypeOK'
    <2>1. worker[w] \in Busy /\ worker[w].task \in Tasks
      BY <1>3, <1>15 DEF WriteResult
    <2>2. [worker[w] EXCEPT !.pc = "complete"] \in Busy
      BY <2>1 DEF Busy
    <2>3. [queue[worker[w].task] EXCEPT !.result = TRUE] \in TaskRow
      BY <1>2, <2>1 DEF QueueTypeOK, TaskRow
    <2>4. /\ \/ queue' = [queue EXCEPT ![worker[w].task] =
                             [queue[worker[w].task] EXCEPT !.result = TRUE]]
             \/ queue' = queue
          /\ worker' = [worker EXCEPT ![w] = [worker[w] EXCEPT !.pc = "complete"]]
      BY <1>1, <1>15 DEF WriteResult, StoreResult, TypeOK
    <2>5. /\ QueueTypeOK'
          /\ \A t \in Tasks : queue'[t].state = queue[t].state
      BY <1>2, <2>1, <2>3, <2>4 DEF QueueTypeOK, TaskRow
    <2> QED
      BY <1>1, <1>15, <2>2, <2>4, <2>5 DEF WriteResult, TypeOK
  <1>16. ASSUME NEW w \in Workers, CompleteTask(w) PROVE TypeOK'
    <2>1. worker[w] \in Busy /\ worker[w].task \in Tasks
      BY <1>3, <1>16 DEF CompleteTask
    <2>2. /\ QueueTypeOK'
          /\ \A t \in Tasks : queue'[t].state # "unused" => queue[t].state # "unused"
      BY <1>2, <1>9, <1>16, <2>1, SetStateRow DEF CompleteTask, MarkAsComplete, TaskStates
    <2> QED
      BY <1>1, <1>16, <2>2 DEF CompleteTask, TypeOK
  <1>17. ASSUME NEW t \in Tasks, RetryDue(t) PROVE TypeOK'
    <2>1. QueueTypeOK' /\ \A u \in Tasks : queue'[u].state # "unused" => queue[u].state # "unused"
      BY <1>2, <1>17, SetStateRow DEF RetryDue, ForwardRetry, TaskStates
    <2> QED
      BY <1>1, <1>17, <2>1 DEF RetryDue, TypeOK
  <1>18. ASSUME NEW t \in Tasks, LeaseExpired(t) PROVE TypeOK'
    <2>1. QueueTypeOK' /\ \A u \in Tasks : queue'[u].state # "unused" => queue[u].state # "unused"
      BY <1>2, <1>18, FailedRow DEF LeaseExpired, TaskErrors
    <2> QED
      BY <1>1, <1>18, <2>1 DEF LeaseExpired, TypeOK
  <1>19. ASSUME NEW t \in Tasks, ForgetTask(t) PROVE TypeOK'
    <2>1. QueueTypeOK' /\ \A u \in Tasks : queue'[u].state # "unused" => queue[u].state # "unused"
      BY <1>2, <1>19, SetStateRow DEF ForgetTask, RetentionOver, TaskStates
    <2> QED
      BY <1>1, <1>19, <2>1 DEF ForgetTask, TypeOK
  <1>20. ASSUME NEW s \in Seekers, NEW j \in Jobs, UnsaveJob(s, j) PROVE TypeOK'
    BY <1>1, <1>20 DEF UnsaveJob, TypeOK, QueueTypeOK
  <1>34. ASSUME NEW j \in Jobs, CreateJob(j) \/ DeactivateJob(j) PROVE TypeOK'
    BY <1>1, <1>34 DEF CreateJob, DeactivateJob, TypeOK, QueueTypeOK, Board!JobStates
  <1>21. ASSUME NEW h \in Handlers, NEW req \in WithdrawRequest \cup DeleteRequest \cup StatusRequest,
                Accept(h, req)
         PROVE  TypeOK'
    BY <1>1, <1>21 DEF Accept, TypeOK, QueueTypeOK
  <1>22. ASSUME NEW h \in Handlers, NEW r \in Recruiters, NEW j \in Jobs, DeleteJobCheck(h, r, j)
         PROVE  TypeOK'
    BY <1>21, <1>22 DEF DeleteJobCheck, DeleteRequest
  <1>23. ASSUME NEW h \in Handlers, NEW s \in Seekers, NEW a \in apps, WithdrawCheck(h, s, a)
         PROVE  TypeOK'
    BY <1>1, <1>21, <1>23 DEF WithdrawCheck, WithdrawRequest, TypeOK, Board!Applications
  <1>24. ASSUME NEW h \in Handlers, NEW r \in Recruiters, NEW a \in apps, NEW st \in Statuses,
                StatusCheck(h, r, a, st)
         PROVE  TypeOK'
    BY <1>1, <1>21, <1>24 DEF StatusCheck, StatusRequest, TypeOK, Board!Applications
  <1>25. ASSUME NEW h \in Handlers, DeleteJob(h) PROVE TypeOK'
    BY <1>1, <1>25 DEF DeleteJob, Finish, TypeOK, QueueTypeOK, Board!JobStates
  <1>26. ASSUME NEW h \in Handlers, WithdrawApplication(h) PROVE TypeOK'
    BY <1>1, <1>26 DEF WithdrawApplication, Finish, TypeOK, QueueTypeOK
  <1>27. ASSUME NEW h \in Handlers, UpdateApplicationStatus(h) PROVE TypeOK'
    <2>1. handler[h].status \in Statuses
      BY <1>1, <1>27
      DEF UpdateApplicationStatus, TypeOK, NoRequest, WithdrawRequest, DeleteRequest, StatusRequest
    <2>2. \A a \in apps : [a EXCEPT !.status = handler[h].status] \in Board!Applications
      BY <1>1, <2>1 DEF TypeOK, Board!Applications
    <2> QED
      BY <1>1, <1>27, <2>2 DEF UpdateApplicationStatus, Finish, TypeOK, QueueTypeOK
  <1>28. ASSUME NEW h \in Handlers, RequestFails(h) PROVE TypeOK'
    BY <1>1, <1>28 DEF RequestFails, DbError, TypeOK, QueueTypeOK
  <1>29. CASE Crash
    BY <1>1, <1>29 DEF Crash, GoDown, TypeOK, QueueTypeOK
  <1>30. CASE ShutdownTimeout
    <2>1. \A t \in Tasks : [queue[t] EXCEPT !.state = "pending"] \in TaskRow
      BY <1>2 DEF QueueTypeOK, TaskRow, TaskStates
    <2>2. /\ QueueTypeOK'
          /\ \A t \in Tasks : queue'[t].state # "unused" => queue[t].state # "unused"
      <3>1. \A t \in Tasks : Held(t) => queue[t].state = "active"
        BY DEF Held, Delivery, ExclusiveDelivery
      <3>2. \A t \in Tasks :
               \/ queue'[t] = queue[t]
               \/ Held(t) /\ queue'[t] = [queue[t] EXCEPT !.state = "pending"]
        BY <1>30 DEF ShutdownTimeout
      <3>3. queue' = [t \in Tasks |-> queue'[t]]
        BY <1>30 DEF ShutdownTimeout
      <3>4. \A t \in Tasks : queue'[t] \in TaskRow /\ queue'[t].retried <= MaxRetry
        BY <1>2, <2>1, <3>2 DEF QueueTypeOK, TaskRow
      <3> QED
        BY <3>1, <3>2, <3>3, <3>4 DEF QueueTypeOK
    <2> QED
      BY <1>1, <1>30, <2>2 DEF ShutdownTimeout, GoDown, TypeOK
  <1>31. CASE \E w \in Workers : WorkerStep(w)
    BY <1>6, <1>10, <1>11, <1>12, <1>14, <1>15, <1>16, <1>31 DEF WorkerStep
  <1>32. CASE \E t \in Tasks : QueueStep(t) \/ ForgetTask(t)
    BY <1>17, <1>18, <1>19, <1>32 DEF QueueStep
  <1>33. CASE RequestStep
    <2>1. CASE \E s \in Seekers, j \in Jobs :
                  ApplyToJobRequest(s, j) \/ SaveJobRequest(s, j) \/ UnsaveJob(s, j)
      <3>1. PICK s \in Seekers, j \in Jobs :
               ApplyToJobRequest(s, j) \/ SaveJobRequest(s, j) \/ UnsaveJob(s, j)
        BY <2>1
      <3> QED
        BY <1>5, <1>20, <3>1 DEF ApplyToJobRequest, SaveJobRequest
    <2>2. CASE \E j \in Jobs : CreateJob(j) \/ DeactivateJob(j)
      BY <1>34, <2>2
    <2>3. ASSUME NEW h \in Handlers,
                 \/ \E r \in Recruiters, j \in Jobs : DeleteJobCheck(h, r, j)
                 \/ \E a \in apps :
                       \/ \E s \in Seekers : WithdrawCheck(h, s, a)
                       \/ \E r \in Recruiters, st \in Statuses : StatusCheck(h, r, a, st)
                 \/ DeleteJob(h) \/ WithdrawApplication(h) \/ UpdateApplicationStatus(h)
                 \/ RequestFails(h)
          PROVE  TypeOK'
      BY <1>22, <1>23, <1>24, <1>25, <1>26, <1>27, <1>28, <2>3
    <2> QED
      BY <1>33, <2>1, <2>2, <2>3 DEF RequestStep
  <1> QED
    BY <1>4, <1>29, <1>30, <1>31, <1>32, <1>33 DEF Next

-----------------------------------------------------------------------------
(* Every step keeps the bookkeeping of deliveries.                         *)

\* What DeliveryStep proves about the state after a step.
Bookkeeping == ExclusiveDelivery /\ WriteBudget /\ FaultBudget /\ Recorded

LEMMA QuietStep ==
    ASSUME Delivery, UNCHANGED <<queue, worker, written, restarts>>,
           dbErrs' \in Nat, dbErrs' >= dbErrs
    PROVE  Bookkeeping'
  <1>1. restarts \in Nat /\ dbErrs \in Nat /\ \A t \in Tasks : written[t] \in Nat
    BY Shape DEF Delivery
  <1>2. ExclusiveDelivery' /\ Recorded'
    BY DEF Delivery, ExclusiveDelivery, Recorded, AfterInsert
  <1>3. WriteBudget'
    BY DEF Delivery, WriteBudget, Ended, BeforeInsert
  <1>4. FaultBudget'
    BY <1>1 DEF Delivery, FaultBudget, Written, AfterInsert
  <1> QED
    BY <1>2, <1>3, <1>4 DEF Bookkeeping

\* A slot goes on to a statement before its INSERT.
LEMMA GotoStep ==
    ASSUME Delivery, NEW w \in Workers, BeforeInsert(w),
           NEW pc \in {"checkDup", "insert"}, Goto(w, pc),
           UNCHANGED <<written, restarts>>, dbErrs' \in Nat, dbErrs' >= dbErrs
    PROVE  Bookkeeping'
  <1>1. restarts \in Nat /\ dbErrs \in Nat /\ \A t \in Tasks : written[t] \in Nat
    BY Shape DEF Delivery
  <1>2. /\ queue' = queue
        /\ \A v \in Workers : worker'[v].task = worker[v].task
        /\ \A v \in Workers \ {w} : worker'[v] = worker[v]
        /\ worker'[w].pc = pc /\ worker[w] # Idle
        /\ \A v \in Workers : worker[v] = Idle <=> worker'[v] = Idle
    <2>1. worker[w] \in Busy
      BY Shape DEF Delivery, BeforeInsert
    <2>2. worker \in [Workers -> Busy \cup {Idle}]
      BY DEF Delivery, TypeOK
    <2> QED
      BY <2>1, <2>2 DEF Goto, Busy, Idle
  <1>3. ExclusiveDelivery'
    BY <1>2 DEF Delivery, ExclusiveDelivery
  <1>4. WriteBudget'
    BY <1>2 DEF Delivery, WriteBudget, Ended, BeforeInsert
  <1>5. \A v \in Workers : AfterInsert(v)' <=> AfterInsert(v)
    BY <1>2 DEF AfterInsert, BeforeInsert
  <1>6. FaultBudget'
    BY <1>1, <1>2, <1>5 DEF Delivery, FaultBudget, Written
  <1>7. Recorded'
    BY <1>2, <1>5 DEF Delivery, Recorded, AfterInsert
  <1> QED
    BY <1>3, <1>4, <1>6, <1>7 DEF Bookkeeping

\* A slot gives its task back after an error, the INSERT perhaps done.
LEMMA FailStep ==
    ASSUME Delivery, NEW w \in Workers, BeforeInsert(w),
           NEW e \in TaskErrors, Fail(w, e), UNCHANGED restarts,
           dbErrs' \in Nat, dbErrs' >= dbErrs,
           \/ UNCHANGED written
           \/ /\ written' = [written EXCEPT ![worker[w].task] = @ + 1]
              /\ dbErrs' = dbErrs + 1
    PROVE  Bookkeeping'
  <1>1. /\ restarts \in Nat /\ dbErrs \in Nat
        /\ \A u \in Tasks : written[u] \in Nat /\ queue[u].retried \in Nat
        /\ written \in [Tasks -> Nat] /\ QueueTypeOK
        /\ worker \in [Workers -> Busy \cup {Idle}]
    BY Shape DEF Delivery, TypeOK
  <1>2. PICK t \in Tasks : t = worker[w].task /\ worker[w] # Idle
    BY Shape DEF Delivery, BeforeInsert
  <1>3. /\ queue'[t].state \in {"retry", "archived"}
        /\ queue'[t].state = "retry" => queue'[t].retried = queue[t].retried + 1
        /\ queue'[t].state = "archived" => queue'[t].retried = queue[t].retried
        /\ \A u \in Tasks \ {t} : queue'[u] = queue[u]
        /\ worker'[w] = Idle
        /\ \A v \in Workers \ {w} : worker'[v] = worker[v]
    BY <1>1, <1>2, FailedRow DEF Fail
  <1>4. /\ \A u \in Tasks \ {t} : written'[u] = written[u]
        /\ written'[t] \in {written[t], written[t] + 1}
        /\ written'[t] = written[t] + 1 => dbErrs' = dbErrs + 1
    BY <1>1, <1>2
  <1>5. \A v \in Workers \ {w} : worker[v] # Idle => worker[v].task # t
    BY <1>2 DEF Delivery, ExclusiveDelivery
  <1>6. \A v \in Workers : worker[v] # Idle => worker[v] \in Busy /\ worker[v].task \in Tasks
    BY Shape DEF Delivery
  <1>7. ExclusiveDelivery'
    BY <1>3, <1>5, <1>6 DEF Delivery, ExclusiveDelivery, Idle
  <1>8. WriteBudget'
    <2>1. /\ written'[t] <= Ended(t)' + 1
          /\ queue'[t].state = "retry" => written'[t] <= Ended(t)'
      <3>1. written[t] <= queue[t].retried + restarts
        BY <1>2 DEF Delivery, WriteBudget, Ended
      <3> QED
        BY <3>1, <1>1, <1>2, <1>3, <1>4 DEF Ended
    <2>2. \A u \in Tasks \ {t} :
              /\ written'[u] <= Ended(u)' + 1
              /\ queue'[u].state \in {"unused", "pending", "retry"} => written'[u] <= Ended(u)'
      BY <1>3, <1>4 DEF Delivery, WriteBudget, Ended
    <2>3. ASSUME NEW v \in Workers, BeforeInsert(v)'
          PROVE  (written[worker[v].task] <= Ended(worker[v].task))'
      <3>1. v # w /\ worker'[v] = worker[v] /\ worker[v] # Idle
        BY <1>3, <2>3 DEF BeforeInsert, Idle
      <3>2. worker[v].task \in Tasks \ {t} /\ BeforeInsert(v)
        BY <1>5, <1>6, <2>3, <3>1 DEF BeforeInsert
      <3>3. written[worker[v].task] <= Ended(worker[v].task)
        BY <3>2 DEF Delivery, WriteBudget
      <3> QED
        BY <1>3, <1>4, <3>1, <3>2, <3>3 DEF Ended
    <2> QED
      BY <1>2, <1>3, <2>1, <2>2, <2>3 DEF WriteBudget
  <1>9. FaultBudget'
    <2>1. written[t] <= restarts + dbErrs
      BY <1>2, <1>5 DEF Delivery, FaultBudget, Written, ExclusiveDelivery, AfterInsert, BeforeInsert, Idle
    <2>2. written'[t] <= restarts' + dbErrs'
      BY <1>1, <1>2, <1>4, <2>1
    <2>3. \A u \in Tasks \ {t} : Written(u) => Written(u)'
      BY <1>2, <1>3 DEF Written, AfterInsert
    <2> QED
      BY <1>1, <1>2, <1>4, <2>2, <2>3 DEF Delivery, FaultBudget
  <1>10. Recorded'
    BY <1>1, <1>2, <1>3, <1>4, <1>5, <1>6 DEF Delivery, Recorded, AfterInsert, Idle
  <1> QED
    BY <1>7, <1>8, <1>9, <1>10 DEF Bookkeeping

\* A slot goes past its INSERT, which has taken effect.
LEMMA InsertStep ==
    ASSUME Delivery, NEW w \in Workers, worker[w].pc = "insert",
           Goto(w, "result"), UNCHANGED <<restarts, dbErrs>>,
           written' = [written EXCEPT ![worker[w].task] = @ + 1]
    PROVE  Bookkeeping'
  <1>1. /\ restarts \in Nat /\ dbErrs \in Nat
        /\ \A u \in Tasks : written[u] \in Nat /\ queue[u].retried \in Nat
        /\ written \in [Tasks -> Nat]
        /\ worker \in [Workers -> Busy \cup {Idle}]
    BY Shape DEF Delivery, TypeOK
  <1>2. PICK t \in Tasks : t = worker[w].task /\ worker[w] # Idle /\ worker[w] \in Busy
    BY Shape DEF Delivery
  <1>3. /\ queue' = queue
        /\ worker'[w].pc = "result" /\ worker'[w].task = t
        /\ \A v \in Workers \ {w} : worker'[v] = worker[v]
        /\ \A v \in Workers : worker'[v].task = worker[v].task
        /\ \A v \in Workers : worker[v] = Idle <=> worker'[v] = Idle
    BY <1>1, <1>2 DEF Goto, Busy, Idle
  <1>4. /\ \A u \in Tasks \ {t} : written'[u] = written[u]
        /\ written'[t] = written[t] + 1
    BY <1>1, <1>2
  <1>5. \A v \in Workers \ {w} : worker[v] # Idle => worker[v].task # t
    BY <1>2 DEF Delivery, ExclusiveDelivery
  <1>6. \A v \in Workers : worker[v] # Idle => worker[v] \in Busy /\ worker[v].task \in Tasks
    BY Shape DEF Delivery
  <1>7. queue[t].state = "active"
    BY <1>2 DEF Delivery, ExclusiveDelivery
  <1>8. ExclusiveDelivery'
    BY <1>3 DEF Delivery, ExclusiveDelivery
  <1>9. WriteBudget'
    <2>1. written[t] <= queue[t].retried + restarts
      BY <1>2 DEF Delivery, WriteBudget, Ended, BeforeInsert
    <2>2. \A u \in Tasks :
              /\ written'[u] <= Ended(u)' + 1
              /\ queue'[u].state \in {"unused", "pending", "retry"} => written'[u] <= Ended(u)'
      BY <1>1, <1>3, <1>4, <1>7, <2>1 DEF Delivery, WriteBudget, Ended
    <2>3. ASSUME NEW v \in Workers, BeforeInsert(v)'
          PROVE  (written[worker[v].task] <= Ended(worker[v].task))'
      <3>1. v # w /\ worker'[v] = worker[v] /\ worker[v] # Idle
        BY <1>3, <2>3 DEF BeforeInsert, Idle
      <3>2. worker[v].task \in Tasks \ {t} /\ BeforeInsert(v)
        BY <1>5, <1>6, <2>3, <3>1 DEF BeforeInsert
      <3>3. written[worker[v].task] <= Ended(worker[v].task)
        BY <3>2 DEF Delivery, WriteBudget
      <3> QED
        BY <1>3, <1>4, <3>1, <3>2, <3>3 DEF Ended
    <2> QED
      BY <2>2, <2>3 DEF WriteBudget
  <1>10. FaultBudget'
    <2>1. written[t] <= restarts + dbErrs
      BY <1>2, <1>5, <1>7
      DEF Delivery, FaultBudget, Written, ExclusiveDelivery, AfterInsert, Idle
    <2>2. Written(t)' /\ written'[t] <= restarts' + dbErrs' + 1
      BY <1>1, <1>2, <1>3, <1>4, <2>1 DEF Written, AfterInsert
    <2>3. \A u \in Tasks \ {t} : Written(u) => Written(u)'
      BY <1>2, <1>3 DEF Written, AfterInsert
    <2> QED
      BY <1>1, <1>2, <1>4, <2>2, <2>3 DEF Delivery, FaultBudget
  <1>11. Recorded'
    BY <1>1, <1>2, <1>3, <1>4, <1>5, <1>6, <1>7 DEF Delivery, Recorded, AfterInsert, Idle
  <1> QED
    BY <1>8, <1>9, <1>10, <1>11 DEF Bookkeeping

\* A slot without a task takes one.
LEMMA StartStep ==
    ASSUME Delivery, NEW w \in Workers, StartTask(w)
    PROVE  Bookkeeping'
  <1>1. PICK t \in Tasks :
           Dequeue(t) /\ worker' = [worker EXCEPT ![w] = [pc |-> "checkJob", task |-> t]]
    BY DEF StartTask
  <1>2. /\ queue[t].state = "pending"
        /\ queue'[t] = [queue[t] EXCEPT !.state = "active"]
        /\ \A u \in Tasks \ {t} : queue'[u] = queue[u]
    BY <1>1, SetStateRow DEF Delivery, TypeOK, Dequeue, TaskStates
  <1>3. queue'[t].state = "active" /\ queue'[t].retried = queue[t].retried
    BY <1>2, Shape DEF Delivery, TaskRow
  <1>4. /\ worker'[w].pc = "checkJob" /\ worker'[w].task = t /\ worker'[w] # Idle
        /\ worker[w] = Idle
        /\ \A v \in Workers \ {w} : worker'[v] = worker[v]
        /\ UNCHANGED <<written, restarts, dbErrs>>
    BY <1>1 DEF Delivery, TypeOK, StartTask, faults, Idle
  <1>5. \A v \in Workers : worker[v] # Idle => worker[v].task \in Tasks \ {t}
    BY <1>2, Shape DEF Delivery, ExclusiveDelivery
  <1>6. \A v \in Workers \ {w} : worker'[v].pc # "idle" \/ worker'[v] # Idle =>
            worker[v] # Idle /\ worker'[v].task \in Tasks \ {t}
    BY <1>4, <1>5 DEF Idle
  <1>7. ExclusiveDelivery'
    <2>1. \A v \in Workers \ {w} : worker'[v] # Idle =>
              queue'[worker'[v].task].state = "active"
      BY <1>2, <1>4, <1>6 DEF Delivery, ExclusiveDelivery
    <2>2. \A u, v \in Workers \ {w} :
              u # v /\ worker'[u] # Idle /\ worker'[v] # Idle => worker'[u].task # worker'[v].task
      BY <1>4, <1>6 DEF Delivery, ExclusiveDelivery
    <2> QED
      BY <1>3, <1>4, <1>6, <2>1, <2>2 DEF ExclusiveDelivery
  <1>8. WriteBudget'
    <2>1. \A u \in Tasks :
              /\ written'[u] <= Ended(u)' + 1
              /\ queue'[u].state \in {"unused", "pending", "retry"} => written'[u] <= Ended(u)'
      BY <1>2, <1>3, <1>4, ZenonT(40) DEF Delivery, WriteBudget, Ended
    <2>2. ASSUME NEW v \in Workers, BeforeInsert(v)'
          PROVE  (written[worker[v].task] <= Ended(worker[v].task))'
      <3>1. CASE v = w
        BY <1>2, <1>3, <1>4, <3>1 DEF Delivery, WriteBudget, Ended
      <3>2. CASE v # w
        BY <1>2, <1>4, <1>6, <2>2, <3>2 DEF Delivery, WriteBudget, Ended, BeforeInsert
      <3> QED
        BY <3>1, <3>2
    <2> QED
      BY <2>1, <2>2 DEF WriteBudget
  <1>9. \A v \in Workers : AfterInsert(v)' =>
            v # w /\ AfterInsert(v) /\ worker'[v] = worker[v] /\ worker'[v].task \in Tasks \ {t}
    BY <1>4, <1>6 DEF AfterInsert
  <1>10. \A v \in Workers : AfterInsert(v) => AfterInsert(v)' /\ worker'[v] = worker[v]
    BY <1>4 DEF AfterInsert, Idle
  <1>11. FaultBudget'
    BY <1>2, <1>3, <1>4, <1>10 DEF Delivery, FaultBudget, Written
  <1>12. Recorded'
    <2>1. \A v \in Workers : AfterInsert(v)' => written'[worker'[v].task] >= 1
      BY <1>2, <1>4, <1>9 DEF Delivery, Recorded
    <2>2. \A u \in Tasks : queue'[u].state = "completed" => written'[u] >= 1
      BY <1>2, <1>3, <1>4 DEF Delivery, Recorded
    <2> QED
      BY <2>1, <2>2 DEF Recorded
  <1> QED
    BY <1>7, <1>8, <1>11, <1>12 DEF Bookkeeping

\* A task nobody works on moves to another state, in the queue only.
LEMMA UnheldStep ==
    ASSUME Delivery, NEW t \in Tasks, ~Held(t),
           UNCHANGED <<worker, written, restarts, dbErrs>>,
           \A u \in Tasks \ {t} : queue'[u] = queue[u],
           queue'[t].retried \in Nat,
           \* the budget of t is kept, and a write stays acknowledged
           written[t] <= queue'[t].retried + restarts + 1,
           queue'[t].state \in {"unused", "pending", "retry"}
                => written[t] <= queue'[t].retried + restarts,
           queue[t].state \in {"completed", "expired"}
                => queue'[t].state \in {"completed", "expired"},
           queue'[t].state # "completed"
    PROVE  Bookkeeping'
  <1>1. \A w \in Workers : worker[w] # Idle => worker[w].task \in Tasks \ {t}
    BY Shape DEF Delivery, Held
  <1>2. \A w \in Workers : BeforeInsert(w) \/ AfterInsert(w) => worker[w] # Idle
    BY DEF BeforeInsert, AfterInsert, Idle
  <1>3. ExclusiveDelivery'
    BY <1>1 DEF Delivery, ExclusiveDelivery
  <1>4. WriteBudget'
    BY <1>1, <1>2 DEF Delivery, WriteBudget, Ended, BeforeInsert
  <1>5. \A u \in Tasks : Written(u) => Written(u)'
    BY DEF Written, AfterInsert
  <1>6. FaultBudget'
    BY <1>5 DEF Delivery, FaultBudget
  <1>7. Recorded'
    BY <1>1, <1>2 DEF Delivery, Recorded, AfterInsert
  <1> QED
    BY <1>3, <1>4, <1>6, <1>7 DEF Bookkeeping

\* A slot past its INSERT tries to store the result.
LEMMA ResultStep ==
    ASSUME Delivery, NEW w \in Workers, WriteResult(w)
    PROVE  Bookkeeping'
  <1>1. PICK t \in Tasks : t = worker[w].task /\ worker[w] # Idle /\ worker[w] \in Busy
    BY Shape DEF Delivery, WriteResult
  <1>2. /\ queue \in [Tasks -> TaskRow] /\ worker \in [Workers -> Busy \cup {Idle}]
        /\ restarts \in Nat /\ dbErrs \in Nat /\ \A u \in Tasks : written[u] \in Nat
    BY Shape DEF Delivery, TypeOK, QueueTypeOK
  <1>3. /\ worker'[w].pc = "complete" /\ worker'[w].task = t
        /\ \A v \in Workers \ {w} : worker'[v] = worker[v]
        /\ \A v \in Workers : worker'[v].task = worker[v].task
        /\ \A v \in Workers : worker[v] = Idle <=> worker'[v] = Idle
        /\ UNCHANGED <<written, restarts, dbErrs>>
    BY <1>1, <1>2 DEF WriteResult, Busy, Idle, faults
  <1>4. /\ \A u \in Tasks : queue'[u].state = queue[u].state
        /\ \A u \in Tasks : queue'[u].retried = queue[u].retried
    <2>1. CASE StoreResult(t)
      <3>1. queue'[t] = [queue[t] EXCEPT !.result = TRUE]
        BY <1>2, <2>1 DEF StoreResult
      <3>2. \A u \in Tasks \ {t} : queue'[u] = queue[u]
        BY <1>2, <2>1 DEF StoreResult
      <3> QED
        BY <1>2, <3>1, <3>2 DEF TaskRow
    <2>2. CASE UNCHANGED queue
      BY <2>2
    <2> QED
      BY <1>1, <2>1, <2>2 DEF WriteResult
  <1>5. \A v \in Workers : AfterInsert(v)' <=> AfterInsert(v)
    BY <1>3 DEF AfterInsert, WriteResult
  <1>6. ExclusiveDelivery'
    BY <1>3, <1>4, Shape DEF Delivery, ExclusiveDelivery
  <1>7. WriteBudget'
    BY <1>3, <1>4, Shape DEF Delivery, WriteBudget, Ended, BeforeInsert
  <1>8. FaultBudget'
    BY <1>3, <1>4, <1>5 DEF Delivery, FaultBudget, Written
  <1>9. Recorded'
    <2>1. ASSUME NEW v \in Workers, AfterInsert(v)
          PROVE  worker[v].task \in Tasks
      BY <2>1, Shape DEF Delivery, AfterInsert
    <2> QED
      BY <1>3, <1>4, <1>5, <2>1 DEF Delivery, Recorded
  <1> QED
    BY <1>6, <1>7, <1>8, <1>9 DEF Bookkeeping

\* A slot is done with its task.
LEMMA CompleteStep ==
    ASSUME Delivery, NEW w \in Workers, CompleteTask(w)
    PROVE  Bookkeeping'
  <1>1. PICK t \in Tasks : t = worker[w].task /\ worker[w] # Idle /\ worker[w] \in Busy
    BY Shape DEF Delivery, CompleteTask
  <1>2. /\ worker'[w] = Idle
        /\ \A v \in Workers \ {w} : worker'[v] = worker[v]
        /\ UNCHANGED <<written, restarts, dbErrs>>
        /\ worker[w].pc = "complete"
    BY DEF Delivery, TypeOK, CompleteTask, faults
  <1>3. /\ queue'[t] = [queue[t] EXCEPT !.state = "completed"]
        /\ \A u \in Tasks \ {t} : queue'[u] = queue[u]
    BY <1>1, SetStateRow DEF Delivery, TypeOK, CompleteTask, MarkAsComplete, TaskStates
  <1>4. /\ queue'[t].state = "completed" /\ queue'[t].retried = queue[t].retried
    BY <1>3, Shape DEF Delivery, TaskRow
  <1>5. \A v \in Workers \ {w} : worker[v] # Idle => worker[v].task \in Tasks \ {t}
    BY <1>1, Shape DEF Delivery, ExclusiveDelivery
  <1>6. \A v \in Workers : BeforeInsert(v)' \/ AfterInsert(v)' \/ worker'[v] # Idle =>
            v # w /\ worker'[v] = worker[v] /\ worker[v] # Idle /\ worker[v].task \in Tasks \ {t}
    BY <1>2, <1>5 DEF BeforeInsert, AfterInsert, Idle
  <1>7. ExclusiveDelivery'
    BY <1>2, <1>3, <1>6 DEF Delivery, ExclusiveDelivery
  <1>8. WriteBudget'
    <2>1. \A u \in Tasks :
              /\ written'[u] <= Ended(u)' + 1
              /\ queue'[u].state \in {"unused", "pending", "retry"} => written'[u] <= Ended(u)'
      BY <1>2, <1>3, <1>4, ZenonT(40) DEF Delivery, WriteBudget, Ended
    <2>2. ASSUME NEW v \in Workers, BeforeInsert(v)'
          PROVE  (written[worker[v].task] <= Ended(worker[v].task))'
      <3>1. /\ worker'[v] = worker[v] /\ worker[v].task \in Tasks \ {t}
            /\ BeforeInsert(v)
        BY <1>6, <2>2 DEF BeforeInsert
      <3> QED
        BY <1>2, <1>3, <3>1 DEF Delivery, WriteBudget, Ended
    <2> QED
      BY <2>1, <2>2 DEF WriteBudget
  <1>9. FaultBudget'
    <2>1. Written(t)'
      BY <1>4 DEF Written
    <2>2. \A u \in Tasks \ {t} : Written(u) => Written(u)'
      BY <1>1, <1>2, <1>3 DEF Written, AfterInsert
    <2> QED
      BY <1>2, <2>1, <2>2 DEF Delivery, FaultBudget
  <1>10. Recorded'
    <2>1. written[t] >= 1
      BY <1>1, <1>2 DEF Delivery, Recorded, AfterInsert
    <2>2. ASSUME NEW v \in Workers, AfterInsert(v)'
          PROVE  written'[worker'[v].task] >= 1
      <3>1. /\ worker'[v] = worker[v] /\ worker[v].task \in Tasks \ {t}
            /\ AfterInsert(v)
        BY <1>6, <2>2 DEF AfterInsert
      <3> QED
        BY <1>2, <1>3, <3>1 DEF Delivery, Recorded
    <2>3. \A u \in Tasks \ {t} : queue[u].state = "completed" => written[u] >= 1
      BY DEF Delivery, Recorded
    <2> QED
      BY <1>2, <1>3, <1>4, <2>1, <2>2, <2>3 DEF Recorded
  <1> QED
    BY <1>7, <1>8, <1>9, <1>10 DEF Bookkeeping

\* The process goes down, and what it ran is requeued or left as it is.
LEMMA DownStep ==
    ASSUME Delivery, Crash \/ ShutdownTimeout
    PROVE  Bookkeeping'
  <1>1. /\ restarts \in Nat /\ dbErrs \in Nat
        /\ \A t \in Tasks : written[t] \in Nat /\ queue[t].retried \in Nat
    BY Shape DEF Delivery
  <1>2. /\ \A w \in Workers : worker'[w] = Idle
        /\ restarts' = restarts + 1 /\ UNCHANGED <<written, dbErrs>>
    BY DEF Crash, ShutdownTimeout, GoDown, tables
  <1>3. \A t \in Tasks : Held(t) => queue[t].state = "active"
    BY DEF Held, Delivery, ExclusiveDelivery
  <1>4. ASSUME NEW t \in Tasks
        PROVE  /\ queue'[t].retried = queue[t].retried
               /\ queue'[t].state \in {queue[t].state, "pending"}
               /\ queue[t].state # "active" => queue'[t].state = queue[t].state
    <2>1. CASE Crash
      BY <2>1 DEF Crash
    <2>2. CASE ShutdownTimeout
      <3>1. queue[t] \in TaskRow
        BY <1>4, Shape DEF Delivery
      <3>2. queue'[t] = IF Held(t) THEN [queue[t] EXCEPT !.state = "pending"] ELSE queue[t]
        BY <2>2 DEF ShutdownTimeout
      <3>3. CASE Held(t)
        BY <1>3, <3>1, <3>2, <3>3 DEF TaskRow
      <3>4. CASE ~Held(t)
        BY <3>2, <3>4
      <3> QED
        BY <3>3, <3>4
    <2> QED
      BY <2>1, <2>2
  <1>5. ExclusiveDelivery'
    BY <1>2 DEF ExclusiveDelivery
  <1>6. WriteBudget'
    <2>1. \A w \in Workers : ~BeforeInsert(w)'
      BY <1>2 DEF BeforeInsert, Idle
    <2>2. \A t \in Tasks : written'[t] <= Ended(t)'
      BY <1>1, <1>2, <1>4 DEF Delivery, WriteBudget, Ended
    <2>3. \A t \in Tasks : Ended(t)' \in Nat /\ written'[t] \in Nat
      BY <1>1, <1>2, <1>4 DEF Ended
    <2> QED
      BY <2>1, <2>2, <2>3 DEF WriteBudget
  <1>7. FaultBudget'
    BY <1>1, <1>2 DEF Delivery, FaultBudget
  <1>8. Recorded'
    <2>1. \A w \in Workers : ~AfterInsert(w)'
      BY <1>2 DEF AfterInsert, Idle
    <2>2. \A t \in Tasks : queue'[t].state = "completed" => queue[t].state = "completed"
      BY <1>4
    <2> QED
      BY <1>2, <1>4, <2>1, <2>2 DEF Delivery, Recorded
  <1> QED
    BY <1>5, <1>6, <1>7, <1>8 DEF Bookkeeping

LEMMA DeliveryStep ==
    ASSUME Delivery, [Next]_vars
    PROVE  Bookkeeping'
  <1> USE DEF tables, faults
  <1>1. /\ dbErrs \in Nat /\ restarts \in Nat /\ dbErrs + 1 >= dbErrs /\ dbErrs >= dbErrs
        /\ dbErrs + 1 \in Nat
        /\ \A t \in Tasks : queue[t] \in TaskRow /\ queue[t].retried \in Nat /\ written[t] \in Nat
    BY Shape DEF Delivery
  <1>2. QueueTypeOK
    BY DEF Delivery, TypeOK
  <1>3. \A t \in Tasks : Held(t) => queue[t].state = "active"
    BY DEF Held, Delivery, ExclusiveDelivery
  <1>4. CASE UNCHANGED vars
    BY <1>1, <1>4, QuietStep DEF vars
  <1>5. ASSUME NEW kind \in {"apply", "save"}, NEW s \in Seekers, NEW j \in Jobs,
               Submit(kind, s, j)
        PROVE  Bookkeeping'
    <2>1. PICK t \in Tasks : Enqueue(t)
      BY <1>5 DEF Submit
    <2>2. /\ queue[t].state = "unused" /\ queue'[t] = [queue[t] EXCEPT !.state = "pending"]
          /\ \A u \in Tasks \ {t} : queue'[u] = queue[u]
      BY <1>2, <2>1, SetStateRow DEF Enqueue, TaskStates
    <2>3. queue'[t].state = "pending" /\ queue'[t].retried = queue[t].retried
      BY <1>1, <2>2 DEF TaskRow
    <2>4. ~Held(t)
      BY <1>3, <2>2
    <2>5. written[t] <= queue[t].retried + restarts
      BY <2>2 DEF Delivery, WriteBudget, Ended
    <2>6. /\ queue'[t].retried \in Nat /\ written[t] <= queue'[t].retried + restarts
          /\ written[t] <= queue'[t].retried + restarts + 1
      BY <1>1, <2>3, <2>5
    <2> QED
      BY <1>5, <2>2, <2>3, <2>4, <2>6, UnheldStep DEF Submit
  <1>6. ASSUME NEW t \in Tasks, RetryDue(t) PROVE Bookkeeping'
    <2>1. /\ queue[t].state = "retry" /\ queue'[t] = [queue[t] EXCEPT !.state = "pending"]
          /\ \A u \in Tasks \ {t} : queue'[u] = queue[u]
      BY <1>2, <1>6, SetStateRow DEF RetryDue, ForwardRetry, TaskStates
    <2>2. queue'[t].state = "pending" /\ queue'[t].retried = queue[t].retried
      BY <1>1, <2>1 DEF TaskRow
    <2>3. ~Held(t) /\ written[t] <= queue[t].retried + restarts
      BY <1>3, <2>1 DEF Delivery, WriteBudget, Ended
    <2>4. /\ queue'[t].retried \in Nat /\ written[t] <= queue'[t].retried + restarts
          /\ written[t] <= queue'[t].retried + restarts + 1
      BY <1>1, <2>2, <2>3
    <2> QED
      BY <1>6, <2>1, <2>2, <2>3, <2>4, UnheldStep DEF RetryDue
  <1>7. ASSUME NEW t \in Tasks, LeaseExpired(t) PROVE Bookkeeping'
    <2>1. /\ queue'[t].state \in {"retry", "archived"}
          /\ queue'[t].state = "retry" => queue'[t].retried = queue[t].retried + 1
          /\ queue'[t].state = "archived" => queue'[t].retried = queue[t].retried
          /\ \A u \in Tasks \ {t} : queue'[u] = queue[u]
      BY <1>2, <1>7, FailedRow DEF LeaseExpired, TaskErrors
    <2>2. written[t] <= queue[t].retried + restarts + 1
      BY DEF Delivery, WriteBudget, Ended
    <2>3. /\ queue'[t].retried \in Nat /\ written[t] <= queue'[t].retried + restarts + 1
          /\ queue'[t].state = "retry" => written[t] <= queue'[t].retried + restarts
      BY <1>1, <2>1, <2>2
    <2> QED
      BY <1>7, <2>1, <2>3, UnheldStep DEF LeaseExpired
  <1>8. ASSUME NEW t \in Tasks, ForgetTask(t) PROVE Bookkeeping'
    <2>1. /\ queue[t].state = "completed" /\ queue'[t] = [queue[t] EXCEPT !.state = "expired"]
          /\ \A u \in Tasks \ {t} : queue'[u] = queue[u]
      BY <1>2, <1>8, SetStateRow DEF ForgetTask, RetentionOver, TaskStates
    <2>2. queue'[t].state = "expired" /\ queue'[t].retried = queue[t].retried
      BY <1>1, <2>1 DEF TaskRow
    <2>3. ~Held(t) /\ written[t] <= queue[t].retried + restarts + 1
      BY <1>3, <2>1 DEF Delivery, WriteBudget, Ended
    <2> QED
      BY <1>1, <1>8, <2>1, <2>2, <2>3, UnheldStep DEF ForgetTask
  <1>9. ASSUME NEW w \in Workers, ApplyCheckJob(w) \/ SaveCheckJob(w) \/ ApplyCheckDuplicate(w)
        PROVE  Bookkeeping'
    <2>1. /\ BeforeInsert(w)
          /\ UNCHANGED <<written, restarts>> /\ dbErrs' \in Nat /\ dbErrs' >= dbErrs
          /\ \/ \E pc \in {"checkDup", "insert"} : Goto(w, pc)
             \/ \E e \in TaskErrors : Fail(w, e)
      BY <1>1, <1>9
      DEF ApplyCheckJob, SaveCheckJob, ApplyCheckDuplicate, At, DbError, BeforeInsert, TaskErrors
    <2> QED
      BY <2>1, GotoStep, FailStep
  <1>10. ASSUME NEW w \in Workers, Insert(w) PROVE Bookkeeping'
    <2>1. worker[w].pc = "insert" /\ BeforeInsert(w) /\ UNCHANGED restarts
      BY <1>10 DEF Insert, BeforeInsert
    <2>2. CASE /\ InsertRow(worker[w].task) /\ Goto(w, "result") /\ UNCHANGED dbErrs
      BY <2>1, <2>2, InsertStep DEF InsertRow
    <2>3. CASE Fail(w, "db") /\ UNCHANGED <<written, dbErrs>>
      BY <1>1, <2>1, <2>3, FailStep DEF TaskErrors
    <2>4. CASE DbError /\ Fail(w, "db") /\ (InsertRow(worker[w].task) \/ UNCHANGED written)
      BY <1>1, <2>1, <2>4, FailStep DEF TaskErrors, DbError, InsertRow
    <2> QED
      BY <1>10, <2>2, <2>3, <2>4 DEF Insert
  <1>11. CASE \E w \in Workers : WorkerStep(w)
    BY <1>9, <1>10, <1>11, StartStep, ResultStep, CompleteStep DEF WorkerStep
  <1>12. CASE \E t \in Tasks : QueueStep(t) \/ ForgetTask(t)
    BY <1>6, <1>7, <1>8, <1>12 DEF QueueStep
  <1>13. CASE RequestStep
    <2>1. CASE \E s \in Seekers, j \in Jobs : ApplyToJobRequest(s, j) \/ SaveJobRequest(s, j)
      BY <1>5, <2>1 DEF ApplyToJobRequest, SaveJobRequest
    <2>2. CASE ~ \E s \in Seekers, j \in Jobs : ApplyToJobRequest(s, j) \/ SaveJobRequest(s, j)
      <3>1. /\ UNCHANGED <<queue, worker, written, restarts>>
            /\ dbErrs' \in {dbErrs, dbErrs + 1}
        BY <1>13, <2>2
        DEF RequestStep, UnsaveJob, CreateJob, DeactivateJob, DeleteJobCheck, DeleteJob,
            WithdrawCheck, WithdrawApplication, StatusCheck, UpdateApplicationStatus,
            RequestFails, DbError, Accept, Finish
      <3> QED
        BY <1>1, <3>1, QuietStep
    <2> QED
      BY <2>1, <2>2
  <1> QED
    BY <1>4, <1>11, <1>12, <1>13, DownStep DEF Next

\* The bookkeeping invariant holds in every run of the specification.
THEOREM DeliveryInvariant == Spec => []Delivery
  <1>1. Delivery /\ [Next]_vars => Delivery'
    BY TypeStep, DeliveryStep DEF Delivery, Bookkeeping
  <1> QED
    BY <1>1, InitDelivery, PTL DEF Spec

-----------------------------------------------------------------------------
(* What a delivery can and cannot do.                                      *)

\* The variables keep their types; in particular every application row has
\* an id of AppIds, which are as many as the retries and restarts allow.
THEOREM TypeCorrect == Spec => []TypeOK
  BY DeliveryInvariant, PTL DEF Delivery

\* No task is run by two slots at once, and none is run that the queue does
\* not count as active.
THEOREM OneSlotPerTask == Spec => []ExclusiveDelivery
  BY DeliveryInvariant, PTL DEF Delivery

\* Whatever polls as "completed" was written.
THEOREM CompletedTasksAreRecorded == Spec => []CompletedWasRecorded
  <1>1. Delivery => CompletedWasRecorded
    <2> SUFFICES ASSUME Delivery, NEW t \in Tasks, GetJobStatus(t).status = "completed"
                 PROVE  written[t] >= 1
      BY DEF CompletedWasRecorded
    <2>1. queue[t].state \in TaskStates
      BY Shape DEF Delivery
    <2>2. queue[t].state = "completed"
      BY <2>1 DEF GetJobStatus, asynqStateToStatus, JobNotFound, TaskStates
    <2> QED
      BY <2>2 DEF Delivery, Recorded
  <1> QED
    BY <1>1, DeliveryInvariant, PTL

\* A task writes again only after a fault, however often it is retried.
THEOREM RetriesAloneRepeatNothing == Spec => []RewritesNeedAFault
  <1>1. Delivery => RewritesNeedAFault
    <2> SUFFICES ASSUME Delivery, NEW t \in Tasks PROVE written[t] <= 1 + restarts + dbErrs
      BY DEF RewritesNeedAFault
    <2>1. restarts \in Nat /\ dbErrs \in Nat /\ written[t] \in Nat
      BY Shape DEF Delivery
    <2> QED
      BY <2>1 DEF Delivery, FaultBudget
  <1> QED
    BY <1>1, DeliveryInvariant, PTL

\* The row of a task that has ended stays as it is, or expires.
LEMMA EndedRow ==
    ASSUME Delivery, [Next]_vars, NEW t \in Tasks,
           queue[t].state \in {"completed", "archived"}
    PROVE  \/ queue'[t] = queue[t]
           \/ queue[t].state = "completed" /\ queue'[t].state = "expired"
  <1> DEFINE Kept == \/ queue'[t] = queue[t]
                     \/ queue[t].state = "completed" /\ queue'[t].state = "expired"
  <1>1. QueueTypeOK /\ queue \in [Tasks -> TaskRow]
    BY DEF Delivery, TypeOK, QueueTypeOK
  <1>2. \A w \in Workers : worker[w].pc # "idle" =>
            worker[w].task \in Tasks \ {t}
    BY Shape DEF Delivery, ExclusiveDelivery
  <1>3. ~Held(t)
    BY DEF Held, Delivery, ExclusiveDelivery
  <1>4. CASE UNCHANGED vars
    BY <1>4 DEF vars
  <1>5. ASSUME NEW kind \in {"apply", "save"}, NEW s \in Seekers, NEW j \in Jobs,
               Submit(kind, s, j)
        PROVE  Kept
    BY <1>1, <1>5, SetStateRow DEF Submit, Enqueue, TaskStates
  <1>6. ASSUME NEW w \in Workers, StartTask(w) PROVE Kept
    BY <1>1, <1>6, SetStateRow DEF StartTask, Dequeue, TaskStates
  <1>7. ASSUME NEW w \in Workers, NEW e \in TaskErrors, worker[w].pc # "idle", Fail(w, e)
        PROVE  Kept
    BY <1>1, <1>2, <1>7, FailedRow DEF Fail
  <1>8. ASSUME NEW w \in Workers,
               ApplyCheckJob(w) \/ SaveCheckJob(w) \/ ApplyCheckDuplicate(w) \/ Insert(w)
        PROVE  Kept
    BY <1>7, <1>8
    DEF ApplyCheckJob, SaveCheckJob, ApplyCheckDuplicate, Insert, At, Goto, TaskErrors
  <1>9. ASSUME NEW w \in Workers, WriteResult(w) \/ CompleteTask(w) PROVE Kept
    <2>1. worker[w].task \in Tasks \ {t}
      BY <1>2, <1>9 DEF WriteResult, CompleteTask
    <2>2. CASE WriteResult(w)
      BY <1>1, <2>1, <2>2 DEF WriteResult, StoreResult
    <2>3. CASE CompleteTask(w)
      <3>1. SetState(worker[w].task, "completed") /\ "completed" \in TaskStates
        BY <2>3 DEF CompleteTask, MarkAsComplete, TaskStates
      <3>2. queue'[t] = queue[t]
        BY <1>1, <2>1, <3>1, SetStateRow
      <3> QED
        BY <3>2
    <2> QED
      BY <1>9, <2>2, <2>3
  <1>10. ASSUME NEW u \in Tasks, QueueStep(u) PROVE Kept
    <2>1. u # t
      BY <1>10 DEF QueueStep, RetryDue, ForwardRetry, LeaseExpired
    <2>2. CASE RetryDue(u)
      BY <1>1, <2>1, <2>2, SetStateRow DEF RetryDue, ForwardRetry, TaskStates
    <2>3. CASE LeaseExpired(u)
      <3>1. HandleFailed(u, "lease") /\ "lease" \in TaskErrors
        BY <2>3 DEF LeaseExpired, TaskErrors
      <3> QED
        BY <1>1, <2>1, <3>1, FailedRow
    <2> QED
      BY <1>10, <2>2, <2>3 DEF QueueStep
  <1>11. ASSUME NEW u \in Tasks, ForgetTask(u) PROVE Kept
    <2>1. queue[u].state = "completed" /\ SetState(u, "expired") /\ "expired" \in TaskStates
      BY <1>11 DEF ForgetTask, RetentionOver, TaskStates
    <2>2. CASE u # t
      BY <1>1, <2>1, <2>2, SetStateRow
    <2>3. CASE u = t
      <3>1. queue'[t] = [queue[t] EXCEPT !.state = "expired"] /\ queue[t] \in TaskRow
        BY <1>1, <2>1, <2>3, SetStateRow
      <3> QED
        BY <2>1, <2>3, <3>1 DEF TaskRow
    <2> QED
      BY <2>2, <2>3
  <1>12. CASE RequestStep
    <2>1. CASE \E s \in Seekers, j \in Jobs : ApplyToJobRequest(s, j) \/ SaveJobRequest(s, j)
      BY <1>5, <2>1 DEF ApplyToJobRequest, SaveJobRequest
    <2>2. CASE ~ \E s \in Seekers, j \in Jobs : ApplyToJobRequest(s, j) \/ SaveJobRequest(s, j)
      BY <1>12, <2>2
      DEF RequestStep, UnsaveJob, CreateJob, DeactivateJob, DeleteJobCheck, DeleteJob,
          WithdrawCheck, WithdrawApplication, StatusCheck, UpdateApplicationStatus,
          RequestFails, Accept, Finish
    <2> QED
      BY <2>1, <2>2
  <1>13. CASE Crash \/ ShutdownTimeout
    BY <1>3, <1>13 DEF Crash, ShutdownTimeout
  <1> QED
    BY <1>4, <1>6, <1>8, <1>9, <1>10, <1>11, <1>12, <1>13 DEF Next, WorkerStep

\* A poll that answered "completed" or "failed" has said its last word.
THEOREM PollsAreFinal == Spec => PollIsFinal
  <1>1. ASSUME Delivery, [Next]_vars PROVE FinalAnswers
    <2> SUFFICES ASSUME NEW t \in Tasks, GetJobStatus(t).status \in {"completed", "failed"}
                 PROVE  \/ GetJobStatus(t)' = GetJobStatus(t)
                        \/ /\ GetJobStatus(t).status = "completed"
                           /\ GetJobStatus(t)' = JobNotFound
      BY DEF FinalAnswers
    <2>1. queue[t].state \in TaskStates
      BY <1>1, Shape DEF Delivery
    <2>2. queue[t].state \in {"completed", "archived"}
      BY <2>1 DEF GetJobStatus, asynqStateToStatus, JobNotFound, TaskStates
    <2>3. queue'[t] = queue[t] => GetJobStatus(t)' = GetJobStatus(t)
      BY DEF GetJobStatus
    <2>4. queue'[t].state = "expired" => GetJobStatus(t)' = JobNotFound
      BY DEF GetJobStatus
    <2>5. queue[t].state = "completed" => GetJobStatus(t).status = "completed"
      BY DEF GetJobStatus, asynqStateToStatus
    <2> QED
      BY <1>1, <2>2, <2>3, <2>4, <2>5, EndedRow
  <1>2. Delivery /\ [Next]_vars => [FinalAnswers]_vars
    BY <1>1
  <1> QED
    BY <1>2, DeliveryInvariant, PTL DEF Spec, PollIsFinal

-----------------------------------------------------------------------------
(* What the end of a task says about its rows.                             *)

\* Without faults a completed task has written once, and an archived one not
\* at all, for any number of slots and retries.
THEOREM EndsTellTheEffect == Spec => []EffectMatchesStatus
  <1>1. Delivery => EffectMatchesStatus
    <2> SUFFICES ASSUME Delivery, restarts = 0, dbErrs = 0, NEW t \in Tasks
                 PROVE  /\ queue[t].state = "completed" => written[t] = 1
                        /\ queue[t].state = "archived" => written[t] = 0
      BY DEF EffectMatchesStatus
    <2>1. written[t] \in Nat
      BY Shape DEF Delivery
    <2>2. queue[t].state = "completed" => written[t] = 1
      BY <2>1 DEF Delivery, FaultBudget, Recorded
    <2>3. ASSUME queue[t].state = "archived" PROVE written[t] = 0
      <3>1. ~Written(t)
        <4>1. \A w \in Workers : AfterInsert(w) => worker[w] # Idle
          BY DEF AfterInsert, Idle
        <4> QED
          BY <2>3, <4>1 DEF Written, Delivery, ExclusiveDelivery
      <3> QED
        BY <2>1, <3>1 DEF Delivery, FaultBudget
    <2> QED
      BY <2>2, <2>3
  <1> QED
    BY <1>1, DeliveryInvariant, PTL

\* The job of a task was on the board when the task was made, so that a save
\* that was turned down without a fault met a deleted job.
SaveOfDeleted(t) ==
    queue[t].state # "unused" =>
        /\ jobs[payload[t].job] # "unposted"
        /\ (/\ dbErrs = 0
            /\ queue[t].state = "archived"
            /\ payload[t].kind = "save"
            /\ queue[t].lastErr # "lease") => jobs[payload[t].job] = "deleted"
SavesOfDeleted == \A t \in Tasks : SaveOfDeleted(t)

\* The row of a job comes and goes once.
LEMMA JobsAge ==
    ASSUME Delivery, [Next]_vars, NEW j \in Jobs
    PROVE  /\ jobs[j] # "unposted" => jobs'[j] # "unposted"
           /\ jobs[j] = "deleted" => jobs'[j] = "deleted"
  <1>1. jobs \in [Jobs -> Board!JobStates]
    BY DEF Delivery, TypeOK
  <1>2. CASE UNCHANGED jobs
    BY <1>2
  <1>3. CASE RequestStep
    <2>1. ASSUME NEW i \in Jobs, CreateJob(i) \/ DeactivateJob(i)
          PROVE  /\ jobs[j] # "unposted" => jobs'[j] # "unposted"
                 /\ jobs[j] = "deleted" => jobs'[j] = "deleted"
      BY <1>1, <2>1 DEF CreateJob, DeactivateJob
    <2>2. ASSUME NEW h \in Handlers, DeleteJob(h)
          PROVE  /\ jobs[j] # "unposted" => jobs'[j] # "unposted"
                 /\ jobs[j] = "deleted" => jobs'[j] = "deleted"
      BY <1>1, <2>2 DEF DeleteJob, tables
    <2> QED
      BY <1>2, <1>3, <2>1, <2>2
      DEF RequestStep, ApplyToJobRequest, SaveJobRequest, Submit, UnsaveJob, DeleteJobCheck,
          WithdrawCheck, WithdrawApplication, StatusCheck, UpdateApplicationStatus,
          RequestFails, Accept, tables
  <1>4. CASE ~RequestStep
    <2>1. UNCHANGED jobs
      BY <1>4
      DEF Next, vars, WorkerStep, QueueStep, StartTask, ApplyCheckJob, ApplyCheckDuplicate,
          SaveCheckJob, Insert, InsertRow, WriteResult, CompleteTask, RetryDue, LeaseExpired,
          ForgetTask, Crash, ShutdownTimeout, GoDown, tables
    <2> QED
      BY <2>1
  <1> QED
    BY <1>3, <1>4

LEMMA ErrorsGrow ==
    ASSUME [Next]_vars
    PROVE  dbErrs' \in {dbErrs, dbErrs + 1}
  <1>1. CASE RequestStep
    BY <1>1
    DEF RequestStep, ApplyToJobRequest, SaveJobRequest, Submit, UnsaveJob, CreateJob,
        DeactivateJob, DeleteJobCheck, DeleteJob, WithdrawCheck, WithdrawApplication,
        StatusCheck, UpdateApplicationStatus, RequestFails, Accept, Finish, DbError, faults
  <1>2. ASSUME NEW w \in Workers, WorkerStep(w) PROVE dbErrs' \in {dbErrs, dbErrs + 1}
    BY <1>2
    DEF WorkerStep, StartTask, ApplyCheckJob, ApplyCheckDuplicate, SaveCheckJob, Insert,
        WriteResult, CompleteTask, DbError, faults
  <1>3. ASSUME NEW t \in Tasks, QueueStep(t) \/ ForgetTask(t) PROVE dbErrs' = dbErrs
    BY <1>3 DEF QueueStep, RetryDue, LeaseExpired, ForgetTask, faults
  <1>4. CASE Crash \/ ShutdownTimeout
    BY <1>4 DEF Crash, ShutdownTimeout, GoDown
  <1>5. CASE UNCHANGED vars
    BY <1>5 DEF vars, faults
  <1> QED
    BY <1>1, <1>2, <1>3, <1>4, <1>5 DEF Next

\* A row that is made anew, or changes its state to archived.
LEMMA RowStep ==
    ASSUME Delivery, SavesOfDeleted, [Next]_vars, NEW t \in Tasks
    PROVE  \/ queue'[t].state = "unused"
           \/ /\ queue'[t].state = "pending"
              /\ payload'[t] \in Payload /\ jobs'[payload'[t].job] # "unposted"
           \/ /\ queue[t].state # "unused" /\ payload'[t] = payload[t]
              /\ \/ queue'[t].state # "archived" \/ queue'[t].lastErr = "lease"
                 \/ queue'[t] = queue[t]
                 \/ payload[t].kind # "save"
                 \/ dbErrs' # 0
                 \/ jobs[payload[t].job] = "deleted"
  <1> DEFINE Ok == \/ queue'[t].state # "archived" \/ queue'[t].lastErr = "lease"
                   \/ queue'[t] = queue[t]
                   \/ payload[t].kind # "save"
                   \/ dbErrs' # 0
                   \/ jobs[payload[t].job] = "deleted"
             Same == \/ queue'[t].state = "unused"
                     \/ queue[t].state # "unused" /\ payload'[t] = payload[t] /\ Ok
  <1>1. QueueTypeOK /\ queue \in [Tasks -> TaskRow]
    BY DEF Delivery, TypeOK, QueueTypeOK
  <1>2. \A w \in Workers : worker[w].pc # "idle" =>
            worker[w].task \in Tasks /\ queue[worker[w].task].state = "active"
    BY Shape DEF Delivery, ExclusiveDelivery
  <1>3. dbErrs \in Nat /\ jobs \in [Jobs -> Board!JobStates]
        /\ payload \in [Tasks -> Payload \cup {NoPayload}]
        /\ (queue[t].state # "unused" => payload[t] \in Payload)
    BY DEF Delivery, TypeOK
  <1>4. queue'[t] = queue[t] /\ payload' = payload => Same
    OBVIOUS
  <1>5. ASSUME NEW kind \in {"apply", "save"}, NEW s \in Seekers, NEW j \in Jobs,
               Submit(kind, s, j)
        PROVE  \/ Same
               \/ /\ queue'[t].state = "pending"
                  /\ payload'[t] \in Payload /\ jobs'[payload'[t].job] # "unposted"
    <2>1. PICK u \in Tasks : /\ Enqueue(u)
                             /\ payload' = [payload EXCEPT ![u] =
                                   [kind |-> kind, seeker |-> s, job |-> j]]
      BY <1>5 DEF Submit
    <2>2. jobs' = jobs /\ jobs[j] # "unposted"
      BY <1>5 DEF Submit, tables
    <2>3. CASE u = t
      <3>1. queue'[t].state = "pending"
        BY <1>1, <2>1, <2>3 DEF Enqueue, SetState, TaskRow
      <3>2. payload'[t] = [kind |-> kind, seeker |-> s, job |-> j]
        BY <1>3, <2>1, <2>3
      <3> QED
        BY <2>2, <3>1, <3>2 DEF Payload
    <2>4. CASE u # t
      <3>1. queue'[t] = queue[t]
        BY <1>1, <2>1, <2>4 DEF Enqueue, SetState
      <3>2. payload'[t] = payload[t]
        BY <1>3, <2>1, <2>4
      <3> QED
        BY <3>1, <3>2
    <2> QED
      BY <2>3, <2>4
  <1>6. ASSUME NEW u \in Tasks, NEW st \in TaskStates \ {"archived"}, SetState(u, st),
               queue[u].state # "unused", payload' = payload
        PROVE  Same
    <2>1. \/ u # t /\ queue'[t] = queue[t]
          \/ u = t /\ queue'[t].state = st
      <3>1. queue' = [queue EXCEPT ![u].state = st] /\ queue[u] \in TaskRow
        BY <1>1, <1>6 DEF SetState
      <3>2. queue'[u].state = st
        BY <1>1, <3>1 DEF TaskRow
      <3>3. u # t => queue'[t] = queue[t]
        BY <1>1, <3>1
      <3> QED
        BY <3>2, <3>3
    <2> QED
      BY <1>4, <1>6, <2>1
  <1>7. ASSUME NEW w \in Workers, NEW e \in TaskErrors, worker[w].pc # "idle", Fail(w, e),
               payload' = payload,
               worker[w].task = t => \/ payload[t].kind # "save"
                                     \/ dbErrs' # 0
                                     \/ jobs[payload[t].job] = "deleted"
        PROVE  Same
    <2>1. worker[w].task \in Tasks /\ queue[worker[w].task].state = "active"
      BY <1>2, <1>7
    <2>2. worker[w].task # t => queue'[t] = queue[t]
      BY <1>1, <1>7, <2>1, FailedRow DEF Fail
    <2> QED
      BY <1>4, <1>7, <2>1, <2>2
  <1>8. ASSUME NEW w \in Workers, StartTask(w) PROVE Same
    BY <1>6, <1>8 DEF StartTask, Dequeue, TaskStates
  <1>9. ASSUME NEW w \in Workers, ApplyCheckJob(w) \/ ApplyCheckDuplicate(w) PROVE Same
    <2>1. payload[worker[w].task].kind # "save" /\ worker[w].pc # "idle" /\ payload' = payload
      BY <1>9 DEF ApplyCheckJob, ApplyCheckDuplicate, At
    <2>2. queue' = queue \/ \E e \in TaskErrors : Fail(w, e)
      BY <1>9 DEF ApplyCheckJob, ApplyCheckDuplicate, Goto, TaskErrors
    <2> QED
      BY <1>4, <1>7, <2>1, <2>2
  <1>10. ASSUME NEW w \in Workers, SaveCheckJob(w) \/ Insert(w) PROVE Same
    <2>1. worker[w].pc # "idle" /\ payload' = payload
      BY <1>10 DEF SaveCheckJob, Insert, At
    <2>2. \/ queue' = queue
          \/ /\ \E e \in TaskErrors : Fail(w, e)
             /\ \/ dbErrs' = dbErrs + 1
                \/ ~Board!JobExists(payload[worker[w].task].job)
                \/ payload[worker[w].task].kind # "save"
      BY <1>10 DEF SaveCheckJob, Insert, Goto, DbError, TaskErrors
    <2>3. worker[w].task = t => queue[t].state = "active"
      BY <1>2, <2>1
    <2>4. worker[w].task = t => payload[t].job \in Jobs /\ jobs[payload[t].job] # "unposted"
      BY <1>3, <2>3 DEF SavesOfDeleted, SaveOfDeleted, Payload
    <2>5. worker[w].task = t /\ ~Board!JobExists(payload[t].job)
             => jobs[payload[t].job] = "deleted"
      BY <1>3, <2>4 DEF Board!JobExists, Board!JobStates
    <2>6. dbErrs + 1 # 0
      BY <1>3
    <2> QED
      BY <1>4, <1>7, <2>1, <2>2, <2>5, <2>6
  <1>11. ASSUME NEW w \in Workers, WriteResult(w) \/ CompleteTask(w) PROVE Same
    <2>1. worker[w].task \in Tasks /\ queue[worker[w].task].state = "active"
          /\ payload' = payload
      BY <1>2, <1>11 DEF WriteResult, CompleteTask
    <2>2. CASE WriteResult(w)
      <3>1. queue'[t].state = queue[t].state \/ queue'[t] = queue[t]
        BY <1>1, <2>2 DEF WriteResult, StoreResult, TaskRow
      <3>2. worker[w].task # t => queue'[t] = queue[t]
        BY <1>1, <2>1, <2>2 DEF WriteResult, StoreResult
      <3> QED
        BY <1>4, <2>1, <3>1, <3>2
    <2>3. CASE CompleteTask(w)
      BY <1>6, <2>1, <2>3 DEF CompleteTask, MarkAsComplete, TaskStates
    <2> QED
      BY <1>11, <2>2, <2>3
  <1>12. ASSUME NEW u \in Tasks, QueueStep(u) \/ ForgetTask(u) PROVE Same
    <2>1. CASE RetryDue(u) \/ ForgetTask(u)
      BY <1>6, <2>1 DEF RetryDue, ForgetTask, ForwardRetry, RetentionOver, TaskStates
    <2>2. CASE LeaseExpired(u)
      <3>1. queue[u].state = "active" /\ HandleFailed(u, "lease") /\ payload' = payload
        BY <2>2 DEF LeaseExpired
      <3>2. \/ u # t /\ queue'[t] = queue[t]
            \/ u = t /\ queue'[t].lastErr = "lease"
        <4>1. "lease" \in TaskErrors
          BY DEF TaskErrors
        <4> QED
          BY <1>1, <3>1, <4>1, FailedRow
      <3> QED
        BY <1>4, <3>1, <3>2
    <2> QED
      BY <1>12, <2>1, <2>2 DEF QueueStep
  <1>13. CASE Crash \/ ShutdownTimeout
    <2>1. payload' = payload
      BY <1>13 DEF Crash, ShutdownTimeout, GoDown
    <2>2. Held(t) => queue[t].state = "active"
      BY DEF Held, Delivery, ExclusiveDelivery
    <2>3. \/ queue'[t] = queue[t]
          \/ queue[t].state = "active" /\ queue'[t].state = "pending"
      BY <1>1, <1>13, <2>2 DEF Crash, ShutdownTimeout, TaskRow
    <2> QED
      BY <1>4, <2>1, <2>3
  <1>14. CASE RequestStep
    <2>1. CASE \E s \in Seekers, j \in Jobs : ApplyToJobRequest(s, j) \/ SaveJobRequest(s, j)
      BY <1>5, <2>1 DEF ApplyToJobRequest, SaveJobRequest
    <2>2. CASE ~ \E s \in Seekers, j \in Jobs : ApplyToJobRequest(s, j) \/ SaveJobRequest(s, j)
      <3>1. UNCHANGED <<queue, payload>>
        BY <1>14, <2>2
        DEF RequestStep, UnsaveJob, CreateJob, DeactivateJob, DeleteJobCheck, DeleteJob,
            WithdrawCheck, WithdrawApplication, StatusCheck, UpdateApplicationStatus,
            RequestFails, Accept, Finish
      <3> QED
        BY <1>4, <3>1
    <2> QED
      BY <2>1, <2>2
  <1>15. CASE UNCHANGED vars
    BY <1>4, <1>15 DEF vars
  <1> QED
    BY <1>8, <1>9, <1>10, <1>11, <1>12, <1>13, <1>14, <1>15 DEF Next, WorkerStep

\* A task to save a job fails only when the job is gone, as long as no
\* statement fails.
THEOREM SavesFailWithoutJob == Spec => []SaveFailsOnlyWithoutJob
  <1>1. Init => SavesOfDeleted
    BY DEF Init, QueueInit, FreshRow, SavesOfDeleted, SaveOfDeleted
  <1>2. ASSUME Delivery, SavesOfDeleted, [Next]_vars PROVE SavesOfDeleted'
    <2> SUFFICES ASSUME NEW t \in Tasks PROVE SaveOfDeleted(t)'
      BY DEF SavesOfDeleted
    <2>1. CASE queue'[t].state = "unused"
      BY <2>1 DEF SaveOfDeleted
    <2>2. CASE /\ queue'[t].state = "pending"
               /\ payload'[t] \in Payload /\ jobs'[payload'[t].job] # "unposted"
      BY <2>2 DEF SaveOfDeleted
    <2>3. CASE /\ queue[t].state # "unused" /\ payload'[t] = payload[t]
               /\ \/ queue'[t].state # "archived" \/ queue'[t].lastErr = "lease"
                  \/ queue'[t] = queue[t]
                  \/ payload[t].kind # "save"
                  \/ dbErrs' # 0
                  \/ jobs[payload[t].job] = "deleted"
      <3>1. SaveOfDeleted(t)
        BY <1>2 DEF SavesOfDeleted
      <3>2. payload[t].job \in Jobs
        BY <1>2, <2>3 DEF Delivery, TypeOK, Payload
      <3>3. dbErrs' = 0 => dbErrs = 0
        <4>1. dbErrs \in Nat /\ dbErrs' \in {dbErrs, dbErrs + 1}
          BY <1>2, ErrorsGrow DEF Delivery, TypeOK
        <4> QED
          BY <4>1
      <3>4. /\ jobs[payload[t].job] # "unposted" => jobs'[payload[t].job] # "unposted"
            /\ jobs[payload[t].job] = "deleted" => jobs'[payload[t].job] = "deleted"
        BY <1>2, <3>2, JobsAge
      <3> QED
        BY <2>3, <3>1, <3>3, <3>4 DEF SaveOfDeleted
    <2> QED
      BY <1>2, <2>1, <2>2, <2>3, RowStep
  <1>3. SavesOfDeleted => SaveFailsOnlyWithoutJob
    BY DEF SavesOfDeleted, SaveOfDeleted, SaveFailsOnlyWithoutJob, Board!JobExists
  <1> QED
    BY <1>1, <1>2, <1>3, DeliveryInvariant, PTL DEF Spec
-----------------------------------------------------------------------------
(* Why every task ends.                                                    *)

Budget(t) == (MaxRetry - queue[t].retried) + (MaxRestarts - restarts)

StageOf(pc) ==
    [checkJob |-> 5, checkDup |-> 4, insert |-> 3, result |-> 2, complete |-> 1][pc]

\* WorkLeft, case by case.
WorkInv ==
    \A t \in Tasks :
        /\ Budget(t) \in Nat /\ WorkLeft(t) \in Nat
        /\ queue[t].state \in {"unused", "completed", "archived", "expired"} => WorkLeft(t) = 0
        /\ queue[t].state = "retry" => WorkLeft(t) = 7 + 8 * Budget(t)
        /\ queue[t].state = "pending" => WorkLeft(t) = 6 + 8 * Budget(t)
        /\ queue[t].state = "active" /\ ~Held(t) => WorkLeft(t) = 1 + 8 * Budget(t)
        /\ \A w \in Workers : worker[w] # Idle /\ worker[w].task = t =>
              WorkLeft(t) = StageOf(worker[w].pc) + 8 * Budget(t)

LEMMA WorkByCase == Delivery => WorkInv
  <1> SUFFICES ASSUME Delivery, NEW t \in Tasks
               PROVE  /\ Budget(t) \in Nat /\ WorkLeft(t) \in Nat
                      /\ queue[t].state \in {"unused", "completed", "archived", "expired"}
                            => WorkLeft(t) = 0
                      /\ queue[t].state = "retry" => WorkLeft(t) = 7 + 8 * Budget(t)
                      /\ queue[t].state = "pending" => WorkLeft(t) = 6 + 8 * Budget(t)
                      /\ queue[t].state = "active" /\ ~Held(t) => WorkLeft(t) = 1 + 8 * Budget(t)
                      /\ \A w \in Workers : worker[w] # Idle /\ worker[w].task = t =>
                            WorkLeft(t) = StageOf(worker[w].pc) + 8 * Budget(t)
    BY DEF WorkInv
  <1>1. Budget(t) \in Nat
    BY Shape DEF Budget, Delivery, TypeOK
  <1>2. Held(t) => queue[t].state = "active"
    BY DEF Held, Delivery, ExclusiveDelivery
  <1>3. ASSUME NEW w \in Workers, worker[w] # Idle, worker[w].task = t
        PROVE  WorkLeft(t) = StageOf(worker[w].pc) + 8 * Budget(t)
    <2>1. Held(t)
      BY <1>3 DEF Held
    <2>2. Slot(t) \in Workers /\ worker[Slot(t)] # Idle /\ worker[Slot(t)].task = t
      BY <1>3 DEF Slot
    <2>3. Slot(t) = w
      BY <1>3, <2>2 DEF Delivery, ExclusiveDelivery
    <2> QED
      BY <1>2, <2>1, <2>3 DEF WorkLeft, Stage, StageOf, Budget
  <1>4. WorkLeft(t) \in Nat
    <2>1. queue[t].state \in TaskStates
      BY Shape DEF Delivery
    <2>2. CASE Held(t)
      <3>1. PICK w \in Workers : worker[w] # Idle /\ worker[w].task = t
        BY <2>2 DEF Held
      <3>2. StageOf(worker[w].pc) \in Nat
        BY <3>1, Shape DEF Delivery, Busy, StageOf
      <3> QED
        BY <1>1, <1>3, <3>1, <3>2
    <2> QED
      BY <1>1, <2>1, <2>2 DEF WorkLeft, Stage, Budget, TaskStates
  <1> QED
    BY <1>1, <1>2, <1>3, <1>4 DEF WorkLeft, Stage, Budget

\* A step of one task leaves the others their work.
LEMMA OneTaskWorks ==
    ASSUME Delivery, WorkInv, WorkInv', restarts' = restarts, NEW t \in Tasks,
           \A u \in Tasks \ {t} : queue'[u] = queue[u],
           \A v \in Workers :
              \/ worker'[v] = worker[v]
              \/ /\ worker[v] = Idle \/ worker[v].task = t
                 /\ worker'[v] = Idle \/ worker'[v].task = t,
           WorkLeft(t)' < WorkLeft(t)
    PROVE  Progress
  <1> SUFFICES ASSUME NEW u \in Tasks \ {t}
               PROVE  WorkLeft(u)' <= WorkLeft(u)
    <2>1. WorkLeft(t)' <= WorkLeft(t)
      BY DEF WorkInv
    <2> QED
      BY <2>1 DEF Progress
  <1>1. queue'[u] = queue[u] /\ Budget(u)' = Budget(u) /\ Budget(u) \in Nat
        /\ queue[u].state \in TaskStates
    BY Shape DEF Budget, WorkInv, Delivery
  <1>2. CASE \E v \in Workers : worker[v] # Idle /\ worker[v].task = u
    <2>1. PICK v \in Workers : worker[v] # Idle /\ worker[v].task = u
      BY <1>2
    <2>2. worker'[v] = worker[v]
      BY <2>1
    <2>3. StageOf(worker[v].pc) \in Nat
      BY <2>1, Shape DEF Delivery, Busy, StageOf
    <2> QED
      BY <1>1, <2>1, <2>2, <2>3 DEF WorkInv
  <1>3. CASE ~ \E v \in Workers : worker[v] # Idle /\ worker[v].task = u
    <2>1. ~Held(u) /\ ~Held(u)'
      BY <1>3 DEF Held
    <2> QED
      BY <1>1, <2>1 DEF WorkInv, TaskStates
  <1> QED
    BY <1>2, <1>3

\* The next statement.
LEMMA GotoWorks ==
    ASSUME Delivery, WorkInv, WorkInv', restarts' = restarts,
           NEW w \in Workers, worker[w].pc # "idle", NEW pc, Goto(w, pc),
           \/ worker[w].pc = "checkJob" /\ pc \in {"checkDup", "insert"}
           \/ worker[w].pc = "checkDup" /\ pc = "insert"
           \/ worker[w].pc = "insert" /\ pc = "result"
    PROVE  Progress
  <1>1. PICK t \in Tasks : t = worker[w].task /\ worker[w] # Idle /\ worker[w] \in Busy
    BY Shape DEF Delivery
  <1>2. /\ worker'[w].pc = pc /\ worker'[w].task = t /\ worker'[w] # Idle
        /\ \A v \in Workers \ {w} : worker'[v] = worker[v]
        /\ queue' = queue
    BY <1>1 DEF Goto, Delivery, TypeOK, Busy, Idle
  <1>3. /\ WorkLeft(t) = StageOf(worker[w].pc) + 8 * Budget(t)
        /\ WorkLeft(t)' = StageOf(pc) + 8 * Budget(t)'
        /\ Budget(t) \in Nat /\ Budget(t)' = Budget(t)
    BY <1>1, <1>2 DEF WorkInv, Budget
  <1>4. StageOf(pc) < StageOf(worker[w].pc) /\ StageOf(pc) \in Nat /\ StageOf(worker[w].pc) \in Nat
    BY DEF StageOf
  <1> QED
    BY <1>1, <1>2, <1>3, <1>4, OneTaskWorks

\* A failure: the task starts over once less, or is archived.
LEMMA FailureWorks ==
    ASSUME Delivery, WorkInv, WorkInv', restarts' = restarts,
           NEW t \in Tasks, queue[t].state = "active", NEW e \in TaskErrors, HandleFailed(t, e)
    PROVE  /\ WorkLeft(t)' < WorkLeft(t)
           /\ \A u \in Tasks \ {t} : queue'[u] = queue[u]
  <1>1. /\ queue'[t].state \in {"retry", "archived"}
        /\ queue'[t].state = "retry" => queue'[t].retried = queue[t].retried + 1
        /\ \A u \in Tasks \ {t} : queue'[u] = queue[u]
    BY FailedRow DEF Delivery, TypeOK
  <1>2. /\ Budget(t) \in Nat /\ Budget(t)' \in Nat
        /\ queue'[t].state = "retry" => Budget(t)' = Budget(t) - 1
    <2>1. Budget(t) \in Nat /\ Budget(t)' \in Nat
      BY DEF WorkInv
    <2>2. queue[t].retried \in Nat /\ restarts \in Nat
      BY Shape DEF Delivery
    <2> QED
      BY <1>1, <2>1, <2>2 DEF Budget
  <1>3. WorkLeft(t) \in Nat /\ WorkLeft(t) >= 1 + 8 * Budget(t)
    <2>1. CASE Held(t)
      <3>1. PICK w \in Workers : worker[w] # Idle /\ worker[w].task = t
        BY <2>1 DEF Held
      <3>2. StageOf(worker[w].pc) \in Nat /\ StageOf(worker[w].pc) >= 1
        BY <3>1, Shape DEF Delivery, Busy, StageOf
      <3> QED
        BY <1>2, <3>1, <3>2 DEF WorkInv
    <2> QED
      BY <1>2, <2>1 DEF WorkInv
  <1>4. \/ WorkLeft(t)' = 0
        \/ WorkLeft(t)' = 7 + 8 * Budget(t)' /\ Budget(t)' = Budget(t) - 1
    BY <1>1, <1>2 DEF WorkInv
  <1> QED
    BY <1>1, <1>2, <1>3, <1>4

LEMMA FailWorks ==
    ASSUME Delivery, WorkInv, WorkInv', restarts' = restarts,
           NEW w \in Workers, worker[w].pc # "idle", NEW e \in TaskErrors, Fail(w, e)
    PROVE  Progress
  <1>1. PICK t \in Tasks : t = worker[w].task /\ queue[t].state = "active"
    BY Shape DEF Delivery, ExclusiveDelivery
  <1>2. /\ HandleFailed(t, e) /\ worker'[w] = Idle
        /\ \A v \in Workers \ {w} : worker'[v] = worker[v]
    BY <1>1 DEF Fail, Delivery, TypeOK
  <1> QED
    BY <1>1, <1>2, FailureWorks, OneTaskWorks

\* Every step of a slot.
LEMMA WorkerWorks ==
    ASSUME Delivery, WorkInv, WorkInv', NEW w \in Workers, WorkerStep(w)
    PROVE  Progress
  <1>1. restarts' = restarts
    BY DEF WorkerStep, StartTask, ApplyCheckJob, ApplyCheckDuplicate, SaveCheckJob, Insert,
           WriteResult, CompleteTask, faults
  <1>2. CASE ApplyCheckJob(w) \/ ApplyCheckDuplicate(w) \/ SaveCheckJob(w) \/ Insert(w)
    <2>1. \/ \E e \in TaskErrors : Fail(w, e)
          \/ worker[w].pc = "checkJob" /\ \E pc \in {"checkDup", "insert"} : Goto(w, pc)
          \/ worker[w].pc = "checkDup" /\ Goto(w, "insert")
          \/ worker[w].pc = "insert" /\ Goto(w, "result")
      BY <1>2 DEF ApplyCheckJob, ApplyCheckDuplicate, SaveCheckJob, Insert, At, TaskErrors
    <2>2. worker[w].pc # "idle"
      BY <1>2 DEF ApplyCheckJob, ApplyCheckDuplicate, SaveCheckJob, Insert, At
    <2> QED
      BY <1>1, <2>1, <2>2, GotoWorks, FailWorks
  <1>3. CASE StartTask(w)
    <2>1. PICK t \in Tasks : /\ worker[w] = Idle /\ Dequeue(t)
                             /\ worker' = [worker EXCEPT ![w] = [pc |-> "checkJob", task |-> t]]
      BY <1>3 DEF StartTask
    <2>2. /\ queue[t].state = "pending" /\ queue'[t] = [queue[t] EXCEPT !.state = "active"]
          /\ \A u \in Tasks \ {t} : queue'[u] = queue[u]
      BY <2>1, SetStateRow DEF Dequeue, Delivery, TypeOK, TaskStates
    <2>3. /\ worker'[w] = [pc |-> "checkJob", task |-> t] /\ worker'[w] # Idle
          /\ \A v \in Workers \ {w} : worker'[v] = worker[v]
      BY <2>1 DEF Delivery, TypeOK, Idle
    <2>4. Budget(t)' = Budget(t) /\ Budget(t) \in Nat
      BY <1>1, <2>2, Shape DEF Budget, WorkInv, Delivery, TaskRow
    <2>5. WorkLeft(t) = 6 + 8 * Budget(t) /\ WorkLeft(t)' = 5 + 8 * Budget(t)
      BY <2>2, <2>3, <2>4 DEF WorkInv, StageOf
    <2> QED
      BY <1>1, <2>1, <2>2, <2>3, <2>4, <2>5, OneTaskWorks
  <1>4. CASE WriteResult(w) \/ CompleteTask(w)
    <2>1. PICK t \in Tasks : t = worker[w].task /\ worker[w] # Idle /\ worker[w] \in Busy
      BY <1>4, Shape DEF WriteResult, CompleteTask, Delivery
    <2>2. CASE WriteResult(w)
      <3>1. /\ queue'[t].retried = queue[t].retried
            /\ \A u \in Tasks \ {t} : queue'[u] = queue[u]
        BY <2>1, <2>2 DEF WriteResult, StoreResult, Delivery, TypeOK, QueueTypeOK, TaskRow
      <3>2. /\ worker'[w].pc = "complete" /\ worker'[w].task = t /\ worker'[w] # Idle
            /\ \A v \in Workers \ {w} : worker'[v] = worker[v]
        BY <2>1, <2>2 DEF WriteResult, Delivery, TypeOK, Busy, Idle
      <3>3. Budget(t)' = Budget(t) /\ Budget(t) \in Nat
        BY <1>1, <3>1 DEF Budget, WorkInv
      <3>4. WorkLeft(t) = 2 + 8 * Budget(t) /\ WorkLeft(t)' = 1 + 8 * Budget(t)
        BY <2>1, <2>2, <3>2, <3>3 DEF WorkInv, StageOf, WriteResult
      <3> QED
        BY <1>1, <2>1, <3>1, <3>2, <3>3, <3>4, OneTaskWorks
    <2>3. CASE CompleteTask(w)
      <3>1. /\ queue'[t].state = "completed"
            /\ \A u \in Tasks \ {t} : queue'[u] = queue[u]
        BY <2>1, <2>3 DEF CompleteTask, MarkAsComplete, SetState, Delivery, TypeOK, QueueTypeOK,
                          TaskRow
      <3>2. worker'[w] = Idle /\ \A v \in Workers \ {w} : worker'[v] = worker[v]
        BY <2>3 DEF CompleteTask, Delivery, TypeOK
      <3>3. WorkLeft(t) = 1 + 8 * Budget(t) /\ Budget(t) \in Nat /\ WorkLeft(t)' = 0
        BY <2>1, <2>3, <3>1 DEF WorkInv, StageOf, CompleteTask
      <3> QED
        BY <1>1, <2>1, <3>1, <3>2, <3>3, OneTaskWorks
    <2> QED
      BY <1>4, <2>2, <2>3
  <1> QED
    BY <1>2, <1>3, <1>4 DEF WorkerStep

\* Every step of the queue's timers.
LEMMA QueueWorks ==
    ASSUME Delivery, WorkInv, WorkInv', NEW t \in Tasks, QueueStep(t)
    PROVE  Progress
  <1>1. restarts' = restarts /\ worker' = worker
    BY DEF QueueStep, RetryDue, LeaseExpired, faults
  <1>2. CASE RetryDue(t)
    <2>1. /\ queue[t].state = "retry" /\ queue'[t] = [queue[t] EXCEPT !.state = "pending"]
          /\ \A u \in Tasks \ {t} : queue'[u] = queue[u]
      BY <1>2, SetStateRow DEF RetryDue, ForwardRetry, Delivery, TypeOK, TaskStates
    <2>2. Budget(t)' = Budget(t) /\ Budget(t) \in Nat /\ queue'[t].state = "pending"
      BY <1>1, <2>1, Shape DEF Budget, WorkInv, Delivery, TaskRow
    <2>3. WorkLeft(t) = 7 + 8 * Budget(t) /\ WorkLeft(t)' = 6 + 8 * Budget(t)
      BY <2>1, <2>2 DEF WorkInv
    <2> QED
      BY <1>1, <2>1, <2>2, <2>3, OneTaskWorks
  <1>3. CASE LeaseExpired(t)
    <2>1. queue[t].state = "active" /\ HandleFailed(t, "lease") /\ "lease" \in TaskErrors
      BY <1>3 DEF LeaseExpired, TaskErrors
    <2> QED
      BY <1>1, <2>1, FailureWorks, OneTaskWorks
  <1> QED
    BY <1>2, <1>3 DEF QueueStep

\* A process that goes down has one restart less to come.
LEMMA DownWorks ==
    ASSUME Delivery, WorkInv, WorkInv', Crash \/ ShutdownTimeout,
           NEW t \in Tasks
    PROVE  WorkLeft(t)' <= WorkLeft(t)
  <1>1. /\ restarts' = restarts + 1 /\ ~Held(t)' /\ restarts \in Nat
        /\ queue[t].state \in TaskStates /\ queue[t] \in TaskRow
    BY Shape DEF Crash, ShutdownTimeout, GoDown, Held, Delivery
  <1>2. \/ queue'[t] = queue[t]
        \/ /\ Held(t) /\ queue'[t] = [queue[t] EXCEPT !.state = "pending"]
    BY DEF Crash, ShutdownTimeout
  <1>3. /\ queue'[t].retried = queue[t].retried
        /\ \/ queue'[t].state = queue[t].state
           \/ Held(t) /\ queue'[t].state = "pending"
    BY <1>1, <1>2 DEF TaskRow
  <1>4. Budget(t)' = Budget(t) - 1 /\ Budget(t) \in Nat /\ Budget(t)' \in Nat
    BY <1>1, <1>3, Shape DEF Budget, WorkInv, Delivery, TypeOK
  <1>5. CASE Held(t)
    <2>1. PICK w \in Workers : worker[w] # Idle /\ worker[w].task = t
      BY <1>5 DEF Held
    <2>2. StageOf(worker[w].pc) \in Nat /\ queue[t].state = "active"
      BY <2>1, Shape DEF Delivery, Busy, StageOf, ExclusiveDelivery
    <2>3. WorkLeft(t) = StageOf(worker[w].pc) + 8 * Budget(t)
      BY <2>1 DEF WorkInv
    <2>4. WorkLeft(t)' \in {1 + 8 * Budget(t)', 6 + 8 * Budget(t)'}
      BY <1>1, <1>3, <2>2 DEF WorkInv
    <2> QED
      BY <1>4, <2>2, <2>3, <2>4
  <1>6. CASE ~Held(t)
    BY <1>1, <1>3, <1>4, <1>6 DEF WorkInv, TaskStates
  <1> QED
    BY <1>5, <1>6

\* What every accepted task still has to go through gets less with every step
\* of the system, and more with none.
LEMMA ProgressStep ==
    ASSUME Delivery, WorkInv, WorkInv', [Next]_vars
    PROVE  Progress
  <1>1. SystemStep => Progress
    BY WorkerWorks, QueueWorks DEF SystemStep
  <1> SUFFICES ASSUME ~SystemStep, NEW t \in Tasks, queue[t].state # "unused"
               PROVE  WorkLeft(t)' <= WorkLeft(t)
    BY <1>1 DEF Progress
  <1>2. WorkLeft(t) \in Nat
    BY DEF WorkInv
  <1>3. CASE queue'[t] = queue[t] /\ worker' = worker /\ restarts' = restarts
    BY <1>2, <1>3 DEF WorkLeft, Stage, Slot, Held
  <1>4. ASSUME NEW u \in Tasks, ForgetTask(u)
        PROVE  WorkLeft(t)' <= WorkLeft(t)
    <2>1. /\ queue[u].state = "completed" /\ queue'[u] = [queue[u] EXCEPT !.state = "expired"]
          /\ \A v \in Tasks \ {u} : queue'[v] = queue[v]
          /\ worker' = worker /\ restarts' = restarts
      BY <1>4, SetStateRow DEF ForgetTask, RetentionOver, Delivery, TypeOK, TaskStates, faults
    <2>2. CASE t = u
      <3>1. queue'[t].state = "expired"
        BY <2>1, <2>2, Shape DEF Delivery, TaskRow
      <3> QED
        BY <2>1, <2>2, <3>1 DEF WorkInv
    <2> QED
      BY <1>3, <2>1, <2>2
  <1>5. ASSUME NEW kind \in {"apply", "save"}, NEW s \in Seekers, NEW j \in Jobs,
               Submit(kind, s, j)
        PROVE  WorkLeft(t)' <= WorkLeft(t)
    <2>1. PICK u \in Tasks : Enqueue(u)
      BY <1>5 DEF Submit
    <2>2. queue'[t] = queue[t]
      <3>1. queue[u].state = "unused" /\ SetState(u, "pending") /\ u # t
        BY <2>1 DEF Enqueue
      <3>2. QueueTypeOK
        BY DEF Delivery, TypeOK
      <3>3. "pending" \in TaskStates
        BY DEF TaskStates
      <3> QED
        BY <3>1, <3>2, <3>3, SetStateRow
    <2> QED
      BY <1>3, <1>5, <2>2 DEF Submit, faults
  <1>6. CASE RequestStep
    <2>1. CASE \E s \in Seekers, j \in Jobs : ApplyToJobRequest(s, j) \/ SaveJobRequest(s, j)
      BY <1>5, <2>1 DEF ApplyToJobRequest, SaveJobRequest
    <2>2. CASE ~ \E s \in Seekers, j \in Jobs : ApplyToJobRequest(s, j) \/ SaveJobRequest(s, j)
      <3>1. UNCHANGED <<queue, worker, restarts>>
        BY <1>6, <2>2
        DEF RequestStep, UnsaveJob, CreateJob, DeactivateJob, DeleteJobCheck, DeleteJob,
            WithdrawCheck, WithdrawApplication, StatusCheck, UpdateApplicationStatus,
            RequestFails, Accept, Finish, faults
      <3> QED
        BY <1>3, <3>1
    <2> QED
      BY <2>1, <2>2
  <1>7. CASE UNCHANGED vars
    BY <1>3, <1>7 DEF vars, faults
  <1> QED
    BY <1>4, <1>6, <1>7, DownWorks DEF Next, SystemStep

\* The safety half of "every accepted task ends": the slots and the timers
\* run out of work, whatever the requests and the faults do in between.
THEOREM TasksRunOut == Spec => WorkRunsOut
  <1>1. Delivery => WorkInv
    BY WorkByCase
  <1>2. Delivery /\ WorkInv /\ WorkInv' /\ [Next]_vars => [Progress]_vars
    BY ProgressStep
  <1> QED
    BY <1>1, <1>2, DeliveryInvariant, PTL DEF Spec, WorkRunsOut
=============================================================================
