------------------------- MODULE SeekerBoard_proofs -------------------------
(***************************************************************************)
(* SeekerTasks implements Board: the tables, and who may change them.      *)
(***************************************************************************)
EXTENDS SeekerTasks_proofs, FiniteSetTheorems

USE QueueAssumption, TasksAssumption

\* Ids in use, in a row or in a request, are ids of inserts already done: the
\* next INSERT gets an id that no row has and no request holds.
IdsUsed ==
    /\ \A a \in apps : a.id[2] <= written[a.id[1]]
    /\ \A h \in Handlers : handler[h].op \in {"withdraw", "status"} =>
          handler[h].id[2] <= written[handler[h].id[1]]

\* A slot that is about to insert an application would not add a second one.
NoneYet ==
    OnePerJob => \A w \in Workers :
        At(w, "apply", "insert") =>
            LET p == payload[worker[w].task] IN ~Board!HasApplied(p.seeker, p.job)

\* DeleteJob is carried out for the owner only.
DeletesOwn ==
    \A h \in Handlers : handler[h].op = "delete" =>
        handler[h].recruiter = JobOwner[handler[h].job]

Tables ==
    /\ Delivery
    /\ IdsUsed
    /\ Board!IdsUnique
    /\ NoOrphans
    /\ CheckedIdStaysOwn
    /\ DeletesOwn
    /\ NoneYet

LEMMA InitTables == Init => Tables
  BY InitDelivery
  DEF Init, Tables, IdsUsed, Board!IdsUnique, NoOrphans, Board!NoOrphans, CheckedIdStaysOwn,
      DeletesOwn, NoneYet, Board!BoardInit, NoRequest, At, Idle

-----------------------------------------------------------------------------
(* The steps that touch the tables.                                        *)

QuietTables == UNCHANGED <<tables, written>>
InsertBy(w) == worker[w].pc = "insert" /\ InsertRow(worker[w].task) /\ UNCHANGED <<payload, handler>>

LEMMA TableSteps ==
    ASSUME [Next]_vars
    PROVE  \/ QuietTables
           \/ \E w \in Workers : InsertBy(w)
           \/ \E j \in Jobs : CreateJob(j) \/ DeactivateJob(j)
           \/ \E s \in Seekers, j \in Jobs : UnsaveJob(s, j)
           \/ \E h \in Handlers :
                 DeleteJob(h) \/ WithdrawApplication(h) \/ UpdateApplicationStatus(h)
  <1> USE DEF QuietTables, tables
  <1>1. CASE UNCHANGED vars
    BY <1>1 DEF vars
  <1>2. ASSUME NEW w \in Workers, WorkerStep(w)
        PROVE  QuietTables \/ InsertBy(w)
    BY <1>2
    DEF WorkerStep, StartTask, ApplyCheckJob, ApplyCheckDuplicate, SaveCheckJob, Insert,
        WriteResult, CompleteTask, InsertBy
  <1>3. ASSUME NEW t \in Tasks, QueueStep(t) \/ ForgetTask(t)
        PROVE  QuietTables
    BY <1>3 DEF QueueStep, RetryDue, LeaseExpired, ForgetTask
  <1>4. CASE RequestStep
    BY <1>4
    DEF RequestStep, ApplyToJobRequest, SaveJobRequest, Submit, DeleteJobCheck,
        WithdrawCheck, StatusCheck, Accept, RequestFails
  <1>5. CASE Crash \/ ShutdownTimeout
    BY <1>5 DEF Crash, ShutdownTimeout, GoDown
  <1> QED
    BY <1>1, <1>2, <1>3, <1>4, <1>5 DEF Next

\* What an insert adds.
LEMMA InsertedRow ==
    ASSUME Tables, NEW w \in Workers, InsertBy(w)
    PROVE  /\ worker[w].task \in Tasks
           /\ payload[worker[w].task] \in Payload
           /\ Board!JobExists(payload[worker[w].task].job)
           /\ written[worker[w].task] \in Nat
           /\ NewApplication(worker[w].task).id \in AppIds
           /\ \A a \in apps : a.id # NewApplication(worker[w].task).id
           /\ \A h \in Handlers : handler[h].op \in {"withdraw", "status"} =>
                 handler[h].id # NewApplication(worker[w].task).id
  <1> DEFINE t == worker[w].task
  <1>1. t \in Tasks /\ written[t] \in Nat /\ worker[w] # Idle
    BY Shape DEF Tables, Delivery, InsertBy
  <1>2. queue[t].state = "active"
    BY <1>1 DEF Tables, Delivery, ExclusiveDelivery
  <1>3. payload[t] \in Payload
    BY <1>1, <1>2 DEF Tables, Delivery, TypeOK
  <1>4. written[t] + 1 \in 1 .. MaxRetry + MaxRestarts + 1
    <2>1. written[t] <= queue[t].retried + restarts
      BY DEF Tables, Delivery, WriteBudget, BeforeInsert, Ended, InsertBy
    <2>2. /\ queue[t].retried \in Nat /\ queue[t].retried <= MaxRetry
          /\ restarts \in Nat /\ restarts <= MaxRestarts
      BY <1>1, Shape DEF Tables, Delivery, TypeOK
    <2> QED
      BY <1>1, <2>1, <2>2
  <1>5. NewApplication(t).id = <<t, written[t] + 1>>
    BY DEF NewApplication
  <1>6. Board!JobExists(payload[t].job)
    BY DEF InsertBy, InsertRow
  <1> HIDE DEF t
  <1>7. \A i \in AppIds : i[2] <= written[i[1]] => i # <<t, written[t] + 1>>
    BY <1>1 DEF AppIds
  <1>8. /\ \A a \in apps : a.id \in AppIds
        /\ \A h \in Handlers : handler[h].op \in {"withdraw", "status"} => handler[h].id \in AppIds
    BY DEF Tables, Delivery, TypeOK, Board!Applications, NoRequest, WithdrawRequest,
           DeleteRequest, StatusRequest
  <1> QED
    BY <1>1, <1>3, <1>4, <1>5, <1>6, <1>7, <1>8 DEF Tables, IdsUsed, AppIds, t

\* A request in progress either stays, ends, or is one that has just passed
\* its check.
HandlerChange(h) ==
    \/ handler'[h] = handler[h]
    \/ handler'[h] = NoRequest
    \/ /\ QuietTables
       /\ \/ \E j \in Jobs :
                handler'[h] = [op |-> "delete", recruiter |-> JobOwner[j], job |-> j]
          \/ \E a \in apps :
                handler'[h] = [op |-> "withdraw", seeker |-> a.seeker, id |-> a.id]
          \/ \E a \in apps, st \in Statuses :
                handler'[h] = [op |-> "status", recruiter |-> JobOwner[a.job],
                               id |-> a.id, status |-> st]

LEMMA HandlerSteps ==
    ASSUME Delivery, [Next]_vars, NEW h \in Handlers
    PROVE  HandlerChange(h)
  <1>1. ASSUME NEW g \in Handlers, NEW r, Accept(g, r)
        PROVE  /\ QuietTables
               /\ handler'[h] = IF g = h THEN r ELSE handler[h]
    BY <1>1 DEF Accept, QuietTables, Delivery, TypeOK
  <1>2. \A g \in Handlers : Finish(g) => handler'[h] \in {handler[h], NoRequest}
    BY DEF Finish, Delivery, TypeOK
  <1>3. CASE UNCHANGED vars
    BY <1>3 DEF HandlerChange, vars
  <1>4. CASE \E w \in Workers : WorkerStep(w)
    BY <1>4
    DEF HandlerChange, WorkerStep, StartTask, ApplyCheckJob, ApplyCheckDuplicate, SaveCheckJob, Insert,
        WriteResult, CompleteTask
  <1>5. CASE \E t \in Tasks : QueueStep(t) \/ ForgetTask(t)
    BY <1>5 DEF HandlerChange, QueueStep, RetryDue, LeaseExpired, ForgetTask
  <1>6. CASE Crash \/ ShutdownTimeout
    BY <1>6 DEF HandlerChange, Crash, ShutdownTimeout, GoDown
  <1>7. CASE RequestStep
    <2>1. ASSUME NEW g \in Handlers, NEW r \in Recruiters, NEW j \in Jobs, DeleteJobCheck(g, r, j)
          PROVE  HandlerChange(h)
      BY <1>1, <2>1 DEF HandlerChange, DeleteJobCheck
    <2>2. ASSUME NEW g \in Handlers, NEW a \in apps, NEW s \in Seekers, WithdrawCheck(g, s, a)
          PROVE  HandlerChange(h)
      BY <1>1, <2>2 DEF HandlerChange, WithdrawCheck
    <2>3. ASSUME NEW g \in Handlers, NEW a \in apps, NEW r \in Recruiters, NEW st \in Statuses,
                 StatusCheck(g, r, a, st)
          PROVE  HandlerChange(h)
      BY <1>1, <2>3 DEF HandlerChange, StatusCheck
    <2>4. ASSUME NEW g \in Handlers,
                 \/ DeleteJob(g) \/ WithdrawApplication(g) \/ UpdateApplicationStatus(g)
                 \/ RequestFails(g)
          PROVE  HandlerChange(h)
      <3>1. CASE RequestFails(g)
        BY <3>1 DEF HandlerChange, RequestFails, Delivery, TypeOK
      <3> QED
        BY <1>2, <2>4, <3>1 DEF HandlerChange, DeleteJob, WithdrawApplication, UpdateApplicationStatus
    <2>5. ASSUME NEW s \in Seekers, NEW j \in Jobs,
                 ApplyToJobRequest(s, j) \/ SaveJobRequest(s, j) \/ UnsaveJob(s, j)
          PROVE  HandlerChange(h)
      BY <2>5 DEF HandlerChange, ApplyToJobRequest, SaveJobRequest, Submit, UnsaveJob
    <2>6. ASSUME NEW j \in Jobs, CreateJob(j) \/ DeactivateJob(j)
          PROVE  HandlerChange(h)
      BY <2>6 DEF HandlerChange, CreateJob, DeactivateJob
    <2>7. ASSUME NEW g \in Handlers,
                 \/ \E r \in Recruiters, j \in Jobs : DeleteJobCheck(g, r, j)
                 \/ \E a \in apps :
                       \/ \E s \in Seekers : WithdrawCheck(g, s, a)
                       \/ \E r \in Recruiters, st \in Statuses : StatusCheck(g, r, a, st)
                 \/ DeleteJob(g) \/ WithdrawApplication(g) \/ UpdateApplicationStatus(g)
                 \/ RequestFails(g)
          PROVE  HandlerChange(h)
      BY <2>1, <2>2, <2>3, <2>4, <2>7
    <2>8. CASE \E s \in Seekers, j \in Jobs :
                  ApplyToJobRequest(s, j) \/ SaveJobRequest(s, j) \/ UnsaveJob(s, j)
      BY <2>5, <2>8
    <2>9. CASE \E j \in Jobs : CreateJob(j) \/ DeactivateJob(j)
      BY <2>6, <2>9
    <2> QED
      BY <1>7, <2>7, <2>8, <2>9 DEF RequestStep
  <1> QED
    BY <1>3, <1>4, <1>5, <1>6, <1>7 DEF Next

\* In every step but an insert, rows only vanish or change their status, and
\* the jobs that have rows stay.
LEMMA OldRows ==
    ASSUME Tables, [Next]_vars, ~ \E w \in Workers : InsertBy(w)
    PROVE  /\ written' = written
           /\ \A b \in apps' : \E a \in apps :
                 a.id = b.id /\ a.seeker = b.seeker /\ a.job = b.job
           /\ Board!IdsUnique'
           /\ NoOrphans'
  <1> USE DEF tables, QuietTables
  <1>1. /\ apps \subseteq Board!Applications /\ jobs \in [Jobs -> Board!JobStates]
        /\ \A a \in apps : a.job \in Jobs
        /\ \A b \in saved : b[2] \in Jobs
    BY DEF Tables, Delivery, TypeOK, Board!Applications
  <1>2. Board!IdsUnique /\ NoOrphans
    BY DEF Tables
  <1>3. CASE QuietTables
    BY <1>2, <1>3 DEF Board!IdsUnique, NoOrphans, Board!NoOrphans, Board!JobExists
  <1>4. CASE \E j \in Jobs : CreateJob(j) \/ DeactivateJob(j)
    <2>1. \A i \in Jobs : Board!JobExists(i) => Board!JobExists(i)'
      BY <1>1, <1>4 DEF CreateJob, DeactivateJob, Board!JobExists
    <2>2. apps' = apps /\ saved' = saved /\ written' = written
      BY <1>4 DEF CreateJob, DeactivateJob
    <2> QED
      BY <1>1, <1>2, <2>1, <2>2 DEF Board!IdsUnique, NoOrphans, Board!NoOrphans
  <1>5. CASE \E s \in Seekers, j \in Jobs : UnsaveJob(s, j)
    BY <1>2, <1>5 DEF UnsaveJob, Board!IdsUnique, NoOrphans, Board!NoOrphans, Board!JobExists
  <1>6. ASSUME NEW h \in Handlers, DeleteJob(h)
        PROVE  /\ apps' \subseteq apps /\ written' = written /\ NoOrphans'
    <2>1. written' = written
      BY <1>6 DEF DeleteJob, Finish
    <2>2. CASE Board!JobExists(handler[h].job)
      <3>1. PICK j \in Jobs : j = handler[h].job
        BY <1>6 DEF DeleteJob, Tables, Delivery, TypeOK, NoRequest, WithdrawRequest,
                    StatusRequest, DeleteRequest
      <3>2. /\ jobs' = [jobs EXCEPT ![j] = "deleted"]
            /\ apps' = {a \in apps : a.job # j} /\ saved' = {b \in saved : b[2] # j}
        BY <1>6, <2>2, <3>1 DEF DeleteJob
      <3>3. \A i \in Jobs \ {j} : Board!JobExists(i) => Board!JobExists(i)'
        BY <1>1, <3>2 DEF Board!JobExists
      <3> QED
        BY <1>1, <1>2, <2>1, <3>2, <3>3 DEF NoOrphans, Board!NoOrphans
    <2>3. CASE ~Board!JobExists(handler[h].job)
      BY <1>2, <1>6, <2>1, <2>3 DEF DeleteJob, NoOrphans, Board!NoOrphans, Board!JobExists
    <2> QED
      BY <2>2, <2>3, <2>1, <1>6 DEF DeleteJob
  <1>7. ASSUME NEW h \in Handlers, WithdrawApplication(h)
        PROVE  /\ apps' \subseteq apps /\ written' = written /\ NoOrphans'
    BY <1>2, <1>7
    DEF WithdrawApplication, Finish, NoOrphans, Board!NoOrphans, Board!JobExists
  <1>8. ASSUME NEW h \in Handlers, UpdateApplicationStatus(h)
        PROVE  /\ written' = written /\ jobs' = jobs /\ saved' = saved
               /\ \A b \in apps' : \E a \in apps :
                     /\ a.id = b.id /\ a.seeker = b.seeker /\ a.job = b.job
                     /\ b = IF a.id = handler[h].id
                            THEN [a EXCEPT !.status = handler[h].status] ELSE a
    BY <1>1, <1>8 DEF UpdateApplicationStatus, Finish, Board!Applications
  <1>9. ASSUME NEW h \in Handlers, UpdateApplicationStatus(h)
        PROVE  Board!IdsUnique' /\ NoOrphans'
    <2>1. Board!IdsUnique'
      BY <1>2, <1>8, <1>9 DEF Board!IdsUnique
    <2>2. NoOrphans'
      BY <1>2, <1>8, <1>9 DEF NoOrphans, Board!NoOrphans, Board!JobExists
    <2> QED
      BY <2>1, <2>2
  <1> QED
    BY <1>2, <1>3, <1>4, <1>5, <1>6, <1>7, <1>8, <1>9, TableSteps
    DEF Board!IdsUnique, CreateJob, DeactivateJob, UnsaveJob

-----------------------------------------------------------------------------
(* The invariant about the tables is kept.                                 *)

\* An insert adds one application or one bookmark, and nothing else.
LEMMA NewRows ==
    ASSUME Tables, NEW w \in Workers, InsertBy(w)
    PROVE  LET t == worker[w].task  p == payload[worker[w].task] IN
           /\ jobs' = jobs /\ handler' = handler
           /\ \A u \in Tasks \ {t} : written'[u] = written[u]
           /\ written'[t] = written[t] + 1
           /\ \/ /\ p.kind = "apply" /\ saved' = saved
                 /\ apps' = apps \cup {NewApplication(t)}
              \/ /\ p.kind = "save" /\ apps' = apps
                 /\ saved' = saved \cup {<<p.seeker, p.job>>}
  BY InsertedRow DEF InsertBy, InsertRow, Payload, Tables, Delivery, TypeOK

LEMMA IdsUsedStep ==
    ASSUME Tables, [Next]_vars
    PROVE  IdsUsed'
  <1>1. /\ written \in [Tasks -> Nat]
        /\ \A a \in apps : a.id \in AppIds
        /\ \A h \in Handlers : handler[h].op \in {"withdraw", "status"} => handler[h].id \in AppIds
    BY DEF Tables, Delivery, TypeOK, Board!Applications, NoRequest, WithdrawRequest,
           DeleteRequest, StatusRequest
  <1>2. \A i \in AppIds : i[1] \in Tasks /\ i[2] \in Nat
    BY DEF AppIds
  <1>3. \A u \in Tasks : written'[u] \in Nat /\ written[u] <= written'[u]
    <2>1. CASE \E w \in Workers : InsertBy(w)
      BY <1>1, <2>1, NewRows
    <2>2. CASE ~ \E w \in Workers : InsertBy(w)
      BY <1>1, <2>2, OldRows
    <2> QED
      BY <2>1, <2>2
  <1>4. \A a \in apps : a.id[2] <= written'[a.id[1]]
    BY <1>1, <1>2, <1>3 DEF Tables, IdsUsed
  <1>5. \A b \in apps' : b.id[2] <= written'[b.id[1]]
    <2>1. CASE \E w \in Workers : InsertBy(w)
      <3>1. PICK w \in Workers : InsertBy(w)
        BY <2>1
      <3>2. NewApplication(worker[w].task).id = <<worker[w].task, written[worker[w].task] + 1>>
        BY DEF NewApplication
      <3>3. written'[worker[w].task] = written[worker[w].task] + 1 /\ worker[w].task \in Tasks
        BY <3>1, NewRows, InsertedRow
      <3>4. NewApplication(worker[w].task).id[2] <= written'[NewApplication(worker[w].task).id[1]]
        BY <1>3, <3>2, <3>3
      <3> QED
        BY <1>4, <3>1, <3>4, NewRows
    <2>2. CASE ~ \E w \in Workers : InsertBy(w)
      BY <1>4, <2>2, OldRows
    <2> QED
      BY <2>1, <2>2
  <1>6. ASSUME NEW h \in Handlers, handler'[h].op \in {"withdraw", "status"}
        PROVE  handler'[h].id[2] <= written'[handler'[h].id[1]]
    <2>1. CASE handler'[h] = handler[h]
      BY <1>1, <1>2, <1>3, <1>6, <2>1 DEF Tables, IdsUsed
    <2>2. CASE \E a \in apps :
                  handler'[h] = [op |-> "withdraw", seeker |-> a.seeker, id |-> a.id]
      BY <1>4, <2>2
    <2>3. CASE \E a \in apps, st \in Statuses :
                  handler'[h] = [op |-> "status", recruiter |-> JobOwner[a.job],
                                 id |-> a.id, status |-> st]
      BY <1>4, <2>3
    <2>4. handler'[h] # NoRequest
      BY <1>6 DEF NoRequest
    <2>5. ~ \E j \in Jobs :
              handler'[h] = [op |-> "delete", recruiter |-> JobOwner[j], job |-> j]
      <3>1. \A j \in Jobs : [op |-> "delete", recruiter |-> JobOwner[j], job |-> j].op = "delete"
        OBVIOUS
      <3>2. handler'[h].op # "delete"
        BY <1>6
      <3> QED
        BY <3>1, <3>2
    <2>6. HandlerChange(h)
      BY HandlerSteps DEF Tables
    <2> QED
      BY <2>1, <2>2, <2>3, <2>4, <2>5, <2>6 DEF HandlerChange
  <1> QED
    BY <1>5, <1>6 DEF IdsUsed

LEMMA RowsStep ==
    ASSUME Tables, [Next]_vars
    PROVE  Board!IdsUnique' /\ NoOrphans' /\ CheckedIdStaysOwn' /\ DeletesOwn'
  <1>1. Board!IdsUnique' /\ NoOrphans'
    <2>1. CASE \E w \in Workers : InsertBy(w)
      <3>1. PICK w \in Workers : InsertBy(w)
        BY <2>1
      <3>2. Board!IdsUnique'
        BY <3>1, InsertedRow, NewRows DEF Tables, Board!IdsUnique
      <3>3. NewApplication(worker[w].task).job = payload[worker[w].task].job
        BY DEF NewApplication
      <3>4. NoOrphans'
        BY <3>1, <3>3, InsertedRow, NewRows
        DEF Tables, NoOrphans, Board!NoOrphans, Board!JobExists
      <3> QED
        BY <3>2, <3>4
    <2>2. CASE ~ \E w \in Workers : InsertBy(w)
      BY <2>2, OldRows
    <2> QED
      BY <2>1, <2>2
  <1>2. ASSUME NEW h \in Handlers, NEW b \in apps',
               handler'[h].op \in {"withdraw", "status"}, handler'[h].id = b.id
        PROVE  /\ handler'[h].op = "withdraw" => handler'[h].seeker = b.seeker
               /\ handler'[h].op = "status" => handler'[h].recruiter = JobOwner[b.job]
    <2>1. CASE handler'[h] = handler[h]
      <3>1. CASE \E w \in Workers : InsertBy(w)
        <4>1. b \in apps
          BY <1>2, <2>1, <3>1, InsertedRow, NewRows
        <4> QED
          BY <1>2, <2>1, <4>1 DEF Tables, CheckedIdStaysOwn
      <3>2. CASE ~ \E w \in Workers : InsertBy(w)
        <4>1. PICK a \in apps : a.id = b.id /\ a.seeker = b.seeker /\ a.job = b.job
          BY <3>2, OldRows
        <4> QED
          BY <1>2, <2>1, <4>1 DEF Tables, CheckedIdStaysOwn
      <3> QED
        BY <3>1, <3>2
    <2>2. ASSUME QuietTables, NEW a \in apps,
                 handler'[h] = [op |-> "withdraw", seeker |-> a.seeker, id |-> a.id]
          PROVE  handler'[h].op = "withdraw" /\ handler'[h].seeker = b.seeker
      BY <1>2, <2>2 DEF Tables, Board!IdsUnique, QuietTables, tables
    <2>3. ASSUME QuietTables, NEW a \in apps, NEW st \in Statuses,
                 handler'[h] = [op |-> "status", recruiter |-> JobOwner[a.job],
                                id |-> a.id, status |-> st]
          PROVE  handler'[h].op = "status" /\ handler'[h].recruiter = JobOwner[b.job]
      BY <1>2, <2>3 DEF Tables, Board!IdsUnique, QuietTables, tables
    <2>4. handler'[h] # NoRequest
      BY <1>2 DEF NoRequest
    <2>5. ~ \E j \in Jobs :
              handler'[h] = [op |-> "delete", recruiter |-> JobOwner[j], job |-> j]
      <3>1. \A j \in Jobs : [op |-> "delete", recruiter |-> JobOwner[j], job |-> j].op = "delete"
        OBVIOUS
      <3>2. handler'[h].op # "delete"
        BY <1>2
      <3> QED
        BY <3>1, <3>2
    <2>6. HandlerChange(h)
      BY HandlerSteps DEF Tables
    <2>7. handler'[h].op = "withdraw" => handler'[h].op # "status"
      OBVIOUS
    <2> QED
      BY <2>1, <2>2, <2>3, <2>7, <2>4, <2>5, <2>6 DEF HandlerChange
  <1>3. CheckedIdStaysOwn'
    BY <1>2 DEF CheckedIdStaysOwn
  <1>4. DeletesOwn'
    <2> SUFFICES ASSUME NEW h \in Handlers, handler'[h].op = "delete"
                 PROVE  handler'[h].recruiter = JobOwner[handler'[h].job]
      BY DEF DeletesOwn
    <2>1. CASE handler'[h] = handler[h]
      BY <2>1 DEF Tables, DeletesOwn
    <2>2. ASSUME NEW j \in Jobs,
                 handler'[h] = [op |-> "delete", recruiter |-> JobOwner[j], job |-> j]
          PROVE  handler'[h].recruiter = JobOwner[handler'[h].job]
      BY <2>2
    <2>3. handler'[h] # NoRequest
      BY DEF NoRequest
    <2>4. /\ \A a \in apps :
               handler'[h] # [op |-> "withdraw", seeker |-> a.seeker, id |-> a.id]
          /\ \A a \in apps, st \in Statuses :
               handler'[h] # [op |-> "status", recruiter |-> JobOwner[a.job],
                              id |-> a.id, status |-> st]
      OBVIOUS
    <2>5. HandlerChange(h)
      BY HandlerSteps DEF Tables
    <2> QED
      BY <2>1, <2>2, <2>3, <2>4, <2>5 DEF HandlerChange
  <1> QED
    BY <1>1, <1>3, <1>4

\* A row is inserted by the INSERT of the slot that runs the task.
LEMMA InsertOfSlot ==
    ASSUME Delivery, [Next]_vars, NEW w \in Workers, InsertBy(w)
    PROVE  Insert(w)
  <1>1. /\ worker[w] # Idle /\ worker[w].task \in Tasks
        /\ written \in [Tasks -> Nat]
        /\ written' = [written EXCEPT ![worker[w].task] = @ + 1]
    BY Shape DEF InsertBy, InsertRow, Delivery, TypeOK
  <1>2. PICK t \in Tasks : t = worker[w].task
    BY <1>1
  <1>3. written'[t] = written[t] + 1 /\ written'[t] # written[t]
    BY <1>1, <1>2
  <1>4. PICK v \in Workers : Insert(v)
    BY <1>3
    DEF Next, vars, WorkerStep, StartTask, ApplyCheckJob, ApplyCheckDuplicate, SaveCheckJob,
        WriteResult, CompleteTask, QueueStep, RetryDue, LeaseExpired, ForgetTask, RequestStep,
        ApplyToJobRequest, SaveJobRequest, Submit, UnsaveJob, CreateJob, DeactivateJob,
        DeleteJobCheck, WithdrawCheck, StatusCheck, Accept, DeleteJob, WithdrawApplication,
        UpdateApplicationStatus, Finish, RequestFails, Crash, ShutdownTimeout, GoDown
  <1>5. /\ written' = [written EXCEPT ![worker[v].task] = @ + 1]
        /\ worker[v] # Idle /\ worker[v].task \in Tasks
    BY <1>3, <1>4, Shape DEF Insert, InsertRow, Delivery
  <1>6. worker[v].task = worker[w].task
    BY <1>1, <1>2, <1>3, <1>5
  <1> QED
    BY <1>1, <1>4, <1>5, <1>6 DEF Delivery, ExclusiveDelivery

\* A slot before its INSERT was there before, or has just passed a check of
\* the same task.
LEMMA SlotMoves ==
    ASSUME Delivery, [Next]_vars, NEW w \in Workers, worker'[w].pc \in {"checkDup", "insert"}
    PROVE  /\ payload'[worker'[w].task] = payload[worker'[w].task]
           /\ ~InsertBy(w)
           /\ \/ worker'[w] = worker[w]
              \/ /\ Goto(w, worker'[w].pc) /\ worker'[w].task = worker[w].task
                 /\ ApplyCheckJob(w) \/ ApplyCheckDuplicate(w) \/ SaveCheckJob(w)
  <1>1. /\ worker \in [Workers -> Busy \cup {Idle}]
        /\ worker'[w].pc \in {"checkDup", "insert"}
    BY DEF Delivery, TypeOK
  <1>2. \A e : ~Fail(w, e)
    BY <1>1 DEF Fail, Idle
  <1>3. ~Insert(w)
    BY <1>1, <1>2 DEF Insert, Goto, Busy, Idle
  <1>4. ~InsertBy(w)
    BY <1>3, InsertOfSlot
  <1>5. ASSUME NEW v \in Workers, WorkerStep(v)
        PROVE  payload' = payload /\ (v # w => worker'[w] = worker[w])
    BY <1>1, <1>5
    DEF WorkerStep, StartTask, ApplyCheckJob, ApplyCheckDuplicate, SaveCheckJob, Insert,
        WriteResult, CompleteTask, Goto, Fail
  <1>6. CASE WorkerStep(w)
    <2>1. ~StartTask(w) /\ ~WriteResult(w) /\ ~CompleteTask(w)
      BY <1>1 DEF StartTask, WriteResult, CompleteTask, Idle, Busy
    <2>2. ApplyCheckJob(w) \/ ApplyCheckDuplicate(w) \/ SaveCheckJob(w)
      BY <1>3, <1>6, <2>1 DEF WorkerStep
    <2>3. PICK pc \in {"checkDup", "insert"} : Goto(w, pc)
      BY <1>2, <2>2 DEF ApplyCheckJob, ApplyCheckDuplicate, SaveCheckJob
    <2>4. worker[w].pc \in {"checkJob", "checkDup"}
      BY <2>2 DEF ApplyCheckJob, ApplyCheckDuplicate, SaveCheckJob, At
    <2>5. worker'[w].pc = pc /\ worker'[w].task = worker[w].task
      BY <1>1, <2>3, <2>4, Shape DEF Goto, Busy, Idle, Delivery
    <2> QED
      BY <1>4, <1>5, <1>6, <2>2, <2>3, <2>5
  <1>7. ASSUME NEW kind \in {"apply", "save"}, NEW s \in Seekers, NEW j \in Jobs,
               Submit(kind, s, j)
        PROVE  payload'[worker'[w].task] = payload[worker'[w].task] /\ worker'[w] = worker[w]
    <2>1. worker' = worker /\ worker[w] # Idle /\ worker[w].task \in Tasks
      BY <1>1, <1>7, Shape DEF Submit, Idle, Delivery
    <2>2. queue[worker[w].task].state = "active"
      BY <2>1 DEF Delivery, ExclusiveDelivery
    <2>3. PICK t \in Tasks : queue[t].state = "unused" /\
             payload' = [payload EXCEPT ![t] = [kind |-> kind, seeker |-> s, job |-> j]]
      BY <1>7 DEF Submit, Enqueue
    <2> QED
      BY <2>1, <2>2, <2>3 DEF Delivery, TypeOK
  <1>8. CASE RequestStep
    <2>1. CASE \E s \in Seekers, j \in Jobs : ApplyToJobRequest(s, j) \/ SaveJobRequest(s, j)
      BY <1>4, <1>7, <2>1 DEF ApplyToJobRequest, SaveJobRequest
    <2>2. CASE ~ \E s \in Seekers, j \in Jobs : ApplyToJobRequest(s, j) \/ SaveJobRequest(s, j)
      BY <1>4, <1>8, <2>2
      DEF RequestStep, UnsaveJob, CreateJob, DeactivateJob, DeleteJobCheck, WithdrawCheck,
          StatusCheck, Accept, DeleteJob, WithdrawApplication, UpdateApplicationStatus,
          Finish, RequestFails
    <2> QED
      BY <2>1, <2>2
  <1>9. ~Crash /\ ~ShutdownTimeout
    <2>1. GoDown => worker'[w] = Idle
      BY DEF GoDown
    <2> QED
      BY <1>1, <2>1 DEF Crash, ShutdownTimeout, Idle
  <1>10. CASE UNCHANGED vars
    BY <1>4, <1>10 DEF vars
  <1>11. CASE \E t \in Tasks : QueueStep(t) \/ ForgetTask(t)
    BY <1>4, <1>11 DEF QueueStep, RetryDue, LeaseExpired, ForgetTask
  <1> QED
    BY <1>4, <1>5, <1>6, <1>8, <1>9, <1>10, <1>11 DEF Next

\* A slot that is about to insert an application comes from the duplicate
\* check, and one that is about to make that check from an active job.
LEMMA SlotToInsert ==
    ASSUME Delivery, [Next]_vars, NEW w \in Workers, At(w, "apply", "insert")'
    PROVE  /\ payload'[worker'[w].task] = payload[worker'[w].task]
           /\ ~InsertBy(w)
           /\ \/ worker'[w] = worker[w]
              \/ /\ ApplyCheckDuplicate(w) /\ Goto(w, "insert")
                 /\ worker'[w].task = worker[w].task
  <1>1. worker'[w].pc = "insert" /\ payload'[worker'[w].task].kind = "apply"
    BY DEF At
  <1>2. worker'[w].task = worker[w].task => ~SaveCheckJob(w)
    BY <1>1, SlotMoves DEF SaveCheckJob, At
  <1>3. Goto(w, "insert") => ~ApplyCheckJob(w)
    BY DEF ApplyCheckJob, Goto, Fail, At, Delivery, TypeOK, Busy, Idle
  <1> QED
    BY <1>1, <1>2, <1>3, SlotMoves

LEMMA SlotToCheckDup ==
    ASSUME Delivery, [Next]_vars, NEW w \in Workers, At(w, "apply", "checkDup")'
    PROVE  /\ payload'[worker'[w].task] = payload[worker'[w].task]
           /\ \/ worker'[w] = worker[w]
              \/ /\ jobs[payload[worker[w].task].job] = "active"
                 /\ worker'[w].task = worker[w].task
  <1>1. worker'[w].pc = "checkDup" /\ worker \in [Workers -> Busy \cup {Idle}]
    BY DEF At, Delivery, TypeOK
  <1>2. ~ApplyCheckDuplicate(w) /\ ~SaveCheckJob(w)
    BY <1>1 DEF ApplyCheckDuplicate, SaveCheckJob, Goto, Fail, At, Busy, Idle
  <1>3. ApplyCheckJob(w) => jobs[payload[worker[w].task].job] = "active"
    BY <1>1 DEF ApplyCheckJob, Fail, Idle
  <1> QED
    BY <1>1, <1>2, <1>3, SlotMoves

\* With one worker and a database that answers, what the duplicate check has
\* found still holds.
LEMMA ReachesInsert ==
    ASSUME Delivery, [Next]_vars, OnePerJob, NEW w \in Workers, At(w, "apply", "insert")'
    PROVE  /\ payload'[worker'[w].task] = payload[worker'[w].task]
           /\ \A v \in Workers : ~InsertBy(v)
           /\ \/ worker'[w] = worker[w]
              \/ LET p == payload[worker'[w].task] IN
                 ~Board!HasApplied(p.seeker, p.job) /\ apps' = apps
  <1>1. /\ dbErrs \in 0 .. MaxDbErrors /\ MaxDbErrors = 0
        /\ \A v \in Workers : v = w
    BY DEF Delivery, TypeOK, OnePerJob, OneWorker
  <1>2. ~DbError
    BY <1>1 DEF DbError
  <1>3. CASE ApplyCheckDuplicate(w) /\ Goto(w, "insert") /\ worker'[w].task = worker[w].task
    <2>1. \A e : ~Fail(w, e)
      BY <1>3, SlotToInsert DEF Fail, At, Idle, Delivery, TypeOK
    <2> QED
      BY <1>1, <1>2, <1>3, <2>1, SlotToInsert DEF ApplyCheckDuplicate, tables
  <1> QED
    BY <1>1, <1>3, SlotToInsert

LEMMA NoneYetStep ==
    ASSUME Tables, [Next]_vars
    PROVE  NoneYet'
  <1> SUFFICES ASSUME OnePerJob, NEW w \in Workers, At(w, "apply", "insert")'
               PROVE  (LET p == payload[worker[w].task] IN ~Board!HasApplied(p.seeker, p.job))'
    BY DEF NoneYet, OnePerJob, OneWorker
  <1> DEFINE p == payload[worker'[w].task]
  <1>1. /\ payload'[worker'[w].task] = p
        /\ \A v \in Workers : ~InsertBy(v)
        /\ \/ worker'[w] = worker[w]
           \/ ~Board!HasApplied(p.seeker, p.job) /\ apps' = apps
    BY ReachesInsert DEF Tables
  <1>2. ~Board!HasApplied(p.seeker, p.job)
    BY <1>1 DEF Tables, NoneYet, At
  <1>3. \A b \in apps' : ~(b.seeker = p.seeker /\ b.job = p.job)
    BY <1>1, <1>2, OldRows DEF Board!HasApplied
  <1> QED
    BY <1>1, <1>3 DEF Board!HasApplied

THEOREM TablesInvariant == Spec => []Tables
  <1>1. Tables /\ [Next]_vars => Tables'
    <2> SUFFICES ASSUME Tables, [Next]_vars PROVE Tables'
      OBVIOUS
    <2>1. Delivery'
      BY TypeStep, DeliveryStep DEF Delivery, Bookkeeping, Tables
    <2> QED
      BY <2>1, IdsUsedStep, RowsStep, NoneYetStep DEF Tables
  <1> QED
    BY <1>1, InitTables, PTL DEF Spec
-----------------------------------------------------------------------------
(* What follows from it.                                                   *)

\* The rows of applications and saved_jobs never outlive their job: the
\* INSERT asks for the job again and DeleteJob cascades, so a job deleted
\* between the look-up and the INSERT of ApplyToJob leaves nothing behind.
THEOREM NoRowIsOrphaned == Spec => []NoOrphans
  <1>1. Tables => NoOrphans
    BY DEF Tables
  <1> QED
    BY <1>1, TablesInvariant, PTL

\* The id that WithdrawApplication or UpdateApplicationStatus has checked
\* still names a row of the caller, or none, when it is used.
THEOREM CheckedIdsStayOwn == Spec => []CheckedIdStaysOwn
  <1>1. Tables => CheckedIdStaysOwn
    BY DEF Tables
  <1> QED
    BY <1>1, TablesInvariant, PTL

\* With one worker and a database that answers, ApplyToJob's check is
\* enough: no seeker has two applications to one job.
OneEach == OnePerJob => OneApplicationEach

LEMMA OneEachStep ==
    ASSUME Tables, OneEach, [Next]_vars
    PROVE  OneEach'
  <1> SUFFICES ASSUME OnePerJob, OneApplicationEach PROVE OneApplicationEach'
    BY DEF OneEach, OnePerJob, OneWorker
  <1>1. CASE ~ \E w \in Workers : InsertBy(w)
    BY <1>1, OldRows DEF OneApplicationEach, Board!OneApplicationEach, Board!IdsUnique
  <1>2. CASE \E w \in Workers : InsertBy(w)
    <2>1. PICK w \in Workers : InsertBy(w)
      BY <1>2
    <2>2. /\ NewApplication(worker[w].task).seeker = payload[worker[w].task].seeker
          /\ NewApplication(worker[w].task).job = payload[worker[w].task].job
      BY DEF NewApplication
    <2>3. payload[worker[w].task].kind = "apply" =>
             ~Board!HasApplied(payload[worker[w].task].seeker, payload[worker[w].task].job)
      BY <2>1 DEF Tables, NoneYet, At, InsertBy
    <2> QED
      BY <2>1, <2>2, <2>3, NewRows
      DEF OneApplicationEach, Board!OneApplicationEach, Board!HasApplied
  <1> QED
    BY <1>1, <1>2

THEOREM OneWorkerAppliesOnce == Spec => [](OnePerJob => OneApplicationEach)
  <1>1. Init => OneEach
    BY DEF Init, OneEach, OneApplicationEach, Board!OneApplicationEach, Board!BoardInit
  <1>2. Tables /\ OneEach /\ [Next]_vars => OneEach'
    BY OneEachStep
  <1>3. OneEach => (OnePerJob => OneApplicationEach)
    BY DEF OneEach
  <1> QED
    BY <1>1, <1>2, <1>3, TablesInvariant, PTL DEF Spec
-----------------------------------------------------------------------------
(* How far the checks of ApplyToJob reach, with several workers.           *)

LEMMA ClosedStep ==
    ASSUME Tables, [Next]_vars, NEW j \in Jobs, Closed(j)
    PROVE  StaysClosed(j)
  <1>1. Delivery
    BY DEF Tables
  <1>2. jobs'[j] \in {"inactive", "deleted"}
    <2>1. jobs \in [Jobs -> Board!JobStates] /\ jobs[j] \in {"inactive", "deleted"}
      BY <1>1 DEF Delivery, TypeOK, Closed
    <2>2. ASSUME NEW h \in Handlers, DeleteJob(h)
          PROVE  jobs'[j] \in {jobs[j], "deleted"}
      BY <2>1, <2>2 DEF DeleteJob, tables
    <2>3. \A i \in Jobs : CreateJob(i) \/ DeactivateJob(i) => jobs'[j] = jobs[j]
      BY <2>1 DEF CreateJob, DeactivateJob
    <2> QED
      BY <2>1, <2>2, <2>3, TableSteps
      DEF QuietTables, tables, InsertBy, InsertRow, UnsaveJob, WithdrawApplication,
          UpdateApplicationStatus
  <1>3. ASSUME NEW w \in Workers, At(w, "apply", "insert")'
        PROVE  payload'[worker'[w].task].job # j
    <2>1. CASE worker'[w] = worker[w]
      BY <1>1, <1>3, <2>1, SlotToInsert DEF Closed, At
    <2>2. CASE ApplyCheckDuplicate(w) /\ worker'[w].task = worker[w].task
      BY <1>1, <1>3, <2>2, SlotToInsert DEF Closed, ApplyCheckDuplicate
    <2> QED
      BY <1>1, <1>3, <2>1, <2>2, SlotToInsert
  <1>4. ASSUME NEW w \in Workers, At(w, "apply", "checkDup")'
        PROVE  payload'[worker'[w].task].job # j
    <2>1. CASE worker'[w] = worker[w]
      BY <1>1, <1>4, <2>1, SlotToCheckDup DEF Closed, At
    <2>2. CASE /\ jobs[payload[worker[w].task].job] = "active"
               /\ worker'[w].task = worker[w].task
      BY <1>1, <1>4, <2>2, SlotToCheckDup DEF Closed
    <2> QED
      BY <1>1, <1>4, <2>1, <2>2, SlotToCheckDup
  <1>5. ASSUME NEW b \in apps', b.job = j
        PROVE  \E a \in apps : a.id = b.id
    <2>1. CASE ~ \E w \in Workers : InsertBy(w)
      BY <2>1, OldRows
    <2>2. ASSUME NEW w \in Workers, InsertBy(w)
          PROVE  b \in apps
      <3>1. NewApplication(worker[w].task).job = payload[worker[w].task].job
        BY DEF NewApplication
      <3>2. payload[worker[w].task].kind = "apply" => payload[worker[w].task].job # j
        BY <2>2 DEF Closed, At, InsertBy
      <3> QED
        BY <1>5, <2>2, <3>1, <3>2, NewRows
    <2> QED
      BY <2>1, <2>2
  <1> QED
    BY <1>2, <1>3, <1>4, <1>5 DEF StaysClosed, Closed

\* Once the slots that had read is_active before are through, a deactivated
\* job gets no application any more, whatever is queued, retried or sent in.
THEOREM ClosedJobsStayClosed == Spec => ClosedJobsGetNoApplications
  <1>1. Tables /\ [Next]_vars => [\A j \in Jobs : Closed(j) => StaysClosed(j)]_vars
    BY ClosedStep
  <1> QED
    BY <1>1, TablesInvariant, PTL DEF Spec, ClosedJobsGetNoApplications

\* A set of rows that is left of another one, with whatever status, is finite
\* and not larger.
LEMMA RowsLeft ==
    ASSUME NEW S, IsFiniteSet(S), NEW T,
           \A b \in T : \E a \in S : a.id = b.id,
           \A b, c \in T : b.id = c.id => b = c
    PROVE  IsFiniteSet(T) /\ Cardinality(T) <= Cardinality(S)
  <1> DEFINE f == [b \in T |-> CHOOSE a \in S : a.id = b.id]
  <1>1. \A b \in T : f[b] \in S /\ f[b].id = b.id
    OBVIOUS
  <1>2. f \in [T -> S]
    BY <1>1
  <1>3. \A b, c \in T : f[b] = f[c] => b = c
    BY <1>1
  <1> HIDE DEF f
  <1>4. f \in Injection(T, S)
    BY <1>2, <1>3 DEF Injection, IsInjective
  <1> QED
    BY <1>4, FS_Injection

Of(s, j) == {a \in apps : a.seeker = s /\ a.job = j}

\* Slots past the duplicate check, whose application is still to come.
Coming(s, j) ==
    {w \in Workers : /\ At(w, "apply", "insert")
                     /\ payload[worker[w].task].seeker = s
                     /\ payload[worker[w].task].job = j}

FewEach ==
    /\ IsFiniteSet(apps)
    /\ \A s \in Seekers, j \in Jobs :
          Cardinality(Of(s, j)) + Cardinality(Coming(s, j)) <= Cardinality(Workers) + dbErrs

\* A slot that comes to the INSERT has found no application, or paid for the
\* answer it did not get.
LEMMA ComingStep ==
    ASSUME Delivery, [Next]_vars, NEW s \in Seekers, NEW j \in Jobs,
           NEW w \in Workers, w \in Coming(s, j)'
    PROVE  /\ ~InsertBy(w)
           /\ \/ w \in Coming(s, j)
              \/ apps' = apps /\ written' = written /\ Of(s, j) = {}
              \/ /\ apps' = apps /\ written' = written /\ dbErrs' = dbErrs + 1
                 /\ \A v \in Workers \ {w} : v \in Coming(s, j)' => v \in Coming(s, j)
  <1>1. /\ At(w, "apply", "insert")'
        /\ payload'[worker'[w].task].seeker = s /\ payload'[worker'[w].task].job = j
    BY DEF Coming
  <1>2. CASE worker'[w] = worker[w]
    BY <1>1, <1>2, SlotToInsert DEF Coming, At
  <1>3. CASE ApplyCheckDuplicate(w) /\ Goto(w, "insert") /\ worker'[w].task = worker[w].task
    <2>1. /\ apps' = apps /\ written' = written /\ payload' = payload
          /\ \A v \in Workers \ {w} : worker'[v] = worker[v]
      BY <1>3 DEF ApplyCheckDuplicate, tables, Goto, Delivery, TypeOK
    <2>2. \A v \in Workers \ {w} : v \in Coming(s, j)' => v \in Coming(s, j)
      BY <2>1 DEF Coming, At
    <2>3. payload[worker[w].task].seeker = s /\ payload[worker[w].task].job = j
      BY <1>1, <1>3, <2>1
    <2>4. \/ ~Board!HasApplied(s, j)
          \/ dbErrs' = dbErrs + 1
      <3>1. \A e : ~Fail(w, e)
        BY <1>1 DEF Fail, At, Idle, Delivery, TypeOK
      <3> QED
        BY <1>3, <2>3, <3>1 DEF ApplyCheckDuplicate, DbError
    <2> QED
      BY <1>1, <2>1, <2>2, <2>4, SlotToInsert DEF Of, Board!HasApplied
  <1> QED
    BY <1>1, <1>2, <1>3, SlotToInsert

LEMMA FewEachStep ==
    ASSUME Tables, FewEach, [Next]_vars
    PROVE  FewEach'
  <1>1. Delivery /\ Board!IdsUnique'
    BY RowsStep DEF Tables
  <1>2. IsFiniteSet(apps')
    <2>1. CASE ~ \E w \in Workers : InsertBy(w)
      BY <1>1, <2>1, OldRows, RowsLeft DEF FewEach, Board!IdsUnique
    <2>2. CASE \E w \in Workers : InsertBy(w)
      BY <2>2, NewRows, FS_AddElement DEF FewEach
    <2> QED
      BY <2>1, <2>2
  <1> SUFFICES ASSUME NEW s \in Seekers, NEW j \in Jobs
               PROVE  Cardinality(Of(s, j)') + Cardinality(Coming(s, j)')
                         <= Cardinality(Workers) + dbErrs'
    BY <1>2 DEF FewEach
  <1> DEFINE N == Cardinality(Workers)
             O == Cardinality(Of(s, j))
             C == Cardinality(Coming(s, j))
  <1>3. /\ IsFiniteSet(Of(s, j)) /\ IsFiniteSet(Of(s, j)')
        /\ IsFiniteSet(Coming(s, j)) /\ IsFiniteSet(Coming(s, j)')
    <2>1. Of(s, j) \subseteq apps /\ Of(s, j)' \subseteq apps'
      BY DEF Of
    <2>2. Coming(s, j) \subseteq Workers /\ Coming(s, j)' \subseteq Workers
      BY DEF Coming
    <2> QED
      BY <1>2, <2>1, <2>2, PoolAssumption, FS_Subset DEF FewEach
  <1>4. /\ N \in Nat /\ O \in Nat /\ C \in Nat
        /\ Cardinality(Of(s, j)') \in Nat /\ Cardinality(Coming(s, j)') \in Nat
    BY <1>3, PoolAssumption, FS_CardinalityType
  <1>5. O + C <= N + dbErrs /\ dbErrs \in Nat /\ dbErrs' \in {dbErrs, dbErrs + 1}
    BY <1>1, ErrorsGrow DEF FewEach, Delivery, TypeOK
  <1>6. Coming(s, j)' \subseteq Coming(s, j) => Cardinality(Coming(s, j)') <= C
    BY <1>3, FS_Subset
  <1>7. ASSUME NEW w \in Workers, InsertBy(w)
        PROVE  Cardinality(Of(s, j)') + Cardinality(Coming(s, j)') <= N + dbErrs'
    <2> DEFINE p == payload[worker[w].task]
    <2>1. written' # written
      BY <1>1, <1>7, NewRows, InsertedRow
    <2>2. Coming(s, j)' \subseteq Coming(s, j) \ {w}
      BY <1>1, <1>7, <2>1, ComingStep DEF Coming
    <2>3. CASE p.kind = "apply" /\ p.seeker = s /\ p.job = j
      <3>1. w \in Coming(s, j)
        BY <1>7, <2>3 DEF Coming, InsertBy, At
      <3>2. Cardinality(Coming(s, j)') <= C - 1
        <4>1. IsFiniteSet(Coming(s, j) \ {w}) /\ Cardinality(Coming(s, j) \ {w}) = C - 1
          BY <1>3, <3>1, FS_RemoveElement
        <4> QED
          BY <2>2, <4>1, FS_Subset
      <3>3. Of(s, j)' \subseteq Of(s, j) \cup {NewApplication(worker[w].task)}
        BY <1>7, NewRows DEF Of
      <3>4. Cardinality(Of(s, j)') <= O + 1
        <4>1. /\ IsFiniteSet(Of(s, j) \cup {NewApplication(worker[w].task)})
              /\ Cardinality(Of(s, j) \cup {NewApplication(worker[w].task)}) \in {O, O + 1}
          BY <1>3, FS_AddElement
        <4>2. Cardinality(Of(s, j)') <= Cardinality(Of(s, j) \cup {NewApplication(worker[w].task)})
          BY <3>3, <4>1, FS_Subset
        <4> QED
          BY <1>4, <4>1, <4>2
      <3> QED
        BY <1>4, <1>5, <3>2, <3>4
    <2>4. CASE ~(p.kind = "apply" /\ p.seeker = s /\ p.job = j)
      <3>1. /\ NewApplication(worker[w].task).seeker = p.seeker
            /\ NewApplication(worker[w].task).job = p.job
        BY DEF NewApplication
      <3>2. Of(s, j)' = Of(s, j)
        BY <1>7, <2>4, <3>1, NewRows DEF Of
      <3> QED
        BY <1>4, <1>5, <1>6, <2>2, <3>2
    <2> QED
      BY <2>3, <2>4
  <1>8. CASE ~ \E w \in Workers : InsertBy(w)
    <2>1. Cardinality(Of(s, j)') <= O
      <3>1. \A b \in Of(s, j)' : \E a \in Of(s, j) : a.id = b.id
        BY <1>8, OldRows DEF Of
      <3>2. \A b, c \in Of(s, j)' : b.id = c.id => b = c
        BY <1>1 DEF Of, Board!IdsUnique
      <3> QED
        BY <1>3, <3>1, <3>2, RowsLeft
    <2>2. CASE Coming(s, j)' \subseteq Coming(s, j)
      BY <1>4, <1>5, <1>6, <2>1, <2>2
    <2>3. ASSUME NEW w \in Workers, w \in Coming(s, j)', w \notin Coming(s, j)
          PROVE  Cardinality(Of(s, j)') + Cardinality(Coming(s, j)') <= N + dbErrs'
      <3>1. CASE apps' = apps /\ Of(s, j) = {}
        <4>1. Cardinality(Of(s, j)') = 0
          BY <3>1, FS_EmptySet DEF Of
        <4>2. Cardinality(Coming(s, j)') <= N
          BY PoolAssumption, FS_Subset DEF Coming
        <4> QED
          BY <1>4, <1>5, <4>1, <4>2
      <3>2. CASE /\ dbErrs' = dbErrs + 1
                 /\ \A v \in Workers \ {w} : v \in Coming(s, j)' => v \in Coming(s, j)
        <4>1. Coming(s, j)' \subseteq Coming(s, j) \cup {w}
          BY <3>2 DEF Coming
        <4>2. /\ IsFiniteSet(Coming(s, j) \cup {w})
              /\ Cardinality(Coming(s, j) \cup {w}) = C + 1
          BY <1>3, <2>3, FS_AddElement
        <4>3. Cardinality(Coming(s, j)') <= C + 1
          BY <4>1, <4>2, FS_Subset
        <4> QED
          BY <1>4, <1>5, <2>1, <3>2, <4>3
      <3> QED
        BY <1>1, <2>3, <3>1, <3>2, ComingStep
    <2> QED
      BY <2>2, <2>3 DEF Coming
  <1> QED
    BY <1>7, <1>8

\* However many requests, retries and restarts there are, the slots of the
\* pool and the failed statements bound the applications of one seeker to one
\* job.
THEOREM DuplicatesAreFew == Spec => []DuplicatesAreBounded
  <1>1. Init => FewEach
    <2> SUFFICES ASSUME Init PROVE FewEach
      OBVIOUS
    <2>1. apps = {} /\ IsFiniteSet(apps) /\ dbErrs = 0
      BY FS_EmptySet DEF Init, Board!BoardInit
    <2>2. ASSUME NEW s \in Seekers, NEW j \in Jobs
          PROVE  Of(s, j) = {} /\ Coming(s, j) = {}
      BY <2>1 DEF Of, Coming, Init, At, Idle
    <2>3. Cardinality(Workers) \in Nat
      BY PoolAssumption, FS_CardinalityType
    <2> QED
      BY <2>1, <2>2, <2>3, FS_EmptySet DEF FewEach
  <1>2. Tables /\ FewEach /\ [Next]_vars => FewEach'
    BY FewEachStep
  <1>3. Tables /\ FewEach => DuplicatesAreBounded
    <2> SUFFICES ASSUME Tables, FewEach, NEW s \in Seekers, NEW j \in Jobs
                 PROVE  Cardinality(Of(s, j)) <= Cardinality(Workers) + dbErrs
      BY DEF DuplicatesAreBounded, Of
    <2>1. IsFiniteSet(Of(s, j)) /\ IsFiniteSet(Coming(s, j))
      BY PoolAssumption, FS_Subset DEF FewEach, Of, Coming
    <2>2. /\ Cardinality(Of(s, j)) \in Nat /\ Cardinality(Coming(s, j)) \in Nat
          /\ Cardinality(Workers) \in Nat /\ dbErrs \in Nat
      BY <2>1, PoolAssumption, FS_CardinalityType DEF Tables, Delivery, TypeOK
    <2> QED
      BY <2>2 DEF FewEach
  <1> QED
    BY <1>1, <1>2, <1>3, TablesInvariant, PTL DEF Spec
-----------------------------------------------------------------------------
(* Who changes a row.                                                      *)

\* In a step of a request, the request ends.
LEMMA RequestEnds ==
    ASSUME Delivery, NEW h \in Handlers,
           DeleteJob(h) \/ WithdrawApplication(h) \/ UpdateApplicationStatus(h)
    PROVE  handler[h] # NoRequest /\ handler'[h] = NoRequest
  BY DEF DeleteJob, WithdrawApplication, UpdateApplicationStatus, Finish, NoRequest,
         Delivery, TypeOK

\* A row leaves the table only by DeleteJob or WithdrawApplication.
LEMMA RemovalsStep ==
    ASSUME Tables, [Next]_vars
    PROVE  Removals
  <1> SUFFICES ASSUME NEW a \in apps, \A b \in apps' : b.id # a.id
               PROVE  RemovedByOwner(a)
    BY DEF Removals
  <1> USE DEF tables
  <1>1. a \notin apps'
    OBVIOUS
  <1>2. ASSUME NEW h \in Handlers, DeleteJob(h)
        PROVE  RemovedByOwner(a)
    <2>1. handler[h].op = "delete" /\ a.job = handler[h].job
      BY <1>1, <1>2 DEF DeleteJob
    <2>2. handler[h].recruiter = JobOwner[a.job]
      BY <2>1 DEF Tables, DeletesOwn
    <2> QED
      BY <1>2, <2>1, <2>2, RequestEnds DEF RemovedByOwner, Tables
  <1>3. ASSUME NEW h \in Handlers, WithdrawApplication(h)
        PROVE  RemovedByOwner(a)
    <2>1. handler[h].op = "withdraw" /\ a.id = handler[h].id
      BY <1>1, <1>3 DEF WithdrawApplication
    <2>2. handler[h].seeker = a.seeker
      BY <2>1 DEF Tables, CheckedIdStaysOwn
    <2> QED
      BY <1>3, <2>1, <2>2, RequestEnds DEF RemovedByOwner, Tables
  <1>4. ASSUME NEW h \in Handlers, UpdateApplicationStatus(h)
        PROVE  \E b \in apps' : b.id = a.id
    <2> DEFINE b == IF a.id = handler[h].id
                    THEN [a EXCEPT !.status = handler[h].status] ELSE a
    <2>1. b \in apps'
      BY <1>4 DEF UpdateApplicationStatus
    <2>2. b.id = a.id
      BY DEF Tables, Delivery, TypeOK, Board!Applications
    <2> QED
      BY <2>1, <2>2
  <1>5. \A w \in Workers : InsertBy(w) => a \in apps'
    BY NewRows
  <1> QED
    BY <1>1, <1>2, <1>3, <1>4, <1>5, TableSteps
    DEF QuietTables, CreateJob, DeactivateJob, UnsaveJob

\* An application disappears only through its seeker's WithdrawApplication
\* or the DeleteJob of the recruiter whose job it is.
THEOREM OwnersRemove == Spec => OnlyOwnersRemove
  <1>1. Tables /\ [Next]_vars => [Removals]_vars
    BY RemovalsStep
  <1> QED
    BY <1>1, TablesInvariant, PTL DEF Spec, OnlyOwnersRemove

\* A row keeps its seeker and its job, and its status is changed by
\* UpdateApplicationStatus for the job's owner.
LEMMA DecisionsStep ==
    ASSUME Tables, [Next]_vars
    PROVE  Decisions
  <1> SUFFICES ASSUME NEW a \in apps, NEW b \in apps', a.id = b.id
               PROVE  /\ a.seeker = b.seeker /\ a.job = b.job
                      /\ a.status # b.status => DecidedByOwner(a)
    BY DEF Decisions
  <1> USE DEF tables
  <1>1. Board!IdsUnique
    BY DEF Tables
  <1>2. b \in apps => a = b
    BY <1>1 DEF Board!IdsUnique
  <1>3. ASSUME NEW w \in Workers, InsertBy(w)
        PROVE  b \in apps
    BY <1>3, NewRows, InsertedRow
  <1>4. ASSUME NEW h \in Handlers, UpdateApplicationStatus(h)
        PROVE  /\ a.seeker = b.seeker /\ a.job = b.job
               /\ a.status # b.status => DecidedByOwner(a)
    <2>1. PICK c \in apps :
             b = IF c.id = handler[h].id THEN [c EXCEPT !.status = handler[h].status] ELSE c
      BY <1>4 DEF UpdateApplicationStatus
    <2>2. c.id = b.id /\ c.seeker = b.seeker /\ c.job = b.job
      BY <2>1 DEF Tables, Delivery, TypeOK, Board!Applications
    <2>3. c = a
      BY <1>1, <2>2 DEF Board!IdsUnique
    <2>4. ASSUME a.status # b.status
          PROVE  DecidedByOwner(a)
      <3>1. a.id = handler[h].id /\ handler[h].op = "status"
        BY <1>4, <2>1, <2>3, <2>4 DEF UpdateApplicationStatus
      <3> QED
        BY <3>1 DEF DecidedByOwner, Tables, CheckedIdStaysOwn
    <2> QED
      BY <2>2, <2>3, <2>4
  <1>5. ASSUME ~ \E h \in Handlers : UpdateApplicationStatus(h)
        PROVE  b \in apps
    BY <1>3, <1>5, TableSteps
    DEF QuietTables, CreateJob, DeactivateJob, UnsaveJob, DeleteJob, WithdrawApplication
  <1> QED
    BY <1>2, <1>4, <1>5

\* UpdateApplicationStatus, which writes by an id checked one statement
\* earlier, never touches an application to somebody else's job.
THEOREM OwnersDecide == Spec => OnlyOwnersDecide
  <1>1. Tables /\ [Next]_vars => [Decisions]_vars
    BY DecisionsStep
  <1> QED
    BY <1>1, TablesInvariant, PTL DEF Spec, OnlyOwnersDecide
-----------------------------------------------------------------------------
(* The detailed system implements the board: the refinement mapping is the *)
(* identity on the three tables.                                           *)

\* The statement that completes DeleteJob is the board's Delete, or changes
\* nothing when the job has been deleted by another request.
LEMMA DeleteRefines ==
    ASSUME Tables, NEW h \in Handlers, DeleteJob(h)
    PROVE  [Board!BoardNext]_tables
  <1>1. PICK j \in Jobs : j = handler[h].job
    BY DEF DeleteJob, Tables, Delivery, TypeOK, NoRequest, WithdrawRequest, StatusRequest,
           DeleteRequest
  <1>2. Board!JobExists(j) => Board!Delete(j)
    BY <1>1 DEF DeleteJob, Board!Delete
  <1> QED
    BY <1>1, <1>2 DEF DeleteJob, Board!BoardNext

\* A withdrawal removes the one row with the id that was checked, if it is
\* still there.
LEMMA WithdrawRefines ==
    ASSUME Tables, NEW h \in Handlers, WithdrawApplication(h)
    PROVE  [Board!BoardNext]_tables
  <1>1. CASE \E a \in apps : a.id = handler[h].id
    <2>1. PICK a \in apps : a.id = handler[h].id
      BY <1>1
    <2>2. apps' = apps \ {a}
      BY <2>1 DEF WithdrawApplication, Tables, Board!IdsUnique
    <2>3. Board!Withdraw(a)
      BY <2>2 DEF WithdrawApplication, Board!Withdraw
    <2> QED
      BY <2>3 DEF Board!BoardNext
  <1>2. CASE ~ \E a \in apps : a.id = handler[h].id
    <2>1. apps' = apps
      BY <1>2 DEF WithdrawApplication
    <2> QED
      BY <2>1 DEF WithdrawApplication, tables
  <1> QED
    BY <1>1, <1>2

\* A decision changes the status of one row, if it is still there.
LEMMA DecideRefines ==
    ASSUME Tables, NEW h \in Handlers, UpdateApplicationStatus(h)
    PROVE  [Board!BoardNext]_tables
  <1>1. CASE \E a \in apps : a.id = handler[h].id
    <2>1. PICK a \in apps : a.id = handler[h].id
      BY <1>1
    <2>2. PICK st \in Statuses : st = handler[h].status
      BY DEF UpdateApplicationStatus, Tables, Delivery, TypeOK, NoRequest, WithdrawRequest,
             StatusRequest, DeleteRequest
    <2>3. \A b \in apps : b.id = handler[h].id <=> b = a
      BY <2>1 DEF Tables, Board!IdsUnique
    <2>4. apps' = (apps \ {a}) \cup {[a EXCEPT !.status = st]}
      <3>1. apps' = {IF b = a THEN [a EXCEPT !.status = st] ELSE b : b \in apps}
        BY <2>2, <2>3 DEF UpdateApplicationStatus
      <3> QED
        BY <3>1
    <2>5. Board!Decide(a, st)
      BY <2>4 DEF UpdateApplicationStatus, Board!Decide
    <2> QED
      BY <2>5 DEF Board!BoardNext
  <1>2. CASE ~ \E a \in apps : a.id = handler[h].id
    <2>1. apps' = apps
      BY <1>2 DEF UpdateApplicationStatus
    <2> QED
      BY <2>1 DEF UpdateApplicationStatus, tables
  <1> QED
    BY <1>1, <1>2

\* An INSERT is the board's Apply or Save.
LEMMA InsertRefines ==
    ASSUME Tables, NEW w \in Workers, InsertBy(w)
    PROVE  [Board!BoardNext]_tables
  <1> DEFINE t == worker[w].task
             p == payload[t]
  <1>1. /\ t \in Tasks /\ p \in Payload /\ Board!JobExists(p.job) /\ jobs' = jobs
        /\ NewApplication(t).id \in AppIds
        /\ \A a \in apps : a.id # NewApplication(t).id
    BY InsertedRow, NewRows
  <1>2. PICK s \in Seekers, j \in Jobs : s = p.seeker /\ j = p.job
    BY <1>1 DEF Payload
  <1>3. CASE p.kind = "apply" /\ saved' = saved /\ apps' = apps \cup {NewApplication(t)}
    <2>1. PICK i \in AppIds : i = NewApplication(t).id
      BY <1>1
    <2>2. NewApplication(t) = [id |-> i, job |-> j, seeker |-> s, status |-> "submitted"]
      BY <1>2, <2>1 DEF NewApplication
    <2>3. OnePerJob => ~Board!HasApplied(s, j)
      BY <1>2, <1>3 DEF Tables, NoneYet, At, InsertBy
    <2>4. Board!Apply(s, j)
      BY <1>1, <1>2, <1>3, <2>1, <2>2, <2>3 DEF Board!Apply
    <2> QED
      BY <2>4 DEF Board!BoardNext
  <1>4. CASE p.kind = "save" /\ apps' = apps /\ saved' = saved \cup {<<p.seeker, p.job>>}
    BY <1>1, <1>2, <1>4 DEF Board!Save, Board!BoardNext
  <1> QED
    BY <1>3, <1>4, NewRows

\* The statements of the workers and of the requests, interleaved in any way
\* and with any fault, change the tables only as the board allows; with one
\* worker and a database that answers, that board promises one application
\* per seeker and job.
THEOREM SeekerTasksImplementsBoard == Spec => ImplementsBoard
  <1>1. Init => Board!BoardInit
    BY DEF Init
  <1>2. Tables /\ [Next]_vars => [Board!BoardNext]_tables
    <2> SUFFICES ASSUME Tables, [Next]_vars PROVE [Board!BoardNext]_tables
      OBVIOUS
    <2>1. ASSUME NEW j \in Jobs, CreateJob(j) \/ DeactivateJob(j)
          PROVE  [Board!BoardNext]_tables
      BY <2>1 DEF CreateJob, DeactivateJob, Board!BoardNext, Board!Post, Board!Close
    <2>2. ASSUME NEW s \in Seekers, NEW j \in Jobs, UnsaveJob(s, j)
          PROVE  [Board!BoardNext]_tables
      BY <2>2 DEF UnsaveJob, Board!BoardNext, Board!Unsave
    <2> QED
      BY <2>1, <2>2, TableSteps, InsertRefines, DeleteRefines, WithdrawRefines, DecideRefines
      DEF QuietTables, tables
  <1>3. Board!boardVars = tables
    BY DEF tables, Board!boardVars
  <1> QED
    BY <1>1, <1>2, <1>3, TablesInvariant, PTL
    DEF Spec, ImplementsBoard, Board!BoardSpec, Board!boardVars, tables
=============================================================================
