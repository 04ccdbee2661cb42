----------------------- MODULE ServerLifecycle_proofs -----------------------
(***************************************************************************)
(* What holds of the server process however many requests, slots and tasks *)
(* there are, whatever it finds when it starts and whenever it is stopped. *)
(*                                                                         *)
(* The argument follows main: what is open, who may run and who may still  *)
(* be in progress is a matter of which step main is at, because the        *)
(* deferred calls run in the reverse order of the start.                   *)
(***************************************************************************)
EXTENDS ServerLifecycle, TLAPS

\* The steps of main at which slots may run tasks.
WorkerSteps == {"newInspector", "notify", "serve", "drain", "stopWorker", "awaitWorker"}

\* The steps of main beside which ListenAndServe runs.
ListenSteps == {"notify", "serve"} \cup StopSteps

\* srv.Shutdown is over.
DrainedSteps == {"stopWorker", "awaitWorker", "closeClient", "closePool", "awaitPool"}

\* The process has ended exactly when main is gone.
EndInv == main = "gone" <=> exit # "no"

\* What main has opened and not closed yet.
OpenInv ==
    /\ main \notin {"load", "open", "newClient", "gone"} => env.redis
    /\ main \notin {"load", "open", "awaitPool", "gone"} => pool = "open"
    /\ main \notin {"load", "open", "newClient", "closePool", "awaitPool", "gone"}
          => client = "open"

SlotInv == \A s \in Slots : slot[s].pc = "run" => main \in WorkerSteps

\* An active task is run by a slot, or the process has died under it.
TaskInv ==
    \A t \in Tasks : task[t] = "active" =>
        \/ exit = "no" /\ \E s \in Slots : slot[s].pc = "run" /\ slot[s].task = t
        \/ exit = "error" /\ ~env.port
        \/ exit = "killed"

ListenInv == listener \in {"binding", "open"} => main \in ListenSteps

RequestInv ==
    \A r \in Requests :
        /\ req[r] \in InProgress =>
              /\ main \in ListenSteps
              /\ listener \in {"open", "closed"}
              /\ main \in DrainedSteps => expired
        /\ req[r] = "closed" => expired
        /\ req[r] = "cutOff" => \/ exit = "killed"
                                \/ exit = "ok" /\ expired

Inv ==
    /\ TypeOK
    /\ EndInv
    /\ OpenInv
    /\ SlotInv
    /\ TaskInv
    /\ ListenInv
    /\ RequestInv

-----------------------------------------------------------------------------
LEMMA InitInv == Init => Inv
<1> SUFFICES ASSUME Init PROVE Inv
  OBVIOUS
<1>1. TypeOK
  BY DEF Init, TypeOK, Off, StartSteps
<1>2. EndInv /\ OpenInv /\ SlotInv /\ ListenInv /\ RequestInv
  BY DEF Init, EndInv, OpenInv, SlotInv, ListenInv, RequestInv, Off, InProgress
<1>3. TaskInv
  BY DEF Init, TaskInv
<1> QED BY <1>1, <1>2, <1>3 DEF Inv

-----------------------------------------------------------------------------
(* The end of the process.                                                 *)

\* What End has to be told to keep the invariant.
LEMMA EndKeeps ==
    ASSUME Inv, NEW how \in {"ok", "error", "killed"}, End(how),
           how = "killed" \/ (\A t \in Tasks : task[t] # "active")
              \/ (how = "error" /\ ~env.port),
           \A r \in Requests : req[r] \in InProgress \cup {"cutOff"} =>
              how = "killed" \/ (how = "ok" /\ expired)
    PROVE  Inv'
<1>1. TypeOK'
  <2>1. main' = "gone" /\ listener' = "closed" /\ pool' = "closed" /\ client' = "closed"
        /\ conns' = {} /\ signal' = FALSE /\ exit' = how
    BY DEF End
  <2>2. slot' \in [Slots -> Busy \cup {Idle, Off}]
    BY DEF End
  <2>3. req' \in [Requests -> {"unsent"} \cup InProgress \cup Answers]
    BY DEF End, Inv, TypeOK, Answers, InProgress
  <2>4. env' = env /\ expired' = expired /\ task' = task
    BY DEF End
  <2> QED BY <2>1, <2>2, <2>3, <2>4 DEF Inv, TypeOK
<1>2. (EndInv /\ OpenInv /\ ListenInv)'
  BY DEF End, EndInv, OpenInv, ListenInv
<1>3. SlotInv'
  BY DEF End, SlotInv, Off
<1>4. TaskInv'
  BY DEF End, TaskInv
<1>5. RequestInv'
  <2> SUFFICES ASSUME NEW r \in Requests
               PROVE  /\ req'[r] \notin InProgress
                      /\ req'[r] = "closed" => expired'
                      /\ req'[r] = "cutOff" => \/ exit' = "killed"
                                               \/ exit' = "ok" /\ expired'
    BY DEF RequestInv
  <2>1. req'[r] = IF req[r] \in InProgress THEN "cutOff" ELSE req[r]
    BY DEF End
  <2>2. exit' = how /\ expired' = expired
    BY DEF End
  <2> QED BY <2>1, <2>2 DEF Inv, RequestInv, InProgress
<1> QED BY <1>1, <1>2, <1>3, <1>4, <1>5 DEF Inv

\* Before the worker starts nothing is active, and before ListenAndServe
\* nothing is in progress.
LEMMA EarlyEndKeeps ==
    ASSUME Inv, main \in {"load", "open", "newClient", "newWorker"}, End("error")
    PROVE  Inv'
<1>1. exit = "no"
  BY DEF Inv, EndInv
<1>2. \A t \in Tasks : task[t] # "active"
  BY <1>1 DEF Inv, TaskInv, SlotInv, WorkerSteps
<1>3. \A r \in Requests : req[r] \notin InProgress \cup {"cutOff"}
  BY <1>1 DEF Inv, RequestInv, ListenSteps, StopSteps
<1> QED BY <1>2, <1>3, EndKeeps

-----------------------------------------------------------------------------
(* Start-up.                                                               *)

\* A step of main that starts something keeps the rest of the invariant.
LEMMA GoOn ==
    ASSUME Inv, NEW to \in StartSteps \cup {"serve"}, Goto(to), main \in StartSteps,
           pool' \in {"none", "open", "closed"}, client' \in {"none", "open", "closed"},
           OpenInv',
           \/ to \in WorkerSteps
           \/ main \notin WorkerSteps,
           \/ to \in ListenSteps
           \/ main \notin ListenSteps,
           UNCHANGED <<signal, expired, conns, req, task>>,
           UNCHANGED slot
    PROVE  Inv'
<1>1. TypeOK'
  BY DEF Inv, TypeOK, Goto
<1>2. exit = "no" /\ exit' = "no" /\ main' = to /\ listener' = listener /\ env' = env
  BY DEF Goto, Inv, EndInv, StartSteps
<1>3. EndInv'
  BY <1>2 DEF EndInv, StartSteps
<1>4. SlotInv' /\ TaskInv'
  BY <1>2 DEF Inv, SlotInv, TaskInv
<1>5. ListenInv' /\ RequestInv'
  BY <1>2 DEF Inv, ListenInv, RequestInv, ListenSteps, DrainedSteps, StartSteps, StopSteps
<1> QED BY <1>1, <1>3, <1>4, <1>5 DEF Inv

LEMMA StartKeeps == ASSUME Inv, StartStep PROVE Inv'
<1> USE DEF StartSteps, WorkerSteps, ListenSteps, StopSteps
<1>1. CASE Load
  <2>1. CASE Goto("open") /\ UNCHANGED <<signal, expired, held, work>>
    BY <1>1, <2>1, GoOn DEF Load, Goto, held, work, Inv, TypeOK, OpenInv
  <2>2. CASE End("error")
    BY <1>1, <2>2, EarlyEndKeeps DEF Load
  <2> QED BY <1>1, <2>1, <2>2 DEF Load
<1>2. CASE OpenPool
  <2>1. CASE /\ pool' = "open"
             /\ Goto("newClient")
             /\ UNCHANGED <<signal, expired, client, conns, work>>
    BY <1>2, <2>1, GoOn DEF OpenPool, Goto, work, Inv, TypeOK, OpenInv
  <2>2. CASE End("error")
    BY <1>2, <2>2, EarlyEndKeeps DEF OpenPool
  <2> QED BY <1>2, <2>1, <2>2 DEF OpenPool
<1>3. CASE NewClient
  <2>1. CASE /\ env.redis
             /\ client' = "open"
             /\ Goto("newWorker")
             /\ UNCHANGED <<signal, expired, pool, conns, work>>
    BY <1>3, <2>1, GoOn DEF NewClient, Goto, work, Inv, TypeOK, OpenInv
  <2>2. CASE End("error")
    BY <1>3, <2>2, EarlyEndKeeps DEF NewClient
  <2> QED BY <1>3, <2>1, <2>2 DEF NewClient
<1>4. CASE NewWorkerServer
  <2>1. env.redis
    BY <1>4 DEF NewWorkerServer, Reparse, Inv, OpenInv
  <2> QED BY <1>4, <2>1, GoOn
          DEF NewWorkerServer, Reparse, Goto, held, work, Inv, TypeOK, OpenInv
<1>5. CASE StartWorker
  <2>1. exit = "no" /\ exit' = "no" /\ env' = env /\ listener' = listener
        /\ main = "startWorker" /\ main' = "newInspector"
    BY <1>5 DEF StartWorker, Goto, Inv, EndInv
  <2>2. TypeOK'
    BY <1>5, <2>1 DEF StartWorker, held, Inv, TypeOK
  <2>3. (EndInv /\ OpenInv)'
    BY <1>5, <2>1 DEF StartWorker, held, Inv, EndInv, OpenInv
  <2>4. SlotInv' /\ ListenInv' /\ RequestInv'
    BY <1>5, <2>1 DEF StartWorker, held, Inv, SlotInv, ListenInv, RequestInv, Idle
  <2>5. TaskInv'
    BY <1>5, <2>1 DEF StartWorker, Inv, SlotInv, TaskInv
  <2> QED BY <2>2, <2>3, <2>4, <2>5 DEF Inv
<1>6. CASE NewQueueHandler
  <2>1. env.redis
    BY <1>6 DEF NewQueueHandler, Reparse, Inv, OpenInv
  <2> QED BY <1>6, <2>1, GoOn
          DEF NewQueueHandler, Reparse, Goto, held, work, Inv, TypeOK, OpenInv
<1>7. CASE Listen
  <2>1. listener = "none" /\ listener' = "binding" /\ main = "notify"
        /\ UNCHANGED <<env, main, signal, expired, exit, held, work>>
    BY <1>7 DEF Listen
  <2>2. TypeOK'
    BY <2>1 DEF Inv, TypeOK, held, work
  <2>3. (EndInv /\ OpenInv /\ SlotInv /\ TaskInv /\ ListenInv)'
    BY <2>1 DEF Inv, EndInv, OpenInv, SlotInv, TaskInv, ListenInv, held, work
  <2>4. RequestInv'
    BY <2>1 DEF Inv, RequestInv, held, work
  <2> QED BY <2>2, <2>3, <2>4 DEF Inv
<1>8. CASE Notify
  BY <1>8, GoOn DEF Notify, Goto, held, work, Inv, TypeOK, OpenInv
<1> QED BY <1>1, <1>2, <1>3, <1>4, <1>5, <1>6, <1>7, <1>8 DEF StartStep

-----------------------------------------------------------------------------
(* ListenAndServe, signals, the end of the process from outside.           *)

LEMMA ListenerKeeps == ASSUME Inv, Bind \/ ServeReturns PROVE Inv'
<1>1. CASE /\ listener \in {"binding", "open"}
           /\ listener' \in {"open", "closed"}
           /\ listener' = "open" => main \notin StopSteps
           /\ UNCHANGED <<env, main, signal, expired, exit, held, work>>
  <2>1. TypeOK'
    BY <1>1 DEF Inv, TypeOK, held, work
  <2>2. (EndInv /\ OpenInv /\ SlotInv /\ TaskInv)'
    BY <1>1 DEF Inv, EndInv, OpenInv, SlotInv, TaskInv, held, work
  <2>3. ListenInv' /\ RequestInv'
    BY <1>1 DEF Inv, ListenInv, RequestInv, held, work
  <2> QED BY <2>1, <2>2, <2>3 DEF Inv
<1>2. CASE listener = "binding" /\ ~env.port /\ End("error")
  <2>1. exit = "no"
    BY <1>2 DEF Inv, EndInv, ListenInv, ListenSteps, StopSteps
  <2>2. \A r \in Requests : req[r] \notin InProgress \cup {"cutOff"}
    BY <1>2, <2>1 DEF Inv, RequestInv
  <2> QED BY <1>2, <2>2, EndKeeps
<1> QED BY <1>1, <1>2 DEF Bind, ServeReturns

LEMMA KilledKeeps == ASSUME Inv, main # "gone", End("killed") PROVE Inv'
  BY EndKeeps

LEMMA SignalKeeps == ASSUME Inv, Signal PROVE Inv'
<1>1. CASE main \in StartSteps /\ End("killed")
  BY <1>1, KilledKeeps DEF StartSteps
<1>2. CASE /\ signal' = TRUE
           /\ UNCHANGED <<env, main, listener, expired, exit, held, work>>
  <2>1. TypeOK'
    BY <1>2 DEF Inv, TypeOK, held, work
  <2>2. (EndInv /\ OpenInv /\ SlotInv /\ TaskInv /\ ListenInv)'
    BY <1>2 DEF Inv, EndInv, OpenInv, SlotInv, TaskInv, ListenInv, held, work
  <2>3. RequestInv'
    BY <1>2 DEF Inv, RequestInv, held, work
  <2> QED BY <2>1, <2>2, <2>3 DEF Inv
<1> QED BY <1>1, <1>2 DEF Signal

-----------------------------------------------------------------------------
(* The stop.                                                               *)

\* A step of the stop that leaves requests, slots and tasks alone.
LEMMA StopOn ==
    ASSUME Inv, NEW to \in StopSteps, Goto(to), main \in {"serve"} \cup StopSteps,
           signal' \in BOOLEAN,
           pool' \in {"none", "open", "closed"}, client' \in {"none", "open", "closed"},
           OpenInv', expired' \in BOOLEAN, expired => expired',
           \/ to \in {"drain"} /\ main = "serve"
           \/ expired'
           \/ main \in DrainedSteps
           \/ \A r \in Requests : req[r] \notin InProgress,
           \/ to \in WorkerSteps
           \/ \A s \in Slots : slot[s].pc # "run",
           UNCHANGED <<conns, work>>
    PROVE  Inv'
<1>1. exit = "no" /\ exit' = "no" /\ main' = to /\ listener' = listener /\ env' = env
  BY DEF Goto, Inv, EndInv, StopSteps
<1>2. req' = req /\ slot' = slot /\ task' = task
  BY DEF work
<1>3. TypeOK'
  BY <1>1, <1>2 DEF Inv, TypeOK
<1>4. EndInv'
  BY <1>1 DEF EndInv, StopSteps
<1>5. SlotInv' /\ TaskInv' /\ ListenInv'
  BY <1>1, <1>2 DEF Inv, SlotInv, TaskInv, ListenInv, ListenSteps
<1>6. RequestInv'
  BY <1>1, <1>2 DEF Inv, RequestInv, ListenSteps, DrainedSteps, StopSteps
<1> QED BY <1>3, <1>4, <1>5, <1>6 DEF Inv

LEMMA StopKeeps == ASSUME Inv, StopStep PROVE Inv'
<1> USE DEF StopSteps, WorkerSteps, DrainedSteps
<1>1. CASE BeginShutdown
  BY <1>1, StopOn DEF BeginShutdown, Goto, held, Inv, TypeOK, OpenInv
<1>2. CASE Drain
  <2>1. expired' \in BOOLEAN /\ (expired => expired')
        /\ (expired' \/ \A r \in Requests : req[r] \notin InProgress)
    <3>1. CASE (\A r \in Requests : req[r] \notin InProgress) /\ expired' = expired
      BY <3>1 DEF Inv, TypeOK
    <3>2. CASE expired' = TRUE
      BY <3>2
    <3> QED BY <1>2, <3>1, <3>2 DEF Drain
  <2> QED BY <1>2, <2>1, StopOn DEF Drain, Goto, held, Inv, TypeOK, OpenInv
<1>3. CASE StopWorker
  BY <1>3, StopOn DEF StopWorker, Goto, held, Inv, TypeOK, OpenInv
<1>4. CASE AwaitWorker
  BY <1>4, StopOn DEF AwaitWorker, Goto, held, Inv, TypeOK, OpenInv
<1>5. CASE AbortTasks
  <2>1. UNCHANGED <<proc, held, req>>
    BY <1>5 DEF AbortTasks
  <2>2. slot' = [s \in Slots |->
                   IF slot[s].pc = "run" THEN [slot[s] EXCEPT !.pc = "aborted"] ELSE slot[s]]
    BY <1>5 DEF AbortTasks
  <2>3. task' = [t \in Tasks |->
                   IF \E s \in Slots : slot[s].pc = "run" /\ slot[s].task = t
                   THEN "pending" ELSE task[t]]
    BY <1>5 DEF AbortTasks
  <2>4. slot' \in [Slots -> Busy \cup {Idle, Off}]
    BY <2>2 DEF Inv, TypeOK, Busy, Idle, Off
  <2>5. task' \in [Tasks -> {"none", "pending", "active", "done"}]
    BY <2>3 DEF Inv, TypeOK
  <2>6. TypeOK'
    BY <2>1, <2>4, <2>5 DEF Inv, TypeOK, proc, held
  <2>7. (EndInv /\ OpenInv /\ ListenInv /\ RequestInv)'
    BY <2>1 DEF Inv, EndInv, OpenInv, ListenInv, RequestInv, proc, held
  <2>8. SlotInv'
    BY <2>1, <2>2 DEF Inv, TypeOK, SlotInv, proc, Busy, Idle, Off
  <2>9. TaskInv'
    BY <2>1, <2>3 DEF Inv, TaskInv, proc
  <2> QED BY <2>6, <2>7, <2>8, <2>9 DEF Inv
<1>6. CASE CloseClient
  <2>1. \A s \in Slots : slot[s].pc # "run"
    BY <1>6 DEF CloseClient, Inv, SlotInv
  <2> QED BY <1>6, <2>1, StopOn DEF CloseClient, Goto, Inv, TypeOK, OpenInv
<1>7. CASE ClosePool
  <2>1. \A s \in Slots : slot[s].pc # "run"
    BY <1>7 DEF ClosePool, Inv, SlotInv
  <2> QED BY <1>7, <2>1, StopOn DEF ClosePool, Goto, Inv, TypeOK, OpenInv
<1>8. CASE AwaitPool
  <2>1. exit = "no"
    BY <1>8 DEF AwaitPool, Inv, EndInv
  <2>2. \A t \in Tasks : task[t] # "active"
    BY <1>8, <2>1 DEF AwaitPool, Inv, TaskInv, SlotInv
  <2>3. \A r \in Requests : req[r] \in InProgress \cup {"cutOff"} => expired
    BY <1>8, <2>1 DEF AwaitPool, Inv, RequestInv
  <2> QED BY <1>8, <2>2, <2>3, EndKeeps DEF AwaitPool
<1> QED BY <1>1, <1>2, <1>3, <1>4, <1>5, <1>6, <1>7, <1>8 DEF StopStep

-----------------------------------------------------------------------------
(* Requests.                                                               *)

LEMMA RequestKeeps == ASSUME Inv, NEW r \in Requests, RequestStep(r) PROVE Inv'
<1> USE DEF InProgress, Answers
<1>1. \/ Arrive(r)
      \/ Enqueue(r)
      \/ Acquire(r) \/ Answer(r) \/ TimeOut(r)
  BY DEF RequestStep
<1>2. UNCHANGED proc /\ UNCHANGED <<pool, client, slot>>
  BY <1>1 DEF Arrive, Enqueue, Acquire, Answer, TimeOut, Leave, held
<1>3. (EndInv /\ OpenInv /\ SlotInv /\ ListenInv)'
  BY <1>2 DEF Inv, EndInv, OpenInv, SlotInv, ListenInv, proc
<1>4. CASE Arrive(r)
  <2>1. TypeOK'
    BY <1>2, <1>4 DEF Arrive, Inv, TypeOK, proc, held
  <2>2. TaskInv'
    BY <1>2, <1>4 DEF Arrive, Inv, TaskInv, proc
  <2>3. RequestInv'
    BY <1>2, <1>4 DEF Arrive, Inv, TypeOK, RequestInv, ListenInv, DrainedSteps, StopSteps, proc
  <2> QED BY <1>3, <2>1, <2>2, <2>3 DEF Inv
<1>5. CASE Enqueue(r)
  <2>1. TypeOK'
    BY <1>2, <1>5 DEF Enqueue, Inv, TypeOK, Tasks, proc, held
  <2>2. TaskInv'
    BY <1>2, <1>5 DEF Enqueue, Inv, TypeOK, TaskInv, proc
  <2>3. client = "open" \/ expired
    BY <1>5 DEF Enqueue, Inv, OpenInv, RequestInv, ListenSteps, DrainedSteps, StopSteps
  <2>4. RequestInv'
    BY <1>2, <1>5, <2>3 DEF Enqueue, Inv, TypeOK, RequestInv, proc
  <2> QED BY <1>3, <2>1, <2>2, <2>4 DEF Inv
<1>6. CASE Acquire(r) \/ Answer(r) \/ TimeOut(r)
  <2>1. UNCHANGED task
    BY <1>6 DEF Acquire, Answer, TimeOut, Leave
  <2>2. TypeOK'
    BY <1>2, <1>6, <2>1 DEF Acquire, Answer, TimeOut, Leave, Inv, TypeOK, proc
  <2>3. TaskInv'
    BY <1>2, <2>1 DEF Inv, TaskInv, proc
  <2>4. Acquire(r) => pool = "open" \/ expired
    BY DEF Acquire, Inv, OpenInv, RequestInv, ListenSteps, DrainedSteps, StopSteps
  <2>5. RequestInv'
    BY <1>2, <1>6, <2>4
       DEF Acquire, Answer, TimeOut, Leave, Inv, TypeOK, RequestInv, proc
  <2> QED BY <1>3, <2>2, <2>3, <2>5 DEF Inv
<1> QED BY <1>1, <1>4, <1>5, <1>6

-----------------------------------------------------------------------------
(* Worker slots.                                                           *)

LEMMA SlotKeeps == ASSUME Inv, NEW s \in Slots, SlotStep(s) PROVE Inv'
<1>1. Take(s) \/ Connect(s) \/ Disconnect(s) \/ Return(s) \/ Unwind(s)
  BY DEF SlotStep
<1>2. UNCHANGED proc /\ UNCHANGED <<pool, client, req>>
  BY <1>1 DEF Take, Connect, Disconnect, Return, Unwind, held, work
<1>3. (EndInv /\ OpenInv /\ ListenInv /\ RequestInv)'
  BY <1>2 DEF Inv, EndInv, OpenInv, ListenInv, RequestInv, proc
<1>4. TypeOK
  BY DEF Inv
<1>5. CASE Take(s)
  <2>1. PICK t \in Tasks : /\ task[t] = "pending"
                           /\ task' = [task EXCEPT ![t] = "active"]
                           /\ slot' = [slot EXCEPT ![s] = [pc |-> "run", task |-> t]]
    BY <1>5 DEF Take
  <2>2. slot[s] = Idle /\ TakesTasks /\ conns' = conns
    BY <1>5 DEF Take, held
  <2>3. TypeOK'
    BY <1>2, <1>4, <2>1, <2>2 DEF TypeOK, Busy, proc
  <2>4. SlotInv'
    BY <1>2, <1>4, <2>1, <2>2 DEF Inv, TypeOK, SlotInv, TakesTasks, WorkerSteps, proc
  <2>5. TaskInv'
    <3>1. exit = "no" /\ exit' = "no"
      BY <1>2, <2>2 DEF Inv, EndInv, TakesTasks, proc
    <3>2. slot'[s].pc = "run" /\ slot'[s].task = t
      BY <1>4, <2>1 DEF TypeOK
    <3>3. \A p \in Slots : slot[p].pc = "run" => slot'[p] = slot[p]
      BY <1>4, <2>1, <2>2 DEF TypeOK, Idle
    <3> QED BY <1>4, <2>1, <3>1, <3>2, <3>3 DEF Inv, TypeOK, TaskInv
  <2> QED BY <1>3, <2>3, <2>4, <2>5 DEF Inv
<1>6. CASE Disconnect(s) \/ (Connect(s) /\ UNCHANGED <<slot, task>>)
  <2>1. UNCHANGED <<slot, task>>
    BY <1>6 DEF Disconnect, work
  <2>2. TypeOK'
    BY <1>2, <1>4, <1>6, <2>1 DEF Disconnect, Connect, TypeOK, proc
  <2>3. (SlotInv /\ TaskInv)'
    BY <1>2, <2>1 DEF Inv, SlotInv, TaskInv, proc
  <2> QED BY <1>3, <2>2, <2>3 DEF Inv
<1>7. CASE /\ slot[s].pc = "run"
           /\ \E st \in {"done", "pending"} : task' = [task EXCEPT ![slot[s].task] = st]
           /\ slot' = [slot EXCEPT ![s] = Idle]
           /\ UNCHANGED conns
  <2>1. slot[s].task \in Tasks
    BY <1>4, <1>7 DEF TypeOK, Busy, Idle, Off
  <2>2. TypeOK'
    BY <1>2, <1>4, <1>7, <2>1 DEF TypeOK, proc
  <2>3. SlotInv'
    BY <1>2, <1>4, <1>7 DEF Inv, TypeOK, SlotInv, Idle, proc
  <2>4. TaskInv'
    BY <1>2, <1>4, <1>7, <2>1 DEF Inv, TypeOK, TaskInv, proc
  <2> QED BY <1>3, <2>2, <2>3, <2>4 DEF Inv
<1>8. CASE Unwind(s)
  <2>1. slot[s].pc = "aborted" /\ slot' = [slot EXCEPT ![s] = Off] /\ task' = task
        /\ conns' = conns \ {s}
    BY <1>8 DEF Unwind
  <2>2. TypeOK'
    BY <1>2, <1>4, <2>1 DEF TypeOK, proc
  <2>3. (SlotInv /\ TaskInv)'
    BY <1>2, <1>4, <2>1 DEF Inv, TypeOK, SlotInv, TaskInv, Off, proc
  <2> QED BY <1>3, <2>2, <2>3 DEF Inv
<1>9. Connect(s) => \/ UNCHANGED <<slot, task>>
                    \/ /\ slot[s].pc = "run"
                       /\ task' = [task EXCEPT ![slot[s].task] = "pending"]
                       /\ slot' = [slot EXCEPT ![s] = Idle]
                       /\ UNCHANGED conns
  BY DEF Connect
<1>10. Return(s) => /\ slot[s].pc = "run"
                    /\ \E st \in {"done", "pending"} : task' = [task EXCEPT ![slot[s].task] = st]
                    /\ slot' = [slot EXCEPT ![s] = Idle]
                    /\ UNCHANGED conns
  BY DEF Return, held
<1> QED BY <1>1, <1>5, <1>6, <1>7, <1>8, <1>9, <1>10

-----------------------------------------------------------------------------
LEMMA NextInv == ASSUME Inv, [Next]_vars PROVE Inv'
<1>1. CASE UNCHANGED vars
  <2>1. TypeOK'
    BY <1>1 DEF Inv, TypeOK, vars, proc, held, work
  <2>2. (EndInv /\ OpenInv /\ SlotInv /\ TaskInv /\ ListenInv /\ RequestInv)'
    BY <1>1 DEF Inv, EndInv, OpenInv, SlotInv, TaskInv, ListenInv, RequestInv,
                vars, proc, held, work
  <2> QED BY <2>1, <2>2 DEF Inv
<1>2. CASE Kill
  BY <1>2, KilledKeeps DEF Kill
<1> QED BY <1>1, <1>2, StartKeeps, StopKeeps, ListenerKeeps, RequestKeeps, SlotKeeps,
           SignalKeeps DEF Next

\* What is open, who runs and who is in progress is a matter of where main is.
THEOREM LifecycleInvariant == Spec => []Inv
  BY InitInv, NextInv, PTL DEF Spec

\* The variables keep their types.
THEOREM TypeCorrect == Spec => []TypeOK
<1>1. Inv => TypeOK
  BY DEF Inv
<1> QED BY <1>1, LifecycleInvariant, PTL

\* worker.Shutdown runs before db.Close and waits for its slots, so that no
\* task meets a closed pool.
THEOREM TasksHaveTheirPool == Spec => []PoolOutlivesTasks
<1>1. Inv => PoolOutlivesTasks
  BY DEF Inv, SlotInv, OpenInv, PoolOutlivesTasks, WorkerSteps
<1> QED BY <1>1, LifecycleInvariant, PTL

\* A stop on a signal answers whoever was in progress, unless the 10 seconds
\* of srv.Shutdown ran out.
THEOREM GracefulStop == Spec => []StopCutsOnlySlowRequests
<1>1. Inv => StopCutsOnlySlowRequests
  BY DEF Inv, RequestInv, StopCutsOnlySlowRequests
<1> QED BY <1>1, LifecycleInvariant, PTL

\* A stop on a signal puts back what it does not finish.
THEOREM NothingIsLeftActive == Spec => []CleanStopLeavesNothingActive
<1>1. Inv => CleanStopLeavesNothingActive
  BY DEF Inv, TaskInv, CleanStopLeavesNothingActive
<1> QED BY <1>1, LifecycleInvariant, PTL

\* A process that gives up by itself abandons tasks only if the port was taken,
\* and requests never.
THEOREM GivingUpIsHarmless == Spec => []OnlyAPortClashAbandons
<1>1. Inv => OnlyAPortClashAbandons
  BY DEF Inv, TaskInv, RequestInv, OnlyAPortClashAbandons
<1> QED BY <1>1, LifecycleInvariant, PTL

-----------------------------------------------------------------------------
(* The last wait of the stop.                                              *)

\* A connection is in somebody's hands.
Held(c) ==
    \/ c \in Requests /\ req[c] = "query"
    \/ c \in Slots /\ slot[c].pc \in {"run", "aborted"}

ConnInv ==
    /\ \A c \in conns : Held(c)
    /\ main = "awaitPool" => pool = "closed"
    /\ main \in StartSteps => \A s \in Slots : slot[s].pc # "aborted"

\* Steps that take no connection away from its holder.
LEMMA HoldersStay ==
    ASSUME ConnInv, conns' \subseteq conns, \A c \in conns' : Held(c) => Held(c)',
           main' = "awaitPool" => pool' = "closed",
           main' \in StartSteps => \A s \in Slots : slot'[s].pc # "aborted"
    PROVE  ConnInv'
BY DEF ConnInv

LEMMA RequestHolds ==
    ASSUME TypeOK, ConnInv, NEW r \in Requests, RequestStep(r)
    PROVE  ConnInv'
<1>1. main' = main /\ pool' = pool /\ slot' = slot
  BY DEF RequestStep, Arrive, Enqueue, Acquire, Answer, TimeOut, Leave, proc, held
<1>2. CASE Acquire(r) /\ conns' = conns \cup {r} /\ UNCHANGED req
  <2>1. Held(r)
    BY <1>2 DEF Acquire, Held
  <2> QED BY <1>1, <1>2, <2>1 DEF ConnInv, Held
<1>3. CASE UNCHANGED conns /\ r \notin conns
  <2>1. \A q \in Requests \ {r} : req'[q] = req[q]
    BY <1>3 DEF RequestStep, Arrive, Enqueue, Acquire, Answer, TimeOut, Leave, TypeOK
  <2>2. \A c \in conns' : Held(c) => Held(c)'
    BY <1>1, <1>3, <2>1 DEF Held
  <2> QED BY <1>1, <1>3, <2>2, HoldersStay DEF ConnInv
<1>4. CASE conns' = conns \ {r}
  <2>1. \A q \in Requests \ {r} : req'[q] = req[q]
    BY <1>4 DEF RequestStep, Arrive, Enqueue, Acquire, Answer, TimeOut, Leave, TypeOK
  <2>2. \A c \in conns' : Held(c) => Held(c)'
    BY <1>1, <1>4, <2>1 DEF Held
  <2> QED BY <1>1, <1>4, <2>2, HoldersStay DEF ConnInv
<1>5. CASE (Arrive(r) \/ Enqueue(r)) /\ UNCHANGED conns
  <2>1. \A q \in Requests : req[q] = "query" => req'[q] = "query"
    BY <1>5 DEF Arrive, Enqueue, TypeOK
  <2>2. \A c \in conns' : Held(c) => Held(c)'
    BY <1>1, <1>5, <2>1 DEF Held
  <2> QED BY <1>1, <1>5, <2>2, HoldersStay DEF ConnInv
<1> QED BY <1>2, <1>3, <1>4, <1>5
        DEF RequestStep, Arrive, Enqueue, Acquire, Answer, TimeOut, Leave, held

LEMMA SlotHolds ==
    ASSUME TypeOK, ConnInv, NEW s \in Slots, SlotStep(s)
    PROVE  ConnInv'
<1>1. main' = main /\ pool' = pool /\ req' = req
  BY DEF SlotStep, Take, Connect, Disconnect, Return, Unwind, proc, held, work
<1>2. \A p \in Slots \ {s} : slot'[p] = slot[p]
  BY DEF SlotStep, Take, Connect, Disconnect, Return, Unwind, TypeOK, work
<1>3. slot'[s].pc = "aborted" => slot[s].pc = "aborted"
  BY DEF SlotStep, Take, Connect, Disconnect, Return, Unwind, TypeOK, Idle, Off, work
<1>4. CASE conns' = conns \cup {s} /\ UNCHANGED slot /\ slot[s].pc = "run"
  <2>1. Held(s)
    BY <1>4 DEF Held
  <2> QED BY <1>1, <1>4, <2>1 DEF ConnInv, Held
<1>5. CASE conns' \subseteq conns /\ s \notin conns'
  <2>1. \A c \in conns' : Held(c) => Held(c)'
    BY <1>1, <1>2, <1>5 DEF Held
  <2> QED BY <1>1, <1>2, <1>3, <1>5, <2>1, HoldersStay DEF ConnInv
<1>6. CASE Take(s)
  <2>1. slot[s].pc = "idle" /\ UNCHANGED conns
    BY <1>6 DEF Take, Idle, held
  <2>2. \A c \in conns' : Held(c) => Held(c)'
    BY <1>1, <1>2, <2>1 DEF Held
  <2> QED BY <1>1, <1>2, <1>3, <2>1, <2>2, HoldersStay DEF ConnInv
<1> QED BY <1>4, <1>5, <1>6
        DEF SlotStep, Connect, Disconnect, Return, Unwind, held

LEMMA MainHolds ==
    ASSUME Inv, ConnInv, StartStep \/ StopStep \/ Bind \/ ServeReturns \/ Signal \/ Kill
    PROVE  ConnInv'
<1>1. ASSUME NEW how, End(how)
      PROVE  ConnInv'
  BY <1>1 DEF End, ConnInv, StartSteps
<1>2. CASE /\ UNCHANGED <<conns, req, slot>>
           /\ main' = "awaitPool" => pool' = "closed"
           /\ main' \in StartSteps => main \in StartSteps
  BY <1>2 DEF ConnInv, Held
<1>3. CASE StartStep
  <2>1. CASE StartWorker
    <3>1. \A s \in Slots : slot[s].pc # "run"
      BY <2>1 DEF StartWorker, Inv, SlotInv, WorkerSteps
    <3>2. main = "startWorker" /\ main' = "newInspector" /\ UNCHANGED <<conns, req>>
          /\ \A s \in Slots : slot'[s].pc = "idle"
      BY <2>1 DEF StartWorker, Goto, held, Idle
    <3>3. \A c \in conns' : Held(c) => Held(c)'
      BY <3>1, <3>2 DEF ConnInv, Held, StartSteps
    <3> QED BY <3>2, <3>3, HoldersStay
  <2> QED BY <1>1, <1>2, <1>3, <2>1
          DEF StartStep, Load, OpenPool, NewClient, NewWorkerServer, Reparse, NewQueueHandler,
              Listen, Notify, Goto, held, work, StartSteps
<1>4. CASE StopStep
  <2>1. CASE AbortTasks
    <3>1. \A s \in Slots : slot[s].pc \in {"run", "aborted"} => slot'[s].pc = "aborted"
      <4>1. slot' = [s \in Slots |->
                       IF slot[s].pc = "run" THEN [slot[s] EXCEPT !.pc = "aborted"] ELSE slot[s]]
        BY <2>1 DEF AbortTasks
      <4>2. \A s \in Slots : slot[s].pc = "run" => slot[s] \in Busy
        BY DEF Inv, TypeOK, Idle, Off
      <4> QED BY <4>1, <4>2 DEF Busy
    <3>2. UNCHANGED <<main, pool, conns, req>>
      BY <2>1 DEF AbortTasks, proc, held
    <3>3. \A c \in conns' : Held(c) => Held(c)'
      BY <3>1, <3>2 DEF Held
    <3> QED BY <2>1, <3>2, <3>3, HoldersStay DEF AbortTasks, StartSteps
  <2> QED BY <1>1, <1>2, <1>4, <2>1
          DEF StopStep, BeginShutdown, Drain, StopWorker, AwaitWorker, CloseClient, ClosePool,
              AwaitPool, Goto, held, work, StartSteps
<1>5. CASE Bind \/ ServeReturns \/ Signal \/ Kill
  BY <1>1, <1>2, <1>5 DEF Bind, ServeReturns, Signal, Kill, ConnInv, held, work
<1> QED BY <1>3, <1>4, <1>5

THEOREM ConnInvariant == Spec => [](Inv /\ ConnInv)
<1>1. Init => Inv /\ ConnInv
  BY InitInv DEF Init, ConnInv, Off
<1>2. Inv /\ ConnInv /\ [Next]_vars => Inv' /\ ConnInv'
  <2> SUFFICES ASSUME Inv, ConnInv, [Next]_vars PROVE Inv' /\ ConnInv'
    OBVIOUS
  <2>1. CASE UNCHANGED vars
    <3>1. ConnInv'
      BY <2>1 DEF vars, proc, held, work, ConnInv, Held
    <3> QED BY <3>1, NextInv
  <2> QED BY <2>1, NextInv, RequestHolds, SlotHolds, MainHolds DEF Next, Inv
<1> QED BY <1>1, <1>2, PTL DEF Spec

\* db.Close, the last thing the process does, meets only connections that are
\* about to be given back, however many there are and whatever hangs.
THEOREM ClosingThePoolEnds == Spec => LastWaitEnds
<1>1. Inv /\ ConnInv /\ (Inv /\ ConnInv)' /\ [Next]_vars =>
         [main' = "awaitPool" =>
             /\ main = "awaitPool" => conns' \subseteq conns
             /\ \A c \in conns' : Cancelled(c)']_vars
  <2> SUFFICES ASSUME Inv, ConnInv, (Inv /\ ConnInv)', Next, main' = "awaitPool"
               PROVE  /\ main = "awaitPool" => conns' \subseteq conns
                      /\ \A c \in conns' : Cancelled(c)'
    OBVIOUS
  <2>1. \A c \in conns' : Cancelled(c)'
    BY DEF Inv, SlotInv, WorkerSteps, ConnInv, Held, Cancelled
  <2>2. ASSUME main = "awaitPool"
        PROVE  conns' \subseteq conns
    <3>1. pool = "closed"
      BY <2>2 DEF ConnInv
    <3>2. ASSUME NEW r \in Requests, RequestStep(r)
          PROVE  conns' \subseteq conns
      BY <3>1, <3>2 DEF RequestStep, Arrive, Enqueue, Acquire, Answer, TimeOut, Leave, held
    <3>3. ASSUME NEW s \in Slots, SlotStep(s)
          PROVE  conns' \subseteq conns
      BY <3>1, <3>3 DEF SlotStep, Take, Connect, Disconnect, Return, Unwind, held
    <3>4. CASE StartStep \/ StopStep \/ Bind \/ ServeReturns \/ Signal \/ Kill
      BY <3>4
      DEF StartStep, Load, OpenPool, NewClient, NewWorkerServer, Reparse, NewQueueHandler,
          StartWorker, Listen, Notify, StopStep, BeginShutdown, Drain, StopWorker, AwaitWorker,
          AbortTasks, CloseClient, ClosePool, AwaitPool, Bind, ServeReturns, Signal, Kill, Goto,
          End, held
    <3> QED BY <3>2, <3>3, <3>4 DEF Next
  <2> QED BY <2>1, <2>2
<1> QED BY <1>1, ConnInvariant, PTL DEF Spec, LastWaitEnds
=============================================================================
