--------------------------- MODULE ServerLifecycle ---------------------------
(***************************************************************************)
(* The life of the server process (cmd/server/main.go): start-up step by   *)
(* step, serving, and the stop on a signal, with the deferred calls in     *)
(* their order, beside the requests and the worker slots that still use    *)
(* what is being closed.                                                   *)
(*                                                                         *)
(* Requests are of two kinds: one puts a task into the queue and one needs *)
(* a database connection.  A worker slot runs a task and needs a           *)
(* connection too.  Both may hang in a statement for as long as the        *)
(* database likes.                                                         *)
(***************************************************************************)

CONSTANTS
    Requests,   \* HTTP requests, each made once
    Slots,      \* worker slots, as many as QUEUE_CONCURRENCY
    Backlog     \* tasks that are in Redis when the process starts

VARIABLES
    env,        \* what the process finds: configuration, database, port
    main,       \* where the main goroutine is
    listener,   \* the goroutine that runs ListenAndServe
    signal,     \* is a signal waiting in the channel quit?
    expired,    \* has the shutdown context of 10 seconds run out?
    pool,       \* the database pool
    client,     \* the queue client
    conns,      \* requests and slots that hold a connection
    req,        \* req[r]: where a request is
    slot,       \* slot[s]: what a worker slot does
    task,       \* task[t]: the state of a task in Redis
    exit        \* how the process has ended

proc == <<env, main, listener, signal, expired, exit>>
held == <<pool, client, conns>>
work == <<req, slot, task>>
vars == <<proc, held, work>>

-----------------------------------------------------------------------------
Environment ==
    [config : {"complete", "missing", "invalid"},   \* the environment variables
     redis  : BOOLEAN,                              \* is REDIS_URL a URL?
     db     : BOOLEAN,                              \* does the database answer?
     port   : BOOLEAN]                              \* is PORT free?

StartSteps == {"load", "open", "newClient", "newWorker", "startWorker",
               "newInspector", "notify"}

\* srv.Shutdown, and the deferred calls: last in, first out.
StopSteps == {"drain", "stopWorker", "awaitWorker", "closeClient", "closePool",
              "awaitPool"}

\* A request enqueues at most one task, which is named after it.
Tasks == Backlog \cup Requests

InProgress == {"enqueue", "query"}

\* Answers: 202, 200, 500 because the client or the pool is closed, 500
\* because 30 seconds are over; and no answer at all.
Answers == {"accepted", "ok", "closed", "timedOut", "cutOff"}

Off == [pc |-> "off"]
Idle == [pc |-> "idle"]
Busy == [pc : {"run", "aborted"}, task : Tasks]

TypeOK ==
    /\ env \in Environment
    /\ main \in StartSteps \cup {"serve", "gone"} \cup StopSteps
    /\ listener \in {"none", "binding", "open", "closed"}
    /\ signal \in BOOLEAN
    /\ expired \in BOOLEAN
    /\ pool \in {"none", "open", "closed"}
    /\ client \in {"none", "open", "closed"}
    /\ conns \subseteq Requests \cup Slots
    /\ req \in [Requests -> {"unsent"} \cup InProgress \cup Answers]
    /\ slot \in [Slots -> Busy \cup {Idle, Off}]
    /\ task \in [Tasks -> {"none", "pending", "active", "done"}]
    /\ exit \in {"no", "ok", "error", "killed"}

Init ==
    /\ env \in Environment
    /\ main = "load"
    /\ listener = "none"
    /\ signal = FALSE
    /\ expired = FALSE
    /\ pool = "none"
    /\ client = "none"
    /\ conns = {}
    /\ req = [r \in Requests |-> "unsent"]
    /\ slot = [s \in Slots |-> Off]
    /\ task = [t \in Tasks |-> IF t \in Backlog THEN "pending" ELSE "none"]
    /\ exit = "no"

-----------------------------------------------------------------------------
(* The process ends: goroutines, connections and the port go with it,      *)
(* deferred calls do not run, and Redis keeps what it has.                 *)

End(how) ==
    /\ exit' = how
    /\ main' = "gone"
    /\ listener' = "closed"
    /\ signal' = FALSE
    /\ pool' = "closed"
    /\ client' = "closed"
    /\ conns' = {}
    /\ slot' = [s \in Slots |-> Off]
    /\ req' = [r \in Requests |-> IF req[r] \in InProgress THEN "cutOff" ELSE req[r]]
    /\ UNCHANGED <<env, expired, task>>

\* SIGKILL, or a power cut.
Kill ==
    /\ main # "gone"
    /\ End("killed")

\* SIGINT or SIGTERM.  Before signal.Notify it kills; after it, it waits in a
\* channel for one signal, which main reads once: a second one does nothing.
Signal ==
    \/ /\ main \in StartSteps
       /\ End("killed")
    \/ /\ main \in {"serve"} \cup StopSteps
       /\ ~signal
       /\ signal' = TRUE
       /\ UNCHANGED <<env, main, listener, expired, exit, held, work>>

-----------------------------------------------------------------------------
(* Start-up.                                                               *)

Goto(to) ==
    /\ main' = to
    /\ UNCHANGED <<env, listener, exit>>

\* config.Load collects what is missing or invalid, and exits.
Load ==
    /\ main = "load"
    /\ \/ /\ env.config = "complete"
          /\ Goto("open")
          /\ UNCHANGED <<signal, expired, held, work>>
       \/ env.config # "complete" /\ End("error")

\* db.Open: the pool, and a ping.
OpenPool ==
    /\ main = "open"
    /\ \/ /\ env.db
          /\ pool' = "open"
          /\ Goto("newClient")
          /\ UNCHANGED <<signal, expired, client, conns, work>>
       \/ ~env.db /\ End("error")

\* queue.NewClient parses REDIS_URL and connects to nothing yet.
NewClient ==
    /\ main = "newClient"
    /\ \/ /\ env.redis
          /\ client' = "open"
          /\ Goto("newWorker")
          /\ UNCHANGED <<signal, expired, pool, conns, work>>
       \/ ~env.redis /\ End("error")

\* queue.NewWorkerServer and handlers.NewQueueHandler parse the URL again.
Reparse(from, to) ==
    /\ main = from
    /\ IF env.redis
       THEN /\ Goto(to)
            /\ UNCHANGED <<signal, expired, held, work>>
       ELSE End("error")

NewWorkerServer == Reparse("newWorker", "startWorker")

\* worker.Start: from here on tasks are taken, whatever becomes of the rest.
StartWorker ==
    /\ main = "startWorker"
    /\ slot' = [s \in Slots |-> Idle]
    /\ Goto("newInspector")
    /\ UNCHANGED <<signal, expired, held, req, task>>

NewQueueHandler == Reparse("newInspector", "notify")

\* go srv.ListenAndServe(), then signal.Notify.
Listen ==
    /\ main = "notify"
    /\ listener = "none"
    /\ listener' = "binding"
    /\ UNCHANGED <<env, main, signal, expired, exit, held, work>>

Notify ==
    /\ main = "notify"
    /\ listener # "none"
    /\ Goto("serve")
    /\ UNCHANGED <<signal, expired, held, work>>

\* Mutant: http.ErrServerClosed is taken for an error like any other.
ServeReturnsAnError ==
    /\ listener = "open"
    /\ main \in StopSteps
    /\ End("error")

\* ListenAndServe, in its goroutine.  A port that is taken is os.Exit(1), in
\* whatever state main and the worker are by then.
Bind ==
    /\ listener = "binding"
    /\ \/ ~env.port /\ End("error")
       \/ /\ env.port \/ main \in StopSteps
          /\ listener' = IF main \in StopSteps THEN "closed" ELSE "open"
          /\ UNCHANGED <<env, main, signal, expired, exit, held, work>>

\* After srv.Shutdown has begun it returns http.ErrServerClosed, which is none.
ServeReturns ==
    /\ listener = "open"
    /\ main \in StopSteps
    /\ listener' = "closed"
    /\ UNCHANGED <<env, main, signal, expired, exit, held, work>>

-----------------------------------------------------------------------------
(* The stop.                                                               *)

\* srv.Shutdown begins: no more connections are taken.
BeginShutdown ==
    /\ main = "serve"
    /\ signal
    /\ signal' = FALSE
    /\ Goto("drain")
    /\ UNCHANGED <<expired, held, work>>

\* Mutant: srv.Close, which does not wait for requests.
DrainNothing ==
    /\ main = "drain"
    /\ Goto("stopWorker")
    /\ UNCHANGED <<signal, expired, held, work>>

\* srv.Shutdown returns when no request is in progress, or after 10 seconds.
Drain ==
    /\ main = "drain"
    /\ \/ (\A r \in Requests : req[r] \notin InProgress) /\ expired' = expired
       \/ (\E r \in Requests : req[r] \in InProgress) /\ expired' = TRUE
    /\ Goto("stopWorker")
    /\ UNCHANGED <<signal, held, work>>

\* worker.Shutdown, asynq: no more tasks are taken ...
StopWorker ==
    /\ main = "stopWorker"
    /\ Goto("awaitWorker")
    /\ UNCHANGED <<signal, expired, held, work>>

\* Mutant: worker.Shutdown tells the slots to stop and returns.
AwaitNobody ==
    /\ main = "awaitWorker"
    /\ Goto("closeClient")
    /\ UNCHANGED <<signal, expired, held, work>>

\* ... the slots finish theirs ...
AwaitWorker ==
    /\ main = "awaitWorker"
    /\ \A s \in Slots : slot[s].pc # "run"
    /\ Goto("closeClient")
    /\ UNCHANGED <<signal, expired, held, work>>

\* Mutant: the slots are given up, and their tasks with them.
AbortWithoutRequeue ==
    /\ main = "awaitWorker"
    /\ \E s \in Slots : slot[s].pc = "run"
    /\ slot' = [s \in Slots |->
                  IF slot[s].pc = "run" THEN [slot[s] EXCEPT !.pc = "aborted"] ELSE slot[s]]
    /\ UNCHANGED <<proc, held, req, task>>

\* Mutant: a task in the middle of a statement is waited for.
AbortBetweenStatements ==
    /\ main = "awaitWorker"
    /\ \E s \in Slots \ conns : slot[s].pc = "run"
    /\ slot' = [s \in Slots |->
                  IF slot[s].pc = "run" /\ s \notin conns
                  THEN [slot[s] EXCEPT !.pc = "aborted"] ELSE slot[s]]
    /\ task' = [t \in Tasks |->
                  IF \E s \in Slots \ conns : slot[s].pc = "run" /\ slot[s].task = t
                  THEN "pending" ELSE task[t]]
    /\ UNCHANGED <<proc, held, req>>

\* ... or after asynq's 8 seconds they are given up: their tasks go back to
\* the queue and the contexts of their handlers are cancelled.
AbortTasks ==
    /\ main = "awaitWorker"
    /\ \E s \in Slots : slot[s].pc = "run"
    /\ slot' = [s \in Slots |->
                  IF slot[s].pc = "run" THEN [slot[s] EXCEPT !.pc = "aborted"] ELSE slot[s]]
    /\ task' = [t \in Tasks |->
                  IF \E s \in Slots : slot[s].pc = "run" /\ slot[s].task = t
                  THEN "pending" ELSE task[t]]
    /\ UNCHANGED <<proc, held, req>>

\* qClient.Close.
CloseClient ==
    /\ main = "closeClient"
    /\ client' = "closed"
    /\ Goto("closePool")
    /\ UNCHANGED <<signal, expired, pool, conns, work>>

\* db.Close: the pool gives out no more connections ...
ClosePool ==
    /\ main = "closePool"
    /\ pool' = "closed"
    /\ Goto("awaitPool")
    /\ UNCHANGED <<signal, expired, client, conns, work>>

\* ... and waits for those that are out.  Then main returns.
AwaitPool ==
    /\ main = "awaitPool"
    /\ conns = {}
    /\ End("ok")

-----------------------------------------------------------------------------
(* Requests.                                                               *)

Arrive(r) ==
    /\ listener = "open"
    /\ main \notin StopSteps
    /\ req[r] = "unsent"
    /\ \E kind \in InProgress : req' = [req EXCEPT ![r] = kind]
    /\ UNCHANGED <<proc, held, slot, task>>

\* EnqueueApplyToJob, EnqueueSaveJob, and the answer.
Enqueue(r) ==
    /\ req[r] = "enqueue"
    /\ IF client = "open"
       THEN /\ task' = [task EXCEPT ![r] = "pending"]
            /\ req' = [req EXCEPT ![r] = "accepted"]
       ELSE /\ req' = [req EXCEPT ![r] = "closed"]
            /\ UNCHANGED task
    /\ UNCHANGED <<proc, held, slot>>

\* A request of the other services takes a connection ...
Acquire(r) ==
    /\ req[r] = "query"
    /\ r \notin conns
    /\ IF pool = "open"
       THEN conns' = conns \cup {r} /\ UNCHANGED req
       ELSE req' = [req EXCEPT ![r] = "closed"] /\ UNCHANGED conns
    /\ UNCHANGED <<proc, pool, client, slot, task>>

\* ... and gives it back when the database has answered, or when
\* chiMiddleware.Timeout cancels its context.
Leave(r, answer) ==
    /\ req[r] = "query"
    /\ r \in conns
    /\ req' = [req EXCEPT ![r] = answer]
    /\ conns' = conns \ {r}
    /\ UNCHANGED <<proc, pool, client, slot, task>>

Answer(r) == Leave(r, "ok")
TimeOut(r) == Leave(r, "timedOut")

-----------------------------------------------------------------------------
(* Worker slots.                                                           *)

TakesTasks == main \in {"newInspector", "notify", "serve", "drain", "stopWorker"}

Take(s) ==
    /\ TakesTasks
    /\ slot[s] = Idle
    /\ \E t \in Tasks :
          /\ task[t] = "pending"
          /\ task' = [task EXCEPT ![t] = "active"]
          /\ slot' = [slot EXCEPT ![s] = [pc |-> "run", task |-> t]]
    /\ UNCHANGED <<proc, held, req>>

\* A statement of the handler begins.  With a closed pool the attempt would
\* fail, and count as one.
Connect(s) ==
    /\ slot[s].pc = "run"
    /\ s \notin conns
    /\ IF pool = "open"
       THEN conns' = conns \cup {s} /\ UNCHANGED <<slot, task>>
       ELSE /\ task' = [task EXCEPT ![slot[s].task] = "pending"]
            /\ slot' = [slot EXCEPT ![s] = Idle]
            /\ UNCHANGED conns
    /\ UNCHANGED <<proc, pool, client, req>>

Disconnect(s) ==
    /\ slot[s].pc = "run"
    /\ s \in conns
    /\ conns' = conns \ {s}
    /\ UNCHANGED <<proc, pool, client, work>>

\* The handler returns, with an error or without.
Return(s) ==
    /\ slot[s].pc = "run"
    /\ s \notin conns
    /\ \E st \in {"done", "pending"} : task' = [task EXCEPT ![slot[s].task] = st]
    /\ slot' = [slot EXCEPT ![s] = Idle]
    /\ UNCHANGED <<proc, held, req>>

\* The handler of an aborted task notices that its context is cancelled.
Unwind(s) ==
    /\ slot[s].pc = "aborted"
    /\ conns' = conns \ {s}
    /\ slot' = [slot EXCEPT ![s] = Off]
    /\ UNCHANGED <<proc, pool, client, req, task>>

-----------------------------------------------------------------------------
StartStep ==
    \/ Load
    \/ OpenPool
    \/ NewClient
    \/ NewWorkerServer
    \/ StartWorker
    \/ NewQueueHandler
    \/ Listen
    \/ Notify

StopStep ==
    \/ BeginShutdown
    \/ Drain
    \/ StopWorker
    \/ AwaitWorker
    \/ AbortTasks
    \/ CloseClient
    \/ ClosePool
    \/ AwaitPool

RequestStep(r) == Arrive(r) \/ Enqueue(r) \/ Acquire(r) \/ Answer(r) \/ TimeOut(r)

SlotStep(s) == Take(s) \/ Connect(s) \/ Disconnect(s) \/ Return(s) \/ Unwind(s)

Next ==
    \/ StartStep
    \/ StopStep
    \/ Bind
    \/ ServeReturns
    \/ \E r \in Requests : RequestStep(r)
    \/ \E s \in Slots : SlotStep(s)
    \/ Signal
    \/ Kill

Spec == Init /\ [][Next]_vars

\* main goes on when it can, its timers included; a request is cut off after
\* 30 seconds; a cancelled handler returns.  Nothing is assumed of statements:
\* one may wait for a row lock for ever.
FairSpec ==
    /\ Spec
    /\ WF_vars(StartStep \/ StopStep)
    /\ \A r \in Requests : WF_vars(TimeOut(r))
    /\ \A s \in Slots : WF_vars(Unwind(s))

-----------------------------------------------------------------------------
(* Properties.                                                             *)

\* The pool is open for as long as a slot runs a task that counts: whatever
\* signals, timeouts and hanging statements do, no task loses an attempt to
\* the stop of the server, because worker.Shutdown is deferred after
\* db.Close and so runs before it, and does not return before its slots.
PoolOutlivesTasks ==
    \A s \in Slots : slot[s].pc = "run" => pool = "open"

\* srv.Shutdown shuts down gracefully: no request that the server took is
\* answered 500, or not at all, because of the stop, unless it was still
\* running when the 10 seconds were over.
StopCutsOnlySlowRequests ==
    /\ (\E r \in Requests : req[r] = "closed") => expired
    /\ exit = "ok" /\ (\E r \in Requests : req[r] = "cutOff") => expired

\* A stop on a signal leaves no task behind as "active", where it would wait
\* for its lease to expire: each is done, or back in the queue.
CleanStopLeavesNothingActive ==
    exit = "ok" => \A t \in Tasks : task[t] # "active"

\* The worker starts before anything that can still fail but the port: a
\* process that gives up by itself leaves tasks active only if the port was
\* taken, and never a request without an answer.
OnlyAPortClashAbandons ==
    exit = "error" =>
        /\ (\E t \in Tasks : task[t] = "active") => ~env.port
        /\ \A r \in Requests : req[r] # "cutOff"

\* pgxpool.Close has no time limit of its own, and waits for every connection
\* that is out.  Those it meets are of requests, which chiMiddleware.Timeout
\* cancels, and of tasks that asynq has cancelled; no task is still free to
\* hang in a statement, and nobody takes another connection meanwhile.
Cancelled(c) ==
    \/ c \in Requests /\ req[c] = "query"
    \/ c \in Slots /\ slot[c].pc = "aborted"
LastWaitEnds ==
    [][main' = "awaitPool" =>
          /\ main = "awaitPool" => conns' \subseteq conns
          /\ \A c \in conns' : Cancelled(c)']_vars

\* Whatever hangs, the server stops after a signal: the waits for requests
\* and for tasks have an end of their own, and so have the statements whose
\* connections the pool waits for.
SignalStops == signal ~> main = "gone"
=============================================================================
