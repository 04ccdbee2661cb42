--------------------------- MODULE Requests_proofs ---------------------------
(***************************************************************************)
(* What Requests guarantees for any number of users, jobs, handlers and    *)
(* failing statements: edits stay with the owner, a 200 can be relied on,  *)
(* a 404 is true, a 500 has one of five causes, and the tables change as   *)
(* Board allows.                                                           *)
(***************************************************************************)
EXTENDS Requests, TLAPS

-----------------------------------------------------------------------------
(* Types.                                                                  *)

InProgress(h) == req[h].pc \notin {"none", "answered"}

\* A request that is neither absent nor answered has all its fields.
LEMMA InProgressIsRequest ==
    ASSUME TypeOK, NEW h \in Handlers, InProgress(h)
    PROVE  req[h] \in Request
  BY DEF TypeOK, InProgress, Answer, NoRequest

\* What becomes of the errors of these requests.
LEMMA AppErrorsKeepTheirCode == \A c : classifyError(AppError(c)) = c
  BY DEF classifyError, AppError

LEMMA ValidatorSays400 == classifyError(Other("validator")) = 400
  BY DEF classifyError, Other

LEMMA OthersSay500 ==
    \A k \in {"json", "db", "data", "foreignKey", "syntax", "noRows"} :
        classifyError(Other(k)) = 500
<1> SUFFICES ASSUME NEW k \in {"json", "db", "data", "foreignKey", "syntax", "noRows"}
             PROVE  classifyError(Other(k)) = 500
  OBVIOUS
<1>1. Other(k).kind = k
  BY DEF Other
<1>2. k \notin {"app", "uniqueViolation", "jwt", "validator"}
  OBVIOUS
<1> QED BY <1>1, <1>2 DEF classifyError

LEMMA StatusIsCode ==
    /\ {200, 201, 400, 403, 404, 500} \subseteq Codes
    /\ classifyError(AppError(404)) \in Codes
    /\ classifyError(AppError(403)) \in Codes
    /\ classifyError(Other("validator")) \in Codes
    /\ \A k \in {"json", "db", "data", "foreignKey", "syntax", "noRows"} :
          classifyError(Other(k)) \in Codes
<1>1. {200, 201, 400, 403, 404, 500} \subseteq Codes
  BY DEF Codes
<1> QED BY <1>1, AppErrorsKeepTheirCode, ValidatorSays400, OthersSay500

\* The types of the tables alone.
TablesTyped ==
    /\ profiles \subseteq Users
    /\ jobs \in [Jobs -> {"unposted", "active", "deleted"}]
    /\ apps \subseteq Board!Applications
    /\ saved \subseteq Seekers \X Jobs
    /\ field \in [Jobs -> [Fields -> Handlers \cup {AsPosted}]]
    /\ sent \subseteq AppIds

LEMMA TablesStayTyped ==
    ASSUME TypeOK, UNCHANGED tables
    PROVE  TablesTyped'
  BY DEF TypeOK, TablesTyped, tables, boardTables

LEMMA RemovalTyped ==
    ASSUME TypeOK, NEW js, RemoveJobs(js), profiles' \subseteq Users, UNCHANGED <<field, sent>>
    PROVE  TablesTyped'
  BY DEF TypeOK, TablesTyped, RemoveJobs

LEMMA SeederDeletesTyped ==
    ASSUME TypeOK, SeederDeletes
    PROVE  TablesTyped'
<1>1. CASE saved' \in SUBSET saved /\ UNCHANGED <<profiles, jobs, apps>>
  BY <1>1 DEF SeederDeletes, TypeOK, TablesTyped
<1>2. CASE apps' \in SUBSET apps /\ UNCHANGED <<profiles, jobs, saved>>
  BY <1>2 DEF SeederDeletes, TypeOK, TablesTyped
<1>3. CASE \E js \in SUBSET Jobs : RemoveJobs(js) /\ UNCHANGED profiles
  BY <1>3, RemovalTyped DEF SeederDeletes, TypeOK
<1>4. ASSUME NEW us, RemoveProfiles(us) PROVE TablesTyped'
  BY <1>4 DEF SeederDeletes, RemoveProfiles, TypeOK, TablesTyped
<1> QED BY <1>1, <1>2, <1>3, <1>4 DEF SeederDeletes

\* The writes keep the tables typed.
LEMMA WritesTyped ==
    ASSUME TypeOK, NEW h \in Handlers
    PROVE  /\ \A j \in Jobs : InsertJob(h, j) => TablesTyped'
           /\ \A c \in SUBSET Fields : SetColumns(h, c) => TablesTyped'
           /\ RemoveApplication(h) => TablesTyped'
           /\ req[h] \in Request /\ SetStatus(h) => TablesTyped'
<1>1. ASSUME NEW j \in Jobs, InsertJob(h, j) PROVE TablesTyped'
  BY <1>1 DEF TypeOK, TablesTyped, InsertJob
<1>2. ASSUME NEW c \in SUBSET Fields, SetColumns(h, c) PROVE TablesTyped'
  <2>1. field' \in [Jobs -> [Fields -> Handlers \cup {AsPosted}]]
    BY <1>2 DEF TypeOK, SetColumns
  <2> QED BY <1>2, <2>1 DEF TypeOK, TablesTyped, SetColumns, boardTables
<1>3. ASSUME RemoveApplication(h) PROVE TablesTyped'
  BY <1>3 DEF TypeOK, TablesTyped, RemoveApplication
<1>4. ASSUME req[h] \in Request, SetStatus(h) PROVE TablesTyped'
  <2>1. req[h].status \in Statuses
    BY <1>4 DEF Request
  <2>2. ASSUME NEW a \in apps
        PROVE  [a EXCEPT !.status = req[h].status] \in Board!Applications
    BY <2>1 DEF TypeOK, Board!Applications
  <2>3. apps' \subseteq Board!Applications
    BY <1>4, <2>2 DEF TypeOK, SetStatus
  <2> QED BY <1>4, <2>3 DEF TypeOK, TablesTyped, SetStatus
<1> QED BY <1>1, <1>2, <1>3, <1>4

-----------------------------------------------------------------------------
(* What a step does to the tables is one of nine things.                   *)

Deletes(h) ==
    /\ At(h, "write", {"delete"})
    /\ RemoveJobs({req[h].target})
    /\ UNCHANGED <<profiles, field, sent>>

Edit(h) == At(h, "write", {"update"}) /\ SetColumns(h, req[h].sets)

Decides(h) == At(h, "write", {"status"}) /\ SetStatus(h)

Unsaves(h) ==
    /\ saved' = saved \ {<<req[h].user, req[h].target>>}
    /\ UNCHANGED <<profiles, jobs, apps, field, sent>>

TableStep ==
    \/ UNCHANGED tables
    \/ \E h \in Handlers, j \in Jobs : InsertJob(h, j)
    \/ \E h \in Handlers : Edit(h)
    \/ \E h \in Handlers : Deletes(h)
    \/ \E h \in Handlers : RemoveApplication(h)
    \/ \E h \in Handlers : Decides(h)
    \/ \E h \in Handlers : Unsaves(h)
    \/ \E s \in Seekers, j \in Jobs : WorkerInserts(s, j)
    \/ SeederDeletes

LEMMA NextIsTableStep == [Next]_vars => TableStep
<1> SUFFICES ASSUME [Next]_vars PROVE TableStep
  OBVIOUS
<1>1. CASE UNCHANGED vars
  BY <1>1 DEF vars, TableStep
<1>2. CASE \E s \in Seekers, j \in Jobs : WorkerInserts(s, j)
  BY <1>2 DEF TableStep
<1>3. CASE SeederDeletes
  BY <1>3 DEF TableStep
<1>4. ASSUME NEW h \in Handlers, Arrive(h) \/ Step(h) PROVE TableStep
  <2>1. CASE \/ Arrive(h) \/ RejectBody(h) \/ FindProfile(h) \/ CheckOwner(h)
             \/ FetchJob(h) \/ FetchApplication(h) \/ List(h) \/ GetProfile(h)
             \/ PatchProfile(h)
    BY <2>1 DEF TableStep, Arrive, RejectBody, FindProfile, CheckOwner, FetchJob,
                FetchApplication, List, GetProfile, PatchProfile, Broken
  <2>2. CASE CreateJob(h)
    BY <2>2 DEF CreateJob, DataRefused, TableStep
  <2>3. CASE UpdateJob(h)
    BY <2>3 DEF UpdateJob, DataRefused, TableStep, Edit
  <2>4. CASE DeleteJob(h)
    BY <2>4 DEF DeleteJob, TableStep, Deletes, tables, boardTables
  <2>5. CASE WithdrawApplication(h)
    BY <2>5 DEF WithdrawApplication, TableStep
  <2>6. CASE UpdateApplicationStatus(h)
    BY <2>6 DEF UpdateApplicationStatus, TableStep, Decides
  <2>7. CASE UnsaveJob(h)
    <3>1. \/ UNCHANGED tables
          \/ Unsaves(h)
      BY <2>7 DEF UnsaveJob, Unsaves, tables, boardTables
    <3> QED BY <3>1 DEF TableStep
  <2> QED BY <1>4, <2>1, <2>2, <2>3, <2>4, <2>5, <2>6, <2>7 DEF Step
<1> QED BY <1>1, <1>2, <1>3, <1>4 DEF Next

LEMMA TableStepTyped == TypeOK /\ TableStep => TablesTyped'
<1> SUFFICES ASSUME TypeOK, TableStep PROVE TablesTyped'
  OBVIOUS
<1>1. CASE UNCHANGED tables
  BY <1>1, TablesStayTyped
<1>2. CASE \E h \in Handlers, j \in Jobs : InsertJob(h, j)
  BY <1>2, WritesTyped
<1>3. ASSUME NEW h \in Handlers, Edit(h) PROVE TablesTyped'
  <2>1. req[h] \in Request
    BY <1>3, InProgressIsRequest DEF Edit, At, InProgress
  <2>2. req[h].sets \in SUBSET Fields
    BY <2>1 DEF Request
  <2> QED BY <1>3, <2>2, WritesTyped DEF Edit
<1>4. ASSUME NEW h \in Handlers, Deletes(h) PROVE TablesTyped'
  BY <1>4, RemovalTyped DEF Deletes, TypeOK
<1>5. CASE \E h \in Handlers : RemoveApplication(h)
  BY <1>5, WritesTyped
<1>6. ASSUME NEW h \in Handlers, Decides(h) PROVE TablesTyped'
  <2>1. req[h] \in Request
    BY <1>6, InProgressIsRequest DEF Decides, At, InProgress
  <2> QED BY <1>6, <2>1, WritesTyped DEF Decides
<1>7. CASE \E h \in Handlers : Unsaves(h)
  BY <1>7 DEF Unsaves, TypeOK, TablesTyped
<1>8. ASSUME NEW s \in Seekers, NEW j \in Jobs, WorkerInserts(s, j) PROVE TablesTyped'
  <2>1. ASSUME NEW i \in AppIds
        PROVE  [id |-> i, job |-> j, seeker |-> s, status |-> "submitted"]
                   \in Board!Applications
    BY RequestsAssumption DEF Board!Applications
  <2> QED BY <1>8, <2>1 DEF WorkerInserts, TypeOK, TablesTyped
<1>9. CASE SeederDeletes
  BY <1>9, SeederDeletesTyped
<1> QED BY <1>1, <1>2, <1>3, <1>4, <1>5, <1>6, <1>7, <1>8, <1>9 DEF TableStep

-----------------------------------------------------------------------------
(* The tables: ids are fresh and foreign keys hold.                        *)

TablesSound ==
    /\ \A a \in apps : a.id \in sent
    /\ Board!IdsUnique
    /\ Board!NoOrphans

\* What a request can count on while others go on.
TablesAge ==
    /\ \A j \in Jobs : jobs[j] # "unposted" => jobs'[j] # "unposted"
    /\ \A j \in Jobs : jobs[j] = "deleted" => jobs'[j] = "deleted"
    /\ sent \subseteq sent'
    /\ \A i \in sent : ~AppThere(i) => ~AppThere(i)'

LEMMA TableStepSound ==
    ASSUME TypeOK, TablesSound, TableStep
    PROVE  TablesSound' /\ TablesAge
<1> USE DEF TablesSound, TablesAge, AppThere, Board!IdsUnique, Board!NoOrphans,
            Board!JobExists
<1>1. CASE UNCHANGED tables
  BY <1>1 DEF tables, boardTables
<1>2. ASSUME NEW h \in Handlers, NEW j \in Jobs, InsertJob(h, j)
      PROVE  TablesSound' /\ TablesAge
  BY <1>2 DEF InsertJob, TypeOK, Board!Applications
<1>3. ASSUME NEW h \in Handlers, Edit(h) PROVE TablesSound' /\ TablesAge
  BY <1>3 DEF Edit, SetColumns, boardTables
<1>4. ASSUME NEW js, RemoveJobs(js), UNCHANGED sent PROVE TablesSound' /\ TablesAge
  BY <1>4 DEF RemoveJobs, TypeOK, Board!Applications
<1>5. ASSUME NEW h \in Handlers, Deletes(h) PROVE TablesSound' /\ TablesAge
  BY <1>4, <1>5 DEF Deletes
<1>6. ASSUME NEW h \in Handlers, RemoveApplication(h) PROVE TablesSound' /\ TablesAge
  BY <1>6 DEF RemoveApplication
<1>7. ASSUME NEW h \in Handlers, Decides(h) PROVE TablesSound' /\ TablesAge
  <2>1. ASSUME NEW b \in apps'
        PROVE  \E a \in apps : a.id = b.id /\ a.job = b.job
               /\ b = IF a.id = req[h].target THEN [a EXCEPT !.status = req[h].status] ELSE a
    BY <1>7 DEF Decides, SetStatus, TypeOK, Board!Applications
  <2>2. UNCHANGED <<jobs, saved, sent>>
    BY <1>7 DEF Decides, SetStatus
  <2>3. \A b \in apps' : b.id \in sent'
    BY <2>1, <2>2
  <2>4. Board!IdsUnique'
    BY <2>1
  <2>5. Board!NoOrphans'
    BY <2>1, <2>2
  <2>6. TablesAge
    BY <2>1, <2>2
  <2> QED BY <2>3, <2>4, <2>5, <2>6
<1>8. ASSUME NEW h \in Handlers, Unsaves(h) PROVE TablesSound' /\ TablesAge
  BY <1>8 DEF Unsaves
<1>9. ASSUME NEW s \in Seekers, NEW j \in Jobs, WorkerInserts(s, j)
      PROVE  TablesSound' /\ TablesAge
  <2>1. CASE UNCHANGED saved
    BY <1>9, <2>1 DEF WorkerInserts
  <2>2. CASE UNCHANGED <<apps, sent>>
    BY <1>9, <2>2 DEF WorkerInserts, TypeOK
  <2> QED BY <1>9, <2>1, <2>2 DEF WorkerInserts
<1>10. ASSUME SeederDeletes PROVE TablesSound' /\ TablesAge
  <2>0. UNCHANGED sent
    BY <1>10 DEF SeederDeletes
  <2>1. CASE saved' \in SUBSET saved /\ UNCHANGED <<profiles, jobs, apps>>
    BY <2>0, <2>1
  <2>2. CASE apps' \in SUBSET apps /\ UNCHANGED <<profiles, jobs, saved>>
    BY <2>0, <2>2
  <2>3. CASE \E js \in SUBSET Jobs : RemoveJobs(js) /\ UNCHANGED profiles
    BY <1>4, <2>0, <2>3
  <2>4. ASSUME NEW us, RemoveProfiles(us) PROVE TablesSound' /\ TablesAge
    BY <2>0, <2>4 DEF RemoveProfiles, TypeOK, Board!Applications
  <2> QED BY <1>10, <2>1, <2>2, <2>3, <2>4 DEF SeederDeletes
<1> QED BY <1>1, <1>2, <1>3, <1>5, <1>6, <1>7, <1>8, <1>9, <1>10 DEF TableStep

-----------------------------------------------------------------------------
(* The requests: what one knows after its checks and its write, whatever   *)
(* has happened since.                                                     *)

Sound(h) ==
    LET r == req[h] IN
    /\ r.op \in JobRoutes /\ r.pc \in {"write", "read"} =>
          r.target \in Jobs /\ JobOwner[r.target] = r.user /\ jobs[r.target] # "unposted"
    /\ r.op = "create" /\ r.pc = "read" => r.wrote
    /\ r.op = "update" /\ r.pc = "read" =>
          r.wrote \/ r.sets = {} \/ jobs[r.target] = "deleted"
    /\ r.op = "status" /\ r.pc \in {"write", "read"} => r.target \in sent
    /\ r.op = "status" /\ r.pc = "read" => r.wrote \/ ~AppThere(r.target)

RequestsSound == \A h \in Handlers : InProgress(h) => Sound(h)

Inv == TypeOK /\ TablesSound /\ RequestsSound

LEMMA InitInv == Init => Inv
<1> SUFFICES ASSUME Init PROVE Inv
  OBVIOUS
<1>1. TypeOK
  BY RequestsAssumption DEF Init, TypeOK, Board!BoardInit, NoRequest
<1>2. TablesSound
  BY DEF Init, TablesSound, Board!BoardInit, Board!IdsUnique, Board!NoOrphans
<1>3. RequestsSound
  BY DEF Init, RequestsSound, InProgress, NoRequest
<1> QED BY <1>1, <1>2, <1>3 DEF Inv

\* A request that does not step stays sound.
LEMMA BystanderSound ==
    ASSUME Inv, TablesAge, NEW h \in Handlers, req'[h] = req[h]
    PROVE  InProgress(h)' => Sound(h)'
<1> SUFFICES ASSUME InProgress(h)' PROVE Sound(h)'
  OBVIOUS
<1>1. Sound(h)
  BY DEF Inv, RequestsSound, InProgress
<1>2. CASE req[h].op \in JobRoutes
  BY <1>1, <1>2 DEF Sound, TablesAge, JobRoutes
<1>3. CASE req[h].op = "status"
  BY <1>1, <1>3 DEF Sound, TablesAge, JobRoutes
<1>4. CASE req[h].op \notin JobRoutes \cup {"status"}
  BY <1>1, <1>4 DEF Sound, JobRoutes
<1> QED BY <1>2, <1>3, <1>4

\* What a step does to the request that takes it.
Typed(h) == req'[h] \in Request \cup Answer \cup {NoRequest}
Kept(h) == Typed(h) /\ (InProgress(h)' => Sound(h)')

LEMMA AnsweredKept ==
    ASSUME TypeOK, NEW h \in Handlers, NEW code \in Codes, Says(h, code)
    PROVE  Kept(h)
  BY DEF TypeOK, Says, Kept, Typed, InProgress, Answer

LEMMA FailedKept ==
    ASSUME TypeOK, NEW h \in Handlers, NEW err, classifyError(err) \in Codes, Fails(h, err)
    PROVE  Kept(h)
  BY AnsweredKept DEF Fails

LEMMA StepKept ==
    ASSUME Inv, TablesAge, NEW h \in Handlers, Step(h)
    PROVE  Kept(h)
<1> USE DEF Inv
<1>0. ASSUME InProgress(h) PROVE req[h] \in Request /\ Sound(h)
  BY <1>0, InProgressIsRequest DEF RequestsSound
<1>1. CASE RejectBody(h)
  BY <1>1, FailedKept, StatusIsCode DEF RejectBody
<1>2. CASE FindProfile(h)
  <2>0. InProgress(h) /\ req[h].pc = "start"
    BY <1>2 DEF FindProfile, At, InProgress
  <2>1. CASE Fails(h, AppError(404))
    BY <2>1, FailedKept, StatusIsCode
  <2>2. CASE Goto(h, CASE req[h].op \in JobRoutes \cup AppRoutes -> "owner"
                       [] req[h].op \in {"create", "unsave"}      -> "write"
                       [] req[h].op = "listOwn"                   -> "read")
    <3>1. req[h].op \in (JobRoutes \cup AppRoutes) \cup {"create", "unsave", "listOwn"}
      BY <1>2, <2>0, <1>0 DEF FindProfile, At, Routes, Request, JobRoutes, AppRoutes, ProfileRoutes,
                  RecruiterRoutes, SeekerRoutes
    <3>2. PICK pc \in {"owner", "write", "read"} :
             /\ req' = [req EXCEPT ![h].pc = pc]
             /\ pc # "owner" => req[h].op \in {"create", "unsave", "listOwn"}
             /\ pc = "read" => req[h].op = "listOwn"
      <4>1. CASE req[h].op \in JobRoutes \cup AppRoutes
        <5>1. req' = [req EXCEPT ![h].pc = "owner"]
          BY <2>2, <4>1 DEF Goto, JobRoutes, AppRoutes
        <5> QED BY <4>1, <5>1
      <4>2. CASE req[h].op \in {"create", "unsave"}
        <5>1. req' = [req EXCEPT ![h].pc = "write"]
          BY <2>2, <4>2 DEF Goto, JobRoutes, AppRoutes
        <5> QED BY <4>2, <5>1
      <4>3. CASE req[h].op = "listOwn"
        BY <2>2, <4>3 DEF Goto, JobRoutes, AppRoutes
      <4> QED BY <3>1, <4>1, <4>2, <4>3
    <3>3. req'[h] = [req[h] EXCEPT !.pc = pc]
      BY <3>2 DEF TypeOK
    <3>4. req'[h] \in Request
      <4>1. req[h] \in Request
        BY <1>0, <2>0
      <4> QED BY <3>3, <4>1 DEF Request
    <3>5. Sound(h)'
      BY <1>0, <2>0, <3>2, <3>3 DEF Sound, Request, JobRoutes
    <3> QED BY <3>4, <3>5 DEF Kept, Typed
  <2> QED BY <1>2, <2>1, <2>2 DEF FindProfile, Broken
<1>3. CASE CheckOwner(h)
  <2>0. InProgress(h) /\ req[h].pc = "owner"
    BY <1>3 DEF CheckOwner, At, InProgress
  <2>1. CASE Fails(h, AppError(404)) \/ Fails(h, AppError(403))
    BY <2>1, FailedKept, StatusIsCode
  <2>2. ASSUME There(req[h].op, req[h].target), Owns(req[h].user, req[h].op, req[h].target),
               NEW pc \in {"write", "read"}, Goto(h, pc), UNCHANGED tables,
               pc = "read" => \/ req[h].op = "applicants"
                              \/ req[h].op = "update" /\ req[h].sets = {}
        PROVE  Kept(h)
    <3>1. req'[h] = [req[h] EXCEPT !.pc = pc]
      BY <2>2 DEF Goto, TypeOK
    <3>2. req'[h] \in Request
      <4>1. req[h] \in Request
        BY <1>0, <2>0
      <4> QED BY <3>1, <4>1 DEF Request
    <3>3. req[h].op \in JobRoutes \cup AppRoutes
      BY <1>3 DEF CheckOwner, At
    <3>4. /\ req'[h].op = req[h].op /\ req'[h].target = req[h].target
          /\ req'[h].user = req[h].user /\ req'[h].sets = req[h].sets /\ req'[h].pc = pc
      BY <1>0, <2>0, <3>1 DEF Request
    <3>5. UNCHANGED <<jobs, apps, sent>>
      BY <2>2 DEF tables, boardTables
    <3>6. CASE req[h].op \in JobRoutes
      <4>1. /\ req[h].target \in Jobs /\ JobOwner[req[h].target] = req[h].user
            /\ jobs[req[h].target] # "unposted"
        BY <2>2, <3>6 DEF There, JobThere, Owns, Board!JobExists, JobRoutes, AppRoutes
      <4> QED BY <2>2, <3>2, <3>4, <3>5, <3>6, <4>1 DEF Kept, Typed, Sound, JobRoutes
    <3>7. CASE req[h].op \in AppRoutes
      <4>1. req[h].target \in sent
        BY <2>2, <3>7 DEF There, AppThere, TablesSound
      <4> QED BY <2>2, <3>2, <3>4, <3>5, <3>7, <4>1 DEF Kept, Typed, Sound, JobRoutes, AppRoutes
    <3> QED BY <3>3, <3>6, <3>7
  <2> QED BY <1>3, <2>1, <2>2 DEF CheckOwner, Broken
<1>4. CASE CreateJob(h)
  <2>0. InProgress(h) /\ req[h].op = "create"
    BY <1>4 DEF CreateJob, At, InProgress
  <2>1. CASE \/ Fails(h, Other("foreignKey"))
             \/ Fails(h, Other("data"))
             \/ Fails(h, Other("db"))
    BY <2>1, FailedKept, StatusIsCode
  <2>2. ASSUME NEW j \in Jobs,
               req' = [req EXCEPT ![h].pc = "read", ![h].wrote = TRUE, ![h].target = j]
        PROVE  Kept(h)
    <3>1. req'[h] = [req[h] EXCEPT !.pc = "read", !.wrote = TRUE, !.target = j]
      BY <2>2 DEF TypeOK
    <3>2. req'[h] \in Request
      <4>1. req[h] \in Request
        BY <1>0, <2>0
      <4> QED BY <3>1, <4>1 DEF Request
    <3> QED BY <1>0, <2>0, <3>1, <3>2 DEF Kept, Typed, Sound, Request, JobRoutes
  <2> QED BY <1>4, <2>1, <2>2 DEF CreateJob, DataRefused
<1>5. CASE UpdateJob(h)
  <2>0. InProgress(h) /\ req[h].op = "update" /\ req[h].pc = "write"
    BY <1>5 DEF UpdateJob, At, InProgress
  <2>1. CASE Fails(h, Other("data")) \/ Fails(h, Other("db"))
    BY <2>1, FailedKept, StatusIsCode
  <2>2. CASE SetColumns(h, req[h].sets) /\ Written(h, JobThere(req[h].target))
    <3>1. req[h] \in Request /\ Sound(h)
      BY <1>0, <2>0
    <3>2. JobThere(req[h].target) \/ jobs'[req[h].target] = "deleted"
      BY <2>0, <2>2, <3>1 DEF SetColumns, boardTables, JobThere, Sound, JobRoutes,
                              Board!JobExists, TypeOK
    <3>3. req'[h] = [req[h] EXCEPT !.pc = "read", !.wrote = JobThere(req[h].target)]
      BY <2>2 DEF Written, TypeOK
    <3>4. UNCHANGED jobs
      BY <2>2 DEF SetColumns, boardTables
    <3>5. JobThere(req[h].target) \in BOOLEAN
      BY DEF JobThere, Board!JobExists
    <3>6. Typed(h)
      <4>1. ASSUME NEW b \in BOOLEAN
            PROVE  [req[h] EXCEPT !.pc = "read", !.wrote = b] \in Request
        BY <3>1 DEF Request
      <4> QED BY <3>3, <3>5, <4>1 DEF Typed
    <3>7. Sound(h)'
      BY <2>0, <3>1, <3>2, <3>3, <3>4 DEF Sound, Request, JobRoutes
    <3> QED BY <3>6, <3>7 DEF Kept
  <2> QED BY <1>5, <2>1, <2>2 DEF UpdateJob, DataRefused
<1>6. CASE DeleteJob(h) \/ WithdrawApplication(h) \/ UnsaveJob(h)
  BY <1>6, FailedKept, StatusIsCode, AnsweredKept DEF DeleteJob, WithdrawApplication, UnsaveJob
<1>7. CASE UpdateApplicationStatus(h)
  <2>0. InProgress(h) /\ req[h].op = "status" /\ req[h].pc = "write"
    BY <1>7 DEF UpdateApplicationStatus, At, InProgress
  <2>1. CASE Fails(h, Other("db"))
    BY <2>1, FailedKept, StatusIsCode
  <2>2. CASE SetStatus(h) /\ Written(h, AppThere(req[h].target))
    <3>1. req[h] \in Request /\ Sound(h)
      BY <1>0, <2>0
    <3>2. req[h].target \in sent
      BY <2>0, <3>1 DEF Sound
    <3>3. req'[h] = [req[h] EXCEPT !.pc = "read", !.wrote = AppThere(req[h].target)]
      BY <2>2 DEF Written, TypeOK
    <3>4. AppThere(req[h].target) \in BOOLEAN
      BY DEF AppThere
    <3>5. Typed(h)
      <4>1. ASSUME NEW b \in BOOLEAN
            PROVE  [req[h] EXCEPT !.pc = "read", !.wrote = b] \in Request
        BY <3>1 DEF Request
      <4> QED BY <3>3, <3>4, <4>1 DEF Typed
    <3>6. req'[h].op = "status" /\ req'[h].target = req[h].target
          /\ req'[h].wrote = AppThere(req[h].target)
      BY <2>0, <3>1, <3>3 DEF Request
    <3>7. Sound(h)'
      BY <3>2, <3>6 DEF Sound, TablesAge, JobRoutes
    <3> QED BY <3>5, <3>7 DEF Kept
  <2> QED BY <1>7, <2>1, <2>2 DEF UpdateApplicationStatus
<1>8. CASE FetchJob(h) \/ FetchApplication(h) \/ List(h) \/ GetProfile(h) \/ PatchProfile(h)
  BY <1>8, FailedKept, StatusIsCode, AnsweredKept
     DEF FetchJob, FetchApplication, List, GetProfile, PatchProfile, Broken
<1> QED BY <1>1, <1>2, <1>3, <1>4, <1>5, <1>6, <1>7, <1>8 DEF Step

LEMMA ArriveKept ==
    ASSUME TypeOK, NEW h \in Handlers, Arrive(h)
    PROVE  Kept(h)
<1>1. ASSUME NEW op \in Routes, NEW r \in ValidRequests(op) \cup InvalidRequests(op),
             req' = [req EXCEPT ![h] = r]
      PROVE  Kept(h)
  <2>1. Callers(op) \subseteq Users
    BY RequestsAssumption DEF Callers, Users
  <2>2. Targets(op) \subseteq Jobs \cup AppIds \cup {NotAnId}
    BY DEF TypeOK, Targets
  <2>3. r \in Request /\ r.pc = "start"
    BY <2>1, <2>2, RequestsAssumption DEF ValidRequests, AcceptedBodies, InvalidRequests, Request
  <2>4. req'[h] = r
    BY <1>1 DEF TypeOK
  <2> QED BY <2>3, <2>4 DEF Kept, Typed, Sound
<1>2. BodyRoutes \subseteq Routes
  BY DEF BodyRoutes, Routes, RecruiterRoutes, JobRoutes, ProfileRoutes
<1> QED BY <1>1, <1>2 DEF Arrive

\* One request steps, or none.
LEMMA OneSteps ==
    ASSUME TypeOK, Next
    PROVE  \/ UNCHANGED req
           \/ \E h \in Handlers :
                 /\ Arrive(h) \/ Step(h)
                 /\ \A k \in Handlers \ {h} : req'[k] = req[k]
                 /\ \E v : req' = [req EXCEPT ![h] = v]
<1>1. ASSUME NEW h \in Handlers, Arrive(h) \/ Step(h)
      PROVE  \E v : req' = [req EXCEPT ![h] = v]
  <2>1. CASE Arrive(h)
    BY <2>1 DEF Arrive
  <2>2. CASE RejectBody(h) \/ FindProfile(h) \/ CheckOwner(h)
    BY <2>2 DEF RejectBody, FindProfile, CheckOwner, Broken, Fails, Says, Goto
  <2>3. CASE CreateJob(h)
    <3>1. CASE \E j \in Jobs :
                  req' = [req EXCEPT ![h].pc = "read", ![h].wrote = TRUE, ![h].target = j]
      BY <3>1 DEF TypeOK
    <3> QED BY <2>3, <3>1 DEF CreateJob, DataRefused, Fails, Says
  <2>4. CASE UpdateJob(h) \/ UpdateApplicationStatus(h)
    BY <2>4 DEF UpdateJob, DataRefused, UpdateApplicationStatus, Fails, Says, Written, TypeOK
  <2>5. CASE DeleteJob(h) \/ WithdrawApplication(h) \/ UnsaveJob(h)
    BY <2>5 DEF DeleteJob, WithdrawApplication, UnsaveJob, Fails, Says
  <2>6. CASE FetchJob(h) \/ FetchApplication(h) \/ List(h) \/ GetProfile(h) \/ PatchProfile(h)
    BY <2>6 DEF FetchJob, FetchApplication, List, GetProfile, PatchProfile, Broken, Fails, Says
  <2> QED BY <1>1, <2>1, <2>2, <2>3, <2>4, <2>5, <2>6 DEF Step
<1>2. CASE \/ SeederDeletes
           \/ \E s \in Seekers, j \in Jobs : WorkerInserts(s, j)
  BY <1>2 DEF SeederDeletes, WorkerInserts
<1>3. ASSUME NEW h \in Handlers, NEW v, req' = [req EXCEPT ![h] = v]
      PROVE  \A k \in Handlers \ {h} : req'[k] = req[k]
  BY <1>3 DEF TypeOK
<1> QED BY <1>1, <1>2, <1>3 DEF Next

LEMMA ErrsTyped == TypeOK /\ [Next]_vars => dbErrs' \in 0 .. MaxDbErrors
<1> SUFFICES ASSUME TypeOK, [Next]_vars PROVE dbErrs' \in 0 .. MaxDbErrors
  OBVIOUS
<1>1. CASE UNCHANGED dbErrs
  BY <1>1 DEF TypeOK
<1>2. CASE DbError
  BY <1>2, RequestsAssumption DEF DbError, TypeOK
<1>3. ASSUME NEW h \in Handlers, Arrive(h) \/ Step(h) PROVE UNCHANGED dbErrs \/ DbError
  BY <1>3 DEF Step, Arrive, RejectBody, FindProfile, CheckOwner, CreateJob, UpdateJob,
              DeleteJob, WithdrawApplication, UpdateApplicationStatus, UnsaveJob, FetchJob,
              FetchApplication, List, GetProfile, PatchProfile, Broken, DataRefused
<1> QED BY <1>1, <1>2, <1>3 DEF Next, vars, SeederDeletes, WorkerInserts

LEMMA NextInv == Inv /\ [Next]_vars => Inv'
<1> SUFFICES ASSUME Inv, [Next]_vars PROVE Inv'
  OBVIOUS
<1>1. TypeOK /\ TablesSound
  BY DEF Inv
<1>2. TableStep
  BY NextIsTableStep
<1>3. TablesTyped'
  BY <1>1, <1>2, TableStepTyped
<1>4. TablesSound' /\ TablesAge
  BY <1>1, <1>2, TableStepSound
<1>5. /\ req' \in [Handlers -> Request \cup Answer \cup {NoRequest}]
      /\ RequestsSound'
  <2>1. CASE UNCHANGED req
    <3>1. \A k \in Handlers : InProgress(k)' => Sound(k)'
      BY <1>4, <2>1, BystanderSound
    <3> QED BY <1>1, <2>1, <3>1 DEF TypeOK, RequestsSound
  <2>2. ASSUME NEW h \in Handlers, Arrive(h) \/ Step(h), NEW v, req' = [req EXCEPT ![h] = v],
               \A k \in Handlers \ {h} : req'[k] = req[k]
        PROVE  /\ req' \in [Handlers -> Request \cup Answer \cup {NoRequest}]
               /\ RequestsSound'
    <3>1. Kept(h)
      BY <1>1, <1>4, <2>2, StepKept, ArriveKept
    <3>2. v \in Request \cup Answer \cup {NoRequest}
      BY <1>1, <2>2, <3>1 DEF Kept, Typed, TypeOK
    <3>3. req' \in [Handlers -> Request \cup Answer \cup {NoRequest}]
      BY <1>1, <2>2, <3>2 DEF TypeOK
    <3>4. \A k \in Handlers : InProgress(k)' => Sound(k)'
      BY <1>4, <2>2, <3>1, BystanderSound DEF Kept
    <3> QED BY <3>3, <3>4 DEF RequestsSound
  <2> QED BY <1>1, <2>1, <2>2, OneSteps DEF vars
<1>6. dbErrs' \in 0 .. MaxDbErrors
  BY <1>1, ErrsTyped
<1>7. TypeOK'
  BY <1>3, <1>5, <1>6 DEF TypeOK, TablesTyped
<1> QED BY <1>4, <1>5, <1>7 DEF Inv

\* What requests in progress know holds at every moment.
THEOREM RequestsInvariant == Spec => []Inv
  BY InitInv, NextInv, PTL DEF Spec

\* The variables keep their types.
THEOREM TypeCorrect == Spec => []TypeOK
<1>1. Inv => TypeOK
  BY DEF Inv
<1> QED BY <1>1, RequestsInvariant, PTL

-----------------------------------------------------------------------------
(* Edits.                                                                  *)

\* UpdateJob: whatever runs between its statements, a column of a job changes
\* only by a request of the job's owner that supplies it.
THEOREM EditsStayWithTheOwner == Spec => EditsAreTheOwners
<1>1. ASSUME Inv, [Next]_vars PROVE [Edits]_vars
  <2> SUFFICES ASSUME NEW j \in Jobs, NEW f \in Fields, field'[j][f] # field[j][f]
               PROVE  \E h \in Handlers :
                         /\ field'[j][f] = h
                         /\ req[h].pc = "write" /\ req[h].op = "update"
                         /\ req[h].target = j
                         /\ f \in req[h].sets /\ req[h].user = JobOwner[j]
    BY DEF Edits
  <2>1. TableStep
    BY <1>1, NextIsTableStep
  <2>2. ~UNCHANGED field
    OBVIOUS
  <2>3. PICK h \in Handlers : Edit(h)
    BY <2>1, <2>2 DEF TableStep, tables, InsertJob, Deletes, RemoveApplication, Decides,
                      SetStatus, Unsaves, WorkerInserts, SeederDeletes
  <2>4. field'[j][f] = h /\ j = req[h].target /\ f \in req[h].sets
    BY <2>3 DEF Edit, SetColumns
  <2>5. InProgress(h) /\ req[h].pc = "write" /\ req[h].op = "update"
    BY <2>3 DEF Edit, At, InProgress
  <2>6. Sound(h)
    BY <1>1, <2>5 DEF Inv, RequestsSound
  <2> QED BY <2>4, <2>5, <2>6 DEF Sound, JobRoutes
<1> QED BY <1>1, RequestsInvariant, PTL DEF Spec, EditsAreTheOwners

-----------------------------------------------------------------------------
(* Answers.                                                                *)

\* A request is answered by its own step.
LEMMA OwnAnswer ==
    ASSUME TypeOK, [Next]_vars, NEW h \in Handlers, NEW code, Cleanly(h, code)
    PROVE  Step(h) /\ InProgress(h)
<1>1. InProgress(h) /\ req'[h] # req[h]
  BY DEF Cleanly, Answers, InProgress
<1>2. Next
  BY <1>1 DEF vars
<1>3. Arrive(h) \/ Step(h)
  BY <1>1, <1>2, OneSteps
<1> QED BY <1>1, <1>3 DEF Arrive, InProgress

\* What the ways to end a statement say about the answer.
LEMMA Outcomes ==
    ASSUME TypeOK, NEW h \in Handlers, NEW code, Cleanly(h, code)
    PROVE  /\ \A c : Says(h, c) => c = code
           /\ \A err : Fails(h, err) => classifyError(err) = code
           /\ \A pc \in {"owner", "write", "read"} : ~Goto(h, pc)
           /\ \A b : ~Written(h, b)
           /\ ~DbError
<1>1. InProgress(h) /\ req'[h] = [pc |-> "answered", code |-> code]
  BY DEF Cleanly, Answers, InProgress
<1>2. req[h] \in Request
  BY <1>1, InProgressIsRequest
<1>3. ASSUME NEW c, Says(h, c) PROVE c = code
  BY <1>1, <1>3 DEF Says, TypeOK
<1>4. ASSUME NEW pc \in {"owner", "write", "read"}, Goto(h, pc) PROVE FALSE
  BY <1>1, <1>2, <1>4 DEF Goto, TypeOK, Request
<1>5. ASSUME NEW b, Written(h, b) PROVE FALSE
  <2>1. req'[h] = [req[h] EXCEPT !.pc = "read", !.wrote = b]
    BY <1>5 DEF Written, TypeOK
  <2> QED BY <1>1, <1>2, <2>1 DEF Request
<1>6. ~DbError
  BY RequestsAssumption DEF Cleanly, DbError, TypeOK
<1> QED BY <1>3, <1>4, <1>5, <1>6 DEF Fails

LEMMA CodesTold ==
    /\ classifyError(AppError(404)) = 404
    /\ classifyError(AppError(403)) = 403
    /\ classifyError(Other("validator")) = 400
    /\ classifyError(Other("json")) = 500
    /\ classifyError(Other("data")) = 500
    /\ classifyError(Other("foreignKey")) = 500
    /\ classifyError(Other("syntax")) = 500
    /\ classifyError(Other("noRows")) = 500
  BY AppErrorsKeepTheirCode, ValidatorSays400, OthersSay500

LEMMA FindProfileAnswers ==
    ASSUME Inv, NEW h \in Handlers, NEW code, Cleanly(h, code), FindProfile(h)
    PROVE  code = 404 /\ req[h].user \notin profiles /\ req[h].op # "get"
<1>1. TypeOK /\ InProgress(h)
  BY DEF Inv, Cleanly, Answers, InProgress
<1>2. req[h].op \in (JobRoutes \cup AppRoutes) \cup {"create", "unsave", "listOwn"}
  BY <1>1, InProgressIsRequest
     DEF FindProfile, At, Routes, Request, JobRoutes, AppRoutes, ProfileRoutes,
         RecruiterRoutes, SeekerRoutes
<1>3. ASSUME NEW pc, Goto(h, pc),
             pc = CASE req[h].op \in JobRoutes \cup AppRoutes -> "owner"
                    [] req[h].op \in {"create", "unsave"}      -> "write"
                    [] req[h].op = "listOwn"                   -> "read"
      PROVE  FALSE
  <2>1. pc \in {"owner", "write", "read"}
    <3>1. CASE req[h].op \in JobRoutes \cup AppRoutes
      BY <1>3, <3>1 DEF JobRoutes, AppRoutes
    <3>2. CASE req[h].op \in {"create", "unsave", "listOwn"}
      BY <1>3, <3>2 DEF JobRoutes, AppRoutes
    <3> QED BY <1>2, <3>1, <3>2
  <2> QED BY <1>1, <1>3, <2>1, Outcomes
<1>4. ~DbError
  BY <1>1, Outcomes
<1>5. req[h].user \notin profiles /\ Fails(h, AppError(404))
  BY <1>3, <1>4 DEF FindProfile, Broken
<1>6. code = 404
  BY <1>1, <1>5, Outcomes, CodesTold
<1>7. req[h].op # "get"
  BY DEF FindProfile, At
<1> QED BY <1>5, <1>6, <1>7

LEMMA CheckOwnerAnswers ==
    ASSUME Inv, NEW h \in Handlers, NEW code, Cleanly(h, code), CheckOwner(h)
    PROVE  /\ req[h].op \in JobRoutes \cup AppRoutes
           /\ \/ code = 404 /\ ~There(req[h].op, req[h].target)
              \/ code = 403
<1>1. TypeOK
  BY DEF Inv
<1>2. ~Goto(h, "read") /\ ~Goto(h, "write") /\ ~DbError
  BY <1>1, Outcomes
<1>3. \/ Fails(h, AppError(404)) /\ ~There(req[h].op, req[h].target)
      \/ Fails(h, AppError(403))
  BY <1>2 DEF CheckOwner, Broken
<1>4. req[h].op \in JobRoutes \cup AppRoutes
  BY DEF CheckOwner, At
<1> QED BY <1>1, <1>3, <1>4, Outcomes, CodesTold

\* How each action answers, when no statement fails for reasons of its own.
LEMMA RejectBodyAnswers ==
    ASSUME Inv, NEW h \in Handlers, NEW code, Cleanly(h, code), RejectBody(h)
    PROVE  \/ code = 400
           \/ code = 500 /\ req[h].body = "malformed"
<1>1. TypeOK
  BY DEF Inv
<1>2. CASE req[h].body = "malformed"
  <2>1. Fails(h, Other("json"))
    BY <1>2 DEF RejectBody
  <2> QED BY <1>1, <1>2, <2>1, Outcomes, CodesTold
<1>3. CASE req[h].body # "malformed"
  <2>1. Fails(h, Other("validator"))
    BY <1>3 DEF RejectBody
  <2> QED BY <1>1, <2>1, Outcomes, CodesTold
<1> QED BY <1>2, <1>3

LEMMA CreateJobAnswers ==
    ASSUME Inv, NEW h \in Handlers, NEW code, Cleanly(h, code), CreateJob(h)
    PROVE  /\ code = 500 /\ req[h].op = "create" /\ req[h].pc = "write"
           /\ req[h].user \notin profiles \/ req[h].body = "unstorable"
<1>1. TypeOK
  BY DEF Inv
<1>2. ~DbError
  BY <1>1, Outcomes
<1>3. ASSUME NEW j, req' = [req EXCEPT ![h].pc = "read", ![h].wrote = TRUE, ![h].target = j]
      PROVE  FALSE
  <2>1. req[h] \in Request
    BY <1>1, InProgressIsRequest DEF Cleanly, Answers, InProgress
  <2>2. req'[h].pc = "read"
    BY <1>1, <1>3, <2>1 DEF TypeOK, Request
  <2> QED BY <2>2 DEF Cleanly, Answers
<1>4. \/ Fails(h, Other("foreignKey")) /\ req[h].user \notin profiles
      \/ Fails(h, Other("data")) /\ ~Storable(h)
  BY <1>2, <1>3 DEF CreateJob, DataRefused
<1>5. /\ req[h].op = "create" /\ req[h].pc = "write"
      /\ ~Storable(h) => req[h].body = "unstorable"
  BY DEF CreateJob, At, AcceptedBodies, Storable
<1>6. code = 500
  BY <1>1, <1>4, Outcomes, CodesTold
<1> QED BY <1>4, <1>5, <1>6

LEMMA UpdateJobAnswers ==
    ASSUME Inv, NEW h \in Handlers, NEW code, Cleanly(h, code), UpdateJob(h)
    PROVE  /\ code = 500 /\ req[h].op = "update" /\ req[h].pc = "write"
           /\ req[h].body = "unstorable"
<1>1. ~DbError /\ \A b : ~Written(h, b)
  BY Outcomes DEF Inv
<1>2. Fails(h, Other("data")) /\ ~Storable(h)
  BY <1>1 DEF UpdateJob, DataRefused
<1>3. code = 500
  BY <1>2, Outcomes, CodesTold DEF Inv
<1> QED BY <1>2, <1>3 DEF UpdateJob, At, AcceptedBodies, Storable

LEMMA DecisionGoesOn ==
    ASSUME Inv, NEW h \in Handlers, NEW code, Cleanly(h, code)
    PROVE  ~UpdateApplicationStatus(h)
<1>1. ~DbError /\ \A b : ~Written(h, b)
  BY Outcomes DEF Inv
<1> QED BY <1>1 DEF UpdateApplicationStatus

LEMMA DeleteJobAnswers ==
    ASSUME Inv, NEW h \in Handlers, NEW code, Cleanly(h, code), DeleteJob(h)
    PROVE  /\ code = 200 /\ req[h].op = "delete" /\ req[h].pc = "write"
           /\ RemoveJobs({req[h].target})
<1>1. ~DbError /\ \A c : Says(h, c) => c = code
  BY Outcomes DEF Inv
<1>2. RemoveJobs({req[h].target}) /\ Says(h, 200)
  BY <1>1 DEF DeleteJob
<1> QED BY <1>1, <1>2 DEF DeleteJob, At

LEMMA DeleteJobSays200 ==
    ASSUME Inv, NEW h \in Handlers, NEW code, Cleanly(h, code), DeleteJob(h)
    PROVE  code = 200
<1>1. ~DbError /\ \A c : Says(h, c) => c = code
  BY Outcomes DEF Inv
<1>2. Says(h, 200)
  BY <1>1 DEF DeleteJob
<1> QED BY <1>1, <1>2

LEMMA WithdrawAnswers ==
    ASSUME Inv, NEW h \in Handlers, NEW code, Cleanly(h, code), WithdrawApplication(h)
    PROVE  code = 200 /\ req[h].op = "withdraw" /\ RemoveApplication(h)
<1>1. ~DbError /\ \A c : Says(h, c) => c = code
  BY Outcomes DEF Inv
<1>2. RemoveApplication(h) /\ Says(h, 200)
  BY <1>1 DEF WithdrawApplication
<1> QED BY <1>1, <1>2 DEF WithdrawApplication, At

LEMMA UnsaveAnswers ==
    ASSUME Inv, NEW h \in Handlers, NEW code, Cleanly(h, code), UnsaveJob(h)
    PROVE  /\ req[h].op = "unsave"
           /\ \/ code = 500 /\ req[h].target = NotAnId
              \/ /\ code = 200
                 /\ <<req[h].user, req[h].target>> \in saved
                 /\ saved' = saved \ {<<req[h].user, req[h].target>>}
              \/ code = 404 /\ <<req[h].user, req[h].target>> \notin saved
<1> DEFINE pair == <<req[h].user, req[h].target>>
<1>1. TypeOK
  BY DEF Inv
<1>2. ~DbError
  BY <1>1, Outcomes
<1>3. \/ req[h].target = NotAnId /\ Fails(h, Other("syntax"))
      \/ /\ saved' = saved \ {pair}
         /\ IF pair \in saved THEN Says(h, 200) ELSE Fails(h, AppError(404))
  BY <1>2 DEF UnsaveJob
<1>4. req[h].op = "unsave"
  BY DEF UnsaveJob, At
<1> HIDE DEF pair
<1>5. \/ code = 500 /\ req[h].target = NotAnId
      \/ code = 200 /\ pair \in saved /\ saved' = saved \ {pair}
      \/ code = 404 /\ pair \notin saved
  BY <1>1, <1>3, Outcomes, CodesTold
<1> QED BY <1>4, <1>5 DEF pair

LEMMA UnsaveSays500 ==
    ASSUME Inv, NEW h \in Handlers, NEW code, Cleanly(h, code), UnsaveJob(h), code = 500
    PROVE  req[h].op = "unsave" /\ req[h].target = NotAnId
<1>1. TypeOK
  BY DEF Inv
<1>2. ~DbError /\ ~Says(h, 200) /\ ~Fails(h, AppError(404))
  BY <1>1, Outcomes, CodesTold
<1>3. req[h].target = NotAnId
  BY <1>2 DEF UnsaveJob
<1> QED BY <1>3 DEF UnsaveJob, At

LEMMA FetchJobAnswers ==
    ASSUME Inv, NEW h \in Handlers, NEW code, Cleanly(h, code), FetchJob(h)
    PROVE  /\ \/ req[h].op = "get"
              \/ req[h].op \in {"create", "update"} /\ req[h].pc = "read"
           /\ \/ code \in {200, 201} /\ JobThere(req[h].target)
              \/ code = 404 /\ ~JobThere(req[h].target)
<1>1. TypeOK
  BY DEF Inv
<1>2. ~DbError
  BY <1>1, Outcomes
<1>3. IF JobThere(req[h].target) THEN Says(h, IF req[h].op = "create" THEN 201 ELSE 200)
      ELSE Fails(h, AppError(404))
  BY <1>2 DEF FetchJob, Broken
<1>4. CASE JobThere(req[h].target)
  <2>1. (IF req[h].op = "create" THEN 201 ELSE 200) = code
    BY <1>1, <1>3, <1>4, Outcomes
  <2>2. code \in {200, 201}
    BY <2>1
  <2> QED BY <1>4, <2>2 DEF FetchJob, At
<1>5. CASE ~JobThere(req[h].target)
  <2>1. code = 404
    BY <1>1, <1>3, <1>5, Outcomes, CodesTold
  <2> QED BY <1>5, <2>1 DEF FetchJob, At
<1> QED BY <1>4, <1>5

LEMMA FetchApplicationAnswers ==
    ASSUME Inv, NEW h \in Handlers, NEW code, Cleanly(h, code), FetchApplication(h)
    PROVE  /\ req[h].op = "status" /\ req[h].pc = "read"
           /\ \/ code = 200 /\ AppThere(req[h].target)
              \/ code = 500 /\ ~AppThere(req[h].target)
<1>1. TypeOK
  BY DEF Inv
<1>2. ~DbError
  BY <1>1, Outcomes
<1>3. IF AppThere(req[h].target) THEN Says(h, 200) ELSE Fails(h, Other("noRows"))
  BY <1>2 DEF FetchApplication, Broken
<1>4. \/ code = 200 /\ AppThere(req[h].target)
      \/ code = 500 /\ ~AppThere(req[h].target)
  BY <1>1, <1>3, Outcomes, CodesTold
<1> QED BY <1>4 DEF FetchApplication, At

LEMMA ListAnswers ==
    ASSUME Inv, NEW h \in Handlers, NEW code, Cleanly(h, code), List(h)
    PROVE  code = 200 /\ req[h].op \in {"applicants", "listOwn"}
<1>1. ~DbError /\ \A c : Says(h, c) => c = code
  BY Outcomes DEF Inv
<1>2. Says(h, 200)
  BY <1>1 DEF List
<1> QED BY <1>1, <1>2 DEF List, At

LEMMA ProfileAnswers ==
    ASSUME Inv, NEW h \in Handlers, NEW code, Cleanly(h, code), GetProfile(h) \/ PatchProfile(h)
    PROVE  /\ code \in {200, 404}
           /\ req[h].op \in {"getProfile", "patchProfile"}
           /\ code = 404 /\ req[h].op = "getProfile" => req[h].user \notin profiles
<1>1. TypeOK
  BY DEF Inv
<1>2. ~DbError
  BY <1>1, Outcomes
<1>3. CASE GetProfile(h)
  <2>1. IF req[h].user \in profiles THEN Says(h, 200) ELSE Fails(h, AppError(404))
    BY <1>2, <1>3 DEF GetProfile, Broken
  <2>2. req[h].op = "getProfile"
    BY <1>3 DEF GetProfile, At
  <2> QED BY <1>1, <2>1, <2>2, Outcomes, CodesTold
<1>4. CASE PatchProfile(h)
  <2>1. Says(h, 200) \/ Fails(h, AppError(404))
    BY <1>2, <1>4 DEF PatchProfile, Broken
  <2>2. req[h].op = "patchProfile"
    BY <1>4 DEF PatchProfile, At
  <2> QED BY <1>1, <2>1, <2>2, Outcomes, CodesTold
<1> QED BY <1>3, <1>4

\* A client that reads 200 or 201 can rely on it, whatever happened between
\* the statements of its request.
THEOREM OkCanBeReliedOn == Spec => OkMeansDone
<1>1. ASSUME Inv, [Next]_vars, NEW h \in Handlers, NEW code \in {200, 201}, Cleanly(h, code)
      PROVE  Done(h)
  <2>1. TypeOK /\ Step(h) /\ InProgress(h)
    BY <1>1, OwnAnswer DEF Inv
  <2>2. Sound(h)
    BY <1>1, <2>1 DEF Inv, RequestsSound
  <2>3. ~RejectBody(h) /\ ~FindProfile(h) /\ ~CheckOwner(h)
    BY <1>1, RejectBodyAnswers, FindProfileAnswers, CheckOwnerAnswers
  <2>4. ~CreateJob(h) /\ ~UpdateJob(h) /\ ~UpdateApplicationStatus(h)
    <3>1. ASSUME CreateJob(h) \/ UpdateJob(h) PROVE FALSE
      <4>1. code = 500
        BY <1>1, <3>1, CreateJobAnswers, UpdateJobAnswers
      <4> QED BY <4>1
    <3> QED BY <1>1, <3>1, DecisionGoesOn
  <2>5. CASE List(h) \/ GetProfile(h) \/ PatchProfile(h)
    <3>1. req[h].op \in {"applicants", "listOwn", "getProfile", "patchProfile"}
      BY <1>1, <2>5, ListAnswers, ProfileAnswers
    <3> QED BY <3>1 DEF Done
  <2>6. CASE DeleteJob(h)
    <3>1. req[h].op = "delete" /\ req[h].pc = "write" /\ RemoveJobs({req[h].target})
      BY <1>1, <2>6, DeleteJobAnswers
    <3>2. req[h].target \in Jobs /\ jobs[req[h].target] # "unposted"
      BY <2>2, <3>1 DEF Sound, JobRoutes
    <3>3. jobs'[req[h].target] = "deleted"
      BY <2>1, <3>1, <3>2 DEF RemoveJobs, TypeOK, Board!JobExists
    <3> QED BY <3>1, <3>3 DEF Done
  <2>7. CASE WithdrawApplication(h)
    <3>1. req[h].op = "withdraw" /\ RemoveApplication(h)
      BY <1>1, <2>7, WithdrawAnswers
    <3> QED BY <3>1 DEF Done, RemoveApplication
  <2>8. CASE UnsaveJob(h)
    <3>1. req[h].op = "unsave" /\ <<req[h].user, req[h].target>> \in saved
          /\ saved' = saved \ {<<req[h].user, req[h].target>>}
      BY <1>1, <2>8, UnsaveAnswers
    <3> QED BY <3>1 DEF Done
  <2>9. CASE FetchJob(h)
    <3>1. JobThere(req[h].target)
          /\ (req[h].op = "get" \/ (req[h].op \in {"create", "update"} /\ req[h].pc = "read"))
      BY <1>1, <2>9, FetchJobAnswers
    <3>2. jobs[req[h].target] # "deleted"
      BY <3>1 DEF JobThere, Board!JobExists
    <3> QED BY <2>2, <3>1, <3>2 DEF Done, Sound
  <2>10. CASE FetchApplication(h)
    <3>1. AppThere(req[h].target) /\ req[h].op = "status" /\ req[h].pc = "read"
      BY <1>1, <2>10, FetchApplicationAnswers
    <3> QED BY <2>2, <3>1 DEF Done, Sound
  <2> QED BY <2>1, <2>3, <2>4, <2>5, <2>6, <2>7, <2>8, <2>9, <2>10 DEF Step
<1>2. Inv /\ [Next]_vars
      => [\A h \in Handlers : Cleanly(h, 200) \/ Cleanly(h, 201) => Done(h)]_vars
  BY <1>1
<1> QED BY <1>2, RequestsInvariant, PTL DEF Spec, OkMeansDone

\* Profiles apart, a 404 names something that is missing at this moment.
THEOREM MissingIsMissing == Spec => NotFoundIsTrue
<1>1. ASSUME Inv, [Next]_vars, NEW h \in Handlers, NEW code \in {404}, Cleanly(h, code),
            req[h].op # "patchProfile"
      PROVE  Missing(h)
  <2>1. TypeOK /\ Step(h)
    BY <1>1, OwnAnswer DEF Inv
  <2>2. ~RejectBody(h) /\ ~FetchApplication(h) /\ ~List(h) /\ ~PatchProfile(h)
    <3>1. ~RejectBody(h) /\ ~FetchApplication(h) /\ ~List(h)
      BY <1>1, RejectBodyAnswers, FetchApplicationAnswers, ListAnswers
    <3>2. ~PatchProfile(h)
      BY <1>1 DEF PatchProfile, At
    <3> QED BY <3>1, <3>2
  <2>3. ~CreateJob(h) /\ ~UpdateJob(h) /\ ~UpdateApplicationStatus(h) /\ ~DeleteJob(h)
        /\ ~WithdrawApplication(h)
    <3>1. ~CreateJob(h) /\ ~UpdateJob(h) /\ ~UpdateApplicationStatus(h)
      <4>1. ASSUME CreateJob(h) \/ UpdateJob(h) PROVE FALSE
        <5>1. code = 500
          BY <1>1, <4>1, CreateJobAnswers, UpdateJobAnswers
        <5> QED BY <5>1
      <4> QED BY <1>1, <4>1, DecisionGoesOn
    <3>2. ASSUME DeleteJob(h) PROVE FALSE
      <4>1. code = 200
        BY <1>1, <3>2, DeleteJobSays200
      <4> QED BY <4>1
    <3>3. ASSUME WithdrawApplication(h) PROVE FALSE
      <4>1. code = 200
        BY <1>1, <3>3, WithdrawAnswers
      <4> QED BY <4>1
    <3> QED BY <3>1, <3>2, <3>3
  <2>4. CASE FindProfile(h)
    BY <1>1, <2>4, FindProfileAnswers DEF Missing
  <2>5. CASE CheckOwner(h)
    <3>1. req[h].op \in JobRoutes \cup AppRoutes /\ ~There(req[h].op, req[h].target)
      BY <1>1, <2>5, CheckOwnerAnswers
    <3> QED BY <3>1 DEF Missing
  <2>6. CASE GetProfile(h)
    <3>1. req[h].user \notin profiles /\ req[h].op = "getProfile"
      BY <1>1, <2>6, ProfileAnswers
    <3> QED BY <3>1 DEF Missing
  <2>7. CASE UnsaveJob(h)
    <3>1. req[h].op = "unsave" /\ <<req[h].user, req[h].target>> \notin saved
      BY <1>1, <2>7, UnsaveAnswers
    <3> QED BY <3>1 DEF Missing
  <2>8. CASE FetchJob(h)
    <3>1. ~JobThere(req[h].target)
          /\ (req[h].op = "get" \/ (req[h].op \in {"create", "update"} /\ req[h].pc = "read"))
      BY <1>1, <2>8, FetchJobAnswers
    <3> QED BY <3>1 DEF Missing, There, AppRoutes
  <2> QED BY <2>1, <2>2, <2>3, <2>4, <2>5, <2>6, <2>7, <2>8 DEF Step
<1>2. Inv /\ [Next]_vars
      => [\A h \in Handlers :
             Cleanly(h, 404) /\ req[h].op # "patchProfile" => Missing(h)]_vars
  BY <1>1
<1> QED BY <1>2, RequestsInvariant, PTL DEF Spec, NotFoundIsTrue

\* A 500 of which no failed statement is to blame has one of five causes.
THEOREM FiveCauses == Spec => ServerErrorsHaveACause
<1>1. ASSUME Inv, [Next]_vars, NEW h \in Handlers, NEW code \in {500}, Cleanly(h, code)
      PROVE  Surprise(h)
  <2>1. TypeOK /\ Step(h)
    BY <1>1, OwnAnswer DEF Inv
  <2>2. CASE RejectBody(h)
    BY <1>1, <2>2, RejectBodyAnswers DEF Surprise
  <2>3. ~FindProfile(h) /\ ~CheckOwner(h)
    BY <1>1, FindProfileAnswers, CheckOwnerAnswers
  <2>4. CASE CreateJob(h) \/ UpdateJob(h)
    BY <1>1, <2>4, CreateJobAnswers, UpdateJobAnswers DEF Surprise
  <2>5. CASE UnsaveJob(h)
    <3>1. req[h].op = "unsave" /\ req[h].target = NotAnId
      BY <1>1, <2>5, UnsaveSays500
    <3> QED BY <3>1 DEF Surprise
  <2>6. CASE FetchApplication(h)
    <3>1. req[h].op = "status" /\ req[h].pc = "read" /\ ~AppThere(req[h].target)
      BY <1>1, <2>6, FetchApplicationAnswers
    <3> QED BY <3>1 DEF Surprise
  <2>7. ~UpdateApplicationStatus(h) /\ ~DeleteJob(h) /\ ~WithdrawApplication(h)
    <3>1. ~UpdateApplicationStatus(h)
      BY <1>1, DecisionGoesOn
    <3>2. ASSUME DeleteJob(h) PROVE FALSE
      <4>1. code = 200
        BY <1>1, <3>2, DeleteJobSays200
      <4> QED BY <4>1
    <3>3. ASSUME WithdrawApplication(h) PROVE FALSE
      <4>1. code = 200
        BY <1>1, <3>3, WithdrawAnswers
      <4> QED BY <4>1
    <3> QED BY <3>1, <3>2, <3>3
  <2>8. ~FetchJob(h) /\ ~List(h) /\ ~GetProfile(h) /\ ~PatchProfile(h)
    BY <1>1, FetchJobAnswers, ListAnswers, ProfileAnswers
  <2> QED BY <2>1, <2>2, <2>3, <2>4, <2>5, <2>6, <2>7, <2>8 DEF Step
<1>2. Inv /\ [Next]_vars => [\A h \in Handlers : Cleanly(h, 500) => Surprise(h)]_vars
  BY <1>1
<1> QED BY <1>2, RequestsInvariant, PTL DEF Spec, ServerErrorsHaveACause

-----------------------------------------------------------------------------
(* The board.                                                              *)

LEMMA RemovalIsBoardStep ==
    ASSUME Inv, NEW j \in Jobs, RemoveJobs({j})
    PROVE  [Board!BoardNext]_(Board!boardVars)
<1>1. CASE Board!JobExists(j)
  <2>1. jobs' = [jobs EXCEPT ![j] = "deleted"]
    BY <1>1 DEF RemoveJobs, Inv, TypeOK
  <2>2. Board!Delete(j)
    BY <1>1, <2>1 DEF RemoveJobs, Board!Delete
  <2> QED BY <2>2 DEF Board!BoardNext
<1>2. CASE ~Board!JobExists(j)
  <2>1. jobs' = jobs
    BY <1>2 DEF RemoveJobs, Inv, TypeOK
  <2>2. apps' = apps /\ saved' = saved
    BY <1>2 DEF RemoveJobs, Inv, TablesSound, Board!NoOrphans
  <2> QED BY <2>1, <2>2 DEF Board!boardVars
<1> QED BY <1>1, <1>2

\* Each DELETE of the seeder is a fresh start of some jobs, perhaps of none.
LEMMA FreshStart ==
    ASSUME NEW js \in SUBSET Jobs,
           jobs' = [j \in Jobs |->
                       IF j \in js /\ Board!JobExists(j) THEN "deleted" ELSE jobs[j]],
           apps' \subseteq {a \in apps : a.job \notin js},
           saved' \subseteq {b \in saved : b[2] \notin js}
    PROVE  Board!Clear
  BY DEF Board!Clear

LEMMA SeederDeletesIsBoardStep ==
    ASSUME Inv, SeederDeletes
    PROVE  Board!Clear
<1>1. ASSUME UNCHANGED jobs, apps' \subseteq apps, saved' \subseteq saved
      PROVE  Board!Clear
  <2>0. PICK js \in SUBSET Jobs : js = {}
    OBVIOUS
  <2>1. jobs' = [j \in Jobs |->
                    IF j \in js /\ Board!JobExists(j) THEN "deleted" ELSE jobs[j]]
    BY <1>1, <2>0 DEF Inv, TypeOK
  <2>2. apps' \subseteq {a \in apps : a.job \notin js}
        /\ saved' \subseteq {b \in saved : b[2] \notin js}
    BY <1>1, <2>0
  <2> QED BY <2>1, <2>2, FreshStart
<1>2. ASSUME NEW js \in SUBSET Jobs, RemoveJobs(js) PROVE Board!Clear
  BY <1>2, FreshStart DEF RemoveJobs
<1>3. ASSUME NEW us, RemoveProfiles(us) PROVE Board!Clear
  <2> DEFINE js == {j \in Jobs : JobOwner[j] \in us}
  <2>1. jobs' = [j \in Jobs |->
                    IF j \in js /\ Board!JobExists(j) THEN "deleted" ELSE jobs[j]]
    BY <1>3 DEF RemoveProfiles
  <2>2. apps' \subseteq {a \in apps : a.job \notin js}
        /\ saved' \subseteq {b \in saved : b[2] \notin js}
    BY <1>3 DEF RemoveProfiles
  <2> HIDE DEF js
  <2>3. js \in SUBSET Jobs
    BY DEF js
  <2> QED BY <2>1, <2>2, <2>3, FreshStart
<1> QED BY <1>1, <1>2, <1>3 DEF SeederDeletes

LEMMA TableStepIsBoardStep ==
    ASSUME Inv, TableStep
    PROVE  [Board!BoardNext]_(Board!boardVars)
<1> USE DEF Board!BoardNext, Board!boardVars
<1>1. CASE UNCHANGED tables
  BY <1>1 DEF tables, boardTables
<1>2. ASSUME NEW h \in Handlers, NEW j \in Jobs, InsertJob(h, j)
      PROVE  [Board!BoardNext]_(Board!boardVars)
  BY <1>2 DEF InsertJob, Board!Post
<1>3. CASE \E h \in Handlers : Edit(h)
  BY <1>3 DEF Edit, SetColumns, boardTables
<1>4. ASSUME NEW h \in Handlers, Deletes(h) PROVE [Board!BoardNext]_(Board!boardVars)
  <2>1. Sound(h) /\ req[h].op = "delete" /\ req[h].pc = "write"
    BY <1>4 DEF Deletes, At, Inv, RequestsSound, InProgress
  <2>2. req[h].target \in Jobs
    BY <2>1 DEF Sound, JobRoutes
  <2> QED BY <1>4, <2>2, RemovalIsBoardStep DEF Deletes
<1>5. ASSUME NEW h \in Handlers, RemoveApplication(h)
      PROVE  [Board!BoardNext]_(Board!boardVars)
  <2>1. CASE \E a \in apps : a.id = req[h].target
    <3>1. PICK a \in apps : a.id = req[h].target
      BY <2>1
    <3>2. apps' = apps \ {a}
      BY <1>5, <3>1 DEF RemoveApplication, Inv, TablesSound, Board!IdsUnique
    <3>3. Board!Withdraw(a)
      BY <1>5, <3>2 DEF RemoveApplication, Board!Withdraw
    <3> QED BY <3>1, <3>3
  <2>2. CASE ~\E a \in apps : a.id = req[h].target
    BY <1>5, <2>2 DEF RemoveApplication
  <2> QED BY <2>1, <2>2
<1>6. ASSUME NEW h \in Handlers, Decides(h) PROVE [Board!BoardNext]_(Board!boardVars)
  <2>1. req[h].status \in Statuses
    BY <1>6, InProgressIsRequest DEF Decides, At, InProgress, Inv, Request
  <2>2. CASE \E a \in apps : a.id = req[h].target
    <3>1. PICK a \in apps : a.id = req[h].target
      BY <2>2
    <3>2. apps' = (apps \ {a}) \cup {[a EXCEPT !.status = req[h].status]}
      BY <1>6, <3>1 DEF Decides, SetStatus, Inv, TablesSound, Board!IdsUnique
    <3>3. Board!Decide(a, req[h].status)
      BY <1>6, <3>2 DEF Decides, SetStatus, Board!Decide
    <3> QED BY <2>1, <3>1, <3>3
  <2>3. CASE ~\E a \in apps : a.id = req[h].target
    BY <1>6, <2>3 DEF Decides, SetStatus
  <2> QED BY <2>2, <2>3
<1>7. ASSUME NEW h \in Handlers, Unsaves(h) PROVE [Board!BoardNext]_(Board!boardVars)
  <2> DEFINE pair == <<req[h].user, req[h].target>>
  <2>1. CASE pair \in saved
    <3>1. req[h].user \in Seekers /\ req[h].target \in Jobs
      BY <2>1 DEF Inv, TypeOK
    <3>2. Board!Unsave(req[h].user, req[h].target)
      BY <1>7 DEF Unsaves, Board!Unsave
    <3> QED BY <3>1, <3>2
  <2>2. CASE pair \notin saved
    BY <1>7, <2>2 DEF Unsaves
  <2> QED BY <2>1, <2>2
<1>8. ASSUME NEW s \in Seekers, NEW j \in Jobs, WorkerInserts(s, j)
      PROVE  [Board!BoardNext]_(Board!boardVars)
  <2>1. ASSUME NEW i \in AppIds \ sent, UNCHANGED saved,
               apps' = apps \cup
                  {[id |-> i, job |-> j, seeker |-> s, status |-> "submitted"]}
        PROVE  Board!BoardNext
    <3>1. \A a \in apps : a.id # i
      BY <2>1 DEF Inv, TablesSound
    <3>2. Board!Apply(s, j)
      BY <1>8, <2>1, <3>1 DEF WorkerInserts, Board!Apply
    <3> QED BY <3>2
  <2>2. CASE saved' = saved \cup {<<s, j>>} /\ UNCHANGED <<apps, sent>>
    <3>1. Board!Save(s, j)
      BY <1>8, <2>2 DEF WorkerInserts, Board!Save
    <3> QED BY <3>1
  <2> QED BY <1>8, <2>1, <2>2 DEF WorkerInserts
<1>9. CASE SeederDeletes
  BY <1>9, SeederDeletesIsBoardStep
<1> QED BY <1>1, <1>2, <1>3, <1>4, <1>5, <1>6, <1>7, <1>8, <1>9 DEF TableStep

\* The tables change as the abstract board allows.
THEOREM RequestsImplementsBoard == Spec => ImplementsBoard
<1>1. Init => Board!BoardInit
  BY DEF Init
<1>2. Inv /\ [Next]_vars => [Board!BoardNext]_(Board!boardVars)
  BY NextIsTableStep, TableStepIsBoardStep
<1> QED BY <1>1, <1>2, RequestsInvariant, PTL DEF Spec, ImplementsBoard, Board!BoardSpec
=============================================================================
