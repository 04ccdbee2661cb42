---------------------------- MODULE Board_proofs ----------------------------
(***************************************************************************)
(* What every implementation of the board inherits from it, for every      *)
(* number of seekers, jobs, statuses and row identities.                   *)
(***************************************************************************)
EXTENDS Board, TLAPS

-----------------------------------------------------------------------------
(* The inductive invariant.                                                *)

Rows == [id : AppIds, job : Jobs, seeker : Seekers, status : Statuses \cup {"submitted"}]

BoardTypes ==
    /\ jobs \in [Jobs -> JobStates]
    /\ apps \subseteq Rows
    /\ saved \subseteq Seekers \X Jobs

\* The promises rest on each other: a job that is deleted takes its rows
\* along, and the row that a decision changes is found by its identity.
BoardKeeps ==
    /\ BoardTypes
    /\ NoOrphans
    /\ IdsUnique
    /\ OnePerJob => OneApplicationEach

\* Steps that change no application and let no job disappear.
LEMMA AppsStay ==
    ASSUME BoardKeeps, apps' = apps, jobs' \in [Jobs -> JobStates],
           \A j \in Jobs : JobExists(j) => JobExists(j)',
           saved' \subseteq Seekers \X Jobs,
           \A b \in saved' : b \in saved \/ JobExists(b[2])
    PROVE  BoardKeeps'
  <1>1. BoardTypes'
    BY DEF BoardKeeps, BoardTypes
  <1>2. NoOrphans'
    <2>1. \A a \in apps : a.job \in Jobs
      BY DEF BoardKeeps, BoardTypes, Rows
    <2>2. \A b \in saved' : b[2] \in Jobs
      OBVIOUS
    <2> QED
      BY <2>1, <2>2 DEF BoardKeeps, NoOrphans
  <1> QED
    BY <1>1, <1>2 DEF BoardKeeps, IdsUnique, OneApplicationEach

\* Fewer rows break no promise, when no job has gone.
LEMMA FewerApps ==
    ASSUME BoardKeeps, apps' \subseteq apps, UNCHANGED <<jobs, saved>>
    PROVE  BoardKeeps'
  BY DEF BoardKeeps, BoardTypes, NoOrphans, JobExists, IdsUnique, OneApplicationEach

LEMMA DeleteKeeps ==
    ASSUME BoardKeeps, NEW j \in Jobs, Delete(j)
    PROVE  BoardKeeps'
  <1>1. jobs' \in [Jobs -> JobStates] /\ \A k \in Jobs \ {j} : jobs'[k] = jobs[k]
    BY DEF Delete, BoardKeeps, BoardTypes, JobStates
  <1>2. \A a \in apps' : a \in apps /\ a.job \in Jobs \ {j}
    BY DEF Delete, BoardKeeps, BoardTypes, Rows
  <1>3. \A b \in saved' : b \in saved /\ b[2] \in Jobs \ {j}
    BY DEF Delete, BoardKeeps, BoardTypes
  <1>4. BoardTypes'
    BY <1>1, <1>2, <1>3 DEF BoardKeeps, BoardTypes
  <1>5. NoOrphans'
    BY <1>1, <1>2, <1>3 DEF BoardKeeps, NoOrphans, JobExists
  <1> QED
    BY <1>2, <1>4, <1>5 DEF BoardKeeps, IdsUnique, OneApplicationEach

LEMMA ApplyKeeps ==
    ASSUME BoardKeeps, NEW s \in Seekers, NEW j \in Jobs, Apply(s, j)
    PROVE  BoardKeeps'
  <1>1. PICK i \in AppIds :
           /\ \A a \in apps : a.id # i
           /\ apps' = apps \cup
                {[id |-> i, job |-> j, seeker |-> s, status |-> "submitted"]}
    BY DEF Apply
  <1>2. PICK new : new = [id |-> i, job |-> j, seeker |-> s, status |-> "submitted"]
    OBVIOUS
  <1>3. new \in Rows /\ new.id = i /\ new.job = j /\ new.seeker = s
    BY <1>2 DEF Rows
  <1>4. apps' = apps \cup {new}
    BY <1>1, <1>2
  <1>5. BoardTypes'
    BY <1>3, <1>4 DEF Apply, BoardKeeps, BoardTypes
  <1>6. NoOrphans'
    BY <1>3, <1>4 DEF Apply, BoardKeeps, NoOrphans, JobExists
  <1>7. IdsUnique'
    BY <1>1, <1>3, <1>4 DEF BoardKeeps, IdsUnique
  <1>8. OnePerJob => OneApplicationEach'
    BY <1>3, <1>4 DEF Apply, HasApplied, BoardKeeps, OneApplicationEach
  <1> QED
    BY <1>5, <1>6, <1>7, <1>8 DEF BoardKeeps

\* The changed row keeps identity, job and seeker, and the old one is gone.
LEMMA DecideKeeps ==
    ASSUME BoardKeeps, NEW a \in apps, NEW st \in Statuses, Decide(a, st)
    PROVE  BoardKeeps'
  <1>1. PICK new : new = [a EXCEPT !.status = st]
    OBVIOUS
  <1>2. a \in Rows
    BY DEF BoardKeeps, BoardTypes
  <1>3. new \in Rows /\ new.id = a.id /\ new.job = a.job /\ new.seeker = a.seeker
    BY <1>1, <1>2 DEF Rows
  <1>4. apps' = (apps \ {a}) \cup {new}
    BY <1>1 DEF Decide
  <1>5. BoardTypes'
    BY <1>3, <1>4 DEF Decide, BoardKeeps, BoardTypes
  <1>6. NoOrphans'
    BY <1>3, <1>4 DEF Decide, BoardKeeps, NoOrphans, JobExists
  <1>7. IdsUnique' /\ (OnePerJob => OneApplicationEach')
    BY <1>3, <1>4 DEF BoardKeeps, IdsUnique, OneApplicationEach
  <1> QED
    BY <1>5, <1>6, <1>7 DEF BoardKeeps

LEMMA ClearKeeps ==
    ASSUME BoardKeeps, Clear
    PROVE  BoardKeeps'
  <1>1. PICK js \in SUBSET Jobs :
           /\ jobs' = [j \in Jobs |->
                         IF j \in js /\ JobExists(j) THEN "deleted" ELSE jobs[j]]
           /\ apps' \subseteq {a \in apps : a.job \notin js}
           /\ saved' \subseteq {b \in saved : b[2] \notin js}
    BY DEF Clear
  <1>2. jobs' \in [Jobs -> JobStates] /\ \A k \in Jobs \ js : jobs'[k] = jobs[k]
    BY <1>1 DEF BoardKeeps, BoardTypes, JobStates
  <1>3. \A a \in apps' : a \in apps /\ a.job \in Jobs \ js
    BY <1>1 DEF BoardKeeps, BoardTypes, Rows
  <1>4. \A b \in saved' : b \in saved /\ b[2] \in Jobs \ js
    BY <1>1 DEF BoardKeeps, BoardTypes
  <1>5. BoardTypes'
    BY <1>2, <1>3, <1>4 DEF BoardKeeps, BoardTypes
  <1>6. NoOrphans'
    BY <1>2, <1>3, <1>4 DEF BoardKeeps, NoOrphans, JobExists
  <1> QED
    BY <1>3, <1>5, <1>6 DEF BoardKeeps, IdsUnique, OneApplicationEach

-----------------------------------------------------------------------------
(* Theorems.                                                               *)

\* The board keeps all its promises together.
THEOREM BoardInvariant == BoardSpec => []BoardKeeps
  <1>1. BoardInit => BoardKeeps
    BY DEF BoardInit, BoardKeeps, BoardTypes, JobStates, NoOrphans, IdsUnique, OneApplicationEach
  <1>2. BoardKeeps /\ [BoardNext]_boardVars => BoardKeeps'
    <2> SUFFICES ASSUME BoardKeeps, [BoardNext]_boardVars PROVE BoardKeeps'
      OBVIOUS
    <2>1. ASSUME NEW j \in Jobs, Post(j) \/ Close(j)
          PROVE  BoardKeeps'
      <3>1. /\ jobs' \in [Jobs -> JobStates]
            /\ \A k \in Jobs : JobExists(k) => JobExists(k)'
        BY <2>1 DEF Post, Close, BoardKeeps, BoardTypes, JobStates, JobExists
      <3> QED
        BY <2>1, <3>1, AppsStay DEF Post, Close, BoardKeeps, BoardTypes
    <2>2. ASSUME NEW s \in Seekers, NEW j \in Jobs, Save(s, j) \/ Unsave(s, j)
          PROVE  BoardKeeps'
      <3>1. /\ UNCHANGED <<jobs, apps>>
            /\ \A b \in saved' : b \in saved \/ (b = <<s, j>> /\ JobExists(j))
        BY <2>2 DEF Save, Unsave
      <3>2. saved' \subseteq Seekers \X Jobs /\ \A b \in saved' : b \in saved \/ JobExists(b[2])
        BY <3>1 DEF BoardKeeps, BoardTypes
      <3> QED
        BY <3>1, <3>2, AppsStay DEF BoardKeeps, BoardTypes, JobExists
    <2>3. ASSUME NEW a \in apps, Withdraw(a)
          PROVE  BoardKeeps'
      BY <2>3, FewerApps DEF Withdraw
    <2>4. CASE UNCHANGED boardVars
      BY <2>4, FewerApps DEF boardVars
    <2> QED
      BY <2>1, <2>2, <2>3, <2>4, DeleteKeeps, ApplyKeeps, DecideKeeps, ClearKeeps DEF BoardNext
  <1> QED
    BY <1>1, <1>2, PTL DEF BoardSpec

\* Whatever implements the board has no orphaned rows and no identity twice.
THEOREM BoardHasNoOrphans == BoardSpec => [](NoOrphans /\ IdsUnique)
  <1>1. BoardKeeps => NoOrphans /\ IdsUnique
    BY DEF BoardKeeps
  <1> QED
    BY <1>1, BoardInvariant, PTL

\* A board that promises one application per seeker and job keeps it so,
\* through every decision and deletion.
THEOREM BoardTakesOneEach == OnePerJob /\ BoardSpec => []OneApplicationEach
  <1>1. BoardKeeps /\ OnePerJob => OneApplicationEach
    BY DEF BoardKeeps
  <1>2. CASE ~OnePerJob
    BY <1>2
  <1>3. CASE OnePerJob
    <2>1. BoardKeeps => OneApplicationEach
      BY <1>1, <1>3
    <2> QED
      BY <2>1, BoardInvariant, PTL
  <1> QED
    BY <1>2, <1>3
=============================================================================
