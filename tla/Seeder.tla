-------------------------------- MODULE Seeder --------------------------------
(***************************************************************************)
(* The stand-alone seeder (cmd/seed/main.go): it applies the migrations,   *)
(* empties six tables and inserts the demo data, statement by statement    *)
(* and without a transaction.  An error of a DELETE is a warning, one of   *)
(* an INSERT ends the run (must).  Runs overlap each other and a server    *)
(* that registers accounts, fail, and are killed half way.                 *)
(***************************************************************************)
EXTENDS Naturals, Sequences, FiniteSets

CONSTANTS
    Runs,         \* runs of the seeder, each started at most once
    MaxFaulty,    \* bound: how many runs have statements that fail by themselves
    MaxVisitors   \* bound: how many accounts the server registers

ASSUME SeederAssumption == MaxFaulty \in Nat /\ MaxVisitors \in Nat

VARIABLES
    rows,      \* the rows of the six tables
    step,      \* step[r]: how many statements of the script run r has behind it
    status,    \* status[r]: is r running, or how has it ended?
    alone,     \* runs that nobody else has interfered with, from their start on
    faults,    \* runs of which a statement has failed for reasons of its own
    visitors   \* how many accounts have been registered

vars == <<rows, step, status, alone, faults, visitors>>

-----------------------------------------------------------------------------
(* The demo data and the script.                                           *)

Tables == {"users", "recruiter_profiles", "job_seeker_profiles", "jobs",
           "applications", "saved_jobs"}

\* The foreign keys, all of them ON DELETE CASCADE.  A row of users is named
\* after its email, which is UNIQUE.
TableOf ==
    [admin |-> "users", recruiter |-> "users", seeker |-> "users",
     visitor |-> "users",
     recruiterProfile |-> "recruiter_profiles",
     seekerProfile |-> "job_seeker_profiles",
     job |-> "jobs", application |-> "applications", savedJob |-> "saved_jobs"]

Names == DOMAIN TableOf

Parents(n) ==
    CASE n = "recruiterProfile"            -> {"recruiter"}
      [] n = "job"                         -> {"recruiterProfile"}
      [] n = "seekerProfile"               -> {"seeker"}
      [] n \in {"application", "savedJob"} -> {"job", "seekerProfile"}
      [] OTHER                             -> {}

\* All that a row hangs on, directly or through another one.
Above(n) ==
    LET up(S) == S \cup UNION {Parents(m) : m \in S} IN up(up(Parents(n)))

Emails == {n \in Names : TableOf[n] = "users"}

\* Rows are told apart by who inserted them; a run links its own rows, by the
\* ids that RETURNING gave it.
Server == "server"
Rows == [name : Names, by : Runs \cup {Server}]

Emptied == <<"saved_jobs", "applications", "jobs", "job_seeker_profiles",
             "recruiter_profiles", "users">>
Inserted == <<"admin", "recruiter", "recruiterProfile", "job", "seeker",
              "seekerProfile", "application", "savedJob">>

\* Mutant: the tables are emptied, but for the accounts.
KeepUsers ==
    <<[do |-> "migrate"]>>
        \o [i \in 1 .. 5 |-> [do |-> "delete", table |-> Emptied[i]]]
        \o [i \in 1 .. 8 |-> [do |-> "insert", name |-> Inserted[i]]]

Script ==
    <<[do |-> "migrate"]>>
        \o [i \in 1 .. 6 |-> [do |-> "delete", table |-> Emptied[i]]]
        \o [i \in 1 .. 8 |-> [do |-> "insert", name |-> Inserted[i]]]

TypeOK ==
    /\ rows \subseteq Rows
    /\ step \in [Runs -> 0 .. Len(Script)]
    /\ status \in [Runs -> {"unstarted", "running", "complete", "error", "killed"}]
    /\ alone \subseteq Runs
    /\ faults \subseteq Runs
    /\ visitors \in 0 .. MaxVisitors

Init ==
    /\ rows = {}
    /\ step = [r \in Runs |-> 0]
    /\ status = [r \in Runs |-> "unstarted"]
    /\ alone = {}
    /\ faults = {}
    /\ visitors = 0

Running == {r \in Runs : status[r] = "running"}

-----------------------------------------------------------------------------
(* One run.                                                                *)

Begin(r) ==
    /\ status[r] = "unstarted"
    /\ status' = [status EXCEPT ![r] = "running"]
    /\ alone' = IF Running = {} THEN alone \cup {r} ELSE alone \ Running
    /\ UNCHANGED <<rows, step, faults, visitors>>

At(r, do) ==
    /\ r \in Running
    /\ Script[step[r] + 1].do = do

\* The next statement, or "Seeding complete!".
Advance(r) ==
    /\ step' = [step EXCEPT ![r] = @ + 1]
    /\ status' = [status EXCEPT ![r] =
                    IF step[r] + 1 = Len(Script) THEN "complete" ELSE "running"]

\* os.Exit(1)
Exit(r) ==
    /\ status' = [status EXCEPT ![r] = "error"]
    /\ UNCHANGED step

Fault(r) ==
    /\ Cardinality(faults) < MaxFaulty
    /\ faults' = faults \cup {r}

\* The migration leaves alone what is there.  Two at once get in each other's
\* way: IF NOT EXISTS looks before it creates, and OR REPLACE does not wait.
Migrate(r) ==
    /\ At(r, "migrate")
    /\ \/ Advance(r) /\ UNCHANGED faults
       \/ Exit(r) /\ (\E q \in Runs \ {r} : At(q, "migrate")) /\ UNCHANGED faults
       \/ Exit(r) /\ Fault(r)
    /\ UNCHANGED <<rows, alone, visitors>>

\* DELETE FROM t, which takes along the rows that refer to those of t.
Delete(r) ==
    /\ At(r, "delete")
    /\ LET t == Script[step[r] + 1].table
           gone == {x \in rows : \E n \in {x.name} \cup Above(x.name) : TableOf[n] = t}
       IN  \/ UNCHANGED faults /\ rows' = rows \ gone
           \/ Fault(r) /\ (UNCHANGED rows \/ rows' = rows \ gone)
    /\ Advance(r)
    /\ UNCHANGED <<alone, visitors>>

\* Mutant: two accounts can have the same email.
AcceptsAnyEmail(n, r) ==
    \A p \in Parents(n) : [name |-> p, by |-> r] \in rows

\* PostgreSQL accepts an account of this email, or a row that refers to rows
\* of r.
Accepts(n, r) ==
    /\ n \in Emails => \A x \in rows : x.name # n
    /\ \A p \in Parents(n) : [name |-> p, by |-> r] \in rows

\* Mutant: the error of an INSERT is a warning too.
InsertOrWarn(r) ==
    /\ At(r, "insert")
    /\ LET n == Script[step[r] + 1].name IN
          rows' = IF Accepts(n, r) THEN rows \cup {[name |-> n, by |-> r]} ELSE rows
    /\ Advance(r)
    /\ UNCHANGED <<faults, alone, visitors>>

\* INSERT ... RETURNING id, and must.
Insert(r) ==
    /\ At(r, "insert")
    /\ LET n == Script[step[r] + 1].name
           more == rows \cup {[name |-> n, by |-> r]}
       IN  \/ Accepts(n, r) /\ rows' = more /\ Advance(r) /\ UNCHANGED faults
           \/ ~Accepts(n, r) /\ Exit(r) /\ UNCHANGED <<rows, faults>>
           \/ /\ Fault(r)
              /\ Exit(r)
              /\ (UNCHANGED rows \/ (Accepts(n, r) /\ rows' = more))
    /\ UNCHANGED <<alone, visitors>>

Kill(r) ==
    /\ r \in Running
    /\ status' = [status EXCEPT ![r] = "killed"]
    /\ UNCHANGED <<rows, step, alone, faults, visitors>>

-----------------------------------------------------------------------------
\* A server on the same database registers an account, whose email may be one
\* of the demo data's.
Register(n) ==
    /\ visitors < MaxVisitors
    /\ \A x \in rows : x.name # n
    /\ rows' = rows \cup {[name |-> n, by |-> Server]}
    /\ visitors' = visitors + 1
    /\ alone' = alone \ Running
    /\ UNCHANGED <<step, status, faults>>

Next ==
    \/ \E r \in Runs : Begin(r) \/ Migrate(r) \/ Delete(r) \/ Insert(r) \/ Kill(r)
    \/ \E n \in Emails : Register(n)

Spec == Init /\ [][Next]_vars

-----------------------------------------------------------------------------
(* Properties.                                                             *)

Demo(r) == {[name |-> Inserted[i], by |-> r] : i \in 1 .. Len(Inserted)}

\* "Seeding complete!" can be believed: a run that nobody interfered with has
\* then left the demo data, whole, and, unless a DELETE of it failed, nothing
\* else, whatever was in the tables before and whatever warnings it printed.
CompleteMeansSeeded ==
    [][\A r \in alone :
          status[r] = "running" /\ status'[r] = "complete" =>
              /\ Demo(r) \subseteq rows'
              /\ r \notin faults => rows' = Demo(r)]_vars

\* Half of the demo data, or two halves of two runs, is nothing that running
\* the seeder once more would not repair: a run fails only if a statement of
\* it does, or if somebody else is at work in the same tables.
RerunRepairs ==
    \A r \in alone \ faults : status[r] # "error"

\* Runs that overlap take each other's rows, or fail on them, and both can
\* end with an error.  But a run that goes on to the end while the others fail
\* does not leave two halves: each row of the demo data is then there once,
\* whoever inserted it.
Seeded ==
    /\ {x.name : x \in rows} = {Inserted[i] : i \in 1 .. Len(Inserted)}
    /\ \A x, y \in rows : x.name = y.name => x = y
LastToCompleteSeeds ==
    [][\A r \in Runs :
          /\ Running = {r} /\ status'[r] = "complete"
          /\ faults = {} /\ visitors = 0 /\ \A q \in Runs : status[q] # "killed"
          => Seeded']_vars
=============================================================================
