---------------------------- MODULE Seeder_proofs ----------------------------
(***************************************************************************)
(* What holds of the seeder however many runs of it there are and whatever *)
(* they, and the server, have left in the tables.                          *)
(*                                                                         *)
(* A run that nobody has interfered with is the only one at work, so the   *)
(* rows are what its own statements have made of them.  Of runs that       *)
(* overlap, it is the last one to insert that counts: the invariant says   *)
(* what the others can have left in its way.                               *)
(***************************************************************************)
EXTENDS Seeder, TLAPS

\* The first k rows of the demo data, as run r inserts them.
First(r, k) == {[name |-> Inserted[i], by |-> r] : i \in 1 .. k}

StepInv ==
    \A r \in Runs : /\ status[r] = "unstarted" => step[r] = 0 /\ r \notin alone
                    /\ status[r] = "running" => step[r] < 15

\* What is left behind by the statements of a run that nobody disturbs.
Progress(r) ==
    /\ step[r] >= 7 => First(r, step[r] - 7) \subseteq rows
    /\ r \notin faults =>
          /\ \A k \in 1 .. 6 : k < step[r] /\ step[r] <= 7 =>
                \A x \in rows : TableOf[x.name] # Emptied[k]
          /\ step[r] >= 7 => rows = First(r, step[r] - 7)

AloneInv ==
    \A r \in alone : /\ status[r] = "running" => Running = {r} /\ Progress(r)
                     /\ status[r] = "error" => r \in faults

Inv == TypeOK /\ StepInv /\ AloneInv

-----------------------------------------------------------------------------
(* The script and the demo data.                                           *)

LEMMA Joined ==
    ASSUME NEW S, NEW s \in Seq(S), NEW t \in Seq(S), NEW both, both = s \o t
    PROVE  /\ both \in Seq(S)
           /\ Len(both) = Len(s) + Len(t)
           /\ \A k \in 1 .. Len(s) : both[k] = s[k]
           /\ \A k \in 1 .. Len(t) : both[Len(s) + k] = t[k]
<1>1. /\ s \o t \in Seq(S)
      /\ Len(s \o t) = Len(s) + Len(t)
      /\ \A k \in 1 .. Len(s) : (s \o t)[k] = s[k]
      /\ \A k \in 1 .. Len(t) : (s \o t)[Len(s) + k] = t[k]
  OBVIOUS
<1> QED BY <1>1, Zenon

\* A function from 1 .. n is a sequence.
LEMMA IsSequence ==
    ASSUME NEW S, NEW n \in Nat, NEW f \in [1 .. n -> S]
    PROVE  f \in Seq(S) /\ Len(f) = n
  OBVIOUS

LEMMA ScriptShape ==
    /\ Len(Script) = 15
    /\ Script[1] = [do |-> "migrate"]
    /\ \A i \in 1 .. 6 : Script[i + 1] = [do |-> "delete", table |-> Emptied[i]]
    /\ \A i \in 1 .. 8 : Script[i + 7] = [do |-> "insert", name |-> Inserted[i]]
<1>1. PICK m : m = <<[do |-> "migrate"]>>
  OBVIOUS
<1>2. PICK d : d = [i \in 1 .. 6 |-> [do |-> "delete", table |-> Emptied[i]]]
  OBVIOUS
<1>3. PICK n : n = [i \in 1 .. 8 |-> [do |-> "insert", name |-> Inserted[i]]]
  OBVIOUS
<1>4. PICK S : S = {m[1]} \cup {d[i] : i \in 1 .. 6} \cup {n[i] : i \in 1 .. 8}
  OBVIOUS
<1>5. m \in Seq(S) /\ d \in Seq(S) /\ n \in Seq(S)
  <2>1. m \in Seq(S)
    BY <1>1, <1>4
  <2>2. d \in [1 .. 6 -> S] /\ n \in [1 .. 8 -> S]
    BY <1>2, <1>3, <1>4
  <2> QED BY <2>1, <2>2, IsSequence
<1>6. Len(m) = 1 /\ Len(d) = 6 /\ Len(n) = 8
  <2>1. d \in [1 .. 6 -> S] /\ n \in [1 .. 8 -> S]
    BY <1>2, <1>3, <1>4
  <2>2. Len(m) = 1
    BY <1>1
  <2> QED BY <2>1, <2>2, IsSequence
<1>7. PICK md : md = m \o d
  OBVIOUS
<1>8. /\ md \in Seq(S)
      /\ Len(md) = Len(m) + Len(d)
      /\ \A k \in 1 .. Len(m) : md[k] = m[k]
      /\ \A k \in 1 .. Len(d) : md[Len(m) + k] = d[k]
  BY <1>5, <1>7, Joined
<1>9. Len(md) = 7
  BY <1>6, <1>8
<1>10. Script = md \o n
  BY <1>1, <1>2, <1>3, <1>7 DEF Script
<1>11. /\ Len(Script) = Len(md) + Len(n)
       /\ \A k \in 1 .. Len(md) : Script[k] = md[k]
       /\ \A k \in 1 .. Len(n) : Script[Len(md) + k] = n[k]
  <2>1. md \in Seq(S) /\ n \in Seq(S)
    BY <1>5, <1>8
  <2> QED BY <2>1, <1>10, Joined
<1>12. md[1] = m[1] /\ \A k \in 1 .. 6 : md[1 + k] = d[k]
  BY <1>6, <1>8
<1>13. /\ Len(Script) = 15
       /\ \A k \in 1 .. 7 : Script[k] = md[k]
       /\ \A k \in 1 .. 8 : Script[7 + k] = n[k]
  BY <1>6, <1>9, <1>11
<1>14. Script[1] = [do |-> "migrate"]
  BY <1>1, <1>12, <1>13
<1>15. \A i \in 1 .. 6 : Script[i + 1] = [do |-> "delete", table |-> Emptied[i]]
  BY <1>2, <1>12, <1>13
<1>16. \A i \in 1 .. 8 : Script[i + 7] = [do |-> "insert", name |-> Inserted[i]]
  BY <1>3, <1>13
<1> QED BY <1>13, <1>14, <1>15, <1>16

\* Which statement a run is at.
LEMMA StatementAt ==
    ASSUME TypeOK, StepInv, NEW r \in Runs, NEW do, At(r, do)
    PROVE  /\ step[r] \in 0 .. 14 /\ status[r] = "running"
           /\ do = "migrate" => step[r] = 0
           /\ do = "delete" => /\ step[r] \in 1 .. 6
                               /\ Script[step[r] + 1].table = Emptied[step[r]]
           /\ do = "insert" => /\ step[r] \in 7 .. 14
                               /\ Script[step[r] + 1].name = Inserted[step[r] - 6]
<1>1. status[r] = "running" /\ Script[step[r] + 1].do = do
  BY DEF At, Running
<1>2. step[r] \in 0 .. 14
  BY <1>1, ScriptShape DEF TypeOK, StepInv
<1>3. CASE step[r] = 0
  BY <1>1, <1>3, ScriptShape
<1>4. CASE step[r] \in 1 .. 6
  <2>1. Script[step[r] + 1] = [do |-> "delete", table |-> Emptied[step[r]]]
    BY <1>4, ScriptShape
  <2> QED BY <1>1, <1>2, <1>4, <2>1
<1>5. CASE step[r] \in 7 .. 14
  <2>1. step[r] - 6 \in 1 .. 8 /\ step[r] + 1 = (step[r] - 6) + 7
    BY <1>5
  <2>2. Script[step[r] + 1] = [do |-> "insert", name |-> Inserted[step[r] - 6]]
    BY <2>1, ScriptShape
  <2> QED BY <1>1, <1>2, <1>5, <2>2
<1> QED BY <1>2, <1>3, <1>4, <1>5

\* Every table is emptied, and every row of the demo data has a name.
LEMMA DemoNames ==
    /\ \A n \in Names : \E k \in 1 .. 6 : TableOf[n] = Emptied[k]
    /\ \A i \in 1 .. 8 : Inserted[i] \in Names
    /\ Len(Inserted) = 8
<1>1. Names = {"admin", "recruiter", "seeker", "visitor", "recruiterProfile",
               "seekerProfile", "job", "application", "savedJob"}
  BY DEF Names, TableOf
<1>2. \A n \in Names : TableOf[n] \in Tables
  BY <1>1 DEF TableOf, Tables
<1>3. \A t \in Tables : \E k \in 1 .. 6 : t = Emptied[k]
  BY DEF Tables, Emptied
<1>4. \A i \in 1 .. 8 : Inserted[i] \in Names
  BY <1>1 DEF Inserted
<1>5. Len(Inserted) = 8
  BY DEF Inserted
<1> QED BY <1>2, <1>3, <1>4, <1>5

\* The demo data can be inserted in its order: the names differ, and what a
\* row refers to comes first.
LEMMA DemoOrder ==
    ASSUME NEW k \in 1 .. 8
    PROVE  /\ \A i \in 1 .. k - 1 : Inserted[i] # Inserted[k]
           /\ \A p \in Parents(Inserted[k]) : \E i \in 1 .. k - 1 : p = Inserted[i]
<1>1. \A i \in 1 .. k - 1 : Inserted[i] # Inserted[k]
  BY DEF Inserted
<1>2. \A p \in Parents(Inserted[k]) : \E i \in 1 .. k - 1 : p = Inserted[i]
  <2>1. CASE k \in {1, 2, 5}
    BY <2>1 DEF Inserted, Parents
  <2>2. CASE k = 3
    BY <2>2 DEF Inserted, Parents
  <2>3. CASE k = 4
    BY <2>3 DEF Inserted, Parents
  <2>4. CASE k = 6
    BY <2>4 DEF Inserted, Parents
  <2>5. CASE k \in {7, 8}
    <3>1. Parents(Inserted[k]) = {"job", "seekerProfile"}
      BY <2>5 DEF Inserted, Parents
    <3>2. Inserted[4] = "job" /\ Inserted[6] = "seekerProfile"
      BY DEF Inserted
    <3> QED BY <2>5, <3>1, <3>2
  <2> QED BY <2>1, <2>2, <2>3, <2>4, <2>5
<1> QED BY <1>1, <1>2

LEMMA DemoGrows ==
    ASSUME NEW r, NEW k \in Nat
    PROVE  First(r, k + 1) = First(r, k) \cup {[name |-> Inserted[k + 1], by |-> r]}
<1>1. 1 .. k + 1 = (1 .. k) \cup {k + 1}
  OBVIOUS
<1> QED BY <1>1 DEF First

-----------------------------------------------------------------------------
LEMMA InitInv == Init => Inv
<1> SUFFICES ASSUME Init PROVE Inv
  OBVIOUS
<1>1. TypeOK
  BY ScriptShape, SeederAssumption DEF Init, TypeOK
<1>2. StepInv /\ AloneInv
  BY DEF Init, StepInv, AloneInv
<1> QED BY <1>1, <1>2 DEF Inv

LEMMA TypeStep == TypeOK /\ StepInv /\ [Next]_vars => TypeOK' /\ StepInv'
<1> SUFFICES ASSUME TypeOK, StepInv, [Next]_vars PROVE TypeOK' /\ StepInv'
  OBVIOUS
<1>1. ASSUME NEW r \in Runs, NEW do, At(r, do), Advance(r)
      PROVE  /\ step' \in [Runs -> 0 .. Len(Script)]
             /\ status' \in [Runs -> {"unstarted", "running", "complete", "error", "killed"}]
             /\ \A q \in Runs : status'[q] = "unstarted" => step'[q] = 0 /\ q \notin alone
             /\ \A q \in Runs : status'[q] = "running" => step'[q] < 15
  BY <1>1, StatementAt, ScriptShape DEF Advance, TypeOK, StepInv
<1>2. ASSUME NEW r \in Runs, NEW do, At(r, do), Exit(r)
      PROVE  /\ step' \in [Runs -> 0 .. Len(Script)]
             /\ status' \in [Runs -> {"unstarted", "running", "complete", "error", "killed"}]
             /\ \A q \in Runs : status'[q] = "unstarted" => step'[q] = 0 /\ q \notin alone
             /\ \A q \in Runs : status'[q] = "running" => step'[q] < 15
  BY <1>2, StatementAt, ScriptShape DEF Exit, TypeOK, StepInv
<1>3. ASSUME NEW r \in Runs, Begin(r) PROVE TypeOK' /\ StepInv'
  BY <1>3, ScriptShape DEF Begin, TypeOK, StepInv, Running
<1>4. ASSUME NEW r \in Runs, Migrate(r) PROVE TypeOK' /\ StepInv'
  BY <1>1, <1>2, <1>4 DEF Migrate, Fault, TypeOK, StepInv
<1>5. ASSUME NEW r \in Runs, Delete(r) PROVE TypeOK' /\ StepInv'
  BY <1>1, <1>5 DEF Delete, Fault, TypeOK, StepInv
<1>6. ASSUME NEW r \in Runs, Insert(r) PROVE TypeOK' /\ StepInv'
  <2>1. [name |-> Script[step[r] + 1].name, by |-> r] \in Rows
    BY <1>6, StatementAt, DemoNames DEF Insert, Rows
  <2> QED BY <1>1, <1>2, <1>6, <2>1 DEF Insert, Fault, TypeOK, StepInv
<1>7. ASSUME NEW r \in Runs, Kill(r) PROVE TypeOK' /\ StepInv'
  BY <1>7 DEF Kill, TypeOK, StepInv
<1>8. ASSUME NEW n \in Emails, Register(n) PROVE TypeOK' /\ StepInv'
  BY <1>8, SeederAssumption DEF Register, TypeOK, StepInv, Emails, Rows, Server
<1>9. CASE UNCHANGED vars
  BY <1>9 DEF vars, TypeOK, StepInv
<1> QED BY <1>3, <1>4, <1>5, <1>6, <1>7, <1>8, <1>9 DEF Next

-----------------------------------------------------------------------------
(* A run that nobody disturbs.                                             *)

LEMMA OthersAreNotAlone ==
    ASSUME Inv, NEW r \in Running, NEW q \in alone, q # r
    PROVE  status[q] # "running"
  BY DEF Inv, AloneInv, Running

LEMMA AfterAdvance ==
    ASSUME Inv, NEW r \in Running, Advance(r), alone' = alone,
           faults \subseteq faults', r \in alone => Progress(r)'
    PROVE  AloneInv'
<1> SUFFICES ASSUME NEW q \in alone
             PROVE  /\ status'[q] = "running" => Running' = {q} /\ Progress(q)'
                    /\ status'[q] = "error" => q \in faults'
  BY DEF AloneInv
<1>1. CASE q = r
  <2>1. Running = {r} /\ status'[r] # "error"
    BY <1>1 DEF Inv, AloneInv, Advance, TypeOK, Running
  <2>2. status'[r] = "running" => Running' = {r}
    BY <2>1 DEF Running, Advance, Inv, TypeOK
  <2> QED BY <1>1, <2>1, <2>2
<1>2. CASE q # r
  <2>1. status'[q] = status[q] /\ status[q] # "running"
    BY <1>2, OthersAreNotAlone DEF Advance, Inv, TypeOK
  <2> QED BY <2>1 DEF Inv, AloneInv
<1> QED BY <1>1, <1>2

LEMMA AfterExit ==
    ASSUME Inv, NEW r \in Running, Exit(r), alone' = alone,
           faults \subseteq faults', r \in alone => r \in faults'
    PROVE  AloneInv'
<1> SUFFICES ASSUME NEW q \in alone
             PROVE  /\ status'[q] = "running" => Running' = {q} /\ Progress(q)'
                    /\ status'[q] = "error" => q \in faults'
  BY DEF AloneInv
<1>1. CASE q = r
  BY <1>1 DEF Exit, Inv, TypeOK, Running
<1>2. CASE q # r
  <2>1. status'[q] = status[q] /\ status[q] # "running"
    BY <1>2, OthersAreNotAlone DEF Exit, Inv, TypeOK
  <2> QED BY <2>1 DEF Inv, AloneInv
<1> QED BY <1>1, <1>2

\* What a DELETE does for the next step, when it does not fail.
LEMMA DeletesProgress ==
    ASSUME Inv, NEW r \in alone, Delete(r) PROVE Progress(r)'
<1> DEFINE k == step[r]
           gone == {x \in rows : \E n \in {x.name} \cup Above(x.name) :
                                    TableOf[n] = Emptied[k]}
<1>1. /\ k \in 1 .. 6 /\ step'[r] = k + 1
      /\ Script[step[r] + 1].table = Emptied[k]
      /\ Progress(r) /\ r \in Runs
  BY StatementAt DEF Delete, Inv, TypeOK, Advance, AloneInv
<1>2. First(r, step'[r] - 7) \subseteq rows' \/ step'[r] < 7
  BY <1>1 DEF First
<1>3. ASSUME r \notin faults'
      PROVE  rows' = rows \ gone /\ r \notin faults
  BY <1>1, <1>3 DEF Delete, Fault
<1>4. ASSUME r \notin faults', NEW i \in 1 .. 6, i < step'[r], NEW x \in rows'
      PROVE  TableOf[x.name] # Emptied[i]
  <2>1. CASE i = k
    BY <1>3, <1>4, <2>1
  <2>2. CASE i < k
    BY <1>1, <1>3, <1>4, <2>2 DEF Progress
  <2> QED BY <1>1, <1>4, <2>1, <2>2
<1>5. ASSUME r \notin faults', step'[r] >= 7
      PROVE  rows' = First(r, step'[r] - 7)
  <2>1. step'[r] = 7
    BY <1>1, <1>5
  <2>2. \A x \in rows' : x.name \in Names
    BY <1>3, <1>5 DEF Inv, TypeOK, Rows
  <2>3. rows' = {}
    BY <1>4, <1>5, <2>1, <2>2, DemoNames
  <2> QED BY <2>1, <2>3 DEF First
<1> HIDE DEF k, gone
<1>6. step'[r] >= 7 => First(r, step'[r] - 7) \subseteq rows'
  BY <1>1, <1>2
<1> QED BY <1>4, <1>5, <1>6 DEF Progress, First

\* What an INSERT does for the next step.
LEMMA InsertsProgress ==
    ASSUME Inv, NEW r \in alone, At(r, "insert"), Advance(r), faults' = faults,
           rows' = rows \cup {[name |-> Script[step[r] + 1].name, by |-> r]}
    PROVE  Progress(r)'
<1>1. /\ step[r] \in 7 .. 14 /\ step'[r] = step[r] + 1
      /\ Script[step[r] + 1].name = Inserted[step[r] - 6]
      /\ Progress(r) /\ r \in Runs
  BY StatementAt DEF Inv, TypeOK, Advance, AloneInv
<1>2. First(r, step'[r] - 7)
         = First(r, step[r] - 7) \cup {[name |-> Inserted[step[r] - 6], by |-> r]}
  <2>1. step[r] - 7 \in Nat /\ step'[r] - 7 = (step[r] - 7) + 1
        /\ step[r] - 6 = (step[r] - 7) + 1
    BY <1>1
  <2> QED BY <2>1, DemoGrows
<1>3. First(r, step'[r] - 7) \subseteq rows'
  BY <1>1, <1>2 DEF Progress
<1>4. r \notin faults => rows' = First(r, step'[r] - 7)
  BY <1>1, <1>2 DEF Progress
<1>5. ~(step'[r] <= 7)
  BY <1>1
<1> QED BY <1>3, <1>4, <1>5 DEF Progress, First

\* No INSERT of such a run is refused.
LEMMA AcceptsAlone ==
    ASSUME Inv, NEW r \in alone, r \notin faults, At(r, "insert")
    PROVE  Accepts(Script[step[r] + 1].name, r)
<1>1. /\ step[r] \in 7 .. 14
      /\ Script[step[r] + 1].name = Inserted[step[r] - 6]
      /\ rows = First(r, step[r] - 7)
  BY StatementAt DEF Inv, TypeOK, AloneInv, Progress
<1>2. PICK k \in 1 .. 8 : k = step[r] - 6
  BY <1>1
<1>3. rows = First(r, k - 1)
  BY <1>1, <1>2
<1>4. \A x \in rows : x.name # Inserted[k]
  BY <1>3, DemoOrder DEF First
<1>5. \A p \in Parents(Inserted[k]) : [name |-> p, by |-> r] \in rows
  BY <1>3, DemoOrder DEF First
<1> QED BY <1>1, <1>2, <1>4, <1>5 DEF Accepts

LEMMA AloneStep == Inv /\ [Next]_vars => AloneInv'
<1> SUFFICES ASSUME Inv, [Next]_vars PROVE AloneInv'
  OBVIOUS
<1>1. ASSUME NEW r \in Runs, Begin(r) PROVE AloneInv'
  <2>1. r \notin alone /\ step[r] = 0 /\ Running' = Running \cup {r}
    BY <1>1 DEF Begin, Inv, StepInv, TypeOK, Running
  <2>2. CASE Running = {}
    <3>1. Progress(r)'
      BY <1>1, <2>1 DEF Begin, Progress
    <3>2. \A q \in alone : status'[q] = status[q] /\ status[q] # "running"
      BY <1>1, <2>1, <2>2 DEF Begin, Inv, TypeOK, Running
    <3>3. status'[r] = "running" /\ Running' = {r}
      BY <1>1, <2>1, <2>2 DEF Begin, Inv, TypeOK
    <3> QED BY <1>1, <2>2, <3>1, <3>2, <3>3 DEF Begin, Inv, AloneInv
  <2>3. CASE Running # {}
    BY <1>1, <2>1, <2>3 DEF Begin, Inv, AloneInv, TypeOK, Running
  <2> QED BY <2>2, <2>3
<1>2. ASSUME NEW r \in Runs, Migrate(r) PROVE AloneInv'
  <2>1. /\ r \in Running /\ step[r] = 0 /\ alone' = alone /\ rows' = rows
        /\ faults \subseteq faults'
    BY <1>2, StatementAt DEF Migrate, At, Inv, Fault
  <2>2. CASE Advance(r)
    <3>1. step'[r] = 1
      BY <2>1, <2>2 DEF Advance, Inv, TypeOK
    <3>2. Progress(r)'
      BY <3>1 DEF Progress
    <3> QED BY <2>1, <2>2, <3>2, AfterAdvance
  <2>3. CASE Exit(r) /\ \E q \in Runs \ {r} : At(q, "migrate")
    <3>1. r \notin alone
      BY <2>1, <2>3 DEF Inv, AloneInv, At, Running
    <3> QED BY <2>1, <2>3, <3>1, AfterExit
  <2>4. CASE Exit(r) /\ Fault(r)
    <3>1. r \in faults'
      BY <2>4 DEF Fault
    <3> QED BY <2>1, <2>4, <3>1, AfterExit
  <2> QED BY <1>2, <2>2, <2>3, <2>4 DEF Migrate
<1>3. ASSUME NEW r \in Runs, Delete(r) PROVE AloneInv'
  <2>1. /\ r \in Running /\ Advance(r) /\ alone' = alone
        /\ faults \subseteq faults'
    BY <1>3 DEF Delete, At, Fault
  <2>2. r \in alone => Progress(r)'
    BY <1>3, DeletesProgress
  <2> QED BY <2>1, <2>2, AfterAdvance
<1>4. ASSUME NEW r \in Runs, Insert(r) PROVE AloneInv'
  <2>1. /\ r \in Running /\ At(r, "insert") /\ alone' = alone
        /\ faults \subseteq faults'
    BY <1>4 DEF Insert, At, Fault
  <2> DEFINE n == Script[step[r] + 1].name
  <2>2. CASE /\ Advance(r) /\ faults' = faults
             /\ rows' = rows \cup {[name |-> n, by |-> r]}
    BY <2>1, <2>2, InsertsProgress, AfterAdvance
  <2>3. CASE Exit(r) /\ ~Accepts(n, r)
    <3>1. r \in alone => r \in faults'
      BY <2>1, <2>3, AcceptsAlone
    <3> QED BY <2>1, <2>3, <3>1, AfterExit
  <2>4. CASE Exit(r) /\ Fault(r)
    <3>1. r \in faults'
      BY <2>4 DEF Fault
    <3> QED BY <2>1, <2>4, <3>1, AfterExit
  <2> QED BY <1>4, <2>2, <2>3, <2>4 DEF Insert
<1>5. ASSUME NEW r \in Runs, Kill(r) PROVE AloneInv'
  <2>1. \A q \in alone : status'[q] = "running" => status[q] = "running" /\ q # r
    BY <1>5 DEF Kill, Inv, TypeOK
  <2>2. \A q \in alone : status'[q] # "running"
    BY <1>5, <2>1, OthersAreNotAlone DEF Kill
  <2>3. \A q \in alone : status'[q] = "error" => status[q] = "error"
    BY <1>5 DEF Kill, Inv, TypeOK
  <2> QED BY <1>5, <2>2, <2>3 DEF Kill, Inv, AloneInv
<1>6. ASSUME NEW n \in Emails, Register(n) PROVE AloneInv'
  BY <1>6 DEF Register, Inv, AloneInv, TypeOK, Running
<1>7. CASE UNCHANGED vars
  BY <1>7 DEF vars, Inv, AloneInv, Progress, Running
<1> QED BY <1>1, <1>2, <1>3, <1>4, <1>5, <1>6, <1>7 DEF Next

\* The step that completes a run is the INSERT of its last row.
LEMMA CompletesByInsert ==
    ASSUME Inv, Next, NEW r \in Runs, status[r] = "running", status'[r] = "complete"
    PROVE  Insert(r) /\ Advance(r) /\ step[r] = 14
<1>1. status \in [Runs -> {"unstarted", "running", "complete", "error", "killed"}]
  BY DEF Inv, TypeOK
<1>2. PICK q \in Runs : Begin(q) \/ Migrate(q) \/ Delete(q) \/ Insert(q) \/ Kill(q)
  BY DEF Next, Register
<1>3. ~Exit(q)
  BY <1>1, <1>2 DEF Exit
<1>4. ~Begin(q)
  BY <1>1, <1>2 DEF Begin
<1>5. ~Kill(q)
  BY <1>1, <1>2 DEF Kill
<1>6. Advance(q) /\ (Migrate(q) \/ Delete(q) \/ Insert(q))
  BY <1>2, <1>3, <1>4, <1>5 DEF Migrate, Delete, Insert
<1>7. q = r
  BY <1>1, <1>6 DEF Advance
<1>8. step[r] = 14
  BY <1>1, <1>6, <1>7, ScriptShape DEF Advance, Inv, TypeOK
<1>9. ~At(r, "migrate") /\ ~At(r, "delete")
  BY <1>8, StatementAt DEF Inv
<1> QED BY <1>6, <1>7, <1>8, <1>9 DEF Migrate, Delete

-----------------------------------------------------------------------------
(* Runs that overlap.                                                      *)

\* What each row hangs on.
LEMMA AboveNames ==
    /\ Above("recruiterProfile") = {"recruiter"}
    /\ Above("job") = {"recruiterProfile", "recruiter"}
    /\ Above("seekerProfile") = {"seeker"}
    /\ \A n \in {"application", "savedJob"} :
          Above(n) = {"job", "seekerProfile", "recruiterProfile", "seeker", "recruiter"}
    /\ \A n \in Emails : Parents(n) = {} /\ Above(n) = {}
<1>1. Emails = {"admin", "recruiter", "seeker", "visitor"}
  BY DEF Emails, Names, TableOf
<1>2. \A n \in Emails : Parents(n) = {}
  BY <1>1 DEF Parents
<1>3. /\ Parents("recruiterProfile") = {"recruiter"} /\ Parents("recruiter") = {}
      /\ Parents("job") = {"recruiterProfile"}
      /\ Parents("seekerProfile") = {"seeker"} /\ Parents("seeker") = {}
      /\ \A n \in {"application", "savedJob"} : Parents(n) = {"job", "seekerProfile"}
  BY DEF Parents
<1> QED BY <1>2, <1>3 DEF Above

\* What the parents of a row hang on, the row hangs on.
LEMMA AboveIsClosed ==
    ASSUME NEW n \in Names, NEW p \in Parents(n)
    PROVE  p \in Names /\ {p} \cup Above(p) \subseteq Above(n)
<1>1. n \in Emails \/ n \in {"recruiterProfile", "seekerProfile", "job", "application",
                              "savedJob"}
  BY DEF Emails, Names, TableOf
<1>2. n \notin Emails
  BY AboveNames
<1>3. CASE n \in {"recruiterProfile", "seekerProfile", "job"}
  BY <1>3, AboveNames DEF Parents, Emails, Names, TableOf
<1>4. CASE n \in {"application", "savedJob"}
  BY <1>4, AboveNames DEF Parents, Names, TableOf
<1> QED BY <1>1, <1>2, <1>3, <1>4

\* The foreign keys, and the unique emails.
LinkedInv == \A x \in rows : \A p \in Parents(x.name) : [name |-> p, by |-> x.by] \in rows
EmailsInv == \A x, y \in rows : x.name \in Emails /\ x.name = y.name => x = y

\* Without visitors, all rows are rows of the demo data.
DemoInv == visitors = 0 => \A x \in rows : \E i \in 1 .. 8 : x.name = Inserted[i]

Calm == faults = {} /\ visitors = 0 /\ \A q \in Runs : status[q] # "killed"

Someone(k) == \E q \in Running : step[q] = k

\* If another run has taken the admin of run r, it is about to insert one; if
\* it has taken the application of r, it is about to take its job too.
LeftInv ==
    Calm => \A r \in Running :
        /\ step[r] >= 8 => (\E x \in rows : x.name = "admin") \/ Someone(7)
        /\ /\ step[r] >= 14
           /\ [name |-> "job", by |-> r] \in rows
           /\ [name |-> "seekerProfile", by |-> r] \in rows
           => [name |-> "application", by |-> r] \in rows \/ Someone(3)

TogetherInv == Inv /\ LinkedInv /\ EmailsInv /\ DemoInv /\ LeftInv

OnceInv == \A x, y \in rows : x.name = y.name => x = y

\* A name is there once: two rows of one name hang on two accounts of one email.
LEMMA NamesOnce == TypeOK /\ LinkedInv /\ EmailsInv => OnceInv
<1> SUFFICES ASSUME TypeOK, LinkedInv, EmailsInv,
                    NEW x \in rows, NEW y \in rows, x.name = y.name
             PROVE  x = y
  BY DEF OnceInv
<1>1. x \in Rows /\ y \in Rows
  BY DEF TypeOK
<1>2. x.by = y.by => x = y
  BY <1>1 DEF Rows
<1>3. x.name \in Emails \/ x.name \in {"recruiterProfile", "seekerProfile", "job",
                                       "application", "savedJob"}
  BY <1>1 DEF Rows, Emails, Names, TableOf
<1>4. ASSUME NEW e \in {"recruiter", "seeker"},
             [name |-> e, by |-> x.by] \in rows, [name |-> e, by |-> y.by] \in rows
      PROVE  x.by = y.by
  <2>1. e \in Emails
    BY DEF Emails, Names, TableOf
  <2>2. [name |-> e, by |-> x.by] = [name |-> e, by |-> y.by]
    BY <1>4, <2>1 DEF EmailsInv
  <2> QED BY <2>2
<1>5. ASSUME NEW z \in rows
      PROVE  /\ z.name = "recruiterProfile" => [name |-> "recruiter", by |-> z.by] \in rows
             /\ z.name = "seekerProfile" => [name |-> "seeker", by |-> z.by] \in rows
             /\ z.name = "job" => [name |-> "recruiterProfile", by |-> z.by] \in rows
             /\ z.name \in {"application", "savedJob"}
                   => [name |-> "seekerProfile", by |-> z.by] \in rows
  BY DEF LinkedInv, Parents
<1>6. CASE x.name \in Emails
  BY <1>6 DEF EmailsInv
<1>7. CASE x.name \in {"recruiterProfile", "job"}
  BY <1>2, <1>4, <1>5, <1>7
<1>8. CASE x.name \in {"seekerProfile", "application", "savedJob"}
  BY <1>2, <1>4, <1>5, <1>8
<1> QED BY <1>3, <1>6, <1>7, <1>8

\* The foreign keys and the unique emails survive every statement.
LEMMA LinksStep ==
    TypeOK /\ StepInv /\ LinkedInv /\ EmailsInv /\ DemoInv /\ [Next]_vars
        => LinkedInv' /\ EmailsInv' /\ DemoInv'
<1> SUFFICES ASSUME TypeOK, StepInv, LinkedInv, EmailsInv, DemoInv, [Next]_vars
             PROVE  LinkedInv' /\ EmailsInv' /\ DemoInv'
  OBVIOUS
<1>1. \A x \in rows : x.name \in Names
  BY DEF TypeOK, Rows
<1>2. visitors' = 0 => visitors = 0
  BY DEF Next, Begin, Migrate, Delete, Insert, Kill, Register, vars, TypeOK
<1>3. CASE rows' = rows
  BY <1>2, <1>3 DEF LinkedInv, EmailsInv, DemoInv
<1>4. ASSUME NEW t, rows' = rows \ {x \in rows : \E n \in {x.name} \cup Above(x.name) :
                                                    TableOf[n] = t}
      PROVE  LinkedInv' /\ EmailsInv' /\ DemoInv'
  <2>1. ASSUME NEW x \in rows', NEW p \in Parents(x.name)
        PROVE  [name |-> p, by |-> x.by] \in rows'
    <3>1. x \in rows /\ \A n \in {x.name} \cup Above(x.name) : TableOf[n] # t
      BY <1>4
    <3>2. {p} \cup Above(p) \subseteq Above(x.name)
      BY <1>1, <3>1, AboveIsClosed
    <3>3. [name |-> p, by |-> x.by] \in rows
      BY <3>1 DEF LinkedInv
    <3> QED BY <1>4, <3>1, <3>2, <3>3
  <2> QED BY <1>2, <1>4, <2>1 DEF LinkedInv, EmailsInv, DemoInv
<1>5. ASSUME NEW r \in Runs, NEW k \in 1 .. 8, Accepts(Inserted[k], r),
             rows' = rows \cup {[name |-> Inserted[k], by |-> r]}
      PROVE  LinkedInv' /\ EmailsInv' /\ DemoInv'
  BY <1>2, <1>5 DEF Accepts, LinkedInv, EmailsInv, DemoInv
<1>6. ASSUME NEW n \in Emails, Register(n) PROVE LinkedInv' /\ EmailsInv' /\ DemoInv'
  <2>1. Parents(n) = {} /\ visitors' # 0
    BY <1>6, AboveNames DEF Register, TypeOK
  <2>2. /\ \A x \in rows : x.name # n
        /\ rows' = rows \cup {[name |-> n, by |-> Server]}
    BY <1>6 DEF Register
  <2> QED BY <2>1, <2>2 DEF LinkedInv, EmailsInv, DemoInv
<1>7. ASSUME NEW r \in Runs, Insert(r) PROVE LinkedInv' /\ EmailsInv' /\ DemoInv'
  <2>1. step[r] - 6 \in 1 .. 8 /\ Script[step[r] + 1].name = Inserted[step[r] - 6]
    BY <1>7, StatementAt DEF Insert
  <2> QED BY <1>3, <1>5, <1>7, <2>1 DEF Insert
<1>8. ASSUME NEW r \in Runs, Delete(r) PROVE LinkedInv' /\ EmailsInv' /\ DemoInv'
  BY <1>3, <1>4, <1>8 DEF Delete
<1>9. rows' = rows \/ (\E r \in Runs : Delete(r) \/ Insert(r)) \/ \E n \in Emails : Register(n)
  BY DEF Next, Begin, Migrate, Kill, vars
<1> QED BY <1>3, <1>6, <1>7, <1>8, <1>9

LEMMA LeftStep == TypeOK /\ StepInv /\ LinkedInv /\ LeftInv /\ [Next]_vars => LeftInv'
<1> SUFFICES ASSUME TypeOK, StepInv, LinkedInv, LeftInv, [Next]_vars, Calm',
                    NEW r \in Running'
             PROVE  /\ step'[r] >= 8 => (\E x \in rows' : x.name = "admin") \/ Someone(7)'
                    /\ /\ step'[r] >= 14
                       /\ [name |-> "job", by |-> r] \in rows'
                       /\ [name |-> "seekerProfile", by |-> r] \in rows'
                       => [name |-> "application", by |-> r] \in rows' \/ Someone(3)'
  BY DEF LeftInv
<1> DEFINE Row(n) == [name |-> n, by |-> r]
\* Nobody but the runs is at work, and nothing fails by itself.
<1>1. /\ faults' = {} /\ visitors' = 0 /\ r \in Runs /\ step \in [Runs -> 0 .. 15]
      /\ status \in [Runs -> {"unstarted", "running", "complete", "error", "killed"}]
  BY ScriptShape DEF Calm, Running, TypeOK
<1>2. ASSUME NEW q \in Runs PROVE ~Fault(q) /\ ~Kill(q)
  BY <1>1, <1>2 DEF Fault, Calm, Kill
<1>3. \A n \in Emails : ~Register(n)
  BY <1>1 DEF Register, TypeOK
<1>4. Calm
  <2>1. faults = {}
    BY <1>1, <1>2 DEF Next, Begin, Migrate, Delete, Insert, Kill, Register, vars, Fault
  <2>2. visitors = 0
    BY <1>1, <1>3 DEF Next, Begin, Migrate, Delete, Insert, Kill, vars
  <2>3. \A q \in Runs : status[q] = "killed" => status'[q] = "killed"
    BY <1>1, <1>3 DEF Next, Begin, Migrate, Delete, Insert, Kill, vars, Advance, Exit, At, Running
  <2> QED BY <2>1, <2>2, <2>3 DEF Calm
<1>5. ASSUME NEW q \in Runs, Begin(q)
      PROVE  /\ rows' = rows /\ step' = step /\ Running \subseteq Running'
             /\ r \in Running \/ step'[r] = 0
  BY <1>1, <1>5 DEF Begin, StepInv, Running
<1>6. ASSUME NEW q \in Running, Advance(q) \/ Exit(q)
      PROVE  /\ r \in Running
             /\ r # q => step'[r] = step[r]
             /\ \A w \in Running \ {q} : w \in Running' /\ step'[w] = step[w]
  BY <1>1, <1>6 DEF Advance, Exit, Running
<1>7. ASSUME NEW q \in Runs, Migrate(q)
      PROVE  /\ q \in Running /\ step[q] = 0 /\ rows' = rows
             /\ Advance(q) \/ Exit(q)
             /\ r = q => ~(step'[r] >= 8) /\ ~(step'[r] >= 14)
  BY <1>1, <1>7, StatementAt DEF Migrate, At, Advance, Exit, Running
<1>8. ASSUME NEW q \in Runs, Delete(q)
      PROVE  /\ q \in Running /\ Advance(q) /\ step[q] \in 1 .. 6
             /\ step'[q] = step[q] + 1 /\ q \in Running'
             /\ rows' = rows \ {x \in rows : \E n \in {x.name} \cup Above(x.name) :
                                                TableOf[n] = Emptied[step[q]]}
  <2>1. /\ q \in Running /\ Advance(q) /\ step[q] \in 1 .. 6
        /\ Script[step[q] + 1].table = Emptied[step[q]]
    BY <1>8, StatementAt DEF Delete, At
  <2>2. step'[q] = step[q] + 1 /\ q \in Running'
    BY <1>1, <2>1, ScriptShape DEF Advance, Running
  <2> QED BY <1>2, <1>8, <2>1, <2>2 DEF Delete
<1>9. ASSUME NEW q \in Runs, Insert(q)
       PROVE  /\ q \in Running /\ step[q] \in 7 .. 14
              /\ \/ /\ Accepts(Inserted[step[q] - 6], q)
                    /\ rows' = rows \cup {[name |-> Inserted[step[q] - 6], by |-> q]}
                    /\ Advance(q) /\ step'[q] = step[q] + 1
                    /\ step[q] = 14 => q \notin Running'
                 \/ /\ ~Accepts(Inserted[step[q] - 6], q)
                    /\ rows' = rows /\ Exit(q) /\ q \notin Running'
  <2>1. /\ q \in Running /\ step[q] \in 7 .. 14
        /\ Script[step[q] + 1].name = Inserted[step[q] - 6]
    BY <1>9, StatementAt DEF Insert, At
  <2>2. Advance(q) => step'[q] = step[q] + 1 /\ (step[q] = 14 => q \notin Running')
    BY <1>1, <2>1, ScriptShape DEF Advance, Running
  <2>3. Exit(q) => q \notin Running'
    BY <1>1 DEF Exit, Running
  <2> QED BY <1>2, <1>9, <2>1, <2>2, <2>3 DEF Insert
\* The names that a DELETE takes along.
<1>10. /\ \A k \in 1 .. 5 : Emptied[k] # "users"
       /\ TableOf["admin"] = "users" /\ Above("admin") = {} /\ Emptied[3] = "jobs"
       /\ \A k \in (1 .. 6) \ {2}, n \in {"application"} \cup Above("application") :
             TableOf[n] = Emptied[k] =>
                \/ TableOf[n] \in {TableOf[m] : m \in {"job"} \cup Above("job")}
                \/ TableOf[n] = TableOf["seekerProfile"]
  <2>1. "admin" \in Emails
    BY DEF Emails, Names, TableOf
  <2>2. \A n \in {"application"} \cup Above("application") :
           n \in {"application", "job", "seekerProfile", "recruiterProfile", "seeker", "recruiter"}
    BY AboveNames
  <2>3. {"job"} \cup Above("job") = {"job", "recruiterProfile", "recruiter"}
    BY AboveNames
  <2>4. TableOf["seeker"] = TableOf["recruiter"]
    BY DEF TableOf
  <2>5. \A k \in (1 .. 6) \ {2} : Emptied[k] # TableOf["application"]
    BY DEF Emptied, TableOf
  <2>6. (\A k \in 1 .. 5 : Emptied[k] # "users") /\ Emptied[3] = "jobs" /\ TableOf["admin"] = "users"
    BY DEF Emptied, TableOf
  <2> QED BY <2>1, <2>2, <2>3, <2>4, <2>5, <2>6, AboveNames
\* An admin is there, or about to be.
<1>11. ASSUME step'[r] >= 8
       PROVE  (\E x \in rows' : x.name = "admin") \/ Someone(7)'
  <2>1. r \in Running /\ step[r] >= 8 => (\E x \in rows : x.name = "admin") \/ Someone(7)
    BY <1>4 DEF LeftInv
  <2>2. CASE \E q \in Runs : Begin(q)
    BY <1>5, <1>11, <2>1, <2>2 DEF Someone
  <2>3. ASSUME NEW q \in Runs, Migrate(q)
        PROVE  (\E x \in rows' : x.name = "admin") \/ Someone(7)'
    <3>1. q \in Running /\ (Advance(q) \/ Exit(q)) /\ rows' = rows /\ step[q] = 0 /\ r # q
      BY <1>7, <1>11, <2>3
    <3>2. r \in Running /\ step[r] >= 8
          /\ \A w \in Running \ {q} : w \in Running' /\ step'[w] = step[w]
      BY <1>6, <1>11, <3>1
    <3> QED BY <2>1, <3>1, <3>2 DEF Someone
  <2>4. ASSUME NEW q \in Runs, Delete(q)
        PROVE  (\E x \in rows' : x.name = "admin") \/ Someone(7)'
    <3>1. /\ q # r /\ r \in Running /\ step[r] >= 8 /\ step[q] \in 1 .. 6
          /\ \A w \in Running \ {q} : w \in Running' /\ step'[w] = step[w]
      BY <1>6, <1>8, <1>11, <2>4
    <3>2. CASE step[q] = 6
      BY <1>8, <2>4, <3>2 DEF Someone
    <3>3. CASE step[q] \in 1 .. 5
      <4>1. \A x \in rows : x.name = "admin" => x \in rows'
        BY <1>8, <1>10, <2>4, <3>3
      <4> QED BY <2>1, <3>1, <4>1 DEF Someone
    <3> QED BY <3>1, <3>2, <3>3
  <2>5. ASSUME NEW q \in Runs, Insert(q)
        PROVE  (\E x \in rows' : x.name = "admin") \/ Someone(7)'
    <3>1. /\ r \in Running /\ rows \subseteq rows' /\ step[q] \in 7 .. 14
          /\ \A w \in Running \ {q} : w \in Running' /\ step'[w] = step[w]
      BY <1>6, <1>9, <2>5
    <3>2. CASE step[q] = 7
      <4>1. Inserted[step[q] - 6] = "admin" /\ Parents("admin") = {}
        BY <3>2 DEF Inserted, Parents
      <4>2. ~Accepts("admin", q) => \E x \in rows : x.name = "admin"
        BY <4>1 DEF Accepts
      <4>3. CASE Accepts("admin", q)
        <5>1. [name |-> "admin", by |-> q] \in rows'
          BY <1>9, <2>5, <4>1, <4>3
        <5>2. [name |-> "admin", by |-> q].name = "admin"
          OBVIOUS
        <5> QED BY <5>1, <5>2
      <4> QED BY <3>1, <4>2, <4>3
    <3>3. CASE step[q] # 7
      <4>1. step[r] >= 8
        BY <1>6, <1>9, <1>11, <2>5, <3>3
      <4> QED BY <2>1, <3>1, <3>3, <4>1 DEF Someone
    <3> QED BY <3>2, <3>3
  <2>6. CASE UNCHANGED vars
    BY <1>11, <2>1, <2>6 DEF vars, Someone, Running
  <2> QED BY <1>2, <1>3, <2>2, <2>3, <2>4, <2>5, <2>6 DEF Next
\* The application of r is there, or a DELETE is about to take the job as well.
<1>12. ASSUME step'[r] >= 14, Row("job") \in rows', Row("seekerProfile") \in rows'
       PROVE  Row("application") \in rows' \/ Someone(3)'
  <2>1. /\ r \in Running /\ step[r] >= 14
        /\ Row("job") \in rows /\ Row("seekerProfile") \in rows
        => Row("application") \in rows \/ Someone(3)
    BY <1>4 DEF LeftInv
  <2>2. CASE \E q \in Runs : Begin(q)
    BY <1>5, <1>12, <2>1, <2>2 DEF Someone
  <2>3. ASSUME NEW q \in Runs, Migrate(q)
        PROVE  Row("application") \in rows' \/ Someone(3)'
    <3>1. q \in Running /\ (Advance(q) \/ Exit(q)) /\ rows' = rows /\ step[q] = 0 /\ r # q
      BY <1>7, <1>12, <2>3
    <3>2. r \in Running /\ step[r] >= 14
          /\ \A w \in Running \ {q} : w \in Running' /\ step'[w] = step[w]
      BY <1>6, <1>12, <3>1
    <3> QED BY <1>12, <2>1, <3>1, <3>2 DEF Someone
  <2>4. ASSUME NEW q \in Runs, Delete(q)
        PROVE  Row("application") \in rows' \/ Someone(3)'
    <3>1. /\ q # r /\ r \in Running /\ step[r] >= 14 /\ step[q] \in 1 .. 6
          /\ step'[q] = step[q] + 1 /\ q \in Running'
          /\ \A w \in Running \ {q} : w \in Running' /\ step'[w] = step[w]
      BY <1>6, <1>8, <1>12, <2>4
    <3>2. /\ Row("job") \in rows /\ Row("seekerProfile") \in rows
          /\ \A n \in {"job"} \cup Above("job") : TableOf[n] # Emptied[step[q]]
          /\ TableOf["seekerProfile"] # Emptied[step[q]]
      BY <1>8, <1>12, <2>4
    <3>3. step[q] # 3
      BY <1>10, <3>2 DEF TableOf
    <3>4. CASE step[q] = 2
      BY <3>1, <3>4 DEF Someone
    <3>5. CASE step[q] # 2
      <4>1. Row("application") \in rows => Row("application") \in rows'
        <5>1. \A n \in {"application"} \cup Above("application") : TableOf[n] # Emptied[step[q]]
          BY <1>10, <3>1, <3>2, <3>5
        <5>2. Row("application").name = "application"
          OBVIOUS
        <5> HIDE DEF Row
        <5>3. Row("application") \in rows =>
                 Row("application") \notin {x \in rows : \E n \in {x.name} \cup Above(x.name) :
                                                           TableOf[n] = Emptied[step[q]]}
          BY <5>1, <5>2
        <5> QED BY <1>8, <2>4, <5>3
      <4> QED BY <2>1, <3>1, <3>2, <3>3, <4>1 DEF Someone
    <3> QED BY <3>4, <3>5
  <2>5. ASSUME NEW q \in Runs, Insert(q)
        PROVE  Row("application") \in rows' \/ Someone(3)'
    <3>1. /\ r \in Running /\ rows \subseteq rows' /\ step[q] \in 7 .. 14
          /\ \A w \in Running \ {q} : w \in Running' /\ step'[w] = step[w]
      BY <1>6, <1>9, <2>5
    <3>2. CASE r = q
      <4>1. step'[q] = step[q] + 1 /\ step[q] = 13
            /\ rows' = rows \cup {[name |-> Inserted[step[q] - 6], by |-> q]}
        BY <1>9, <1>12, <2>5, <3>2
      <4>2. Inserted[step[q] - 6] = "application"
        BY <4>1 DEF Inserted
      <4> QED BY <3>2, <4>1, <4>2
    <3>3. CASE r # q
      <4>1. step[r] >= 14 /\ Row("job") \in rows /\ Row("seekerProfile") \in rows
        BY <1>6, <1>9, <1>12, <2>5, <3>3
      <4> QED BY <2>1, <3>1, <4>1 DEF Someone
    <3> QED BY <3>2, <3>3
  <2>6. CASE UNCHANGED vars
    BY <1>12, <2>1, <2>6 DEF vars, Someone, Running
  <2> QED BY <1>2, <1>3, <2>2, <2>3, <2>4, <2>5, <2>6 DEF Next
<1> QED BY <1>11, <1>12

-----------------------------------------------------------------------------
\* The inductive invariant: a run that nobody has disturbed is the only one
\* that is at work, and the rows are those its own statements have left.
THEOREM SeederInvariant == Spec => []Inv
<1>1. Inv /\ [Next]_vars => Inv'
  BY TypeStep, AloneStep DEF Inv
<1> QED BY <1>1, InitInv, PTL DEF Spec

\* The variables of Seeder keep their types.
THEOREM TypeCorrect == Spec => []TypeOK
<1>1. Inv => TypeOK
  BY DEF Inv
<1> QED BY <1>1, SeederInvariant, PTL

\* Running cmd/seed once more repairs whatever earlier runs have left: it
\* fails only through a fault, or through somebody at work beside it.
THEOREM OneMoreRunRepairs == Spec => []RerunRepairs
<1>1. Inv => RerunRepairs
  BY DEF Inv, AloneInv, RerunRepairs
<1> QED BY <1>1, SeederInvariant, PTL

\* When cmd/seed prints "Seeding complete!" undisturbed, the demo data is
\* there, whole, and, unless a DELETE has failed, nothing else is.
THEOREM CompleteIsSeeded == Spec => CompleteMeansSeeded
<1> DEFINE Step == \A r \in alone :
                     status[r] = "running" /\ status'[r] = "complete" =>
                        /\ Demo(r) \subseteq rows'
                        /\ r \notin faults => rows' = Demo(r)
<1>1. Inv /\ [Next]_vars => [Step]_vars
  <2> SUFFICES ASSUME Inv, Next, NEW r \in alone,
                      status[r] = "running", status'[r] = "complete"
               PROVE  /\ Demo(r) \subseteq rows'
                      /\ r \notin faults => rows' = Demo(r)
    OBVIOUS
  <2>1. r \in Runs /\ Running = {r}
    BY DEF Inv, TypeOK, AloneInv
  <2>2. Insert(r) /\ Advance(r)
    BY <2>1, CompletesByInsert
  <2>3. step[r] = 14 /\ step'[r] = 15
    BY <2>1, <2>2, ScriptShape DEF Advance, Inv, TypeOK
  <2>4. /\ At(r, "insert") /\ faults' = faults
        /\ rows' = rows \cup {[name |-> Script[step[r] + 1].name, by |-> r]}
    BY <2>1, <2>2 DEF Insert, Exit, Inv, TypeOK
  <2>5. Progress(r)' /\ step'[r] = 15
    BY <2>2, <2>3, <2>4, InsertsProgress
  <2>6. First(r, 8) = Demo(r)
    BY DemoNames DEF First, Demo
  <2> QED BY <2>4, <2>5, <2>6 DEF Progress, First
<1> QED BY <1>1, SeederInvariant, PTL DEF Spec, CompleteMeansSeeded

\* The inductive invariant of runs that overlap: foreign keys and emails, and
\* what the last run can count on that the others have left it.
THEOREM OverlapInvariant == Spec => []TogetherInv
<1>1. Init => TogetherInv
  BY InitInv DEF Init, TogetherInv, LinkedInv, EmailsInv, DemoInv, LeftInv, Running
<1>2. TogetherInv /\ [Next]_vars => TogetherInv'
  BY TypeStep, AloneStep, LinksStep, LeftStep DEF TogetherInv, Inv
<1> QED BY <1>1, <1>2, PTL DEF Spec

\* However many runs overlap, a run that prints "Seeding complete!" when all
\* others have ended leaves every row of the demo data, and each once.
THEOREM LastRunSeeds == Spec => LastToCompleteSeeds
<1> DEFINE Step == \A r \in Runs :
                      /\ Running = {r} /\ status'[r] = "complete"
                      /\ faults = {} /\ visitors = 0 /\ \A q \in Runs : status[q] # "killed"
                      => Seeded'
<1>1. TogetherInv => OnceInv
  BY NamesOnce DEF TogetherInv, Inv
<1>2. TogetherInv /\ TogetherInv' /\ OnceInv' /\ [Next]_vars => [Step]_vars
  <2> SUFFICES ASSUME TogetherInv, TogetherInv', OnceInv', Next, NEW r \in Runs,
                      Running = {r}, status'[r] = "complete",
                      faults = {}, visitors = 0, \A q \in Runs : status[q] # "killed"
               PROVE  Seeded'
    OBVIOUS
  <2> DEFINE Row(n) == [name |-> n, by |-> r]
  <2>1. Insert(r) /\ Advance(r) /\ step[r] = 14
    BY CompletesByInsert DEF TogetherInv, Running
  <2>2. /\ Accepts("savedJob", r) /\ rows' = rows \cup {Row("savedJob")}
        /\ visitors' = 0
    <3>1. Script[step[r] + 1].name = "savedJob"
      BY <2>1, StatementAt DEF Insert, TogetherInv, Inv, Inserted
    <3> QED BY <2>1, <3>1 DEF Insert, Advance, Exit, TogetherInv, Inv, TypeOK
  <2>3. Row("job") \in rows /\ Row("seekerProfile") \in rows
    BY <2>2 DEF Accepts, Parents
  <2>4. Row("recruiterProfile") \in rows /\ Row("recruiter") \in rows /\ Row("seeker") \in rows
    BY <2>3 DEF TogetherInv, LinkedInv, Parents
  <2>5. Row("application") \in rows /\ \E x \in rows : x.name = "admin"
    BY <2>1, <2>3 DEF TogetherInv, LeftInv, Calm, Someone
  <2>6. {x.name : x \in rows'} = {Inserted[i] : i \in 1 .. 8}
    <3>1. \A i \in 1 .. 8 : \E x \in rows' : x.name = Inserted[i]
      <4>1. \A n : Row(n).name = n
        OBVIOUS
      <4>2. \A n \in {"recruiter", "recruiterProfile", "job", "seeker", "seekerProfile",
                       "application", "savedJob"} : \E x \in rows' : x.name = n
        BY <2>2, <2>3, <2>4, <2>5, <4>1
      <4>3. \E x \in rows' : x.name = "admin"
        BY <2>2, <2>5
      <4> QED BY <4>2, <4>3 DEF Inserted
    <3>2. \A x \in rows' : \E i \in 1 .. 8 : x.name = Inserted[i]
      BY <2>2 DEF TogetherInv, DemoInv
    <3> QED BY <3>1, <3>2
  <2>7. \A x, y \in rows' : x.name = y.name => x = y
    BY DEF OnceInv
  <2> QED BY <2>6, <2>7, DemoNames DEF Seeded
<1> QED BY <1>1, <1>2, OverlapInvariant, PTL DEF Spec, LastToCompleteSeeds
=============================================================================
