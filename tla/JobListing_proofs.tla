-------------------------- MODULE JobListing_proofs --------------------------
(***************************************************************************)
(* What holds of the pages of GetAllJobs for any number of jobs, any page  *)
(* size and any word size.                                                 *)
(*                                                                         *)
(* The argument is about ranks: the rank of a listed job is the number of  *)
(* listed jobs that are newer.  Page p holds the jobs of ranks             *)
(* (p - 1) * size to p * size - 1; ranks fall when a job leaves the list,  *)
(* and grow when one joins it.                                             *)
(***************************************************************************)
EXTENDS JobListing, FiniteSetTheorems, SequenceTheorems, FunctionTheorems, TLAPS

-----------------------------------------------------------------------------
(* Orders and windows.                                                     *)

\* A function that takes no value twice has as many values as arguments.
LEMMA InjectiveImage ==
    ASSUME NEW D, IsFiniteSet(D), NEW f, \A x, y \in D : f[x] = f[y] => x = y
    PROVE  /\ IsFiniteSet({f[x] : x \in D})
           /\ Cardinality({f[x] : x \in D}) = Cardinality(D)
<1> DEFINE T == {f[x] : x \in D}
           g == [x \in D |-> f[x]]
<1>1. g \in [D -> T] /\ (\A a, b \in D : g[a] = g[b] => a = b)
      /\ (\A t \in T : \E s \in D : g[s] = t)
  OBVIOUS
<1>2. g \in Bijection(D, T)
  <2> HIDE DEF g, T
  <2> QED BY <1>1, Fun_IsBij
<1>3. ExistsBijection(D, T)
  BY <1>2 DEF ExistsBijection
<1> QED BY <1>3, FS_Bijection

LEMMA ListedFinite ==
    /\ IsFiniteSet(Listed)
    /\ Cardinality(Listed) \in 0 .. Cardinality(Jobs)
    /\ Cardinality(Jobs) \in Nat
<1>1. Listed \subseteq Jobs
  BY DEF Listed
<1>2. IsFiniteSet(Jobs)
  BY ListingAssumption
<1>3. Cardinality(Jobs) \in Nat
  BY <1>2, FS_CardinalityType
<1>4. IsFiniteSet(Listed) /\ Cardinality(Listed) <= Cardinality(Jobs)
  BY <1>1, <1>2, FS_Subset
<1>5. Cardinality(Listed) \in Nat
  BY <1>4, FS_CardinalityType
<1> QED BY <1>3, <1>4, <1>5

\* A function from 1 .. n is a sequence.
LEMMA IsSequence ==
    ASSUME NEW S, NEW n \in Nat, NEW f \in [1 .. n -> S]
    PROVE  f \in Seq(S) /\ Len(f) = n
  OBVIOUS

\* An order has each listed job once, newer ones first.
LEMMA OrderShape ==
    ASSUME NEW o \in Orders
    PROVE  LET n == Cardinality(Listed) IN
           /\ n \in Nat
           /\ o \in Seq(Listed) /\ Len(o) = n
           /\ \A i \in 1 .. n : o[i] \in Listed
           /\ \A i, j \in 1 .. n : o[i] = o[j] => i = j
           /\ \A j \in Listed : \E i \in 1 .. n : o[i] = j
           /\ \A i, j \in 1 .. n : i < j => at[o[i]] >= at[o[j]]
<1> DEFINE n == Cardinality(Listed)
<1>1. n \in Nat /\ IsFiniteSet(Listed)
  BY ListedFinite
<1>2. /\ o \in [1 .. n -> Listed]
      /\ \A i, j \in 1 .. n : i # j => o[i] # o[j]
      /\ \A i, j \in 1 .. Len(o) : i < j => at[o[i]] >= at[o[j]]
  BY DEF Orders, SetToSeqs
<1> HIDE DEF n
<1>3. o \in Seq(Listed) /\ Len(o) = n
  BY <1>1, <1>2, IsSequence
<1>4. o \in Injection(1 .. n, Listed)
  BY <1>2, Fun_IsInj
<1>5. IsFiniteSet(1 .. n) /\ Cardinality(1 .. n) = n
  BY <1>1, FS_Interval
<1>6. o \in Surjection(1 .. n, Listed)
  BY <1>1, <1>4, <1>5, FS_Injection DEF n
<1>7. \A j \in Listed : \E i \in 1 .. n : o[i] = j
  BY <1>6 DEF Surjection
<1>8. \A i \in 1 .. n : o[i] \in Listed
  BY <1>2
<1> QED BY <1>1, <1>2, <1>3, <1>7, <1>8 DEF n

\* Where the window of a page ends.
LastOf(o, offset, size) ==
    IF offset + size < Len(o) THEN offset + size ELSE Len(o)

\* The rows of a window that is read up to its k-th row.
LEMMA WindowShape ==
    ASSUME NEW o \in Orders, NEW offset \in Nat, NEW size \in Nat \ {0}
    PROVE  LET w == Window(o, offset, size) IN
           /\ w \in Seq(Listed)
           /\ Len(w) = IF offset < Len(o) THEN LastOf(o, offset, size) - offset ELSE 0
           /\ \A i \in 1 .. Len(w) : w[i] = o[offset + i]
<1> DEFINE last == LastOf(o, offset, size)
           w == Window(o, offset, size)
<1>1. o \in Seq(Listed) /\ Len(o) \in Nat
  BY OrderShape
<1>2. last \in Nat /\ last <= Len(o) /\ (offset < Len(o) => last > offset)
      /\ (offset >= Len(o) => last = Len(o))
  BY <1>1 DEF LastOf
<1>3. w = SubSeq(o, offset + 1, last)
  BY DEF Window, LastOf
<1>4. \A i \in offset + 1 .. last : o[i] \in Listed
  BY <1>1, <1>2, OrderShape
<1> HIDE DEF last, w
<1>5. /\ w \in Seq(Listed)
      /\ Len(w) = IF offset + 1 <= last THEN last - (offset + 1) + 1 ELSE 0
      /\ \A i \in 1 .. last - (offset + 1) + 1 : w[i] = o[offset + 1 + i - 1]
  <2>1. offset + 1 \in Int /\ last \in Int
    BY <1>2
  <2> QED BY <2>1, <1>3, <1>4, SubSeqProperties
<1>6. Len(w) = IF offset < Len(o) THEN last - offset ELSE 0
  BY <1>1, <1>2, <1>5
<1>7. \A i \in 1 .. Len(w) : w[i] = o[offset + i]
  <2> SUFFICES ASSUME NEW i \in 1 .. Len(w) PROVE w[i] = o[offset + i]
    OBVIOUS
  <2>1. i \in 1 .. last - (offset + 1) + 1 /\ offset + 1 + i - 1 = offset + i
    BY <1>1, <1>2, <1>6
  <2> QED BY <1>5, <2>1
<1> QED BY <1>5, <1>6, <1>7 DEF last, w

-----------------------------------------------------------------------------
(* Arithmetic.                                                             *)

LEMMA Division ==
    ASSUME NEW a \in Nat, NEW b \in Nat \ {0}
    PROVE  a \div b \in Nat /\ b * (a \div b) <= a /\ a < b * ((a \div b) + 1)
  OBVIOUS

LEMMA TimesMonotonic ==
    ASSUME NEW a \in Int, NEW b \in Int, NEW s \in Nat, a <= b
    PROVE  a * s <= b * s
  OBVIOUS

\* Page p has rows exactly when it is one of the announced pages.
LEMMA PagesAnnounced ==
    ASSUME NEW total \in Nat, NEW size \in Nat \ {0}
    PROVE  /\ TotalPages(total, size) \in 0 .. total
           /\ \A p \in Nat \ {0} : p <= TotalPages(total, size) <=> (p - 1) * size < total
<1> DEFINE q == TotalPages(total, size)
<1>1. /\ q \in Nat
      /\ size * q <= total + size - 1
      /\ total + size - 1 < size * (q + 1)
  BY Division DEF TotalPages
<1> HIDE DEF q
<1>2. ASSUME NEW p \in Nat \ {0} PROVE p <= q <=> (p - 1) * size < total
  <2>1. (p - 1) * size = p * size - size /\ p * size \in Int
    OBVIOUS
  <2>2. CASE p <= q
    <3>1. p * size <= q * size
      BY <1>1, <2>2, TimesMonotonic
    <3> QED BY <1>1, <2>1, <2>2, <3>1
  <2>3. CASE p >= q + 1
    <3>1. (q + 1) * size <= p * size
      BY <1>1, <2>3, TimesMonotonic
    <3>2. (q + 1) * size = size * (q + 1)
      BY <1>1
    <3>3. size * (q + 1) \in Int
      BY <1>1
    <3>4. total <= p * size - size
      BY <1>1, <2>1, <3>1, <3>2, <3>3
    <3> QED BY <1>1, <2>1, <2>3, <3>4
  <2> QED BY <1>1, <2>2, <2>3
<1>3. q <= total
  <2>1. total <= total * size
    BY TimesMonotonic
  <2>2. ~(total + 1 <= q)
    BY <1>2, <2>1
  <2> QED BY <1>1, <2>2
<1> QED BY <1>1, <1>2, <1>3 DEF q

LEMMA Modulo ==
    ASSUME NEW a \in Nat, NEW m \in Nat \ {0}
    PROVE  /\ a % m \in 0 .. m - 1
           /\ a < m => a % m = a
           /\ a >= m /\ a < 2 * m => a % m = a - m
  OBVIOUS

\* An offset that fits is exact, and one that is too large by less than the
\* number of words is negative.
LEMMA WrapShape ==
    ASSUME NEW n \in Nat
    PROVE  /\ Wrap(n) \in Int64
           /\ n <= WordMax => Wrap(n) = n
           /\ n > WordMax /\ n <= 2 * WordMax => Wrap(n) < 0
<1> DEFINE m == 2 * (WordMax + 1)
<1>1. WordMax \in Nat /\ m \in Nat \ {0} /\ n + WordMax + 1 \in Nat
  BY ListingAssumption
<1>2. Wrap(n) = ((n + WordMax + 1) % m) - (WordMax + 1)
  BY DEF Wrap
<1>3. m = 2 * WordMax + 2
  BY <1>1
<1> HIDE DEF m
<1>4. PICK a \in Nat : a = n + WordMax + 1
  BY <1>1
<1>5. /\ a % m \in 0 .. m - 1
      /\ a < m => a % m = a
      /\ a >= m /\ a < 2 * m => a % m = a - m
  BY <1>1, Modulo
<1>6. Wrap(n) = (a % m) - (WordMax + 1)
  BY <1>2, <1>4
<1> QED BY <1>1, <1>3, <1>4, <1>5, <1>6 DEF Int64

-----------------------------------------------------------------------------
(* Ranks.                                                                  *)

Rank(j) == Cardinality({k \in Listed : at[k] > at[j]})

\* A job has a time once it has a row.
TimeInv ==
    \A j \in Jobs : /\ row[j] = "unposted" => at[j] = 0
                    /\ row[j] # "unposted" => at[j] # 0

LEMMA RankRange ==
    ASSUME TypeOK, NEW j \in Listed
    PROVE  Rank(j) \in Nat /\ Rank(j) < Cardinality(Listed)
<1> DEFINE newer == {k \in Listed : at[k] > at[j]}
<1>1. newer \in SUBSET Listed /\ newer # Listed
  BY DEF TypeOK, Listed
<1>2. IsFiniteSet(Listed) /\ Cardinality(Listed) \in Nat
  BY ListedFinite
<1> HIDE DEF newer
<1>3. IsFiniteSet(newer) /\ Cardinality(newer) <= Cardinality(Listed)
      /\ Cardinality(newer) # Cardinality(Listed)
  BY <1>1, <1>2, FS_Subset
<1>4. Cardinality(newer) \in Nat
  BY <1>3, FS_CardinalityType
<1>5. Rank(j) = Cardinality(newer)
  BY DEF Rank, newer
<1> QED BY <1>2, <1>3, <1>4, <1>5

\* As long as times differ, there is one order, by rank.
LEMMA RankInOrder ==
    ASSUME TypeOK, TimeInv, TimesDiffer, NEW o \in Orders, NEW i \in 1 .. Len(o)
    PROVE  Rank(o[i]) = i - 1
<1>1. /\ Len(o) \in Nat
      /\ \A m \in 1 .. Len(o) : o[m] \in Listed
      /\ \A m, n \in 1 .. Len(o) : o[m] = o[n] => m = n
      /\ \A j \in Listed : \E m \in 1 .. Len(o) : o[m] = j
      /\ \A m, n \in 1 .. Len(o) : m < n => at[o[m]] >= at[o[n]]
  BY OrderShape
<1>2. \A j \in Listed : at[j] \in Nat /\ at[j] # 0 /\ j \in Jobs
  BY ListingAssumption DEF TypeOK, TimeInv, Listed
<1>3. \A m \in 1 .. Len(o) : at[o[m]] > at[o[i]] <=> m < i
  <2> SUFFICES ASSUME NEW m \in 1 .. Len(o) PROVE at[o[m]] > at[o[i]] <=> m < i
    OBVIOUS
  <2>1. /\ o[m] \in Listed /\ o[i] \in Listed
        /\ m # i => o[m] # o[i]
    BY <1>1
  <2>2. m # i => at[o[m]] # at[o[i]]
    BY <1>2, <2>1 DEF TimesDiffer
  <2>3. at[o[m]] \in Nat /\ at[o[i]] \in Nat
    BY <1>2, <2>1
  <2>4. CASE m < i
    BY <1>1, <2>2, <2>3, <2>4
  <2>5. CASE m = i
    BY <2>3, <2>5
  <2>6. CASE i < m
    BY <1>1, <2>2, <2>3, <2>6
  <2> QED BY <1>1, <2>4, <2>5, <2>6
<1>4. {k \in Listed : at[k] > at[o[i]]} = {o[m] : m \in 1 .. i - 1}
  <2>1. ASSUME NEW k \in Listed, at[k] > at[o[i]] PROVE k \in {o[m] : m \in 1 .. i - 1}
    <3>1. PICK m \in 1 .. Len(o) : o[m] = k
      BY <1>1
    <3>2. m \in 1 .. i - 1
      BY <1>1, <1>3, <2>1, <3>1
    <3> QED BY <3>1, <3>2
  <2>2. ASSUME NEW m \in 1 .. i - 1 PROVE o[m] \in Listed /\ at[o[m]] > at[o[i]]
    <3>1. m \in 1 .. Len(o) /\ m < i
      BY <1>1
    <3> QED BY <1>1, <1>3, <3>1
  <2> QED BY <2>1, <2>2
<1>5. IsFiniteSet(1 .. i - 1) /\ Cardinality(1 .. i - 1) = i - 1
  <2>1. i - 1 \in Int /\ 1 \in Int /\ i - 1 >= 0
    BY <1>1
  <2> QED BY <2>1, FS_Interval
<1>6. \A m, n \in 1 .. i - 1 : o[m] = o[n] => m = n
  BY <1>1
<1> QED BY <1>4, <1>5, <1>6, InjectiveImage DEF Rank

\* A rank does not grow while no job joins the list ...
LEMMA RankFalls ==
    ASSUME Listed' \subseteq Listed, \A k \in Listed' : at'[k] = at[k], NEW j \in Listed'
    PROVE  Rank(j)' <= Rank(j)
<1> DEFINE old == {k \in Listed : at[k] > at[j]}
           new == {k \in Listed' : at'[k] > at'[j]}
<1>1. new \in SUBSET old /\ old \in SUBSET Listed
  OBVIOUS
<1>2. Rank(j) = Cardinality(old) /\ Rank(j)' = Cardinality(new)
  BY DEF Rank
<1> HIDE DEF old, new
<1>3. IsFiniteSet(old)
  BY <1>1, ListedFinite, FS_Subset
<1> QED BY <1>1, <1>2, <1>3, FS_Subset

\* ... and does not fall while no job leaves it.
LEMMA RankGrows ==
    ASSUME Listed \subseteq Listed', IsFiniteSet(Listed'),
           \A k \in Listed : at'[k] = at[k], NEW j \in Listed
    PROVE  Rank(j) <= Rank(j)'
<1> DEFINE old == {k \in Listed : at[k] > at[j]}
           new == {k \in Listed' : at'[k] > at'[j]}
<1>1. old \in SUBSET new /\ new \in SUBSET Listed'
  OBVIOUS
<1>2. Rank(j) = Cardinality(old) /\ Rank(j)' = Cardinality(new)
  BY DEF Rank
<1> HIDE DEF old, new
<1>3. IsFiniteSet(new)
  BY <1>1, FS_Subset
<1> QED BY <1>1, <1>2, <1>3, FS_Subset

-----------------------------------------------------------------------------
(* The invariant.                                                          *)

PageOf(w) == ClampPage(QueryInt(w.page, 1))
SizeOf(w) == ClampSize(QueryInt(w.size, DefaultPageSize))

\* The rank of the first job of the page that walk w is at.
FirstRank(w) == (w.page - 1) * SizeOf(w)

\* A walk over several pages is on its way.
Walking == walk.status = "going" /\ walk.until # "single"

\* What GetAllJobs has computed and counted.
CallInv ==
    call.pc = "list" =>
        /\ walk.status = "going"
        /\ call.page = PageOf(walk)
        /\ call.size = SizeOf(walk)
        /\ call.offset = Offset(call.page, call.size)
        /\ ~call.raced => call.total = Cardinality(Listed)
        /\ call.raced => walk.raced

\* A walk goes on only after a page that had rows, or was to have some.
PageInv ==
    Walking => walk.page >= 1 /\ FirstRank(walk) - SizeOf(walk) < Cardinality(Jobs)

\* The rows seen are of ranks below those of the next page.
SeenInv ==
    (walk.status = "going" /\ ~walk.entered /\ TimesDiffer) =>
        IF walk.until = "single" THEN walk.seen = {}
        ELSE \A j \in walk.seen \cap Listed : Rank(j) < FirstRank(walk)

\* The rows not seen are of ranks from the next page on.
UnseenInv ==
    /\ walk.status = "going" => walk.stayed \subseteq Listed
    /\ (Walking /\ ~walk.left /\ ~walk.cut /\ TimesDiffer) =>
          \A j \in walk.stayed \ walk.seen : Rank(j) >= FirstRank(walk)

Inv ==
    /\ TypeOK
    /\ TimeInv
    /\ CallInv
    /\ PageInv
    /\ SeenInv
    /\ UnseenInv
    /\ AnswerFits
    /\ NothingMissed
    /\ NothingTwice

LEMMA InitInv == Init => Inv
<1> SUFFICES ASSUME Init PROVE Inv
  OBVIOUS
<1>1. TypeOK
  BY ListingAssumption DEF Init, TypeOK
<1>2. TimeInv /\ CallInv /\ PageInv /\ SeenInv /\ UnseenInv
  BY DEF Init, TimeInv, CallInv, PageInv, SeenInv, UnseenInv, Walking, NoCall, NoWalk
<1>3. AnswerFits /\ NothingMissed /\ NothingTwice
  BY DEF Init, AnswerFits, NothingMissed, NothingTwice, NoCall, NoWalk
<1> QED BY <1>1, <1>2, <1>3 DEF Inv

\* The ranges of the numbers of a request.
LEMMA RequestRanges ==
    ASSUME TypeOK, walk.status = "going"
    PROVE  /\ walk \in Walks
           /\ PageOf(walk) \in 1 .. WordMax /\ SizeOf(walk) \in 1 .. MaxPageSize
           /\ walk.page >= 1 => PageOf(walk) = walk.page
           /\ SizeOf(walk) \in Nat \ {0}
           /\ WordMax \in Nat /\ MaxPageSize \in Nat /\ MaxPageSize < WordMax
<1>1. walk \in Walks
  BY DEF TypeOK, NoWalk
<1>2. walk.page \in 0 .. WordMax /\ walk.size \in 0 .. WordMax
  BY <1>1 DEF Walks, RawInts
<1>3. Cardinality(Jobs) \in Nat
  BY ListedFinite
<1>4. WordMax \in Nat /\ WordMax >= 1 /\ MaxPageSize \in Nat /\ MaxPageSize < WordMax
      /\ DefaultPageSize \in 1 .. MaxPageSize
  BY <1>3, ListingAssumption
<1>5. PageOf(walk) \in 1 .. WordMax /\ (walk.page >= 1 => PageOf(walk) = walk.page)
  BY <1>2, <1>4 DEF PageOf, ClampPage, QueryInt
<1>6. SizeOf(walk) \in 1 .. MaxPageSize
  BY <1>2, <1>4 DEF SizeOf, ClampSize, QueryInt
<1> QED BY <1>1, <1>4, <1>5, <1>6

LEMMA CallRanges ==
    ASSUME TypeOK, CallInv, call.pc = "list"
    PROVE  /\ call \in InProgress
           /\ call.page \in Nat \ {0} /\ call.page <= WordMax
           /\ call.size \in Nat \ {0} /\ call.size <= MaxPageSize
           /\ call.total \in 0 .. Cardinality(Jobs)
           /\ call.offset \in Int
           /\ (call.page - 1) * call.size \in Nat
           /\ call.offset = Wrap((call.page - 1) * call.size)
           /\ WordMax \in Nat /\ MaxPageSize \in Nat /\ MaxPageSize < WordMax
<1>1. call \in InProgress
  BY DEF TypeOK, NoCall, Answered
<1>2. WordMax \in Nat /\ MaxPageSize \in Nat /\ MaxPageSize < WordMax
  BY ListingAssumption
<1>3. /\ call.page \in 1 .. WordMax /\ call.size \in 1 .. MaxPageSize
      /\ call.total \in 0 .. Cardinality(Jobs) /\ call.offset \in Int64
  BY <1>1 DEF InProgress
<1>4. call.page - 1 \in Nat /\ call.size \in Nat
  BY <1>2, <1>3
<1>5. (call.page - 1) * call.size \in Nat
  BY <1>4
<1>6. call.offset = Wrap((call.page - 1) * call.size)
  BY DEF CallInv, Offset
<1>7. call.offset \in Int
  BY <1>2, <1>3 DEF Int64
<1> QED BY <1>1, <1>2, <1>3, <1>5, <1>6, <1>7

-----------------------------------------------------------------------------
(* The board changes.                                                      *)

Statuses == {"unposted", "listed", "unlisted", "deleted"}

BoardStep ==
    \E j \in Jobs : \/ \E created \in 1 .. MaxTime : CreateJob(j, created)
                    \/ UpdateJob(j)
                    \/ DeleteJob(j)

\* What the changes of the board have in common.
LEMMA BoardChanges ==
    ASSUME TypeOK, TimeInv, BoardStep
    PROVE  /\ \E new \in [Jobs -> Statuses] : Witness(new)
           /\ at' \in [Jobs -> 0 .. MaxTime] /\ row' \in [Jobs -> Statuses]
           /\ TimeInv'
           /\ \A k \in Listed : at'[k] = at[k]
           /\ TimesDiffer' => TimesDiffer
<1>1. PICK j \in Jobs : \/ \E created \in 1 .. MaxTime : CreateJob(j, created)
                       \/ UpdateJob(j)
                       \/ DeleteJob(j)
  BY DEF BoardStep
<1>2. CASE \E created \in 1 .. MaxTime : CreateJob(j, created)
  <2>1. PICK created \in 1 .. MaxTime : CreateJob(j, created)
    BY <1>2
  <2>2. PICK listed \in {"listed", "unlisted"} : Witness([row EXCEPT ![j] = listed])
    BY <2>1 DEF CreateJob
  <2>3. [row EXCEPT ![j] = listed] \in [Jobs -> Statuses]
        /\ row' = [row EXCEPT ![j] = listed]
    BY <2>2 DEF TypeOK, Statuses, Witness
  <2>4. at' = [at EXCEPT ![j] = created] /\ row[j] = "unposted" /\ created # 0
        /\ created \in 0 .. MaxTime
    BY <2>1, ListingAssumption DEF CreateJob
  <2>5. at' \in [Jobs -> 0 .. MaxTime]
    BY <2>4 DEF TypeOK
  <2>6. TimeInv'
    BY <2>2, <2>3, <2>4 DEF TimeInv, TypeOK
  <2>7. \A k \in Jobs : at[k] # 0 => at'[k] = at[k]
    BY <2>4 DEF TypeOK, TimeInv
  <2>8. \A k \in Listed : at'[k] = at[k]
    BY <2>4 DEF TypeOK, Listed
  <2>9. TimesDiffer' => TimesDiffer
    BY <2>7 DEF TimesDiffer
  <2> QED BY <2>2, <2>3, <2>5, <2>6, <2>8, <2>9
<1>3. CASE UpdateJob(j) \/ DeleteJob(j)
  <2>1. PICK to \in {"listed", "unlisted", "deleted"} :
            Witness([row EXCEPT ![j] = to]) /\ row[j] # "unposted" /\ at' = at
    BY <1>3 DEF UpdateJob, DeleteJob
  <2>2. [row EXCEPT ![j] = to] \in [Jobs -> Statuses] /\ row' = [row EXCEPT ![j] = to]
    BY <2>1 DEF TypeOK, Statuses, Witness
  <2>3. TimeInv'
    BY <2>1, <2>2 DEF TimeInv, TypeOK
  <2>4. TimesDiffer' => TimesDiffer
    BY <2>1 DEF TimesDiffer
  <2> QED BY <2>1, <2>2, <2>3, <2>4 DEF TypeOK
<1> QED BY <1>1, <1>2, <1>3

\* What they do to a walk and to a request in progress.
LEMMA BoardHistory ==
    ASSUME TypeOK, TimeInv, BoardStep
    PROVE  /\ walk = NoWalk => walk' = walk
           /\ walk # NoWalk =>
                 /\ walk.status = "going"
                 /\ walk' = [walk EXCEPT
                                !.stayed = walk.stayed \cap Listed',
                                !.entered = walk.entered \/ ~(Listed' \subseteq Listed),
                                !.left = walk.left \/ ~(Listed \subseteq Listed'),
                                !.raced = walk.raced \/ (Listed' # Listed /\ call.pc = "list")]
           /\ call.pc # "list" => call' = call
           /\ call.pc = "list" =>
                 call' = [call EXCEPT !.raced = call.raced \/ Listed' # Listed]
           /\ dbErrs' = dbErrs
<1>1. PICK new \in [Jobs -> Statuses] : Witness(new)
  BY BoardChanges
<1>2. Listed' = {j \in Jobs : new[j] = "listed"}
  BY <1>1 DEF Witness, Listed
<1>3. walk = NoWalk \/ walk.status = "going"
  BY <1>1 DEF Witness, Watched, TypeOK, Walks
<1> QED BY <1>1, <1>2, <1>3 DEF Witness

LEMMA BoardKeepsTypes ==
    ASSUME TypeOK, TimeInv, BoardStep PROVE TypeOK'
<1>1. walk' \in {NoWalk} \cup Walks
  <2>1. CASE walk = NoWalk
    BY <2>1, BoardHistory
  <2>2. CASE walk # NoWalk
    <3>1. walk \in Walks
      BY <2>2 DEF TypeOK
    <3>2. walk.stayed \cap Listed' \in SUBSET Jobs
      BY <3>1 DEF Walks
    <3> QED BY <2>2, <3>1, <3>2, BoardHistory, ZenonT(60) DEF Walks
  <2> QED BY <2>1, <2>2
<1>2. call' \in {NoCall} \cup InProgress \cup Answered
  <2>1. CASE call.pc # "list"
    BY <2>1, BoardHistory DEF TypeOK
  <2>2. CASE call.pc = "list"
    <3>1. call \in InProgress
      BY <2>2 DEF TypeOK, NoCall, Answered
    <3> QED BY <2>2, <3>1, BoardHistory DEF InProgress
  <2> QED BY <2>1, <2>2
<1>3. /\ row' \in [Jobs -> Statuses] /\ at' \in [Jobs -> 0 .. MaxTime]
      /\ dbErrs' \in 0 .. MaxDbErrors
  BY BoardChanges, BoardHistory DEF TypeOK
<1> QED BY <1>1, <1>2, <1>3 DEF TypeOK, Statuses

LEMMA BoardKeeps ==
    ASSUME Inv, BoardStep PROVE Inv'
<1> USE DEF Inv
<1>1. TypeOK' /\ TimeInv'
  BY BoardKeepsTypes, BoardChanges
<1>2. IsFiniteSet(Listed')
  <2>1. Listed' \in SUBSET Jobs
    BY DEF Listed
  <2> QED BY <2>1, ListingAssumption, FS_Subset
<1>3. CallInv'
  <2> SUFFICES ASSUME call'.pc = "list"
               PROVE  /\ walk'.status = "going"
                      /\ call'.page = PageOf(walk') /\ call'.size = SizeOf(walk')
                      /\ call'.offset = Offset(call'.page, call'.size)
                      /\ ~call'.raced => call'.total = Cardinality(Listed')
                      /\ call'.raced => walk'.raced
    BY DEF CallInv
  <2>1. call.pc = "list" /\ call \in InProgress
    <3>1. call.pc = "list"
      BY BoardHistory
    <3> QED BY <3>1 DEF TypeOK, NoCall, Answered
  <2>2. walk \in Walks /\ walk # NoWalk
    BY <2>1 DEF CallInv, TypeOK, NoWalk
  <2>3. /\ call'.page = call.page /\ call'.size = call.size
        /\ call'.offset = call.offset /\ call'.total = call.total
        /\ call'.raced = (call.raced \/ Listed' # Listed)
    BY <2>1, BoardHistory DEF InProgress
  <2>4. /\ walk'.page = walk.page /\ walk'.size = walk.size /\ walk'.status = walk.status
        /\ walk'.raced = (walk.raced \/ (Listed' # Listed /\ call.pc = "list"))
    BY <2>2, BoardHistory DEF Walks
  <2>5. PageOf(walk') = PageOf(walk) /\ SizeOf(walk') = SizeOf(walk)
    BY <2>4 DEF PageOf, SizeOf
  <2> QED BY <2>1, <2>3, <2>4, <2>5 DEF CallInv
<1>4. AnswerFits'
  <2>1. CASE call.pc = "list"
    <3>1. call'.pc = "list"
      <4>1. call \in InProgress
        BY <2>1 DEF TypeOK, NoCall, Answered
      <4> QED BY <2>1, <4>1, BoardHistory DEF InProgress
    <3> QED BY <3>1 DEF AnswerFits
  <2>2. CASE call.pc # "list"
    <3>1. call' = call
      BY <2>2, BoardHistory
    <3>2. AnswerFits
      OBVIOUS
    <3> QED BY <3>1, <3>2 DEF AnswerFits, InRange
  <2> QED BY <2>1, <2>2
<1>5. CASE walk = NoWalk
  <2>1. walk' = NoWalk
    BY <1>5, BoardHistory
  <2>2. PageInv' /\ SeenInv' /\ UnseenInv' /\ NothingMissed' /\ NothingTwice'
    BY <2>1 DEF PageInv, SeenInv, UnseenInv, NothingMissed, NothingTwice, Walking, NoWalk
  <2> QED BY <1>1, <1>3, <1>4, <2>2
<1>6. CASE walk # NoWalk
  <2>1. walk \in Walks /\ walk.status = "going"
    BY <1>6, BoardHistory DEF TypeOK
  <2>2. /\ walk'.page = walk.page /\ walk'.size = walk.size /\ walk'.status = "going"
        /\ walk'.until = walk.until /\ walk'.seen = walk.seen /\ walk'.twice = walk.twice
        /\ walk'.cut = walk.cut
        /\ walk'.stayed = walk.stayed \cap Listed'
        /\ walk'.entered = (walk.entered \/ ~(Listed' \subseteq Listed))
        /\ walk'.left = (walk.left \/ ~(Listed \subseteq Listed'))
    BY <1>6, <2>1, BoardHistory DEF Walks
  <2>3. FirstRank(walk') = FirstRank(walk) /\ SizeOf(walk') = SizeOf(walk)
    BY <2>2 DEF FirstRank, SizeOf
  <2>4. FirstRank(walk) \in Int
    <3>1. SizeOf(walk) \in Int /\ walk.page \in Int
      BY <2>1, RequestRanges DEF Walks, RawInts
    <3> QED BY <3>1 DEF FirstRank
  <2>5. PageInv'
    BY <2>1, <2>2, <2>3 DEF PageInv, Walking
  <2>6. SeenInv'
    <3> SUFFICES ASSUME ~walk'.entered, TimesDiffer', walk.until # "single",
                        NEW j \in walk.seen \cap Listed'
                 PROVE  Rank(j)' < FirstRank(walk)
      BY <2>1, <2>2, <2>3, BoardChanges DEF SeenInv
    <3>1. Listed' \subseteq Listed /\ ~walk.entered /\ TimesDiffer
      BY <2>2, BoardChanges
    <3>2. Rank(j) < FirstRank(walk)
      BY <2>1, <3>1 DEF SeenInv
    <3>3. Rank(j)' <= Rank(j)
      BY <3>1, BoardChanges, RankFalls
    <3>4. Rank(j) \in Int /\ Rank(j)' \in Int
      <4>1. Rank(j) \in Nat
        BY <3>1, RankRange
      <4>2. IsFiniteSet({k \in Listed' : at'[k] > at'[j]})
        BY <1>2, FS_Subset
      <4>3. Rank(j)' \in Nat
        BY <4>2, FS_CardinalityType DEF Rank
      <4> QED BY <4>1, <4>3
    <3> QED BY <2>4, <3>2, <3>3, <3>4
  <2>7. UnseenInv'
    <3>1. walk'.stayed \subseteq Listed'
      BY <2>2
    <3>2. ASSUME Walking', ~walk'.left, ~walk'.cut, TimesDiffer',
                 NEW j \in walk'.stayed \ walk'.seen
          PROVE  Rank(j)' >= FirstRank(walk')
      <4>1. /\ Listed \subseteq Listed' /\ ~walk.left /\ ~walk.cut /\ TimesDiffer
            /\ Walking
        BY <2>1, <2>2, <3>2, BoardChanges DEF Walking
      <4>2. j \in walk.stayed \ walk.seen /\ j \in Listed
        BY <2>1, <2>2, <3>2 DEF UnseenInv
      <4>3. Rank(j) >= FirstRank(walk)
        BY <4>1, <4>2 DEF UnseenInv
      <4>4. Rank(j) <= Rank(j)'
        BY <1>2, <4>1, <4>2, BoardChanges, RankGrows
      <4>5. Rank(j) \in Int /\ Rank(j)' \in Int
        <5>1. Rank(j) \in Nat
          BY <4>2, RankRange
        <5>2. IsFiniteSet({k \in Listed' : at'[k] > at'[j]})
          BY <1>2, FS_Subset
        <5>3. Rank(j)' \in Nat
          BY <5>2, FS_CardinalityType DEF Rank
        <5> QED BY <5>1, <5>3
      <4> QED BY <2>3, <2>4, <4>3, <4>4, <4>5
    <3> QED BY <3>1, <3>2 DEF UnseenInv
  <2>8. NothingMissed'
    BY <2>2 DEF NothingMissed
  <2>9. NothingTwice'
    BY <2>1, <2>2, BoardChanges DEF NothingTwice
  <2> QED BY <1>1, <1>3, <1>4, <2>5, <2>6, <2>7, <2>8, <2>9
<1> QED BY <1>5, <1>6

-----------------------------------------------------------------------------
(* A walk begins, and a request counts.                                    *)

LEMMA StartKeeps ==
    ASSUME Inv, NEW until \in {"single", "empty", "pages"},
           NEW page \in RawInts, NEW size \in RawInts, StartWalk(until, page, size)
    PROVE  Inv'
<1>1. TypeOK /\ TimeInv /\ CallInv /\ AnswerFits
  BY DEF Inv
<1>2. /\ walk = NoWalk /\ (until # "single" => page = 1)
      /\ walk' = [status |-> "going", until |-> until, page |-> page, size |-> size,
                  seen |-> {}, twice |-> FALSE, stayed |-> Listed,
                  entered |-> FALSE, left |-> FALSE, raced |-> FALSE, cut |-> FALSE]
      /\ row' = row /\ at' = at /\ call' = call /\ dbErrs' = dbErrs
  BY DEF StartWalk
<1>3. Listed' = Listed /\ Listed \subseteq Jobs
  BY <1>2 DEF Listed
<1>4. TypeOK'
  <2>1. walk' \in Walks
    BY <1>2, <1>3 DEF Walks
  <2> QED BY <1>1, <1>2, <2>1 DEF TypeOK
<1>5. TimeInv'
  BY <1>1, <1>2 DEF TimeInv
<1>6. call.pc # "list"
  BY <1>1, <1>2 DEF CallInv, NoWalk
<1>7. CallInv' /\ AnswerFits'
  BY <1>1, <1>2, <1>6 DEF CallInv, AnswerFits, InRange
<1>8. ASSUME Walking'
      PROVE  FirstRank(walk') = 0 /\ SizeOf(walk') \in Nat \ {0} /\ walk'.page = 1
  <2>1. walk'.page = 1
    BY <1>2, <1>8 DEF Walking
  <2>2. SizeOf(walk') \in Nat \ {0}
    <3>1. size \in 0 .. WordMax
      BY DEF RawInts
    <3> QED BY <1>2, <3>1, ListingAssumption DEF SizeOf, ClampSize, QueryInt
  <2> QED BY <2>1, <2>2 DEF FirstRank
<1>9. PageInv'
  BY <1>8, ListedFinite DEF PageInv
<1>10. SeenInv'
  BY <1>2 DEF SeenInv
<1>11. UnseenInv'
  <2>1. ASSUME Walking', NEW j \in walk'.stayed \ walk'.seen
        PROVE  Rank(j)' >= FirstRank(walk')
    <3>1. j \in Listed
      BY <1>2, <2>1
    <3>2. Rank(j) \in Nat
      BY <1>1, <3>1, RankRange
    <3>3. Rank(j)' = Rank(j)
      BY <1>2, <1>3 DEF Rank
    <3> QED BY <1>8, <2>1, <3>2, <3>3
  <2>2. walk'.stayed \subseteq Listed'
    BY <1>2, <1>3
  <2> QED BY <2>1, <2>2 DEF UnseenInv
<1>12. NothingMissed' /\ NothingTwice'
  BY <1>2 DEF NothingMissed, NothingTwice
<1> QED BY <1>4, <1>5, <1>7, <1>9, <1>10, <1>11, <1>12 DEF Inv

LEMMA CountKeeps ==
    ASSUME Inv, Count PROVE Inv'
<1> DEFINE page == PageOf(walk)
           size == SizeOf(walk)
<1>1. /\ TypeOK /\ TimeInv /\ PageInv /\ SeenInv /\ UnseenInv
      /\ NothingMissed /\ NothingTwice
  BY DEF Inv
<1>2. /\ walk.status = "going"
      /\ call' = [pc |-> "list", page |-> page, size |-> size,
                  offset |-> Offset(page, size), total |-> Cardinality(Listed),
                  raced |-> FALSE]
      /\ row' = row /\ at' = at /\ walk' = walk /\ dbErrs' = dbErrs
  BY DEF Count, PageOf, SizeOf
<1>3. Listed' = Listed
  BY <1>2 DEF Listed
<1>4. page \in 1 .. WordMax /\ size \in 1 .. MaxPageSize /\ WordMax \in Nat
      /\ MaxPageSize \in Nat
  BY <1>1, <1>2, RequestRanges
<1>5. Offset(page, size) \in Int64
  <2>1. (page - 1) * size \in Nat
    <3>1. page - 1 \in Nat /\ size \in Nat
      BY <1>4
    <3> QED BY <3>1
  <2> QED BY <2>1, WrapShape DEF Offset
<1> HIDE DEF page, size
<1>6. call' \in InProgress
  BY <1>2, <1>4, <1>5, ListedFinite DEF InProgress
<1>7. TypeOK'
  BY <1>1, <1>2, <1>6 DEF TypeOK
<1>8. CallInv'
  BY <1>2, <1>3 DEF CallInv, page, size
<1>9. TimeInv' /\ PageInv' /\ AnswerFits'
  BY <1>1, <1>2 DEF TimeInv, PageInv, Walking, AnswerFits
<1>10. \A j : Rank(j)' = Rank(j)
  BY <1>2, <1>3 DEF Rank
<1>11. SeenInv' /\ UnseenInv'
  BY <1>1, <1>2, <1>3, <1>10 DEF SeenInv, UnseenInv, Walking, TimesDiffer
<1>12. NothingMissed' /\ NothingTwice'
  BY <1>1, <1>2 DEF NothingMissed, NothingTwice, TimesDiffer
<1> QED BY <1>7, <1>8, <1>9, <1>11, <1>12 DEF Inv

-----------------------------------------------------------------------------
(* A request is refused.                                                   *)

LEMMA RefuseKeeps ==
    ASSUME Inv, walk.status = "going", Refuse, row' = row, at' = at,
           dbErrs' \in 0 .. MaxDbErrors
    PROVE  Inv'
<1>1. TypeOK /\ TimeInv /\ NothingTwice
  BY DEF Inv
<1>2. walk \in Walks
  BY <1>1, RequestRanges
<1>3. call' = NoCall /\ walk' = [walk EXCEPT !.status = "failed"]
  BY DEF Refuse
<1>4. /\ walk' \in Walks /\ walk'.status = "failed" /\ walk'.twice = walk.twice
      /\ walk'.entered = walk.entered
  BY <1>2, <1>3 DEF Walks
<1>5. TypeOK' /\ TimeInv'
  BY <1>1, <1>3, <1>4 DEF TypeOK, TimeInv
<1>6. CallInv' /\ PageInv' /\ SeenInv' /\ UnseenInv' /\ AnswerFits' /\ NothingMissed'
  BY <1>3, <1>4 DEF CallInv, PageInv, SeenInv, UnseenInv, AnswerFits, NothingMissed,
                    Walking, NoCall
<1>7. NothingTwice'
  BY <1>1, <1>4 DEF NothingTwice, TimesDiffer
<1> QED BY <1>5, <1>6, <1>7 DEF Inv

-----------------------------------------------------------------------------
(* A request is answered.                                                  *)

\* What the rows got of an answer are: those of a window, or of its beginning
\* when the result breaks off.
Fits(got, cut) ==
    /\ got \subseteq Listed
    /\ got # {} => call.offset >= 0 /\ call.offset < Cardinality(Listed)
    /\ ~cut =>
          /\ call.offset >= 0
          /\ Cardinality(got) = IF call.offset >= Cardinality(Listed) THEN 0
                                ELSE IF call.offset + call.size < Cardinality(Listed)
                                     THEN call.size
                                     ELSE Cardinality(Listed) - call.offset
          /\ got = {} <=> call.offset >= Cardinality(Listed)
          /\ TimesDiffer =>
                \A j \in Listed : call.offset <= Rank(j) /\ Rank(j) < call.offset + call.size
                                     => j \in got
    /\ TimesDiffer =>
          \A j \in got : call.offset <= Rank(j) /\ Rank(j) < call.offset + call.size

\* The first m rows of a window.
LEMMA WindowFits ==
    ASSUME TypeOK, TimeInv, CallInv, call.pc = "list", call.offset >= 0, NEW o \in Orders,
           NEW w, w = Window(o, call.offset, call.size), NEW m \in 0 .. Len(w),
           NEW got, \A j : j \in got <=> \E i \in 1 .. m : j = w[i]
    PROVE  Fits(got, m < Len(w))
<1>1. PICK n \in Nat : n = Cardinality(Listed)
  BY ListedFinite
<1>2. PICK f \in Nat : f = call.offset
  BY CallRanges
<1>3. PICK size \in Nat \ {0} : size = call.size
  BY CallRanges
<1>4. PICK k \in Nat : /\ k = Len(w)
                       /\ k = IF f >= n THEN 0 ELSE IF f + size < n THEN size ELSE n - f
                       /\ \A i \in 1 .. k : w[i] = o[f + i]
  <2>1. Len(o) = n
    BY <1>1, OrderShape
  <2>2. w = Window(o, f, size)
    BY <1>2, <1>3
  <2>3. /\ Len(w) = IF f < n THEN LastOf(o, f, size) - f ELSE 0
        /\ \A i \in 1 .. Len(w) : w[i] = o[f + i]
    BY <2>1, <2>2, WindowShape
  <2>4. LastOf(o, f, size) = IF f + size < n THEN f + size ELSE n
    BY <2>1 DEF LastOf
  <2>5. /\ Len(w) \in Nat
        /\ Len(w) = IF f >= n THEN 0 ELSE IF f + size < n THEN size ELSE n - f
    BY <2>3, <2>4
  <2> QED BY <2>3, <2>5, Zenon
<1>5. m \in 0 .. k
  BY <1>4
<1>6. PICK g : \A i \in 1 .. m : g[i] = o[f + i] /\ w[i] = g[i]
  <2> DEFINE h == [i \in 1 .. m |-> o[f + i]]
  <2>1. \A i \in 1 .. m : h[i] = o[f + i] /\ w[i] = h[i]
    BY <1>4, <1>5
  <2> HIDE DEF h
  <2> QED BY <2>1, Zenon
<1>7. /\ Len(o) = n
      /\ \A i \in 1 .. n : o[i] \in Listed
      /\ \A i, j \in 1 .. n : o[i] = o[j] => i = j
      /\ \A j \in Listed : \E i \in 1 .. n : o[i] = j
  BY <1>1, OrderShape
<1>8. \A i \in 1 .. m : f + i \in 1 .. n /\ g[i] = o[f + i]
  BY <1>4, <1>5, <1>6
<1>9. /\ got = {g[i] : i \in 1 .. m}
      /\ \A i \in 1 .. m : g[i] \in got
      /\ \A j \in got : \E i \in 1 .. m : j = g[i]
  <2> DEFINE D == 1 .. m
  <2>1. /\ \A i \in D : w[i] = g[i]
        /\ \A j : j \in got <=> \E i \in D : j = w[i]
    BY <1>6
  <2> HIDE DEF D
  <2>2. /\ got = {g[i] : i \in D}
        /\ \A i \in D : g[i] \in got
        /\ \A j \in got : \E i \in D : j = g[i]
    BY <2>1
  <2> QED BY <2>2, Zenon DEF D
<1>10. /\ \A i \in 1 .. m : g[i] \in got
       /\ \A j \in got : \E i \in 1 .. m : j = g[i]
  BY <1>9, Zenon
<1>11. got \subseteq Listed
  <2> SUFFICES ASSUME NEW j \in got PROVE j \in Listed
    OBVIOUS
  <2>1. PICK i \in 1 .. m : j = g[i]
    BY <1>10
  <2>2. PICK r \in 1 .. n : j = o[r]
    BY <1>8, <2>1
  <2> QED BY <1>7, <2>2
<1>12. got # {} => f < n
  BY <1>4, <1>5, <1>10
<1>13. Cardinality(got) = m
  <2>1. \A x, y \in 1 .. m : g[x] = g[y] => x = y
    BY <1>7, <1>8
  <2>2. IsFiniteSet(1 .. m) /\ Cardinality(1 .. m) = m
    <3>1. 1 \in Int /\ m \in Int /\ m >= 0
      BY <1>5
    <3> QED BY <3>1, FS_Interval
  <2>3. Cardinality({g[x] : x \in 1 .. m}) = Cardinality(1 .. m)
    BY <2>1, <2>2, InjectiveImage
  <2> QED BY <1>9, <2>2, <2>3, Zenon
<1>14. TimesDiffer => \A i \in 1 .. n : Rank(o[i]) = i - 1
  BY <1>7, RankInOrder
<1>15. TimesDiffer => \A j \in got : f <= Rank(j) /\ Rank(j) < f + size
  <2> SUFFICES ASSUME TimesDiffer, NEW j \in got
               PROVE  f <= Rank(j) /\ Rank(j) < f + size
    OBVIOUS
  <2>1. PICK i \in 1 .. m : j = g[i]
    BY <1>10
  <2>2. PICK r \in 1 .. n : r = f + i /\ j = o[r]
    BY <1>8, <2>1
  <2>3. Rank(j) = r - 1
    BY <1>14, <2>2
  <2> QED BY <1>4, <1>5, <2>2, <2>3
<1>16. ASSUME m = k
       PROVE  /\ got = {} <=> f >= n
              /\ TimesDiffer =>
                    \A j \in Listed : f <= Rank(j) /\ Rank(j) < f + size => j \in got
  <2>1. f < n => 1 \in 1 .. m
    BY <1>4, <1>16
  <2>2. got = {} <=> f >= n
    BY <1>12, <1>10, <2>1
  <2>3. ASSUME TimesDiffer, NEW j \in Listed, f <= Rank(j), Rank(j) < f + size
        PROVE  j \in got
    <3>1. PICK i \in 1 .. n : o[i] = j
      BY <1>7
    <3>2. Rank(j) = i - 1
      BY <1>14, <2>3, <3>1
    <3>3. i - f \in 1 .. m /\ i = f + (i - f)
      BY <1>4, <1>16, <2>3, <3>2
    <3> QED BY <1>8, <1>10, <3>1, <3>3
  <2> QED BY <2>2, <2>3
<1>17. ASSUME ~(m < k) PROVE m = k
  BY <1>5, <1>17
<1>18. Fits(got, m < k)
  <2>1. ~(m < k) =>
           /\ f >= 0
           /\ Cardinality(got) = IF f >= n THEN 0 ELSE IF f + size < n THEN size ELSE n - f
           /\ got = {} <=> f >= n
           /\ TimesDiffer =>
                 \A j \in Listed : f <= Rank(j) /\ Rank(j) < f + size => j \in got
    <3> SUFFICES ASSUME ~(m < k)
                 PROVE  /\ f >= 0
                        /\ Cardinality(got) = IF f >= n THEN 0
                                              ELSE IF f + size < n THEN size ELSE n - f
                        /\ got = {} <=> f >= n
                        /\ TimesDiffer =>
                              \A j \in Listed : f <= Rank(j) /\ Rank(j) < f + size
                                                  => j \in got
      OBVIOUS
    <3>1. m = k
      BY <1>17
    <3>2. Cardinality(got) = IF f >= n THEN 0 ELSE IF f + size < n THEN size ELSE n - f
      BY <1>4, <1>13, <3>1
    <3> HIDE DEF TimesDiffer
    <3> QED BY <1>16, <3>1, <3>2
  <2>2. got # {} => f >= 0 /\ f < n
    BY <1>12
  <2> HIDE DEF TimesDiffer
  <2> QED BY <1>1, <1>2, <1>3, <1>11, <1>15, <2>1, <2>2 DEF Fits
<1> QED BY <1>2, <1>3, <1>4, <1>18

\* What List and ListFails come to.
LEMMA AnswerCases ==
    ASSUME TypeOK, TimeInv, CallInv, List \/ ListFails
    PROVE  /\ call.pc = "list" /\ row' = row /\ at' = at /\ dbErrs' \in 0 .. MaxDbErrors
           /\ \/ Refuse
              \/ \E seq, cut : /\ Answer(seq, cut) /\ cut \in BOOLEAN
                              /\ Fits(ToSet(seq), cut)
<1>1. /\ call.pc = "list" /\ row' = row /\ at' = at
      /\ dbErrs' \in 0 .. MaxDbErrors
  <2>1. dbErrs \in 0 .. MaxDbErrors /\ MaxDbErrors \in Nat
    BY ListingAssumption DEF TypeOK
  <2>2. CASE List
    BY <2>1, <2>2 DEF List
  <2>3. CASE ListFails
    <3>1. call.pc = "list" /\ row' = row /\ at' = at
      BY <2>3 DEF ListFails
    <3>2. dbErrs' = dbErrs \/ DbError
      BY <2>3 DEF ListFails
    <3> QED BY <2>1, <3>1, <3>2 DEF DbError
  <2> QED BY <2>2, <2>3
<1>2. /\ call.offset \in Int
      /\ call.size \in Nat \ {0}
  BY <1>1, CallRanges
<1>3. ASSUME call.offset >= 0, NEW o \in Orders, NEW page,
             page = Window(o, call.offset, call.size)
      PROVE  /\ Len(page) \in Nat
             /\ ToSet(page) = {page[i] : i \in 1 .. Len(page)}
             /\ \A m \in 0 .. Len(page) :
                   ToSet(SubSeq(page, 1, m)) = {page[i] : i \in 1 .. m}
  <2>2. page \in Seq(Listed)
    BY <1>2, <1>3, WindowShape
  <2>3. Len(page) \in Nat /\ DOMAIN page = 1 .. Len(page)
        /\ \A i \in 1 .. Len(page) : page[i] \in Listed
    BY <2>2
  <2>4. ASSUME NEW m \in 0 .. Len(page)
        PROVE  ToSet(SubSeq(page, 1, m)) = {page[i] : i \in 1 .. m}
    <3>1. PICK s : s = SubSeq(page, 1, m)
      OBVIOUS
    <3>2. /\ s \in Seq(Listed) /\ Len(s) = IF 1 <= m THEN m - 1 + 1 ELSE 0
          /\ \A i \in 1 .. m - 1 + 1 : s[i] = page[1 + i - 1]
      <4>1. m \in Int /\ 1 \in Int /\ \A i \in 1 .. m : page[i] \in Listed
        BY <2>3
      <4> QED BY <3>1, <4>1, SubSeqProperties
    <3>3. DOMAIN s = 1 .. m
      <4>1. Len(s) = m
        BY <2>3, <3>2
      <4> QED BY <3>2, <4>1, LenProperties
    <3>4. \A i \in 1 .. m : s[i] = page[i]
      BY <2>3, <3>2
    <3> QED BY <3>1, <3>3, <3>4 DEF ToSet
  <2> QED BY <2>3, <2>4 DEF ToSet
<1>4. CASE List
  <2>1. PICK o \in Orders : Answer(Window(o, call.offset, call.size), FALSE)
    BY <1>4 DEF List
  <2>2. call.offset >= 0
    BY <1>4 DEF List
  <2>3. PICK page : page = Window(o, call.offset, call.size)
    OBVIOUS
  <2>4. Len(page) \in Nat /\ ToSet(page) = {page[i] : i \in 1 .. Len(page)}
    BY <1>3, <2>2, <2>3
  <2>5. PICK m \in 0 .. Len(page) :
            m = Len(page) /\ \A j : j \in ToSet(page) <=> \E i \in 1 .. m : j = page[i]
    BY <2>4
  <2>6. Fits(ToSet(page), m < Len(page))
    BY <1>1, <2>2, <2>3, <2>4, <2>5, WindowFits
  <2>7. (m < Len(page)) = FALSE
    BY <2>4, <2>5
  <2> QED BY <1>1, <2>1, <2>3, <2>6, <2>7
<1>5. CASE ListFails
  <2>1. CASE call.offset < 0 /\ Answer(<<>>, TRUE)
    <3>1. ToSet(<<>>) = {}
      BY DEF ToSet
    <3>2. Fits({}, TRUE)
      BY DEF Fits
    <3> QED BY <1>1, <2>1, <3>1, <3>2
  <2>2. CASE call.offset >= 0 /\ \E o \in Orders :
                LET page == Window(o, call.offset, call.size)
                IN  \E n \in 0 .. Len(page) : Answer(SubSeq(page, 1, n), n < Len(page))
    <3>1. PICK o \in Orders : \E page :
              /\ page = Window(o, call.offset, call.size)
              /\ \E n \in 0 .. Len(page) : Answer(SubSeq(page, 1, n), n < Len(page))
      BY <2>2
    <3>2. PICK page :
              /\ page = Window(o, call.offset, call.size)
              /\ \E n \in 0 .. Len(page) : Answer(SubSeq(page, 1, n), n < Len(page))
      BY <3>1
    <3>3. PICK m \in 0 .. Len(page) : Answer(SubSeq(page, 1, m), m < Len(page))
      BY <3>2
    <3>4. \A j : j \in ToSet(SubSeq(page, 1, m)) <=> \E i \in 1 .. m : j = page[i]
      <4>1. ToSet(SubSeq(page, 1, m)) = {page[i] : i \in 1 .. m}
        BY <1>3, <2>2, <3>2
      <4> QED BY <4>1
    <3>5. Fits(ToSet(SubSeq(page, 1, m)), m < Len(page))
      BY <1>1, <2>2, <3>2, <3>4, WindowFits
    <3>6. (m < Len(page)) \in BOOLEAN
      OBVIOUS
    <3> QED BY <1>1, <3>3, <3>5, <3>6
  <2>3. CASE Refuse
    BY <1>1, <2>3
  <2> QED BY <1>5, <2>1, <2>2, <2>3 DEF ListFails
<1> QED BY <1>4, <1>5

LEMMA AnswerKeeps ==
    ASSUME Inv, call.pc = "list", row' = row, at' = at, dbErrs' \in 0 .. MaxDbErrors,
           NEW seq, NEW cut \in BOOLEAN, Answer(seq, cut), Fits(ToSet(seq), cut)
    PROVE  Inv'
<1>1. /\ TypeOK /\ TimeInv /\ CallInv /\ PageInv /\ SeenInv /\ UnseenInv
      /\ AnswerFits /\ NothingMissed /\ NothingTwice
  BY DEF Inv
<1>2. PICK got : got = ToSet(seq)
  OBVIOUS
<1>3. Fits(got, cut) /\ got \subseteq Listed /\ got \subseteq Jobs
  BY <1>2 DEF Fits, Listed
<1>4. PICK p \in Nat \ {0}, size \in Nat \ {0}, total \in 0 .. Cardinality(Jobs),
           offset \in Int :
        /\ p = call.page /\ size = call.size /\ total = call.total /\ offset = call.offset
        /\ p <= WordMax /\ size <= MaxPageSize
        /\ (p - 1) * size \in Nat /\ offset = Wrap((p - 1) * size)
  BY <1>1, CallRanges
<1>5. WordMax \in Nat /\ MaxPageSize \in Nat /\ MaxPageSize < WordMax
      /\ Cardinality(Jobs) \in Nat /\ Cardinality(Jobs) < WordMax
  BY ListingAssumption, ListedFinite
<1>6. PICK n \in Nat : n = Cardinality(Listed) /\ n <= Cardinality(Jobs)
  BY ListedFinite
<1>7. walk \in Walks /\ walk.status = "going" /\ p = PageOf(walk) /\ size = SizeOf(walk)
  <2>1. walk.status = "going" /\ p = PageOf(walk) /\ size = SizeOf(walk)
    BY <1>1, <1>4 DEF CallInv
  <2> QED BY <1>1, <2>1, RequestRanges
<1>8. PICK pages \in 0 .. total :
        /\ pages = TotalPages(total, size)
        /\ (p <= pages <=> (p - 1) * size < total)
        /\ (p + 1 <= pages <=> p * size < total)
  <2>1. total \in Nat
    BY <1>5
  <2>2. /\ TotalPages(total, size) \in 0 .. total
        /\ \A k \in Nat \ {0} : k <= TotalPages(total, size) <=> (k - 1) * size < total
    BY <2>1, PagesAnnounced
  <2>3. (p + 1) - 1 = p /\ p + 1 \in Nat \ {0}
    OBVIOUS
  <2>4. /\ p <= TotalPages(total, size) <=> (p - 1) * size < total
        /\ p + 1 <= TotalPages(total, size) <=> p * size < total
    BY <2>2, <2>3
  <2> QED BY <2>2, <2>4
<1>9. call' = [pc |-> "answered", page |-> p, size |-> size, total |-> total,
               pages |-> pages, rows |-> got, raced |-> call.raced, cut |-> cut]
      /\ call.raced \in BOOLEAN
  <2>1. call.raced \in BOOLEAN
    BY <1>1, CallRanges DEF InProgress
  <2>2. call' = [pc |-> "answered", page |-> call.page, size |-> call.size,
                 total |-> call.total, pages |-> TotalPages(call.total, call.size),
                 rows |-> ToSet(seq), raced |-> call.raced, cut |-> cut]
    BY DEF Answer
  <2> QED BY <1>2, <1>4, <1>8, <2>1, <2>2
<1>10. PICK over \in BOOLEAN :
         /\ walk.until = "single" => over
         /\ walk.until = "empty" => (over <=> got = {})
         /\ walk.until = "pages" => (over <=> p >= pages)
         /\ walk' = [walk EXCEPT !.seen = walk.seen \cup got,
                                 !.twice = walk.twice \/ walk.seen \cap got # {},
                                 !.cut = walk.cut \/ cut,
                                 !.page = IF over THEN walk.page ELSE walk.page + 1,
                                 !.status = IF over THEN "done" ELSE walk.status]
  <2>1. walk.until \in {"single", "empty", "pages"}
    BY <1>7 DEF Walks
  <2>2. PICK answer : /\ answer.rows = got /\ answer.cut = cut
                      /\ answer.page = p /\ answer.pages = pages
                      /\ Turn(answer)
    <3>1. Turn([pc |-> "answered", page |-> call.page, size |-> call.size,
                total |-> call.total, pages |-> TotalPages(call.total, call.size),
                rows |-> ToSet(seq), raced |-> call.raced, cut |-> cut])
      BY DEF Answer
    <3> QED BY <1>2, <1>4, <1>8, <3>1
  <2>3. CASE walk.until = "single"
    BY <2>2, <2>3 DEF Turn
  <2>4. CASE walk.until = "empty"
    BY <2>2, <2>4 DEF Turn
  <2>5. CASE walk.until = "pages"
    BY <2>2, <2>5 DEF Turn
  <2> QED BY <2>1, <2>3, <2>4, <2>5
<1>11. /\ walk'.seen = walk.seen \cup got
       /\ walk'.twice = (walk.twice \/ walk.seen \cap got # {})
       /\ walk'.cut = (walk.cut \/ cut)
       /\ walk'.page = IF over THEN walk.page ELSE walk.page + 1
       /\ walk'.status = IF over THEN "done" ELSE "going"
       /\ walk'.until = walk.until /\ walk'.size = walk.size /\ walk'.stayed = walk.stayed
       /\ walk'.entered = walk.entered /\ walk'.left = walk.left /\ walk'.raced = walk.raced
       /\ walk.until \in {"single", "empty", "pages"}
  BY <1>7, <1>10 DEF Walks
\* Where the page begins.
<1>12. (p - 1) * size <= WordMax => offset = (p - 1) * size
  BY <1>4, WrapShape
<1>13. ASSUME Walking
       PROVE  /\ p = walk.page /\ FirstRank(walk) = (p - 1) * size
              /\ offset >= 0 => offset = (p - 1) * size
  <2>1. p = walk.page
    BY <1>1, <1>7, <1>13, RequestRanges DEF PageInv
  <2>2. FirstRank(walk) = (p - 1) * size
    BY <1>7, <2>1 DEF FirstRank
  <2>3. (p - 1) * size - size < Cardinality(Jobs)
    BY <1>1, <1>7, <1>13, <2>2 DEF PageInv
  <2>4. PICK x \in Nat : x = (p - 1) * size
    BY <1>4
  <2>5. x <= 2 * WordMax /\ offset = Wrap(x)
    BY <1>4, <1>5, <2>3, <2>4
  <2>6. offset >= 0 => offset = x
    BY <1>5, <2>5, WrapShape
  <2> QED BY <2>1, <2>2, <2>4, <2>6
<1>14. ASSUME ~over
       PROVE  Walking /\ (p - 1) * size < Cardinality(Jobs) /\ p + 1 <= WordMax
  <2>1. Walking
    BY <1>7, <1>10, <1>14 DEF Walking
  <2>2. (p - 1) * size < Cardinality(Jobs)
    <3>1. CASE walk.until = "empty"
      <4>1. offset >= 0 /\ offset < n
        BY <1>3, <1>4, <1>6, <1>10, <1>14, <3>1 DEF Fits
      <4>2. offset = (p - 1) * size
        BY <1>13, <2>1, <4>1
      <4> QED BY <1>5, <1>6, <4>1, <4>2
    <3>2. CASE walk.until = "pages"
      <4>1. p <= pages
        BY <1>5, <1>8, <1>10, <1>14, <3>2
      <4>2. (p - 1) * size < total
        BY <1>8, <4>1
      <4> QED BY <1>4, <1>5, <4>2
    <3> QED BY <1>11, <2>1, <3>1, <3>2 DEF Walking
  <2>3. p - 1 <= (p - 1) * size
    <3>1. p - 1 \in Nat /\ 1 <= size
      OBVIOUS
    <3>2. 1 * (p - 1) <= size * (p - 1)
      BY <3>1, TimesMonotonic
    <3>3. size * (p - 1) = (p - 1) * size
      BY <3>1
    <3> QED BY <3>1, <3>2, <3>3
  <2>4. PICK x \in Nat : x = (p - 1) * size
    BY <1>4
  <2>5. p - 1 <= x /\ x < Cardinality(Jobs)
    BY <2>2, <2>3, <2>4
  <2>6. p + 1 <= WordMax
    BY <1>5, <2>5
  <2> QED BY <2>1, <2>2, <2>6
<1>15. Listed' = Listed /\ \A j : Rank(j)' = Rank(j)
  BY DEF Listed, Rank
<1>16. TimesDiffer' <=> TimesDiffer
  BY DEF TimesDiffer
<1>17. SizeOf(walk') = size
  BY <1>7, <1>11 DEF SizeOf
<1>18. ASSUME ~over
       PROVE  walk'.page = p + 1 /\ FirstRank(walk') = (p - 1) * size + size
  <2>1. walk'.page = p + 1
    BY <1>11, <1>13, <1>14, <1>18
  <2>2. p * size = (p - 1) * size + size
    OBVIOUS
  <2> QED BY <1>17, <2>1, <2>2 DEF FirstRank
\* The parts of the invariant.
<1>19. TypeOK' /\ TimeInv'
  <2>1. walk' \in Walks
    <3>1. walk'.page \in RawInts
      <4>1. walk.page \in 0 .. WordMax
        BY <1>7 DEF Walks, RawInts
      <4>2. over => walk'.page = walk.page
        BY <1>11
      <4>3. ~over => walk'.page \in 0 .. WordMax
        BY <1>5, <1>14, <1>18
      <4> QED BY <4>1, <4>2, <4>3 DEF RawInts
    <3>2. walk.seen \cup got \in SUBSET Jobs
      BY <1>3, <1>7 DEF Walks
    <3>3. (IF over THEN walk.page ELSE walk.page + 1) \in RawInts
      BY <1>11, <3>1
    <3> QED BY <1>7, <1>10, <3>2, <3>3, ZenonT(60) DEF Walks
  <2>2. call' \in Answered
    <3>1. p \in 1 .. WordMax /\ size \in 1 .. MaxPageSize /\ pages \in 0 .. Cardinality(Jobs)
          /\ total \in 0 .. Cardinality(Jobs) /\ got \in SUBSET Jobs
      BY <1>3, <1>4, <1>5, <1>8
    <3> QED BY <1>9, <3>1 DEF Answered
  <2> QED BY <1>1, <2>1, <2>2 DEF TypeOK, TimeInv
<1>20. CallInv'
  BY <1>9 DEF CallInv
<1>21. PageInv'
  <2> SUFFICES ASSUME Walking'
               PROVE  walk'.page >= 1 /\ FirstRank(walk') - SizeOf(walk') < Cardinality(Jobs)
    BY DEF PageInv
  <2>1. ~over
    BY <1>11 DEF Walking
  <2>2. PICK x \in Nat : x = (p - 1) * size
    BY <1>4
  <2>3. walk'.page = p + 1 /\ FirstRank(walk') = x + size /\ x < Cardinality(Jobs)
    BY <1>14, <1>18, <2>1, <2>2
  <2> QED BY <1>5, <1>17, <2>3
<1>22. SeenInv'
  <2> SUFFICES ASSUME ~over, ~walk.entered, TimesDiffer,
                      NEW j \in (walk.seen \cup got) \cap Listed
               PROVE  Rank(j) < FirstRank(walk')
    <3>1. ASSUME ~over PROVE walk'.until # "single"
      BY <1>10, <1>11, <3>1
    <3> QED BY <1>11, <1>15, <1>16, <3>1 DEF SeenInv
  <2>1. PICK x \in Nat : x = (p - 1) * size
    BY <1>4
  <2>2. FirstRank(walk') = x + size /\ Walking
    BY <1>14, <1>18, <2>1
  <2>3. Rank(j) \in Nat
    BY <1>1, RankRange
  <2>4. CASE j \in walk.seen
    <3>1. Rank(j) < FirstRank(walk)
      BY <1>1, <2>2, <2>4 DEF SeenInv, Walking
    <3>2. FirstRank(walk) = x
      BY <1>13, <2>1, <2>2
    <3> QED BY <2>2, <2>3, <3>1, <3>2
  <2>5. CASE j \in got
    <3>1. Rank(j) < offset + size /\ offset >= 0
      BY <1>3, <1>4, <2>5 DEF Fits
    <3>2. offset = x
      BY <1>13, <2>1, <2>2, <3>1
    <3> QED BY <2>2, <3>1, <3>2
  <2> QED BY <2>4, <2>5
<1>23. NothingTwice'
  <2> SUFFICES ASSUME ~walk.entered, TimesDiffer
               PROVE  ~walk.twice /\ walk.seen \cap got = {}
    BY <1>11, <1>16 DEF NothingTwice
  <2>1. ~walk.twice
    BY <1>1, <1>7 DEF NothingTwice
  <2>2. CASE walk.until = "single"
    BY <1>1, <1>7, <2>1, <2>2 DEF SeenInv
  <2>3. CASE walk.until # "single"
    <3> SUFFICES ASSUME NEW j \in walk.seen \cap got PROVE FALSE
      BY <2>1
    <3>1. Walking
      BY <1>7, <2>3 DEF Walking
    <3>2. j \in Listed
      BY <1>3
    <3>3. Rank(j) < FirstRank(walk)
      BY <1>1, <1>7, <2>3, <3>2 DEF SeenInv
    <3>4. offset <= Rank(j) /\ offset >= 0
      BY <1>3, <1>4 DEF Fits
    <3>5. PICK x \in Nat : x = (p - 1) * size
      BY <1>4
    <3>6. FirstRank(walk) = x /\ offset = x
      BY <1>13, <3>1, <3>4, <3>5
    <3>7. Rank(j) \in Nat
      BY <1>1, <3>2, RankRange
    <3> QED BY <3>3, <3>4, <3>6, <3>7
  <2> QED BY <2>2, <2>3
\* A page that is whole leaves nothing out.
<1>24. ASSUME Walking, ~walk.left, ~walk.cut, ~cut, TimesDiffer,
              NEW j \in walk.stayed \ (walk.seen \cup got)
       PROVE  /\ j \in Listed
              /\ Rank(j) \in Nat /\ Rank(j) < n
              /\ offset = (p - 1) * size
              /\ Rank(j) >= (p - 1) * size + size
  <2>1. j \in Listed /\ Rank(j) >= FirstRank(walk)
    BY <1>1, <1>7, <1>24 DEF UnseenInv
  <2>2. Rank(j) \in Nat /\ Rank(j) < n
    BY <1>1, <1>6, <2>1, RankRange
  <2>3. offset >= 0
    BY <1>3, <1>4, <1>24 DEF Fits
  <2>4. PICK x \in Nat : x = (p - 1) * size
    BY <1>4
  <2>5. offset = x /\ FirstRank(walk) = x
    BY <1>13, <1>24, <2>3, <2>4
  <2>6. offset <= Rank(j) /\ Rank(j) < offset + size => j \in got
    BY <1>3, <1>4, <1>24, <2>1 DEF Fits
  <2>7. Rank(j) >= x + size
    BY <1>24, <2>1, <2>2, <2>5, <2>6
  <2> QED BY <2>1, <2>2, <2>4, <2>5, <2>7
<1>25. UnseenInv'
  <2>1. walk'.status = "going" => walk'.stayed \subseteq Listed'
    BY <1>1, <1>7, <1>11, <1>15 DEF UnseenInv
  <2>2. ASSUME Walking', ~walk'.left, ~walk'.cut, TimesDiffer',
               NEW j \in walk'.stayed \ walk'.seen
        PROVE  Rank(j)' >= FirstRank(walk')
    <3>1. ~over /\ ~walk.left /\ ~walk.cut /\ ~cut /\ TimesDiffer /\ Walking
          /\ j \in walk.stayed \ (walk.seen \cup got)
      BY <1>7, <1>11, <1>16, <2>2 DEF Walking
    <3>2. Rank(j) >= (p - 1) * size + size
      BY <1>24, <3>1
    <3> QED BY <1>15, <1>18, <3>1, <3>2
  <2> QED BY <2>1, <2>2 DEF UnseenInv
<1>26. NothingMissed'
  <2> SUFFICES ASSUME over, walk.until # "single", ~walk.left, ~walk.cut, ~cut, TimesDiffer,
                      walk.until = "pages" => ~walk.raced,
                      NEW j \in walk.stayed \ (walk.seen \cup got)
               PROVE  FALSE
    BY <1>11, <1>16 DEF NothingMissed
  <2>1. Walking
    BY <1>7 DEF Walking
  <2>2. PICK x \in Nat : x = (p - 1) * size
    BY <1>4
  <2>3. Rank(j) \in Nat /\ Rank(j) < n /\ offset = x /\ Rank(j) >= x + size
    BY <1>24, <2>1, <2>2
  <2>4. CASE walk.until = "empty"
    <3>1. got = {}
      BY <1>10, <2>4
    <3>2. offset >= n
      BY <1>3, <1>4, <1>6, <3>1 DEF Fits
    <3> QED BY <2>3, <3>2
  <2>5. CASE walk.until = "pages"
    <3>1. ~(p + 1 <= pages)
      BY <1>4, <1>5, <1>8, <1>10, <2>5
    <3>2. ~(p * size < total)
      BY <1>8, <3>1
    <3>3. p * size = (p - 1) * size + size
      OBVIOUS
    <3>4. total = n
      BY <1>1, <1>4, <1>6, <2>5 DEF CallInv
    <3>5. ~(x + size < n)
      BY <2>2, <3>2, <3>3, <3>4
    <3> QED BY <2>3, <3>5
  <2> QED BY <1>11, <2>4, <2>5
<1>27. AnswerFits'
  <2> SUFFICES ASSUME ~call.raced, ~cut, (p - 1) * size <= WordMax
               PROVE  /\ Cardinality(got) = RowsOf(p, size, total)
                      /\ got # {} <=> p <= pages
    BY <1>9 DEF AnswerFits, InRange
  <2>1. total = n
    BY <1>1, <1>4, <1>6 DEF CallInv
  <2>2. PICK x \in Nat : x = (p - 1) * size
    BY <1>4
  <2>3. offset = x
    BY <1>12, <2>2
  <2>4. /\ Cardinality(got) = IF x >= n THEN 0 ELSE IF x + size < n THEN size ELSE n - x
        /\ got = {} <=> x >= n
    BY <1>3, <1>4, <1>6, <2>3 DEF Fits
  <2>5. RowsOf(p, size, total) = IF n - x < 0 THEN 0 ELSE IF n - x > size THEN size ELSE n - x
    BY <2>1, <2>2 DEF RowsOf
  <2>6. p <= pages <=> x < n
    BY <1>8, <2>1, <2>2
  <2>7. Cardinality(got) = RowsOf(p, size, total)
    BY <2>4, <2>5
  <2>8. got # {} <=> p <= pages
    BY <2>4, <2>6
  <2> QED BY <2>7, <2>8
<1> QED BY <1>19, <1>20, <1>21, <1>22, <1>23, <1>25, <1>26, <1>27 DEF Inv

-----------------------------------------------------------------------------
LEMMA NextKeeps == Inv /\ [Next]_vars => Inv'
<1> SUFFICES ASSUME Inv, [Next]_vars PROVE Inv'
  OBVIOUS
<1>1. TypeOK /\ TimeInv /\ CallInv
  BY DEF Inv
<1>2. CASE BoardStep
  BY <1>2, BoardKeeps
<1>3. CASE \E until \in {"single", "empty", "pages"} : \E page, size \in RawInts :
              StartWalk(until, page, size)
  BY <1>3, StartKeeps
<1>4. CASE Count
  BY <1>4, CountKeeps
<1>5. CASE List \/ ListFails
  <2>1. /\ call.pc = "list" /\ row' = row /\ at' = at /\ dbErrs' \in 0 .. MaxDbErrors
        /\ \/ Refuse
           \/ \E seq, cut : /\ Answer(seq, cut) /\ cut \in BOOLEAN
                           /\ Fits(ToSet(seq), cut)
    BY <1>1, <1>5, AnswerCases
  <2>2. walk.status = "going"
    BY <1>1, <2>1 DEF CallInv
  <2>3. CASE Refuse
    BY <2>1, <2>2, <2>3, RefuseKeeps
  <2>4. CASE \E seq, cut : /\ Answer(seq, cut) /\ cut \in BOOLEAN
                          /\ Fits(ToSet(seq), cut)
    <3>1. PICK seq, cut : Answer(seq, cut) /\ cut \in BOOLEAN /\ Fits(ToSet(seq), cut)
      BY <2>4
    <3> QED BY <2>1, <3>1, AnswerKeeps
  <2> QED BY <2>1, <2>3, <2>4
<1>6. CASE CountFails
  <2>1. dbErrs' \in 0 .. MaxDbErrors
    BY <1>1, <1>6, ListingAssumption DEF CountFails, DbError, TypeOK
  <2>2. walk.status = "going" /\ Refuse /\ row' = row /\ at' = at
    BY <1>6 DEF CountFails
  <2> QED BY <2>1, <2>2, RefuseKeeps
<1>7. CASE UNCHANGED vars
  <2>1. row' = row /\ at' = at /\ call' = call /\ walk' = walk /\ dbErrs' = dbErrs
    BY <1>7 DEF vars
  <2>2. Listed' = Listed /\ (TimesDiffer' <=> TimesDiffer) /\ \A j : Rank(j)' = Rank(j)
    BY <2>1 DEF Listed, TimesDiffer, Rank
  <2>3. TypeOK' /\ TimeInv' /\ CallInv' /\ PageInv' /\ AnswerFits' /\ NothingMissed'
        /\ NothingTwice'
    BY <2>1, <2>2 DEF Inv, TypeOK, TimeInv, CallInv, PageInv, Walking, AnswerFits, InRange,
                      NothingMissed, NothingTwice
  <2>4. SeenInv' /\ UnseenInv'
    BY <2>1, <2>2 DEF Inv, SeenInv, UnseenInv, Walking
  <2> QED BY <2>3, <2>4 DEF Inv
<1>8. Next => \/ BoardStep
              \/ \E until \in {"single", "empty", "pages"} : \E page, size \in RawInts :
                    StartWalk(until, page, size)
              \/ Count \/ List \/ CountFails \/ ListFails
  BY DEF Next, BoardStep
<1> QED BY <1>2, <1>3, <1>4, <1>5, <1>6, <1>7, <1>8

\* The inductive invariant: the rows a walk has seen are those of the ranks
\* below its next page, but for jobs that come and go.
THEOREM ListingInvariant == Spec => []Inv
  BY InitInv, NextKeeps, PTL DEF Spec

\* The variables of JobListing keep their types; in particular totalPages and
\* the page numbers of a walk stay in the range of an int.
THEOREM TypeCorrect == Spec => []TypeOK
<1>1. Inv => TypeOK
  BY DEF Inv
<1> QED BY <1>1, ListingInvariant, PTL

\* The rows of a page are as many as total and pageSize of GetAllJobs say, and
\* totalPages is the last page that has any.
THEOREM PagesAddUp == Spec => []AnswerFits
<1>1. Inv => AnswerFits
  BY DEF Inv
<1> QED BY <1>1, ListingInvariant, PTL

\* A walk over the pages of GetAllJobs sees every job that stayed listed, as
\* long as none leaves.
THEOREM WalksAreComplete == Spec => []NothingMissed
<1>1. Inv => NothingMissed
  BY DEF Inv
<1> QED BY <1>1, ListingInvariant, PTL

\* A walk over the pages of GetAllJobs shows no job twice, as long as none
\* joins.
THEOREM WalksDoNotRepeat == Spec => []NothingTwice
<1>1. Inv => NothingTwice
  BY DEF Inv
<1> QED BY <1>1, ListingInvariant, PTL
=============================================================================
