----------------------------- MODULE JobListing -----------------------------
(***************************************************************************)
(* GET /api/jobs/all: one client reads the board page by page while jobs   *)
(* are posted, edited and deleted under it.                                *)
(*                                                                         *)
(* JobService.GetAllJobs answers with a page of rows and the total number  *)
(* of rows, which it reads in two statements, each with a snapshot of its  *)
(* own.  The filters of a walk stay the same from page to page, so all     *)
(* that matters of a job is whether it is listed: active, and matched by   *)
(* the filters.  Go's int is the range -(WordMax + 1) .. WordMax here.     *)
(***************************************************************************)
EXTENDS Integers, FiniteSets, SequencesExt

CONSTANTS
    Jobs,             \* ids of the jobs that are ever posted
    MaxTime,          \* bound: values of created_at
    MaxPageSize,      \* the largest pageSize taken as it is, 100
    DefaultPageSize,  \* the pageSize used otherwise, 10
    WordMax,          \* the largest int
    MaxDbErrors       \* bound: statements that fail for reasons of their own

ASSUME ListingAssumption ==
    /\ IsFiniteSet(Jobs)
    /\ MaxTime \in Nat
    /\ MaxPageSize \in Nat
    /\ DefaultPageSize \in 1 .. MaxPageSize
    /\ WordMax \in Nat
    /\ Cardinality(Jobs) < WordMax
    /\ MaxPageSize < WordMax
    /\ MaxDbErrors \in Nat

VARIABLES
    row,     \* row[j]: whether job j has a row and the filters list it
    at,      \* at[j]: the created_at of job j
    call,    \* the GetAllJobs in progress, or the last answer
    walk,    \* the client: what it asks for and what it has seen
    dbErrs

vars == <<row, at, call, walk, dbErrs>>

Listed == {j \in Jobs : row[j] = "listed"}

NoCall == [pc |-> "none"]
NoWalk == [status |-> "none"]

Int64 == -(WordMax + 1) .. WordMax

\* What a request may carry for a number; 0 stands for a parameter that is
\* missing, is no number, does not fit an int, or is less than 1.
RawInts == 0 .. WordMax

InProgress ==
    [pc : {"list"}, page : 1 .. WordMax, size : 1 .. MaxPageSize,
     offset : Int64, total : 0 .. Cardinality(Jobs), raced : BOOLEAN]

Answered ==
    [pc : {"answered"}, page : 1 .. WordMax, size : 1 .. MaxPageSize,
     total : 0 .. Cardinality(Jobs), pages : 0 .. Cardinality(Jobs),
     rows : SUBSET Jobs, raced : BOOLEAN, cut : BOOLEAN]

Walks ==
    [status : {"going", "done", "failed"}, until : {"single", "empty", "pages"},
     page : RawInts, size : RawInts, seen : SUBSET Jobs, twice : BOOLEAN,
     stayed : SUBSET Jobs, entered : BOOLEAN, left : BOOLEAN,
     raced : BOOLEAN, cut : BOOLEAN]

TypeOK ==
    /\ row \in [Jobs -> {"unposted", "listed", "unlisted", "deleted"}]
    /\ at \in [Jobs -> 0 .. MaxTime]
    /\ call \in {NoCall} \cup InProgress \cup Answered
    /\ walk \in {NoWalk} \cup Walks
    /\ dbErrs \in 0 .. MaxDbErrors

Init ==
    /\ row = [j \in Jobs |-> "unposted"]
    /\ at = [j \in Jobs |-> 0]
    /\ call = NoCall
    /\ walk = NoWalk
    /\ dbErrs = 0

-----------------------------------------------------------------------------
(* The arithmetic of a request.                                            *)

\* queryInt: the number a parameter holds, or the fallback.
QueryInt(raw, fallback) == IF raw >= 1 THEN raw ELSE fallback

\* GetAllJobs: a pageSize out of range is replaced, not cut down.
ClampSize(size) ==
    IF size < 1 \/ size > MaxPageSize THEN DefaultPageSize ELSE size

\* GetAllJobs: a page out of range; there is no upper limit.
ClampPage(page) == IF page < 1 THEN 1 ELSE page

\* What is left of n in an int.
Wrap(n) == ((n + WordMax + 1) % (2 * (WordMax + 1))) - (WordMax + 1)

\* Mutant: pages counted from 0 in the offset and from 1 in the request.
OffsetFromOne(page, size) == Wrap(page * size)

Offset(page, size) == Wrap((page - 1) * size)

\* Mutant: totalPages rounded down.
TotalPagesFloor(total, size) == total \div size

\* GetAllJobs: the ceiling of total / pageSize.
TotalPages(total, size) == (total + size - 1) \div size

\* Mutant: the rows are listed without ORDER BY.
AnyOrder == SetToSeqs(Listed)

\* ORDER BY created_at DESC: rows of one created_at come in any order.
Orders ==
    {o \in SetToSeqs(Listed) : \A m, n \in 1 .. Len(o) : m < n => at[o[m]] >= at[o[n]]}

\* LIMIT size OFFSET offset.
Window(o, offset, size) ==
    SubSeq(o, offset + 1, IF offset + size < Len(o) THEN offset + size ELSE Len(o))

-----------------------------------------------------------------------------
(* The board changes.                                                      *)

\* Bound: the board rests when the walk is over and nobody looks any more.
Watched == walk.status \in {"none", "going"}

\* The history of a walk, when the listed jobs become those of new.
Witness(new) ==
    LET now == {j \in Jobs : new[j] = "listed"}
        changes == now # Listed
    IN  /\ Watched
        /\ walk' = IF walk = NoWalk THEN walk
                   ELSE [walk EXCEPT !.stayed = @ \cap now,
                                     !.entered = @ \/ ~(now \subseteq Listed),
                                     !.left = @ \/ ~(Listed \subseteq now),
                                     !.raced = @ \/ (changes /\ call.pc = "list")]
        /\ call' = IF call.pc # "list" THEN call
                   ELSE [call EXCEPT !.raced = @ \/ changes]
        /\ row' = new
        /\ UNCHANGED dbErrs

\* CreateJob: NOW() is the start of the INSERT, and a row that was begun
\* earlier may become visible later.
CreateJob(j, created) ==
    /\ row[j] = "unposted"
    /\ \A k \in Jobs : created + 1 >= at[k]
    /\ \E listed \in {"listed", "unlisted"} : Witness([row EXCEPT ![j] = listed])
    /\ at' = [at EXCEPT ![j] = created]

\* UpdateJob rewrites columns the filters look at; created_at stays.  (An
\* operator's change of is_active does the same.)
UpdateJob(j) ==
    /\ \/ row[j] = "listed" /\ Witness([row EXCEPT ![j] = "unlisted"])
       \/ row[j] = "unlisted" /\ Witness([row EXCEPT ![j] = "listed"])
    /\ UNCHANGED at

DeleteJob(j) ==
    /\ row[j] \in {"listed", "unlisted"}
    /\ Witness([row EXCEPT ![j] = "deleted"])
    /\ UNCHANGED at

-----------------------------------------------------------------------------
(* The client: it looks at one page, or it walks from the first page until *)
(* a page is empty or until the last page announced.                       *)

StartWalk(until, page, size) ==
    /\ walk = NoWalk
    /\ until # "single" => page = 1
    /\ walk' = [status |-> "going", until |-> until, page |-> page, size |-> size,
                seen |-> {}, twice |-> FALSE, stayed |-> Listed,
                entered |-> FALSE, left |-> FALSE, raced |-> FALSE, cut |-> FALSE]
    /\ UNCHANGED <<row, at, call, dbErrs>>

\* What the client does with an answer.
Turn(answer) ==
    LET over == CASE walk.until = "single" -> TRUE
                  [] walk.until = "empty" -> answer.rows = {}
                  [] walk.until = "pages" -> answer.page >= answer.pages
    IN  walk' = [walk EXCEPT !.seen = @ \cup answer.rows,
                             !.twice = @ \/ walk.seen \cap answer.rows # {},
                             !.cut = @ \/ answer.cut,
                             !.page = IF over THEN @ ELSE @ + 1,
                             !.status = IF over THEN "done" ELSE @]

-----------------------------------------------------------------------------
(* GetAllJobs.                                                             *)

\* The parameters are read and the matching rows are counted.
Count ==
    /\ walk.status = "going"
    /\ call.pc # "list"
    /\ LET page == ClampPage(QueryInt(walk.page, 1))
           size == ClampSize(QueryInt(walk.size, DefaultPageSize))
       IN  call' = [pc |-> "list", page |-> page, size |-> size,
                    offset |-> Offset(page, size),
                    total |-> Cardinality(Listed), raced |-> FALSE]
    /\ UNCHANGED <<row, at, walk, dbErrs>>

\* The answer 200 with the rows of seq.
Answer(seq, cut) ==
    LET answer == [pc |-> "answered", page |-> call.page, size |-> call.size,
                   total |-> call.total,
                   pages |-> TotalPages(call.total, call.size),
                   rows |-> ToSet(seq), raced |-> call.raced, cut |-> cut]
    IN  call' = answer /\ Turn(answer)

\* The rows of the page are read, and the answer is complete.
List ==
    /\ call.pc = "list"
    /\ call.offset >= 0
    /\ \E o \in Orders : Answer(Window(o, call.offset, call.size), FALSE)
    /\ UNCHANGED <<row, at, dbErrs>>

\* The answer 500.
Refuse ==
    /\ call' = NoCall
    /\ walk' = [walk EXCEPT !.status = "failed"]

\* A statement that fails; PostgreSQL has no negative OFFSET.
DbError == dbErrs < MaxDbErrors /\ dbErrs' = dbErrs + 1

CountFails ==
    /\ walk.status = "going"
    /\ call.pc # "list"
    /\ DbError
    /\ Refuse
    /\ UNCHANGED <<row, at>>

\* The error comes from Query and is answered 500, or it comes while rows are
\* read.  Then rows.Next stops, nobody asks for rows.Err, and what was read
\* so far is the page.
ListFails ==
    /\ call.pc = "list"
    /\ \/ /\ call.offset < 0
          /\ Answer(<<>>, TRUE)
          /\ UNCHANGED dbErrs
       \/ /\ call.offset >= 0
          /\ DbError
          /\ \E o \in Orders :
                LET page == Window(o, call.offset, call.size)
                IN  \E n \in 0 .. Len(page) :
                       Answer(SubSeq(page, 1, n), n < Len(page))
       \/ /\ IF call.offset < 0 THEN UNCHANGED dbErrs ELSE DbError
          /\ Refuse
    /\ UNCHANGED <<row, at>>

-----------------------------------------------------------------------------
Next ==
    \/ \E j \in Jobs :
          \/ \E created \in 1 .. MaxTime : CreateJob(j, created)
          \/ UpdateJob(j)
          \/ DeleteJob(j)
    \/ \E until \in {"single", "empty", "pages"} : \E page, size \in RawInts :
          StartWalk(until, page, size)
    \/ Count
    \/ List
    \/ CountFails
    \/ ListFails

Spec == Init /\ [][Next]_vars

-----------------------------------------------------------------------------
(* Properties.                                                             *)

\* The offset was computed without overflow.
InRange == (call.page - 1) * call.size <= WordMax

\* The number of rows that page of size rows holds, total rows in all.
RowsOf(page, size, total) ==
    LET rest == total - (page - 1) * size
    IN  IF rest < 0 THEN 0 ELSE IF rest > size THEN size ELSE rest

\* The two statements of GetAllJobs tell one story when the board did not
\* change between them: a page has the rows that total and pageSize promise
\* for it, and the pages from 1 to totalPages are those that have any.
AnswerFits ==
    (call.pc = "answered" /\ ~call.raced /\ ~call.cut /\ InRange) =>
        /\ Cardinality(call.rows) = RowsOf(call.page, call.size, call.total)
        /\ call.rows # {} <=> call.page <= call.pages

\* No two jobs were inserted at one instant.
TimesDiffer ==
    \A j, k \in Jobs : (j # k /\ at[j] # 0) => at[j] # at[k]

\* A walk over the pages of GetAllJobs sees every job that was listed all the
\* time, whatever is posted or edited meanwhile, as long as nothing leaves
\* the list.  A client that trusts totalPages needs more: count and rows must
\* be of one state of the board.
NothingMissed ==
    (/\ walk.status = "done"
     /\ walk.until # "single"
     /\ ~walk.left
     /\ ~walk.cut
     /\ TimesDiffer
     /\ walk.until = "pages" => ~walk.raced) => walk.stayed \subseteq walk.seen

\* A walk over the pages of GetAllJobs shows no job twice, whatever is
\* deleted meanwhile, as long as nothing joins the list.
NothingTwice ==
    (walk.status # "none" /\ ~walk.entered /\ TimesDiffer) => ~walk.twice
=============================================================================
