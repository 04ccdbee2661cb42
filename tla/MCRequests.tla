----------------------------- MODULE MCRequests -----------------------------
(***************************************************************************)
(* Constants and bounds for the runs of Requests.                          *)
(***************************************************************************)
EXTENDS Requests, TLC

CONSTANTS r1, r2

\* r1 posts every job; r2 is the recruiter whose checks fail.
OneOwner == [j \in Jobs |-> r1]

\* Requests are interchangeable.
Interchangeable == Permutations(Handlers)

Busy(h) == req[h].pc \notin {"none", "answered"}

\* An answer that has been given plays no part in what comes: a handler that
\* has answered is as free as one that was never used.
Unanswered ==
    <<tables, dbErrs, [h \in Handlers |-> IF Busy(h) THEN req[h] ELSE NoRequest]>>

OneAtATime == \A h, k \in Handlers : Busy(h) /\ Busy(k) => h = k

\* A column that an edit has set, or that one in progress supplies.
Edited(f) ==
    \/ \E j \in Jobs : field[j][f] # AsPosted
    \/ \E h \in Handlers : Busy(h) /\ f \in req[h].sets

\* Some application is decided on, or about to be.
Decided ==
    \/ \E a \in apps : a.status # "submitted"
    \/ \E h \in Handlers : Busy(h) /\ req[h].status # "submitted"

\* Bound: after a failing statement, a second application and a decision there
\* is one request at a time, and there is a second column only as long as nobody
\* has applied or saved anything.  Ids and columns are interchangeable, and used
\* in order.
Apart ==
    /\ "application2" \in sent => "application1" \in sent /\ OneAtATime
    /\ dbErrs > 0 \/ Decided => OneAtATime
    /\ Edited("category") => Edited("title") /\ sent = {} /\ saved = {}
=============================================================================
