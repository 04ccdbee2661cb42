--------------------------- MODULE MCSeekerTasks ---------------------------
(***************************************************************************)
(* Constants for the runs of SeekerTasks.                                  *)
(***************************************************************************)
EXTENDS SeekerTasks, TLC

CONSTANTS r1, r2

\* One recruiter posts every job.
SingleOwner == [j \in Jobs |-> r1]

\* The jobs belong to different recruiters, two at most.
TwoOwners == [j \in Jobs |-> IF j = CHOOSE x \in Jobs : TRUE THEN r1 ELSE r2]

\* Tasks, slots and requests are interchangeable.
Interchangeable ==
    Permutations(Tasks) \cup Permutations(Workers) \cup Permutations(Handlers)
=============================================================================
