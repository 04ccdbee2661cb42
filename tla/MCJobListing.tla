---------------------------- MODULE MCJobListing ----------------------------
(***************************************************************************)
(* Symmetry for the runs of JobListing.                                    *)
(***************************************************************************)
EXTENDS JobListing

\* Jobs are interchangeable.
AnyJob == Permutations(Jobs)
=============================================================================
