---------------------------- MODULE MCAccounts ----------------------------
(***************************************************************************)
(* Symmetry for the runs of Accounts.                                      *)
(***************************************************************************)
EXTENDS Accounts, TLC

\* Requests, browsers, users and addresses are interchangeable.
Interchangeable ==
    Permutations(Handlers) \cup Permutations(Browsers)
        \cup Permutations(Users) \cup Permutations(Emails)
=============================================================================
