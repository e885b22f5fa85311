----------------------------- MODULE MCReferee -----------------------------
(* Instances of Referee for TLC: three flags, a few handler threads and small *)
(* budgets.  Flags and threads are interchangeable.                          *)
EXTENDS Referee, TLC

MCBudgets == {2, 3}
PowerBudgets == {3}

Interchangeable == Permutations(Flags) \cup Permutations(Threads)
=============================================================================
