----------------------------- MODULE MCGitAccess -----------------------------
(* Instances of GitAccess for TLC. *)
EXTENDS GitAccess, TLC

CONSTANTS r1, r2, n1, q1, t1

\* Repositories are interchangeable.
Ids == Permutations(Repo)
=============================================================================
