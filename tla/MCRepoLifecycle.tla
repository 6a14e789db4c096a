--------------------------- MODULE MCRepoLifecycle ---------------------------
EXTENDS RepoLifecycle, TLC

\* Repositories are named alike, and so are pushes.
Ids == Permutations(Repo) \cup Permutations(Push)
=============================================================================
