\* Two repositories of one owner and three pushes: each limit can be the one that
\* binds.  A message that fails starts over.
SPECIFICATION Spec
CONSTANTS
    Repo = {ra, rb}
    Push = {p1, p2, p3}
    None = None
    MaxRepositoryBytes = 1
    MaxStorageBytes = 2
SYMMETRY Ids
INVARIANTS
    QuotaHolds
    DeletedIsErased
CHECK_DEADLOCK FALSE
