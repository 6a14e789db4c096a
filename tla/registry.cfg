\* Two repositories that may follow one another under one name, and one request.
CONSTANTS
  r1 = r1
  r2 = r2
  n1 = n1
  q1 = q1
  t1 = t1
  None = None
  Repo = {r1, r2}
  Name = {n1}
  Request = {q1}
  Token = {t1}
  Creators = {"git", "forge"}
  MaxSyncs = 1
  MaxPatches = 1
SYMMETRY Ids
SPECIFICATION Spec
CHECK_DEADLOCK FALSE
INVARIANTS
  TypeOK
  ServedRightly
  RevokedTokenCannotPush
