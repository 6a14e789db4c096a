\* Two names to register or to give to an organization, one GitHub user, two requests.
CONSTANTS
  a = a
  b = b
  h1 = h1
  h2 = h2
  g1 = g1
  s1 = s1
  s2 = s2
  q1 = q1
  q2 = q2
  r1 = r1
  i1 = i1
  i2 = i2
  None = None
  Name = {a, b}
  Handle = {h1, h2}
  GithubUser = {g1}
  State = {s1, s2}
  Request = {q1, q2}
  Repository = {r1}
  Issue = {i1, i2}
  MaxRepositories = 1
  MaxOrganizations = 1
SYMMETRY Ids
CONSTRAINT AccountsSettleFirst
SPECIFICATION Spec
CHECK_DEADLOCK FALSE
INVARIANTS
  TypeOK
  StateSignsInOnce
  GithubAccountsAreWhole
  OrganizationsKeepOwner
  PersonalNamespacesAreAlone
  IssuesKeepNumbers
