------------------------------- MODULE Forge -------------------------------
(* The Forge worker (workers/forge/src/index.ts) behind the Gateway, which
   reads the caller's session before it forwards a request.  Membership and
   role are read first and the write follows on its own: requests of several
   users interleave between the two.  Editing an issue and putting a wiki page
   are left out, and so is the route cache (RepoRegistry): one repository name,
   and one table that stands for issues and for pull requests. *)
EXTENDS Accounts, FiniteSetsExt

CONSTANTS
  Repository,       \* ids of repositories, each created once
  Issue,            \* ids of issues, each created once
  MaxRepositories,  \* repositories a user may create
  MaxOrganizations  \* bound: organizations in all

\* Number counts the ids of issues.
ASSUME ForgeAssumption ==
  /\ IsFiniteSet(Issue)
  /\ None \notin Issue

VARIABLES
  repositories,  \* the row of an id: its namespace and its creator
  made,          \* ids that have been given out
  issues,        \* forge_issues of a repository: the id under each number
  answered       \* history: creations answered 201

forgeVars == <<repositories, made, issues, answered>>
vars == <<accountVars, req, forgeVars>>

Number == 1..Cardinality(Issue)
NoRepository == [slug |-> None, creator |-> None]
Rows == {r \in Repository : repositories[r] # NoRepository}

Init ==
  /\ AccountsInit
  /\ repositories = [r \in Repository |-> NoRepository]
  /\ made = {}
  /\ issues = [r \in Repository |-> [n \in Number |-> None]]
  /\ answered = {}

-----------------------------------------------------------------------------
\* handleGatewayRequest: the session is read, then the request goes to the Forge.
forward(q, u) ==
  /\ req[q] = Idle
  /\ u \in sessions
  /\ become(q, [Idle EXCEPT !.at = "forge", !.user = u])
  /\ UNCHANGED <<accountVars, forgeVars>>

organizationOwnerAnyKind(s, u) == roles[s][u] = "owner"

organizationOwner(s, u) ==
  namespaces[s].kind = "organization" /\ roles[s][u] = "owner"

\* POST /organizations: one batch; a slug that is taken is a conflict.
createOrganization(q, s) ==
  /\ req[q].at = "forge"
  /\ namespaces[s] = NoNamespace
  /\ Cardinality({o \in User : namespaces[o].kind = "organization"}) < MaxOrganizations
  /\ claim(s, "organization", req[q].user)
  /\ finish(q)
  /\ UNCHANGED <<users, identity, states, sessions, signIns, forgeVars>>

\* /organizations/:slug/members: the caller's role is read before the change.  The
\* kind of the namespace is compared twice, by the handler and in organizationOwner,
\* on one row that was read once: one guard here.
manageMembers(q, s) ==
  /\ req[q].at = "forge"
  /\ organizationOwner(s, req[q].user)
  /\ become(q, [req[q] EXCEPT !.at = "members", !.slug = s])
  /\ UNCHANGED <<accountVars, forgeVars>>

\* INSERT OR IGNORE ... SELECT FROM users.
addMember(q, u, r) ==
  /\ req[q].at = "members"
  /\ u \in users
  /\ roles[req[q].slug][u] = "none"
  /\ roles' = [roles EXCEPT ![req[q].slug][u] = r]
  /\ finish(q)
  /\ UNCHANGED <<users, identity, namespaces, states, sessions, signIns, forgeVars>>

Owners(s) == {u \in User : roles[s][u] = "owner"}

removableFromCaller(q, u) == roles[req[q].slug][u] # "none" /\ u # req[q].user

removable(q, u) ==
  LET s == req[q].slug IN
    roles[s][u] # "none" /\ ~ (roles[s][u] = "owner" /\ Cardinality(Owners(s)) <= 1)

\* DELETE ... AND NOT (role = 'owner' AND (SELECT COUNT(*) ...) <= 1), one statement.
removeMember(q, u) ==
  /\ req[q].at = "members"
  /\ removable(q, u)
  /\ roles' = [roles EXCEPT ![req[q].slug][u] = "none"]
  /\ finish(q)
  /\ UNCHANGED <<users, identity, namespaces, states, sessions, signIns, forgeVars>>

-----------------------------------------------------------------------------
canCreateRepository(s, u) ==
  IF namespaces[s].kind = "organization" THEN organizationOwner(s, u)
  ELSE namespaces[s].creator = u

\* POST /repositories: the COUNT against maxRepositories, then the namespace.
countRepositories(q) ==
  /\ req[q].at = "forge"
  /\ Cardinality({r \in Rows : repositories[r].creator = req[q].user}) < MaxRepositories
  /\ step(q, "namespace")
  /\ UNCHANGED <<accountVars, forgeVars>>

chooseNamespace(q, s) ==
  /\ req[q].at = "namespace"
  /\ namespaces[s] # NoNamespace
  /\ canCreateRepository(s, req[q].user)
  /\ become(q, [req[q] EXCEPT !.at = "insertRepository", !.slug = s])
  /\ UNCHANGED <<accountVars, forgeVars>>

\* INSERT OR IGNORE, UNIQUE(namespace_id, slug); nothing inserted is a conflict.
insertRepository(q, r) ==
  /\ req[q].at = "insertRepository"
  /\ r \notin made
  /\ \A o \in Rows : repositories[o].slug # req[q].slug
  /\ made' = made \cup {r}
  /\ repositories' = [repositories EXCEPT ![r] =
                        [slug |-> req[q].slug, creator |-> req[q].user]]
  /\ become(q, [req[q] EXCEPT !.at = "putRoute", !.repository = r])
  /\ UNCHANGED <<accountVars, issues, answered>>

\* ROUTES.put; when it throws, the row goes again, with the issues others gave it.
putRoute(q) ==
  /\ req[q].at = "putRoute"
  /\ finish(q)
  /\ \/ UNCHANGED <<repositories, issues, answered>>
     \/ LET r == req[q].repository IN
          /\ repositories' = [repositories EXCEPT ![r] = NoRepository]
          /\ issues' = [issues EXCEPT ![r] = [n \in Number |-> None]]
          /\ answered' = {a \in answered : a.repository # r}
  /\ UNCHANGED <<accountVars, made>>

-----------------------------------------------------------------------------
Taken(r) == {n \in Number : issues[r][n] # None}

\* repositoryForUser: any role in the namespace will do.
repositoryForUser(q, r) ==
  /\ req[q].at = "forge"
  /\ r \in Rows
  /\ roles[repositories[r].slug][req[q].user] # "none"
  /\ become(q, [req[q] EXCEPT !.at = "nextNumber", !.repository = r])
  /\ UNCHANGED <<accountVars, forgeVars>>

nextNumberCounts(q) ==
  /\ req[q].at = "nextNumber"
  /\ become(q, [req[q] EXCEPT !.at = "insertIssue",
                              !.number = Cardinality(Taken(req[q].repository))])
  /\ UNCHANGED <<accountVars, forgeVars>>

\* SELECT MAX(number), plus one.
nextNumber(q) ==
  /\ req[q].at = "nextNumber"
  /\ become(q, [req[q] EXCEPT !.at = "insertIssue",
                              !.number = Max({0} \cup Taken(req[q].repository)) + 1])
  /\ UNCHANGED <<accountVars, forgeVars>>

creation(q, i) == [repository |-> req[q].repository, number |-> req[q].number, id |-> i]

\* An upsert instead of an INSERT: the second of two creations takes the number over.
insertIssueReplacing(q, i) ==
  /\ req[q].at = "insertIssue"
  /\ \A r \in Repository, n \in Number : issues[r][n] # i
  /\ req[q].number \in Number
  /\ issues' = [issues EXCEPT ![req[q].repository][req[q].number] = i]
  /\ answered' = answered \cup {creation(q, i)}
  /\ finish(q)
  /\ UNCHANGED <<accountVars, repositories, made>>

\* INSERT, which throws (leave) on a number that is taken, UNIQUE(repository_id, number),
\* or on a repository that is gone.
insertIssue(q, i) ==
  /\ req[q].at = "insertIssue"
  /\ \A r \in Repository, n \in Number : issues[r][n] # i
  /\ req[q].repository \in Rows
  /\ req[q].number \in Number \ Taken(req[q].repository)
  /\ issues' = [issues EXCEPT ![req[q].repository][req[q].number] = i]
  /\ answered' = answered \cup {creation(q, i)}
  /\ finish(q)
  /\ UNCHANGED <<accountVars, repositories, made>>

\* A request ends early: refused by a check above, or its worker is gone.
leave(q) ==
  /\ req[q] # Idle
  /\ finish(q)
  /\ UNCHANGED <<accountVars, forgeVars>>

Next ==
  \/ AccountsNext /\ UNCHANGED forgeVars
  \/ \E q \in Request, u \in User :
       \/ forward(q, u) \/ removeMember(q, u)
       \/ \E r \in {"member", "owner"} : addMember(q, u, r)
  \/ \E q \in Request, s \in User :
       manageMembers(q, s) \/ chooseNamespace(q, s)
  \/ \E q \in Request, s \in Name : createOrganization(q, s)
  \/ \E q \in Request :
       countRepositories(q) \/ putRoute(q) \/ nextNumber(q) \/ leave(q)
  \/ \E q \in Request, r \in Repository :
       insertRepository(q, r) \/ repositoryForUser(q, r)
  \/ \E q \in Request, i \in Issue : insertIssue(q, i)

Spec == Init /\ [][Next]_vars

-----------------------------------------------------------------------------
\* Every table and request holds values of its columns; numbers start at one.
TypeOK ==
  /\ users \subseteq User /\ sessions \subseteq users
  /\ identity \in [GithubUser -> Handle \cup {None}]
  /\ namespaces \in [User -> {NoNamespace} \cup
                               [kind : {"personal", "organization"}, creator : users]]
  /\ roles \in [User -> [User -> {"none", "member", "owner"}]]
  /\ states \in [State -> {"new", "issued", "gone"}]
  /\ signIns \in [State -> Nat]
  /\ repositories \in [Repository -> {NoRepository} \cup [slug : User, creator : users]]
  /\ issues \in [Repository -> [Number -> Issue \cup {None}]]
  /\ \A q \in Request :
       req[q].at = "insertIssue" => req[q].number \in 1..Cardinality(Issue) + 1

\* A session begins at most once for one OAuth state, whatever callbacks arrive for it at
\* the same time, are denied or die: completeGithubOAuth takes the row as it reads it.
StateSignsInOnce == \A s \in State : signIns[s] <= 1

\* An account made by a GitHub sign-in is whole: exactly one GitHub user signs in to it and
\* it owns the namespace of its name, even if callbacks of one GitHub user overlap or a
\* worker dies (findOrCreateGithubUser).  Nobody could ever sign in to any other.
GithubAccountsAreWhole ==
  \A u \in users \cap Handle :
    /\ Cardinality({g \in GithubUser : identity[g] = u}) = 1
    /\ namespaces[u] = [kind |-> "personal", creator |-> u]

\* An organization always has an owner among the users, also when owners remove each
\* other at the same time, each having read its role before (the guard of the DELETE).
OrganizationsKeepOwner ==
  \A s \in User : namespaces[s].kind = "organization" => Owners(s) \cap users # {}

\* A personal namespace has one member, its creator: a role read for one namespace is
\* never used to change another's, and membership is for organizations only.
PersonalNamespacesAreAlone ==
  \A s \in User : namespaces[s].kind = "personal" =>
    {u \in User : roles[s][u] # "none"} = {namespaces[s].creator}

\* Whoever was told that a number is the issue's finds the issue there, and numbers leave
\* no gap, although MAX(number) is read before the row is inserted.  Excepted are the
\* issues of a repository whose ROUTES.put fails after they were opened: its row is
\* deleted again, and they with it.
IssuesKeepNumbers ==
  /\ \A a \in answered : issues[a.repository][a.number] = a.id
  /\ \A r \in Repository, n \in Number : n \in Taken(r) => 1..n \subseteq Taken(r)
=============================================================================
