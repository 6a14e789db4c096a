------------------------------ MODULE Accounts ------------------------------
(* The Auth worker (workers/auth/src/index.ts) over the D1 tables users,
   external_identities, github_oauth_states, auth_sessions, namespaces and
   namespace_memberships.  Every statement or batch of D1 is atomic and
   nothing holds between two of them, so a handler is a request that takes one
   step for each.  Password hashing, cookies and payload validation are left
   out; a user is its unique identifier, a session the user it belongs to. *)
EXTENDS Naturals, FiniteSets

CONSTANTS
  Name,        \* identifiers and slugs that people choose
  Handle,      \* the random identifiers of accounts made by a GitHub sign-in
  GithubUser,  \* numeric user ids at GitHub
  State,       \* OAuth states, each started once
  Request,     \* requests in flight at one time
  None

User == Name \cup Handle

\* Nobody chooses what createToken will draw at random.
ASSUME AccountsAssumption ==
  /\ Name \cap Handle = {}
  /\ None \notin User \cup State

VARIABLES
  users,       \* rows of users
  identity,    \* external_identities: the user of a GitHub account
  namespaces,  \* the row under a slug: its kind and creator
  roles,       \* namespace_memberships: the role of a user under a slug
  states,      \* github_oauth_states: "new", "issued" or "gone"
  sessions,    \* users with a session that has neither ended nor expired
  signIns,     \* history: sessions each OAuth state led to
  req          \* where each request stands and what it has read

accountVars == <<users, identity, namespaces, roles, states, sessions, signIns>>

NoNamespace == [kind |-> "none", creator |-> None]
Idle == [at |-> "idle", user |-> None, slug |-> None, state |-> None,
         github |-> None, repository |-> None, number |-> 0]

become(q, r) == req' = [req EXCEPT ![q] = r]
finish(q) == become(q, Idle)
step(q, at) == become(q, [req[q] EXCEPT !.at = at])

AccountsInit ==
  /\ users = {}
  /\ identity = [g \in GithubUser |-> None]
  /\ namespaces = [s \in User |-> NoNamespace]
  /\ roles = [s \in User |-> [u \in User |-> "none"]]
  /\ states = [s \in State |-> "new"]
  /\ sessions = {}
  /\ signIns = [s \in State |-> 0]
  /\ req = [q \in Request |-> Idle]

-----------------------------------------------------------------------------
(* Two rows in one batch: a namespace with its creator as owner.  The trigger
   set_personal_namespace_owner makes a personal member an owner. *)
claim(slug, kind, u) ==
  /\ namespaces' = [namespaces EXCEPT ![slug] = [kind |-> kind, creator |-> u]]
  /\ roles' = [roles EXCEPT ![slug][u] = "owner"]

\* register: the SELECT of the identifier.
registerCheck(q, n) ==
  /\ req[q] = Idle
  /\ n \notin users
  /\ become(q, [Idle EXCEPT !.at = "insertUser", !.user = n])
  /\ UNCHANGED accountVars

\* The INSERT of the user, which throws on an identifier taken in the meantime.
registerInsertUser(q) ==
  /\ req[q].at = "insertUser"
  /\ users' = users \cup {req[q].user}
  /\ IF req[q].user \in users THEN finish(q) ELSE step(q, "insertNamespace")
  /\ UNCHANGED <<identity, namespaces, roles, states, sessions, signIns>>

\* The batch of namespace and membership, which throws on a slug that is taken.
registerInsertNamespace(q) ==
  /\ req[q].at = "insertNamespace"
  /\ IF namespaces[req[q].user] = NoNamespace
     THEN claim(req[q].user, "personal", req[q].user) /\ step(q, "issueSession")
     ELSE finish(q) /\ UNCHANGED <<namespaces, roles>>
  /\ UNCHANGED <<users, identity, states, sessions, signIns>>

issueSession(q) ==
  /\ req[q].at = "issueSession"
  /\ sessions' = sessions \cup {req[q].user}
  /\ signIns' = [s \in State |-> signIns[s] + IF s = req[q].state THEN 1 ELSE 0]
  /\ finish(q)
  /\ UNCHANGED <<users, identity, namespaces, roles, states>>

\* Only the users of a registration have a password.
login(n) ==
  /\ n \in users \cap Name
  /\ sessions' = sessions \cup {n}
  /\ UNCHANGED <<users, identity, namespaces, roles, states, signIns, req>>

\* logout, and the expiry of a session.
logout(u) ==
  /\ u \in sessions
  /\ sessions' = sessions \ {u}
  /\ UNCHANGED <<users, identity, namespaces, roles, states, signIns, req>>

-----------------------------------------------------------------------------
startGithubOAuth(s) ==
  /\ states[s] = "new"
  /\ states' = [states EXCEPT ![s] = "issued"]
  /\ UNCHANGED <<users, identity, namespaces, roles, sessions, signIns, req>>

expireState(s) ==
  /\ states[s] = "issued"
  /\ states' = [states EXCEPT ![s] = "gone"]
  /\ UNCHANGED <<users, identity, namespaces, roles, sessions, signIns, req>>

\* The row of a state, read without being taken: what completeGithubOAuth does not do.
takeStateLeavingIt(s) == states[s] = "issued" /\ UNCHANGED states

\* DELETE ... WHERE state_hash = ? AND expires_at > ? RETURNING.
takeState(s) ==
  /\ states[s] = "issued"
  /\ states' = [states EXCEPT ![s] = "gone"]

\* completeGithubOAuth: the state is taken whether or not GitHub then vouches for g.
completeGithubOAuth(q, s, g) ==
  /\ req[q] = Idle
  /\ takeState(s)
  /\ \/ finish(q)
     \/ become(q, [Idle EXCEPT !.at = "findUser", !.state = s, !.github = g])
  /\ UNCHANGED <<users, identity, namespaces, roles, sessions, signIns>>

\* findOrCreateGithubUser: the SELECT; a user it makes gets a fresh random identifier.
findGithubUser(q) ==
  /\ req[q].at = "findUser"
  /\ LET known == identity[req[q].github] IN
       \/ /\ known # None
          /\ become(q, [req[q] EXCEPT !.at = "issueSession", !.user = known])
       \/ /\ known = None
          /\ \E h \in Handle \ (users \cup {req[o].user : o \in Request}) :
               become(q, [req[q] EXCEPT !.at = "createUser", !.user = h])
  /\ UNCHANGED accountVars

\* The INSERT of the user on its own, before an identity that may conflict.
createGithubUserUnbatched(q) ==
  /\ req[q].at = "createUser"
  /\ users' = users \cup {req[q].user}
  /\ IF identity[req[q].github] = None
     THEN /\ identity' = [identity EXCEPT ![req[q].github] = req[q].user]
          /\ claim(req[q].user, "personal", req[q].user)
          /\ step(q, "issueSession")
     ELSE finish(q) /\ UNCHANGED <<identity, namespaces, roles>>
  /\ UNCHANGED <<states, sessions, signIns>>

\* The batch of four rows, of which the identity's primary key may be taken by now.
createGithubUser(q) ==
  /\ req[q].at = "createUser"
  /\ IF identity[req[q].github] = None
     THEN /\ users' = users \cup {req[q].user}
          /\ identity' = [identity EXCEPT ![req[q].github] = req[q].user]
          /\ claim(req[q].user, "personal", req[q].user)
          /\ step(q, "issueSession")
     ELSE finish(q) /\ UNCHANGED <<users, identity, namespaces, roles>>
  /\ UNCHANGED <<states, sessions, signIns>>

AccountsNext ==
  \/ \E q \in Request, n \in Name : registerCheck(q, n)
  \/ \E q \in Request :
       \/ registerInsertUser(q) \/ registerInsertNamespace(q) \/ issueSession(q)
       \/ findGithubUser(q) \/ createGithubUser(q)
  \/ \E n \in Name : login(n)
  \/ \E u \in User : logout(u)
  \/ \E s \in State : startGithubOAuth(s) \/ expireState(s)
  \/ \E q \in Request, s \in State, g \in GithubUser : completeGithubOAuth(q, s, g)
=============================================================================
