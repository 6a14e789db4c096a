----------------------------- MODULE ForgeProofs -----------------------------
(***************************************************************************)
(* Theorems about accounts, organizations and issues, for every number of  *)
(* users, GitHub users, OAuth states, repositories and requests in flight. *)
(***************************************************************************)
EXTENDS Forge, FiniteSetTheorems, WellFoundedInduction, TLAPS

-----------------------------------------------------------------------------
(* The inductive invariant *)

Serving == {"forge", "members", "namespace", "insertRepository", "putRoute",
            "nextNumber", "insertIssue"}

At == {"idle", "insertUser", "insertNamespace", "issueSession", "findUser", "createUser"}
          \cup Serving

Asked == [at : At, user : User \cup {None}, slug : User \cup {None}, state : State \cup {None},
          github : GithubUser \cup {None}, repository : Repository \cup {None}, number : Nat]

Created == [repository : Repository, number : Number, id : Issue]

\* The rows of D1
Tables ==
  /\ users \subseteq User /\ sessions \subseteq users
  /\ identity \in [GithubUser -> Handle \cup {None}]
  /\ namespaces \in [User -> {NoNamespace} \cup
                               [kind : {"personal", "organization"}, creator : users]]
  /\ roles \in [User -> [User -> {"none", "member", "owner"}]]
  /\ states \in [State -> {"new", "issued", "gone"}]
  /\ signIns \in [State -> Nat]
  /\ repositories \in [Repository -> {NoRepository} \cup [slug : User, creator : users]]
  /\ issues \in [Repository -> [Number -> Issue \cup {None}]]
  /\ made \subseteq Repository
  /\ answered \subseteq Created

\* What each request carries on from the reads it has behind it
Carries(q) ==
  LET m == req[q] IN
  /\ m.at = "insertUser" => m.user \in Name
  /\ m.at = "insertNamespace" => m.user \in Name \cap users
  /\ m.at \in {"findUser", "createUser"} => m.github \in GithubUser
  /\ m.at = "createUser" => m.user \in Handle \ users
  /\ m.at \in {"issueSession"} \cup Serving => m.user \in users
  /\ m.at = "members" => m.slug \in User /\ namespaces[m.slug].kind = "organization"
  /\ m.at = "insertRepository" => m.slug \in User
  /\ m.at \in {"putRoute", "nextNumber", "insertIssue"} => m.repository \in made
  /\ m.at = "insertIssue" =>
       /\ m.number \in 1..Cardinality(Issue) + 1
       /\ m.repository \in Rows => \A n \in 1..(m.number - 1) : n \in Taken(m.repository)

Requests ==
  /\ req \in [Request -> Asked]
  /\ \A q \in Request : Carries(q)
  /\ \A q, o \in Request : req[q].at = "createUser" /\ req[o].at = "createUser"
                             /\ req[q].user = req[o].user => q = o

\* A state that a request holds is gone and nobody else's, and has led to no session yet.
StatesOnce ==
  /\ \A s \in State : signIns[s] <= 1 /\ (states[s] # "gone" => signIns[s] = 0)
  /\ \A q \in Request : req[q].state # None =>
       /\ states[req[q].state] = "gone" /\ signIns[req[q].state] = 0
       /\ \A o \in Request : req[o].state = req[q].state => o = q

\* GitHub users and the users made for them correspond one to one.
Whole ==
  /\ \A g \in GithubUser : identity[g] # None => identity[g] \in users
  /\ \A g, o \in GithubUser : identity[g] = identity[o] /\ identity[g] # None => g = o
  /\ \A u \in users \cap Handle :
       /\ \E g \in GithubUser : identity[g] = u
       /\ namespaces[u] = [kind |-> "personal", creator |-> u]
  /\ \A h \in Handle \ users : namespaces[h] = NoNamespace

Members(s) == {u \in User : roles[s][u] # "none"}

\* Members are users, finitely many, and none where there is no namespace.
Membership ==
  \A s \in User :
    /\ Members(s) \subseteq users /\ IsFiniteSet(Members(s))
    /\ namespaces[s] = NoNamespace => Members(s) = {}
    /\ namespaces[s].kind = "organization" => Owners(s) # {}
    /\ namespaces[s].kind = "personal" => Members(s) = {namespaces[s].creator}

\* A row was given out, and only rows have issues, numbered without a gap.
Numbering ==
  /\ Rows \subseteq made
  /\ \A r \in Repository \ Rows : Taken(r) = {}
  /\ \A a \in answered : issues[a.repository][a.number] = a.id
  /\ \A r \in Repository : \A n \in Taken(r) : \A k \in 1..n : k \in Taken(r)

IInv == Tables /\ Requests /\ StatesOnce /\ Whole /\ Membership /\ Numbering

-----------------------------------------------------------------------------
(* Helpers *)

LEMMA NumberIsNat == Cardinality(Issue) \in Nat /\ Number \subseteq Nat
<1>1. Cardinality(Issue) \in Nat
  BY ForgeAssumption, FS_CardinalityType
<1> QED
  BY <1>1 DEF Number

\* The greatest element Max chooses exists in every set of numbers up to n.
LEMMA MaxOfNumbers ==
  ASSUME NEW n \in Nat, NEW S, S \subseteq 0..n, 0 \in S
  PROVE  Max(S) \in S /\ \A y \in S : y <= Max(S)
<1> DEFINE D == {n - y : y \in S}
<1>1. D \in SUBSET Nat /\ D # {}
  <2>1. ASSUME NEW y \in S PROVE n - y \in Nat
    <3>1. y \in 0..n
      OBVIOUS
    <3> QED
      BY <3>1
  <2>2. n - 0 \in D
    OBVIOUS
  <2> QED
    BY <2>1, <2>2
<1>2. PICK d \in D : \A e \in D : ~ (<<e, d>> \in OpToRel(<, Nat))
  BY <1>1, NatLessThanWellFounded, WFMin
<1>3. PICK x \in S : d = n - x
  BY <1>2
<1>4. ASSUME NEW y \in S PROVE x >= y
  <2>1. n - y \in D /\ n - y \in Nat /\ n - x \in Nat
    BY <1>1
  <2>2. ~ (n - y < n - x)
    BY <1>2, <1>3, <2>1 DEF OpToRel
  <2>3. x \in 0..n /\ y \in 0..n
    OBVIOUS
  <2> QED
    BY <2>2, <2>3
<1>5. \E z \in S : \A y \in S : z >= y
  BY <1>4
<1>6. Max(S) \in S /\ \A y \in S : Max(S) >= y
  BY <1>5 DEF Max
<1>7. \A y \in S : y \in 0..n
  OBVIOUS
<1> QED
  BY <1>6, <1>7

LEMMA IdleIsAsked == Idle \in Asked /\ Idle.at = "idle" /\ Idle.state = None
BY DEF Idle, Asked, At

-----------------------------------------------------------------------------
(* Only the request that acts changes *)

LEMMA ActorMoves ==
  ASSUME Requests, NEW q \in Request, NEW m \in Asked, become(q, m)
  PROVE  /\ req' \in [Request -> Asked] /\ req'[q] = m
         /\ \A o \in Request : o # q => req'[o] = req[o]
BY DEF become, Requests

LEMMA Finishes ==
  ASSUME Requests, NEW q \in Request, finish(q)
  PROVE  /\ req' \in [Request -> Asked] /\ req'[q] = Idle
         /\ \A o \in Request : o # q => req'[o] = req[o]
BY IdleIsAsked, ActorMoves DEF finish

LEMMA Steps ==
  ASSUME Requests, NEW q \in Request, NEW at \in At, step(q, at)
  PROVE  /\ req' \in [Request -> Asked] /\ req'[q] = [req[q] EXCEPT !.at = at]
         /\ req'[q].at = at /\ req'[q].user = req[q].user /\ req'[q].slug = req[q].slug
         /\ req'[q].state = req[q].state /\ req'[q].github = req[q].github
         /\ req'[q].repository = req[q].repository /\ req'[q].number = req[q].number
         /\ \A o \in Request : o # q => req'[o] = req[o]
<1>1. req[q] \in Asked
  BY DEF Requests
<1>2. [req[q] EXCEPT !.at = at] \in Asked
  BY <1>1 DEF Asked
<1>3. /\ req' \in [Request -> Asked] /\ req'[q] = [req[q] EXCEPT !.at = at]
      /\ \A o \in Request : o # q => req'[o] = req[o]
  BY <1>2, ActorMoves DEF step
<1> QED
  BY <1>1, <1>3 DEF Asked

-----------------------------------------------------------------------------
(* What a step leaves to the other requests *)

\* Users, namespaces and numbers do not go away under a request that has read them.
Grows ==
  /\ users \subseteq users' /\ made \subseteq made'
  /\ \A s \in User : namespaces[s] # NoNamespace => namespaces'[s] = namespaces[s]
  /\ \A r \in made : r \in Rows' =>
       r \in Rows /\ \A n \in Number : issues[r][n] # None => issues'[r][n] = issues[r][n]

LEMMA CarriesOn ==
  ASSUME IInv, Grows, NEW q \in Request, req'[q] = req[q],
         req[q].at = "createUser" => req[q].user \notin users'
  PROVE  Carries(q)'
<1>1. Tables /\ Carries(q) /\ req[q] \in Asked
  BY DEF IInv, Requests
<1>2. req[q].at = "members" => namespaces'[req[q].slug].kind = "organization"
  <2> SUFFICES ASSUME req[q].at = "members" PROVE namespaces'[req[q].slug].kind = "organization"
    OBVIOUS
  <2>1. req[q].slug \in User /\ namespaces[req[q].slug].kind = "organization"
    BY <1>1 DEF Carries
  <2>2. namespaces[req[q].slug] # NoNamespace
    BY <2>1 DEF NoNamespace
  <2> QED
    BY <2>1, <2>2 DEF Grows
<1>3. req[q].at = "insertIssue" =>
       /\ req[q].number \in 1..Cardinality(Issue) + 1
       /\ req[q].repository \in Rows' =>
            \A n \in 1..(req[q].number - 1) : n \in Taken(req[q].repository)'
  <2> SUFFICES ASSUME req[q].at = "insertIssue", req[q].repository \in Rows'
               PROVE  \A n \in 1..(req[q].number - 1) : n \in Taken(req[q].repository)'
    BY <1>1 DEF Carries
  <2>1. req[q].repository \in made
    BY <1>1 DEF Carries, Serving
  <2>2. \A n \in Taken(req[q].repository) : n \in Taken(req[q].repository)'
    BY <2>1 DEF Grows, Taken
  <2>3. req[q].repository \in Rows
    BY <2>1 DEF Grows
  <2> QED
    BY <1>1, <2>2, <2>3 DEF Carries
<1>4. users \subseteq users' /\ made \subseteq made'
  BY DEF Grows
<1>5. Rows' = Rows'
  OBVIOUS
<1> QED
  BY <1>1, <1>2, <1>3, <1>4 DEF Carries

\* If one request takes a step, its own part of Requests is all there is to show.
LEMMA RequestsKept ==
  ASSUME IInv, Grows, NEW q \in Request, req' \in [Request -> Asked],
         \A o \in Request : o # q => req'[o] = req[o],
         Carries(q)',
         req'[q].at = "createUser" =>
             \A o \in Request : o # q /\ req[o].at = "createUser" => req[o].user # req'[q].user,
         \A o \in Request : o # q /\ req[o].at = "createUser" => req[o].user \notin users'
  PROVE  Requests'
<1>1. \A o \in Request : Carries(o)'
  BY CarriesOn
<1>2. \A p, o \in Request : req'[p].at = "createUser" /\ req'[o].at = "createUser"
                             /\ req'[p].user = req'[o].user => p = o
  BY DEF IInv, Requests
<1> QED
  BY <1>1, <1>2 DEF Requests

\* Where no request steps
LEMMA RequestsStay ==
  ASSUME IInv, Grows, req' = req, users' = users
  PROVE  Requests'
<1>1. \A o \in Request : req[o].at = "createUser" => req[o].user \notin users
  BY DEF IInv, Requests, Carries
<1>2. \A o \in Request : Carries(o)'
  BY <1>1, CarriesOn
<1> QED
  BY <1>2 DEF Requests, IInv

\* A request that ends carries nothing.
LEMMA RequestsFinish ==
  ASSUME IInv, Grows, NEW q \in Request, finish(q), users' = users
  PROVE  Requests'
<1>1. /\ req' \in [Request -> Asked] /\ req'[q] = Idle
      /\ \A o \in Request : o # q => req'[o] = req[o]
  BY Finishes DEF IInv
<1>2. Carries(q)'
  BY <1>1, IdleIsAsked DEF Carries, Serving
<1>3. \A o \in Request : req[o].at = "createUser" => req[o].user \notin users
  BY DEF IInv, Requests, Carries
<1> QED
  BY <1>1, <1>2, <1>3, IdleIsAsked, RequestsKept

LEMMA StatesKept ==
  ASSUME IInv, UNCHANGED <<states, signIns>>, NEW q \in Request,
         \A o \in Request : o # q => req'[o] = req[o],
         req'[q].state = None \/ req'[q].state = req[q].state
  PROVE  StatesOnce'
BY DEF IInv, StatesOnce

LEMMA TablesStay ==
  ASSUME IInv, UNCHANGED accountVars, UNCHANGED forgeVars
  PROVE  Tables' /\ Whole' /\ Membership' /\ Numbering' /\ Grows
<1>1. UNCHANGED <<users, identity, namespaces, roles, states, sessions, signIns>>
      /\ UNCHANGED <<repositories, made, issues, answered>>
  BY DEF accountVars, forgeVars
<1>2. Grows
  BY <1>1 DEF Grows, Rows
<1>3. Tables'
  BY <1>1 DEF IInv, Tables
<1>4. Whole'
  BY <1>1 DEF IInv, Whole
<1>5. Membership'
  BY <1>1 DEF IInv, Membership, Members, Owners
<1>6. Numbering'
  BY <1>1 DEF IInv, Numbering, Rows, Taken
<1> QED
  BY <1>2, <1>3, <1>4, <1>5, <1>6

\* The rows of repositories and issues do not depend on accounts.
LEMMA NumberingStays ==
  ASSUME IInv, UNCHANGED forgeVars
  PROVE  Numbering' /\ made' = made
         /\ \A r \in made : r \in Rows' =>
              r \in Rows /\ \A n \in Number : issues[r][n] # None => issues'[r][n] = issues[r][n]
<1>1. UNCHANGED <<repositories, made, issues, answered>>
  BY DEF forgeVars
<1> QED
  BY <1>1 DEF IInv, Numbering, Rows, Taken

\* A request that only reads: what it then carries is all there is to show.
LEMMA ReaderKeeps ==
  ASSUME IInv, UNCHANGED accountVars, UNCHANGED forgeVars, NEW q \in Request,
         NEW m \in Asked, become(q, m), m.state = req[q].state,
         m.at # "createUser", Carries(q)'
  PROVE  IInv'
<1>1. Tables' /\ Whole' /\ Membership' /\ Numbering' /\ Grows
  BY TablesStay
<1>2. /\ req' \in [Request -> Asked] /\ req'[q] = m
      /\ \A o \in Request : o # q => req'[o] = req[o]
  BY ActorMoves DEF IInv
<1>3. \A o \in Request : req[o].at = "createUser" => req[o].user \notin users'
  BY DEF IInv, Requests, Carries, accountVars
<1>4. Requests'
  BY <1>1, <1>2, <1>3, RequestsKept
<1>5. StatesOnce'
  BY <1>2, StatesKept DEF accountVars
<1> QED
  BY <1>1, <1>4, <1>5 DEF IInv

LEMMA FinishKeeps ==
  ASSUME IInv, UNCHANGED accountVars, UNCHANGED forgeVars, NEW q \in Request, finish(q)
  PROVE  IInv'
<1>1. Tables' /\ Whole' /\ Membership' /\ Numbering' /\ Grows
  BY TablesStay
<1>2. Requests'
  BY <1>1, RequestsFinish DEF accountVars
<1>3. StatesOnce'
  BY Finishes, IdleIsAsked, StatesKept DEF IInv, accountVars
<1> QED
  BY <1>1, <1>2, <1>3 DEF IInv

-----------------------------------------------------------------------------
(* Registration and sessions *)

LEMMA RegisterCheckKeeps ==
  ASSUME IInv, UNCHANGED forgeVars, NEW q \in Request, NEW n \in Name, registerCheck(q, n)
  PROVE  IInv'
<1> DEFINE m == [Idle EXCEPT !.at = "insertUser", !.user = n]
<1>1. m \in Asked /\ m.at = "insertUser" /\ m.user = n /\ m.state = None
  BY DEF Idle, Asked, At, User
<1>2. become(q, m) /\ req[q] = Idle /\ UNCHANGED accountVars
  BY DEF registerCheck
<1> HIDE DEF m
<1>3. req'[q] = m
  BY <1>1, <1>2, ActorMoves DEF IInv
<1>4. Carries(q)'
  BY <1>1, <1>3 DEF Carries, Serving
<1> QED
  BY <1>1, <1>2, <1>4, IdleIsAsked, ReaderKeeps

LEMMA RegisterInsertUserKeeps ==
  ASSUME IInv, UNCHANGED forgeVars, NEW q \in Request, registerInsertUser(q)
  PROVE  IInv'
<1> DEFINE n == req[q].user
<1>1. /\ req[q].at = "insertUser" /\ users' = users \cup {n}
      /\ UNCHANGED <<identity, namespaces, roles, states, sessions, signIns>>
      /\ n \in users => finish(q)
      /\ n \notin users => step(q, "insertNamespace")
  BY DEF registerInsertUser
<1>2. n \in Name /\ n \notin Handle /\ n \in User
  BY <1>1, AccountsAssumption DEF IInv, Requests, Carries, User
<1>3. Tables'
  <2>1. {NoNamespace} \cup [kind : {"personal", "organization"}, creator : users] \subseteq
        {NoNamespace} \cup [kind : {"personal", "organization"}, creator : users']
    BY <1>1
  <2>2. {NoRepository} \cup [slug : User, creator : users] \subseteq
        {NoRepository} \cup [slug : User, creator : users']
    BY <1>1
  <2> HIDE DEF n
  <2> QED
    BY <1>1, <1>2, <2>1, <2>2 DEF IInv, Tables, forgeVars
<1>4. Whole'
  BY <1>1, <1>2 DEF IInv, Whole
<1>5. Membership'
  BY <1>1 DEF IInv, Membership, Members, Owners
<1>6. Numbering' /\ Grows
  BY <1>1, NumberingStays DEF Grows
<1>7. /\ req' \in [Request -> Asked]
      /\ \A o \in Request : o # q => req'[o] = req[o]
      /\ req'[q].state \in {None, req[q].state}
      /\ req'[q].at \in {"idle", "insertNamespace"}
      /\ req'[q].at = "insertNamespace" => req'[q].user = n
  <2>1. CASE n \in users
    BY <1>1, <2>1, Finishes, IdleIsAsked DEF IInv
  <2>2. CASE n \notin users
    BY <1>1, <2>2, Steps DEF IInv, At
  <2> QED
    BY <2>1, <2>2
<1>8. Carries(q)'
  BY <1>1, <1>2, <1>7 DEF Carries, Serving
<1>9. \A o \in Request : req[o].at = "createUser" => req[o].user \notin users'
  BY <1>1, <1>2 DEF IInv, Requests, Carries
<1>10. Requests'
  BY <1>6, <1>7, <1>8, <1>9, RequestsKept
<1>11. StatesOnce'
  BY <1>1, <1>7, StatesKept
<1> QED
  BY <1>3, <1>4, <1>5, <1>6, <1>10, <1>11 DEF IInv

\* Claiming a free slug gives it one member, its creator.
LEMMA Claims ==
  ASSUME IInv, NEW s \in User, namespaces[s] = NoNamespace, users \subseteq users',
         NEW u \in User, u \in users', NEW kind \in {"personal", "organization"}, claim(s, kind, u)
  PROVE  /\ namespaces' \in [User -> {NoNamespace} \cup
                               [kind : {"personal", "organization"}, creator : users']]
         /\ roles' \in [User -> [User -> {"none", "member", "owner"}]]
         /\ Membership'
         /\ \A t \in User : namespaces[t] # NoNamespace => namespaces'[t] = namespaces[t]
         /\ \A t \in User : t # s => namespaces'[t] = namespaces[t]
         /\ namespaces'[s] = [kind |-> kind, creator |-> u]
<1>1. /\ namespaces' = [namespaces EXCEPT ![s] = [kind |-> kind, creator |-> u]]
      /\ roles' = [roles EXCEPT ![s][u] = "owner"]
  BY DEF claim
<1>2. /\ namespaces \in [User -> {NoNamespace} \cup
                               [kind : {"personal", "organization"}, creator : users]]
      /\ roles \in [User -> [User -> {"none", "member", "owner"}]]
  BY DEF IInv, Tables
<1>3. {NoNamespace} \cup [kind : {"personal", "organization"}, creator : users] \subseteq
      {NoNamespace} \cup [kind : {"personal", "organization"}, creator : users']
  OBVIOUS
<1>4. /\ namespaces' \in [User -> {NoNamespace} \cup
                               [kind : {"personal", "organization"}, creator : users']]
      /\ roles' \in [User -> [User -> {"none", "member", "owner"}]]
  BY <1>1, <1>2, <1>3
<1>5. ASSUME NEW t \in User, t # s
      PROVE  namespaces'[t] = namespaces[t] /\ Members(t)' = Members(t) /\ Owners(t)' = Owners(t)
  BY <1>1, <1>2, <1>5 DEF Members, Owners
<1>6. namespaces'[s] = [kind |-> kind, creator |-> u]
  BY <1>1, <1>2
<1>7. Members(s)' = {u} /\ Owners(s)' = {u}
  <2>1. \A v \in User : roles[s][v] = "none"
    BY <1>2 DEF IInv, Membership, Members
  <2>2. \A v \in User : roles'[s][v] = IF v = u THEN "owner" ELSE "none"
    BY <1>1, <1>2, <2>1
  <2> QED
    BY <2>2 DEF Members, Owners
<1>8. IsFiniteSet({u})
  BY FS_Singleton
<1>9. Membership'
  <2> SUFFICES ASSUME NEW t \in User
               PROVE  /\ Members(t)' \subseteq users' /\ IsFiniteSet(Members(t)')
                      /\ namespaces'[t] = NoNamespace => Members(t)' = {}
                      /\ namespaces'[t].kind = "organization" => Owners(t)' # {}
                      /\ namespaces'[t].kind = "personal" => Members(t)' = {namespaces'[t].creator}
    BY DEF Membership
  <2>1. CASE t = s
    BY <1>6, <1>7, <1>8, <2>1 DEF NoNamespace
  <2>2. CASE t # s
    BY <1>5, <2>2 DEF IInv, Membership
  <2> QED
    BY <2>1, <2>2
<1> QED
  BY <1>4, <1>5, <1>6, <1>9

LEMMA RegisterInsertNamespaceKeeps ==
  ASSUME IInv, UNCHANGED forgeVars, NEW q \in Request, registerInsertNamespace(q)
  PROVE  IInv'
<1> DEFINE n == req[q].user
<1>1. /\ req[q].at = "insertNamespace" /\ UNCHANGED <<users, identity, states, sessions, signIns>>
      /\ n \in Name /\ n \in users /\ n \in User /\ n \notin Handle
  BY AccountsAssumption DEF registerInsertNamespace, IInv, Requests, Carries, User
<1>2. CASE namespaces[n] = NoNamespace
  <2>1. claim(n, "personal", n) /\ step(q, "issueSession")
    BY <1>2 DEF registerInsertNamespace
  <2>2. /\ namespaces' \in [User -> {NoNamespace} \cup
                               [kind : {"personal", "organization"}, creator : users']]
        /\ roles' \in [User -> [User -> {"none", "member", "owner"}]]
        /\ Membership'
        /\ \A t \in User : namespaces[t] # NoNamespace => namespaces'[t] = namespaces[t]
        /\ \A t \in User : t # n => namespaces'[t] = namespaces[t]
    <3> HIDE DEF n
    <3> QED
      BY <1>1, <1>2, <2>1, Claims
  <2>3. Tables'
    BY <1>1, <2>2 DEF IInv, Tables, forgeVars
  <2>4. Whole'
    <3> HIDE DEF n
    <3> QED
      BY <1>1, <2>2 DEF IInv, Whole, User
  <2>5. Numbering' /\ Grows
    BY <1>1, <2>2, NumberingStays DEF Grows
  <2>6. /\ req' \in [Request -> Asked] /\ req'[q].at = "issueSession"
        /\ req'[q].user = n /\ req'[q].state = req[q].state
        /\ \A o \in Request : o # q => req'[o] = req[o]
    BY <2>1, Steps DEF IInv, At
  <2>7. Carries(q)'
    BY <1>1, <2>6 DEF Carries, Serving
  <2>8. \A o \in Request : req[o].at = "createUser" => req[o].user \notin users'
    BY <1>1 DEF IInv, Requests, Carries
  <2>9. Requests'
    BY <2>5, <2>6, <2>7, <2>8, RequestsKept
  <2>10. StatesOnce'
    BY <1>1, <2>6, StatesKept
  <2> QED
    BY <2>2, <2>3, <2>4, <2>5, <2>9, <2>10 DEF IInv
<1>3. CASE namespaces[n] # NoNamespace
  BY <1>3, FinishKeeps DEF registerInsertNamespace, accountVars
<1> QED
  BY <1>2, <1>3

\* Sessions and OAuth states matter to nothing but themselves.
LEMMA SessionsKeep ==
  ASSUME IInv, UNCHANGED forgeVars, UNCHANGED <<users, identity, namespaces, roles>>,
         sessions' \subseteq users, states' \in [State -> {"new", "issued", "gone"}],
         signIns' \in [State -> Nat]
  PROVE  Tables' /\ Whole' /\ Membership' /\ Numbering' /\ Grows
<1>1. Tables'
  BY DEF IInv, Tables, forgeVars
<1>2. Whole'
  BY DEF IInv, Whole
<1>3. Membership'
  BY DEF IInv, Membership, Members, Owners
<1>4. Numbering' /\ Grows
  BY NumberingStays DEF Grows
<1> QED
  BY <1>1, <1>2, <1>3, <1>4

LEMMA IssueSessionKeeps ==
  ASSUME IInv, UNCHANGED forgeVars, NEW q \in Request, issueSession(q)
  PROVE  IInv'
<1> DEFINE m == req[q]
<1>1. /\ m.at = "issueSession" /\ m.user \in users /\ sessions' = sessions \cup {m.user}
      /\ signIns' = [s \in State |-> signIns[s] + IF s = m.state THEN 1 ELSE 0]
      /\ finish(q) /\ UNCHANGED <<users, identity, namespaces, roles, states>>
      /\ m.state \in State \cup {None}
  BY DEF issueSession, IInv, Requests, Carries, Asked
<1>2. sessions' \subseteq users /\ signIns' \in [State -> Nat]
      /\ states' \in [State -> {"new", "issued", "gone"}]
  <2> HIDE DEF m
  <2> QED
    BY <1>1 DEF IInv, Tables
<1>3. Tables' /\ Whole' /\ Membership' /\ Numbering' /\ Grows
  BY <1>1, <1>2, SessionsKeep
<1>4. Requests'
  BY <1>1, <1>3, RequestsFinish
<1>5. req'[q] = Idle /\ \A o \in Request : o # q => req'[o] = req[o]
  BY <1>1, Finishes DEF IInv
<1>6. StatesOnce'
  <2>1. \A s \in State : signIns[s] \in Nat /\ states'[s] = states[s]
                         /\ signIns'[s] = signIns[s] + IF s = m.state THEN 1 ELSE 0
    BY <1>1 DEF IInv, Tables
  <2>2. m.state # None => states[m.state] = "gone" /\ signIns[m.state] = 0
                          /\ \A o \in Request : req[o].state = m.state => o = q
    BY DEF IInv, StatesOnce
  <2>3. ASSUME NEW s \in State
        PROVE  signIns'[s] <= 1 /\ (states'[s] # "gone" => signIns'[s] = 0)
    <3>1. signIns[s] <= 1 /\ (states[s] # "gone" => signIns[s] = 0)
      BY DEF IInv, StatesOnce
    <3>2. CASE s = m.state
      BY <2>1, <2>2, <3>1, <3>2, AccountsAssumption
    <3>3. CASE s # m.state
      BY <2>1, <3>1, <3>3
    <3> QED
      BY <3>2, <3>3
  <2>4. ASSUME NEW o \in Request, req'[o].state # None
        PROVE  /\ states'[req'[o].state] = "gone" /\ signIns'[req'[o].state] = 0
               /\ \A p \in Request : req'[p].state = req'[o].state => p = o
    <3>1. o # q /\ req'[o] = req[o] /\ req[o].state \in State
      BY <1>5, <2>4, IdleIsAsked DEF IInv, Requests, Asked
    <3>2. states[req[o].state] = "gone" /\ signIns[req[o].state] = 0
          /\ \A p \in Request : req[p].state = req[o].state => p = o
      BY <2>4, <3>1 DEF IInv, StatesOnce
    <3>3. req[o].state # m.state
      BY <3>1, <3>2
    <3> QED
      BY <1>5, <2>1, <2>4, <3>1, <3>2, <3>3, IdleIsAsked
  <2> QED
    BY <2>3, <2>4 DEF StatesOnce
<1> QED
  BY <1>3, <1>4, <1>6 DEF IInv

LEMMA SessionStepsKeep ==
  ASSUME IInv, UNCHANGED forgeVars,
         \/ \E n \in Name : login(n)
         \/ \E u \in User : logout(u)
         \/ \E s \in State : startGithubOAuth(s) \/ expireState(s)
  PROVE  IInv'
<1>1. /\ UNCHANGED <<users, identity, namespaces, roles, signIns, req>>
      /\ sessions' \subseteq users /\ states' \in [State -> {"new", "issued", "gone"}]
      /\ \A s \in State : states'[s] # "gone" => states[s] # "gone"
  BY DEF login, logout, startGithubOAuth, expireState, IInv, Tables
<1>2. signIns' \in [State -> Nat]
  BY <1>1 DEF IInv, Tables
<1>3. Tables' /\ Whole' /\ Membership' /\ Numbering' /\ Grows
  BY <1>1, <1>2, SessionsKeep
<1>4. Requests'
  BY <1>1, <1>3, RequestsStay
<1>5. \A s \in State : states[s] = "gone" => states'[s] = "gone"
  BY DEF login, logout, startGithubOAuth, expireState, IInv, Tables
<1>6. \A o \in Request : req[o].state # None => req[o].state \in State
  BY DEF IInv, Requests, Asked
<1>7. StatesOnce'
  BY <1>1, <1>5, <1>6 DEF IInv, StatesOnce
<1> QED
  BY <1>3, <1>4, <1>7 DEF IInv

-----------------------------------------------------------------------------
(* Sign-in through GitHub *)

LEMMA CompleteOAuthKeeps ==
  ASSUME IInv, UNCHANGED forgeVars, NEW q \in Request, NEW s \in State, NEW g \in GithubUser,
         completeGithubOAuth(q, s, g)
  PROVE  IInv'
<1> DEFINE m == [Idle EXCEPT !.at = "findUser", !.state = s, !.github = g]
<1>1. /\ UNCHANGED <<users, identity, namespaces, roles, sessions, signIns>>
      /\ req[q] = Idle /\ states[s] = "issued" /\ states' = [states EXCEPT ![s] = "gone"]
      /\ finish(q) \/ become(q, m)
  BY DEF completeGithubOAuth, takeState
<1>2. m \in Asked /\ m.at = "findUser" /\ m.state = s /\ m.github = g
  BY DEF Idle, Asked, At
<1> HIDE DEF m
<1>3. /\ sessions' \subseteq users /\ states' \in [State -> {"new", "issued", "gone"}]
      /\ signIns' \in [State -> Nat]
  BY <1>1 DEF IInv, Tables
<1>4. Tables' /\ Whole' /\ Membership' /\ Numbering' /\ Grows
  BY <1>1, <1>3, SessionsKeep
<1>5. /\ req' \in [Request -> Asked] /\ req'[q] \in {Idle, m}
      /\ \A o \in Request : o # q => req'[o] = req[o]
  BY <1>1, <1>2, Finishes, ActorMoves DEF IInv
<1>6. Carries(q)'
  BY <1>2, <1>5, IdleIsAsked DEF Carries, Serving
<1>7. \A o \in Request : req[o].at = "createUser" => req[o].user \notin users
  BY DEF IInv, Requests, Carries
<1>8. Requests'
  BY <1>1, <1>2, <1>4, <1>5, <1>6, <1>7, IdleIsAsked, RequestsKept
<1>9. StatesOnce'
  <2>1. \A t \in State : states'[t] = IF t = s THEN "gone" ELSE states[t]
    BY <1>1 DEF IInv, Tables
  <2>2. signIns[s] = 0 /\ \A o \in Request : req[o].state # s
    BY <1>1, AccountsAssumption DEF IInv, StatesOnce
  <2>3. \A o \in Request : req[o].state # None => req[o].state \in State
    BY DEF IInv, Requests, Asked
  <2>4. \A t \in State : signIns'[t] <= 1 /\ (states'[t] # "gone" => signIns'[t] = 0)
    BY <1>1, <2>1 DEF IInv, StatesOnce
  <2>5. ASSUME NEW o \in Request, req'[o].state # None
        PROVE  /\ states'[req'[o].state] = "gone" /\ signIns'[req'[o].state] = 0
               /\ \A p \in Request : req'[p].state = req'[o].state => p = o
    <3>1. CASE o = q
      BY <1>1, <1>2, <1>5, <2>1, <2>2, <2>5, <3>1, IdleIsAsked
    <3>2. CASE o # q
      <4>1. /\ req'[o] = req[o] /\ req[o].state \in State
            /\ states[req[o].state] = "gone" /\ signIns[req[o].state] = 0
            /\ \A p \in Request : req[p].state = req[o].state => p = o
        BY <1>5, <2>3, <2>5, <3>2 DEF IInv, StatesOnce
      <4>2. req'[q].state # req[o].state
        BY <1>2, <1>5, <2>2, <2>5, <4>1, IdleIsAsked
      <4> QED
        BY <1>1, <1>5, <2>1, <3>2, <4>1, <4>2
    <3> QED
      BY <3>1, <3>2
  <2> QED
    BY <2>4, <2>5 DEF StatesOnce
<1> QED
  BY <1>4, <1>8, <1>9 DEF IInv

LEMMA FindGithubUserKeeps ==
  ASSUME IInv, UNCHANGED forgeVars, NEW q \in Request, findGithubUser(q)
  PROVE  IInv'
<1> DEFINE known == identity[req[q].github]
<1>1. req[q].at = "findUser" /\ UNCHANGED accountVars /\ req[q].github \in GithubUser
      /\ req[q] \in Asked
  BY DEF findGithubUser, IInv, Requests, Carries
<1>2. CASE known # None
  <2> DEFINE m == [req[q] EXCEPT !.at = "issueSession", !.user = known]
  <2>1. known \in users /\ known \in User
    BY <1>1, <1>2 DEF IInv, Whole, Tables
  <2>2. become(q, m)
    BY <1>2 DEF findGithubUser
  <2> HIDE DEF known
  <2>3. m \in Asked /\ m.at = "issueSession" /\ m.user = known /\ m.state = req[q].state
    BY <1>1, <2>1 DEF Asked, At
  <2> HIDE DEF m
  <2>4. req'[q] = m
    BY <2>2, <2>3, ActorMoves DEF IInv
  <2>5. Carries(q)'
    BY <1>1, <2>1, <2>3, <2>4 DEF Carries, Serving, accountVars
  <2> QED
    BY <1>1, <2>2, <2>3, <2>5, ReaderKeeps
<1>3. CASE known = None
  <2>1. PICK h \in Handle \ (users \cup {req[o].user : o \in Request}) :
               become(q, [req[q] EXCEPT !.at = "createUser", !.user = h])
    BY <1>2, <1>3 DEF findGithubUser
  <2> DEFINE m == [req[q] EXCEPT !.at = "createUser", !.user = h]
  <2>2. /\ m \in Asked /\ m.at = "createUser" /\ m.user = h /\ m.state = req[q].state
        /\ m.github = req[q].github
    BY <1>1 DEF Asked, At, User
  <2> HIDE DEF m
  <2>3. /\ req' \in [Request -> Asked] /\ req'[q] = m
        /\ \A o \in Request : o # q => req'[o] = req[o]
    BY <2>1, <2>2, ActorMoves DEF IInv, m
  <2>4. Tables' /\ Whole' /\ Membership' /\ Numbering' /\ Grows
    BY <1>1, TablesStay
  <2>5. Carries(q)'
    BY <1>1, <2>1, <2>2, <2>3 DEF Carries, Serving, accountVars
  <2>6. \A o \in Request : req[o].at = "createUser" => req[o].user \notin users'
    BY <1>1 DEF IInv, Requests, Carries, accountVars
  <2>7. Requests'
    BY <2>1, <2>2, <2>3, <2>4, <2>5, <2>6, RequestsKept
  <2>8. StatesOnce'
    BY <1>1, <2>2, <2>3, StatesKept DEF accountVars
  <2> QED
    BY <2>4, <2>7, <2>8 DEF IInv
<1> QED
  BY <1>2, <1>3

LEMMA CreateGithubUserKeeps ==
  ASSUME IInv, UNCHANGED forgeVars, NEW q \in Request, createGithubUser(q)
  PROVE  IInv'
<1> DEFINE h == req[q].user
           g == req[q].github
<1>1. /\ req[q].at = "createUser" /\ UNCHANGED <<states, sessions, signIns>>
      /\ h \in Handle \ users /\ h \in User /\ g \in GithubUser
  BY DEF createGithubUser, IInv, Requests, Carries, User
<1>2. CASE identity[g] = None
  <2>1. /\ users' = users \cup {h} /\ identity' = [identity EXCEPT ![g] = h]
        /\ claim(h, "personal", h) /\ step(q, "issueSession")
    BY <1>2 DEF createGithubUser
  <2>2. namespaces[h] = NoNamespace /\ h # None
    BY <1>1, AccountsAssumption DEF IInv, Whole
  <2>3. /\ namespaces' \in [User -> {NoNamespace} \cup
                               [kind : {"personal", "organization"}, creator : users']]
        /\ roles' \in [User -> [User -> {"none", "member", "owner"}]]
        /\ Membership'
        /\ \A t \in User : namespaces[t] # NoNamespace => namespaces'[t] = namespaces[t]
        /\ \A t \in User : t # h => namespaces'[t] = namespaces[t]
        /\ namespaces'[h] = [kind |-> "personal", creator |-> h]
    <3> HIDE DEF h
    <3> QED
      BY <1>1, <2>1, <2>2, Claims
  <2>4. Tables'
    <3>1. {NoRepository} \cup [slug : User, creator : users] \subseteq
          {NoRepository} \cup [slug : User, creator : users']
      BY <2>1
    <3> HIDE DEF h, g
    <3> QED
      BY <1>1, <2>1, <2>3, <3>1 DEF IInv, Tables, forgeVars
  <2>5. Whole'
    <3> HIDE DEF h, g
    <3>1. \A o \in GithubUser : identity'[o] = IF o = g THEN h ELSE identity[o]
      BY <1>1, <2>1 DEF IInv, Tables
    <3>2. \A o \in GithubUser : identity[o] # None => identity[o] \in users
      BY DEF IInv, Whole
    <3>3. \A o \in GithubUser : identity'[o] # None => identity'[o] \in users'
      BY <2>1, <3>1, <3>2
    <3>4. \A p, o \in GithubUser : identity'[p] = identity'[o] /\ identity'[p] # None => p = o
      BY <1>1, <3>1, <3>2 DEF IInv, Whole
    <3>5. ASSUME NEW u \in users' \cap Handle
          PROVE  /\ \E o \in GithubUser : identity'[o] = u
                 /\ namespaces'[u] = [kind |-> "personal", creator |-> u]
      <4>1. CASE u = h
        BY <1>1, <2>3, <3>1, <4>1
      <4>2. CASE u # h
        <5>1. u \in users \cap Handle /\ u \in User
          BY <2>1, <4>2 DEF User
        <5>2. PICK o \in GithubUser : identity[o] = u
          BY <5>1 DEF IInv, Whole
        <5>3. o # g /\ namespaces[u] = [kind |-> "personal", creator |-> u]
          BY <1>2, <5>1, <5>2, AccountsAssumption DEF IInv, Whole, h, g
        <5> QED
          BY <2>3, <3>1, <4>2, <5>1, <5>2, <5>3
      <4> QED
        BY <4>1, <4>2
    <3>6. \A u \in Handle \ users' : namespaces'[u] = NoNamespace
      BY <2>1, <2>3 DEF IInv, Whole, User
    <3> QED
      BY <3>3, <3>4, <3>5, <3>6 DEF Whole
  <2>6. Numbering' /\ Grows
    BY <2>1, <2>3, NumberingStays DEF Grows
  <2>7. /\ req' \in [Request -> Asked] /\ req'[q].at = "issueSession"
        /\ req'[q].user = h /\ req'[q].state = req[q].state
        /\ \A o \in Request : o # q => req'[o] = req[o]
    BY <2>1, Steps DEF IInv, At
  <2>8. Carries(q)'
    BY <2>1, <2>7 DEF Carries, Serving
  <2>9. \A o \in Request : o # q /\ req[o].at = "createUser" => req[o].user \notin users'
    BY <1>1, <2>1 DEF IInv, Requests, Carries
  <2>10. Requests'
    BY <2>6, <2>7, <2>8, <2>9, RequestsKept
  <2>11. StatesOnce'
    BY <1>1, <2>7, StatesKept
  <2> QED
    BY <2>3, <2>4, <2>5, <2>6, <2>10, <2>11 DEF IInv
<1>3. CASE identity[g] # None
  BY <1>3, FinishKeeps DEF createGithubUser, accountVars
<1> QED
  BY <1>2, <1>3

LEMMA AccountsKeep ==
  ASSUME IInv, AccountsNext, UNCHANGED forgeVars
  PROVE  IInv'
BY RegisterCheckKeeps, RegisterInsertUserKeeps, RegisterInsertNamespaceKeeps, IssueSessionKeeps,
   SessionStepsKeep, CompleteOAuthKeeps, FindGithubUserKeeps, CreateGithubUserKeeps
   DEF AccountsNext

-----------------------------------------------------------------------------
(* Organizations *)

LEMMA CreateOrganizationKeeps ==
  ASSUME IInv, NEW q \in Request, NEW s \in Name, createOrganization(q, s)
  PROVE  IInv'
<1> DEFINE u == req[q].user
<1>1. /\ req[q].at = "forge" /\ namespaces[s] = NoNamespace /\ claim(s, "organization", u)
      /\ finish(q) /\ UNCHANGED <<users, identity, states, sessions, signIns, forgeVars>>
      /\ u \in users /\ u \in User /\ s \in User /\ s \notin Handle
  BY AccountsAssumption DEF createOrganization, IInv, Requests, Carries, Serving, Tables, User
<1> HIDE DEF u
<1>2. /\ namespaces' \in [User -> {NoNamespace} \cup
                             [kind : {"personal", "organization"}, creator : users']]
      /\ roles' \in [User -> [User -> {"none", "member", "owner"}]]
      /\ Membership'
      /\ \A t \in User : namespaces[t] # NoNamespace => namespaces'[t] = namespaces[t]
      /\ \A t \in User : t # s => namespaces'[t] = namespaces[t]
  BY <1>1, Claims
<1>3. Tables'
  BY <1>1, <1>2 DEF IInv, Tables, forgeVars
<1>4. Whole'
  BY <1>1, <1>2 DEF IInv, Whole, User
<1>5. Numbering' /\ Grows
  BY <1>1, <1>2, NumberingStays DEF Grows
<1>6. Requests'
  BY <1>1, <1>5, RequestsFinish
<1>7. StatesOnce'
  BY <1>1, Finishes, IdleIsAsked, StatesKept DEF IInv
<1> QED
  BY <1>2, <1>3, <1>4, <1>5, <1>6, <1>7 DEF IInv

\* A change to the roles of one namespace that keeps its members right
LEMMA RolesKeep ==
  ASSUME IInv, NEW q \in Request, finish(q),
         UNCHANGED <<users, identity, namespaces, states, sessions, signIns, forgeVars>>,
         NEW s \in User, NEW u \in User, NEW r \in {"none", "member", "owner"},
         roles' = [roles EXCEPT ![s][u] = r],
         namespaces[s].kind = "organization", r # "none" => u \in users, Owners(s)' # {}
  PROVE  IInv'
<1>1. roles' \in [User -> [User -> {"none", "member", "owner"}]]
  BY DEF IInv, Tables
<1>2. Tables'
  BY <1>1 DEF IInv, Tables, forgeVars
<1>3. Whole'
  BY DEF IInv, Whole
<1>4. ASSUME NEW t \in User
      PROVE  /\ Members(t)' \subseteq users' /\ IsFiniteSet(Members(t)')
             /\ namespaces'[t] = NoNamespace => Members(t)' = {}
             /\ namespaces'[t].kind = "organization" => Owners(t)' # {}
             /\ namespaces'[t].kind = "personal" => Members(t)' = {namespaces'[t].creator}
  <2>1. CASE t = s
    <3>1. Members(s)' \subseteq Members(s) \cup {u} /\ (r = "none" => Members(s)' \subseteq Members(s))
      BY DEF Members, IInv, Tables
    <3>2. Members(s) \subseteq users /\ IsFiniteSet(Members(s))
      BY DEF IInv, Membership
    <3>3. IsFiniteSet(Members(s)')
      BY <3>1, <3>2, FS_AddElement, FS_Subset
    <3> QED
      BY <2>1, <3>1, <3>2, <3>3 DEF NoNamespace
  <2>2. CASE t # s
    <3>1. Members(t)' = Members(t) /\ Owners(t)' = Owners(t)
      BY <2>2 DEF Members, Owners, IInv, Tables
    <3> QED
      BY <3>1 DEF IInv, Membership
  <2> QED
    BY <2>1, <2>2
<1>5. Membership'
  BY <1>4 DEF Membership
<1>6. Numbering' /\ Grows
  BY NumberingStays DEF Grows
<1>7. Requests'
  BY <1>6, RequestsFinish
<1>8. StatesOnce'
  BY Finishes, IdleIsAsked, StatesKept DEF IInv
<1> QED
  BY <1>2, <1>3, <1>5, <1>6, <1>7, <1>8 DEF IInv

LEMMA AddMemberKeeps ==
  ASSUME IInv, NEW q \in Request, NEW u \in User, NEW r \in {"member", "owner"}, addMember(q, u, r)
  PROVE  IInv'
<1>0. PICK s \in User : s = req[q].slug /\ namespaces[s].kind = "organization"
  BY DEF addMember, IInv, Requests, Carries
<1>1. /\ s \in User /\ namespaces[s].kind = "organization" /\ u \in users /\ roles[s][u] = "none"
      /\ roles' = [roles EXCEPT ![s][u] = r]
      /\ finish(q) /\ UNCHANGED <<users, identity, namespaces, states, sessions, signIns, forgeVars>>
  BY <1>0 DEF addMember
<1>2. Owners(s) \subseteq Owners(s)'
  BY <1>1 DEF Owners, IInv, Tables
<1>3. Owners(s) # {}
  BY <1>1 DEF IInv, Membership
<1> QED
  BY <1>1, <1>2, <1>3, RolesKeep

LEMMA RemoveMemberKeeps ==
  ASSUME IInv, NEW q \in Request, NEW u \in User, removeMember(q, u)
  PROVE  IInv'
<1>0. PICK s \in User : s = req[q].slug /\ namespaces[s].kind = "organization"
  BY DEF removeMember, IInv, Requests, Carries
<1>1. /\ s \in User /\ namespaces[s].kind = "organization"
      /\ ~ (roles[s][u] = "owner" /\ Cardinality(Owners(s)) <= 1)
      /\ roles' = [roles EXCEPT ![s][u] = "none"]
      /\ finish(q) /\ UNCHANGED <<users, identity, namespaces, states, sessions, signIns, forgeVars>>
  BY <1>0 DEF removeMember, removable
<1>2. Owners(s) \ {u} \subseteq Owners(s)'
  BY <1>1 DEF Owners, IInv, Tables
<1>3. Owners(s) # {}
  BY <1>1 DEF IInv, Membership
<1>4. Owners(s) \ {u} # {}
  <2> SUFFICES ASSUME Owners(s) \ {u} = {} PROVE FALSE
    OBVIOUS
  <2>1. Owners(s) = {u}
    BY <1>3
  <2>2. Cardinality(Owners(s)) = 1 /\ roles[s][u] = "owner"
    <3>1. Cardinality({u}) = 1
      BY FS_Singleton
    <3>2. u \in Owners(s)
      BY <2>1
    <3> QED
      BY <2>1, <3>1, <3>2 DEF Owners
  <2> QED
    BY <1>1, <2>2
<1> QED
  BY <1>1, <1>2, <1>4, RolesKeep

-----------------------------------------------------------------------------
(* Reads *)

LEMMA ForwardKeeps ==
  ASSUME IInv, NEW q \in Request, NEW u \in User, forward(q, u)
  PROVE  IInv'
<1> DEFINE m == [Idle EXCEPT !.at = "forge", !.user = u]
<1>1. m \in Asked /\ m.at = "forge" /\ m.user = u /\ m.state = None
  BY DEF Idle, Asked, At, Serving
<1>2. become(q, m) /\ req[q] = Idle /\ u \in sessions /\ UNCHANGED <<accountVars, forgeVars>>
  BY DEF forward
<1> HIDE DEF m
<1>3. req'[q] = m /\ u \in users'
  BY <1>1, <1>2, ActorMoves DEF IInv, Tables, accountVars
<1>4. Carries(q)'
  BY <1>1, <1>3 DEF Carries, Serving
<1> QED
  BY <1>1, <1>2, <1>4, IdleIsAsked, ReaderKeeps

LEMMA ManageMembersKeeps ==
  ASSUME IInv, NEW q \in Request, NEW s \in User, manageMembers(q, s)
  PROVE  IInv'
<1> DEFINE m == [req[q] EXCEPT !.at = "members", !.slug = s]
<1>1. /\ become(q, m) /\ UNCHANGED <<accountVars, forgeVars>>
      /\ req[q] \in Asked /\ req[q].user \in users /\ namespaces[s].kind = "organization"
  BY DEF manageMembers, organizationOwner, IInv, Requests, Carries, Serving
<1>2. m \in Asked /\ m.at = "members" /\ m.user = req[q].user /\ m.slug = s
      /\ m.state = req[q].state
  BY <1>1 DEF Asked, At, Serving
<1> HIDE DEF m
<1>3. req'[q] = m /\ users' = users /\ namespaces' = namespaces
  BY <1>1, <1>2, ActorMoves DEF IInv, accountVars
<1>4. Carries(q)'
  BY <1>1, <1>2, <1>3 DEF Carries, Serving
<1> QED
  BY <1>1, <1>2, <1>4, ReaderKeeps

LEMMA CountRepositoriesKeeps ==
  ASSUME IInv, NEW q \in Request, countRepositories(q)
  PROVE  IInv'
<1> DEFINE m == [req[q] EXCEPT !.at = "namespace"]
<1>1. /\ become(q, m) /\ UNCHANGED <<accountVars, forgeVars>>
      /\ req[q] \in Asked /\ req[q].user \in users
  BY DEF countRepositories, step, IInv, Requests, Carries, Serving
<1>2. m \in Asked /\ m.at = "namespace" /\ m.user = req[q].user /\ m.state = req[q].state
  BY <1>1 DEF Asked, At, Serving
<1> HIDE DEF m
<1>3. req'[q] = m /\ users' = users
  BY <1>1, <1>2, ActorMoves DEF IInv, accountVars
<1>4. Carries(q)'
  BY <1>1, <1>2, <1>3 DEF Carries, Serving
<1> QED
  BY <1>1, <1>2, <1>4, ReaderKeeps

LEMMA ChooseNamespaceKeeps ==
  ASSUME IInv, NEW q \in Request, NEW s \in User, chooseNamespace(q, s)
  PROVE  IInv'
<1> DEFINE m == [req[q] EXCEPT !.at = "insertRepository", !.slug = s]
<1>1. /\ become(q, m) /\ UNCHANGED <<accountVars, forgeVars>>
      /\ req[q] \in Asked /\ req[q].user \in users
  BY DEF chooseNamespace, IInv, Requests, Carries, Serving
<1>2. m \in Asked /\ m.at = "insertRepository" /\ m.user = req[q].user /\ m.slug = s
      /\ m.state = req[q].state
  BY <1>1 DEF Asked, At, Serving
<1> HIDE DEF m
<1>3. req'[q] = m /\ users' = users
  BY <1>1, <1>2, ActorMoves DEF IInv, accountVars
<1>4. Carries(q)'
  BY <1>1, <1>2, <1>3 DEF Carries, Serving
<1> QED
  BY <1>1, <1>2, <1>4, ReaderKeeps

LEMMA RepositoryForUserKeeps ==
  ASSUME IInv, NEW q \in Request, NEW r \in Repository, repositoryForUser(q, r)
  PROVE  IInv'
<1> DEFINE m == [req[q] EXCEPT !.at = "nextNumber", !.repository = r]
<1>1. /\ become(q, m) /\ UNCHANGED <<accountVars, forgeVars>>
      /\ req[q] \in Asked /\ req[q].user \in users /\ r \in made
  BY DEF repositoryForUser, IInv, Requests, Carries, Serving, Numbering
<1>2. m \in Asked /\ m.at = "nextNumber" /\ m.user = req[q].user /\ m.repository = r
      /\ m.state = req[q].state
  BY <1>1 DEF Asked, At, Serving
<1> HIDE DEF m
<1>3. req'[q] = m /\ users' = users /\ made' = made
  BY <1>1, <1>2, ActorMoves DEF IInv, accountVars, forgeVars
<1>4. Carries(q)'
  BY <1>1, <1>2, <1>3 DEF Carries, Serving
<1> QED
  BY <1>1, <1>2, <1>4, ReaderKeeps

\* The number after the greatest one that is taken has all those before it taken.
LEMMA NextNumberFollows ==
  ASSUME IInv, NEW r \in Repository
  PROVE  LET number == Max({0} \cup Taken(r)) + 1 IN
         /\ number \in 1..Cardinality(Issue) + 1
         /\ \A n \in 1..(number - 1) : n \in Taken(r)
<1> DEFINE top == Max({0} \cup Taken(r))
           c == Cardinality(Issue)
<1>1. c \in Nat
  BY NumberIsNat
<1>2. {0} \cup Taken(r) \subseteq 0..c
  BY <1>1 DEF Taken, Number
<1>3. top \in {0} \cup Taken(r)
  BY <1>1, <1>2, MaxOfNumbers
<1>4. top \in 0..c
  BY <1>2, <1>3
<1> HIDE DEF top, c
<1>5. top + 1 \in 1..c + 1 /\ (top + 1) - 1 = top
  BY <1>1, <1>4
<1>6. ASSUME NEW n \in 1..top PROVE n \in Taken(r)
  <2>1. top # 0
    BY <1>4
  <2> QED
    BY <1>3, <2>1 DEF IInv, Numbering
<1> QED
  BY <1>5, <1>6 DEF top, c

LEMMA NextNumberKeeps ==
  ASSUME IInv, NEW q \in Request, nextNumber(q)
  PROVE  IInv'
<1> DEFINE number == Max({0} \cup Taken(req[q].repository)) + 1
           m == [req[q] EXCEPT !.at = "insertIssue", !.number = number]
<1>1. /\ become(q, m) /\ UNCHANGED <<accountVars, forgeVars>>
      /\ req[q] \in Asked /\ req[q].user \in users /\ req[q].repository \in made
      /\ req[q].repository \in Repository
  BY DEF nextNumber, IInv, Requests, Carries, Serving, Tables
<1>2. /\ number \in 1..Cardinality(Issue) + 1
      /\ \A n \in 1..(number - 1) : n \in Taken(req[q].repository)
  BY <1>1, NextNumberFollows
<1> HIDE DEF number
<1>3. number \in Nat
  BY <1>2, NumberIsNat
<1>4. m \in Asked /\ m.at = "insertIssue" /\ m.user = req[q].user /\ m.number = number
      /\ m.repository = req[q].repository /\ m.state = req[q].state
  BY <1>1, <1>3 DEF Asked, At, Serving
<1> HIDE DEF m
<1>5. req'[q] = m /\ users' = users /\ made' = made
  BY <1>1, <1>4, ActorMoves DEF IInv, accountVars, forgeVars
<1>6. Carries(q)'
  <2>1. /\ req'[q].at = "insertIssue" /\ req'[q].user \in users'
        /\ req'[q].repository \in made' /\ req'[q].number \in 1..Cardinality(Issue) + 1
    BY <1>1, <1>2, <1>4, <1>5
  <2>2. PICK r \in Repository : r = req[q].repository
    BY <1>1
  <2>3. Taken(r)' = Taken(r) /\ \A n \in 1..(number - 1) : n \in Taken(r)
    BY <1>1, <1>2, <2>2 DEF Taken, forgeVars
  <2>4. req'[q].repository = r /\ req'[q].number = number
    BY <1>4, <1>5, <2>2
  <2>5. \A n \in 1..(req'[q].number - 1) : n \in Taken(r)'
    BY <2>3, <2>4
  <2> QED
    BY <2>1, <2>4, <2>5 DEF Carries, Serving, Taken
<1> QED
  BY <1>1, <1>4, <1>6, ReaderKeeps

-----------------------------------------------------------------------------
(* Repositories and issues *)

LEMMA InsertRepositoryKeeps ==
  ASSUME IInv, NEW q \in Request, NEW r \in Repository, insertRepository(q, r)
  PROVE  IInv'
<1> DEFINE row == [slug |-> req[q].slug, creator |-> req[q].user]
           m == [req[q] EXCEPT !.at = "putRoute", !.repository = r]
<1>1. /\ become(q, m) /\ UNCHANGED <<accountVars, issues, answered>> /\ r \notin made
      /\ made' = made \cup {r} /\ repositories' = [repositories EXCEPT ![r] = row]
      /\ req[q] \in Asked /\ req[q].user \in users /\ req[q].slug \in User
  BY DEF insertRepository, IInv, Requests, Carries, Serving
<1>2. m \in Asked /\ m.at = "putRoute" /\ m.user = req[q].user /\ m.repository = r
      /\ m.state = req[q].state
  BY <1>1 DEF Asked, At, Serving
<1>3. row \in [slug : User, creator : users]
  BY <1>1
<1> HIDE DEF m, row
<1>4. /\ req' \in [Request -> Asked] /\ req'[q] = m
      /\ \A o \in Request : o # q => req'[o] = req[o]
  BY <1>1, <1>2, ActorMoves DEF IInv
<1>5. UNCHANGED <<users, identity, namespaces, roles, states, sessions, signIns>>
  BY <1>1 DEF accountVars
<1>6. Tables'
  BY <1>1, <1>3, <1>5 DEF IInv, Tables
<1>7. \A o \in Repository : o # r => (o \in Rows' <=> o \in Rows)
  BY <1>1 DEF Rows, IInv, Tables
<1>8. r \notin Rows /\ Rows' \subseteq Repository
  BY <1>1 DEF IInv, Numbering, Rows
<1>9. Numbering'
  <2>1. \A o \in Repository : Taken(o)' = Taken(o)
    BY <1>1 DEF Taken
  <2>2. Rows' \subseteq made'
    BY <1>1, <1>7, <1>8 DEF IInv, Numbering
  <2>3. \A o \in Repository \ Rows' : Taken(o)' = {}
    BY <1>7, <1>8, <2>1 DEF IInv, Numbering
  <2>4. \A a \in answered' : issues'[a.repository][a.number] = a.id
    BY <1>1 DEF IInv, Numbering
  <2>5. \A o \in Repository : \A n \in Taken(o)' : \A k \in 1..n : k \in Taken(o)'
    BY <2>1 DEF IInv, Numbering
  <2> QED
    BY <2>2, <2>3, <2>4, <2>5 DEF Numbering
<1>10. Grows
  <2>1. \A o \in made : o \in Repository /\ o # r
    BY <1>1 DEF IInv, Tables
  <2> QED
    BY <1>1, <1>5, <1>7, <2>1 DEF Grows
<1>11. Carries(q)'
  BY <1>1, <1>2, <1>4, <1>5 DEF Carries, Serving
<1>12. \A o \in Request : req[o].at = "createUser" => req[o].user \notin users'
  BY <1>5 DEF IInv, Requests, Carries
<1>13. Requests'
  BY <1>2, <1>4, <1>10, <1>11, <1>12, RequestsKept
<1>14. StatesOnce'
  BY <1>2, <1>4, <1>5, StatesKept
<1>15. Whole' /\ Membership'
  BY <1>5 DEF IInv, Whole, Membership, Members, Owners
<1> QED
  BY <1>6, <1>9, <1>13, <1>14, <1>15 DEF IInv

\* A row that is removed takes its issues and their answers with it.
LEMMA PutRouteKeeps ==
  ASSUME IInv, NEW q \in Request, putRoute(q)
  PROVE  IInv'
<1>1. CASE UNCHANGED <<repositories, issues, answered>>
  BY <1>1, FinishKeeps DEF putRoute, forgeVars
<1>2. CASE ~ UNCHANGED <<repositories, issues, answered>>
  <2>1. PICK r : r = req[q].repository
    OBVIOUS
  <2>2. /\ finish(q) /\ UNCHANGED <<accountVars, made>>
        /\ repositories' = [repositories EXCEPT ![r] = NoRepository]
        /\ issues' = [issues EXCEPT ![r] = [n \in Number |-> None]]
        /\ answered' = {a \in answered : a.repository # r}
    BY <1>2, <2>1 DEF putRoute
  <2>3. r \in Repository
    BY <2>1 DEF putRoute, IInv, Requests, Carries, Tables
  <2>4. UNCHANGED <<users, identity, namespaces, roles, states, sessions, signIns>>
    BY <2>2 DEF accountVars
  <2>5. Tables'
    <3>1. [n \in Number |-> None] \in [Number -> Issue \cup {None}]
      OBVIOUS
    <3>2. issues' \in [Repository -> [Number -> Issue \cup {None}]]
      BY <2>2, <2>3, <3>1 DEF IInv, Tables
    <3> QED
      BY <2>2, <2>3, <2>4, <3>2 DEF IInv, Tables
  <2>6. /\ r \notin Rows' /\ Rows' \subseteq Repository
        /\ \A o \in Repository : o # r => (o \in Rows' <=> o \in Rows)
    BY <2>2, <2>3 DEF Rows, IInv, Tables
  <2>7. /\ \A o \in Repository : o # r => issues'[o] = issues[o] /\ Taken(o)' = Taken(o)
        /\ Taken(r)' = {}
    BY <2>2, <2>3 DEF Taken, IInv, Tables
  <2>8. Numbering'
    <3>1. Rows' \subseteq made'
      BY <2>2, <2>6 DEF IInv, Numbering
    <3>2. \A o \in Repository \ Rows' : Taken(o)' = {}
      BY <2>6, <2>7 DEF IInv, Numbering
    <3>3. \A a \in answered' : issues'[a.repository][a.number] = a.id
      BY <2>2, <2>7 DEF IInv, Numbering, Tables, Created
    <3>4. \A o \in Repository : \A n \in Taken(o)' : \A k \in 1..n : k \in Taken(o)'
      BY <2>7 DEF IInv, Numbering
    <3> QED
      BY <3>1, <3>2, <3>3, <3>4 DEF Numbering
  <2>9. Grows
    <3>1. made \subseteq Repository
      BY DEF IInv, Tables
    <3> QED
      BY <2>2, <2>4, <2>6, <2>7, <3>1 DEF Grows
  <2>10. Requests'
    BY <2>2, <2>4, <2>9, RequestsFinish
  <2>11. StatesOnce'
    BY <2>2, <2>4, Finishes, IdleIsAsked, StatesKept DEF IInv
  <2>12. Whole' /\ Membership'
    BY <2>4 DEF IInv, Whole, Membership, Members, Owners
  <2> QED
    BY <2>5, <2>8, <2>10, <2>11, <2>12 DEF IInv
<1> QED
  BY <1>1, <1>2

LEMMA InsertIssueKeeps ==
  ASSUME IInv, NEW q \in Request, NEW i \in Issue, insertIssue(q, i)
  PROVE  IInv'
<1>1. PICK r, n : r = req[q].repository /\ n = req[q].number
  OBVIOUS
<1>2. /\ r \in Rows /\ n \in Number /\ n \notin Taken(r)
      /\ issues' = [issues EXCEPT ![r][n] = i]
      /\ answered' = answered \cup {[repository |-> r, number |-> n, id |-> i]}
      /\ finish(q) /\ UNCHANGED <<accountVars, repositories, made>>
      /\ \A k \in 1..(n - 1) : k \in Taken(r)
  BY <1>1 DEF insertIssue, creation, IInv, Requests, Carries
<1>3. r \in Repository /\ n \in Nat /\ i # None
  BY <1>2, NumberIsNat, ForgeAssumption DEF Rows
<1>4. UNCHANGED <<users, identity, namespaces, roles, states, sessions, signIns, repositories, made>>
  BY <1>2 DEF accountVars
<1>5. /\ issues' \in [Repository -> [Number -> Issue \cup {None}]]
      /\ issues'[r][n] = i
      /\ \A o \in Repository, k \in Number : o # r \/ k # n => issues'[o][k] = issues[o][k]
  BY <1>2, <1>3 DEF IInv, Tables
<1>6. Tables'
  <2>1. [repository |-> r, number |-> n, id |-> i] \in Created
    BY <1>2, <1>3 DEF Created
  <2> QED
    BY <1>2, <1>4, <1>5, <2>1 DEF IInv, Tables
<1>7. /\ \A o \in Repository : o # r => Taken(o)' = Taken(o)
      /\ Taken(r)' = Taken(r) \cup {n}
  BY <1>2, <1>3, <1>5 DEF Taken
<1>8. Rows' = Rows
  BY <1>4 DEF Rows
<1>9. Numbering'
  <2>1. \A o \in Repository \ Rows' : Taken(o)' = {}
    BY <1>2, <1>7, <1>8 DEF IInv, Numbering
  <2>2. ASSUME NEW a \in answered' PROVE issues'[a.repository][a.number] = a.id
    <3>1. CASE a \in answered
      <4>1. /\ a.repository \in Repository /\ a.number \in Number /\ a.id \in Issue
            /\ issues[a.repository][a.number] = a.id
        BY <3>1 DEF IInv, Tables, Created, Numbering
      <4>2. a.repository # r \/ a.number # n
        BY <1>2, <4>1, ForgeAssumption DEF Taken
      <4> QED
        BY <1>5, <4>1, <4>2
    <3>2. CASE a = [repository |-> r, number |-> n, id |-> i]
      BY <1>5, <3>2
    <3> QED
      BY <1>2, <3>1, <3>2
  <2>3. ASSUME NEW o \in Repository, NEW t \in Taken(o)', NEW k \in 1..t PROVE k \in Taken(o)'
    <3>1. CASE o = r /\ t = n
      <4>1. k \in 1..(n - 1) \/ k = n
        BY <1>3, <3>1
      <4> QED
        BY <1>2, <1>7, <3>1, <4>1
    <3>2. CASE ~ (o = r /\ t = n)
      BY <1>7, <3>2 DEF IInv, Numbering
    <3> QED
      BY <3>1, <3>2
  <2>4. Rows' \subseteq made'
    BY <1>4, <1>8 DEF IInv, Numbering
  <2> QED
    BY <2>1, <2>2, <2>3, <2>4 DEF Numbering
<1>10. Grows
  <2>1. \A o \in Repository, k \in Number : issues[o][k] # None => issues'[o][k] = issues[o][k]
    BY <1>2, <1>5 DEF Taken
  <2>2. made \subseteq Repository
    BY DEF IInv, Tables
  <2> QED
    BY <1>4, <1>8, <2>1, <2>2 DEF Grows
<1>11. Requests'
  BY <1>2, <1>4, <1>10, RequestsFinish
<1>12. StatesOnce'
  BY <1>2, <1>4, Finishes, IdleIsAsked, StatesKept DEF IInv
<1>13. Whole' /\ Membership'
  BY <1>4 DEF IInv, Whole, Membership, Members, Owners
<1> QED
  BY <1>6, <1>9, <1>11, <1>12, <1>13 DEF IInv

-----------------------------------------------------------------------------
(* The invariant and the theorems *)

LEMMA NextKeeps ==
  ASSUME IInv, Next
  PROVE  IInv'
<1>1. CASE AccountsNext /\ UNCHANGED forgeVars
  BY <1>1, AccountsKeep
<1>2. CASE \E q \in Request, u \in User :
             \/ forward(q, u) \/ removeMember(q, u)
             \/ \E r \in {"member", "owner"} : addMember(q, u, r)
  BY <1>2, ForwardKeeps, RemoveMemberKeeps, AddMemberKeeps
<1>3. CASE \/ \E q \in Request, s \in User : manageMembers(q, s) \/ chooseNamespace(q, s)
           \/ \E q \in Request, s \in Name : createOrganization(q, s)
  BY <1>3, ManageMembersKeeps, ChooseNamespaceKeeps, CreateOrganizationKeeps
<1>4. CASE \E q \in Request : countRepositories(q) \/ putRoute(q) \/ nextNumber(q) \/ leave(q)
  BY <1>4, CountRepositoriesKeeps, PutRouteKeeps, NextNumberKeeps, FinishKeeps DEF leave
<1>5. CASE \/ \E q \in Request, r \in Repository :
                insertRepository(q, r) \/ repositoryForUser(q, r)
           \/ \E q \in Request, i \in Issue : insertIssue(q, i)
  BY <1>5, InsertRepositoryKeeps, RepositoryForUserKeeps, InsertIssueKeeps
<1> QED
  BY <1>1, <1>2, <1>3, <1>4, <1>5 DEF Next

LEMMA StutterKeeps ==
  ASSUME IInv, UNCHANGED vars
  PROVE  IInv'
<1>1. UNCHANGED accountVars /\ UNCHANGED forgeVars /\ req' = req
  BY DEF vars
<1>2. Tables' /\ Whole' /\ Membership' /\ Numbering' /\ Grows
  BY <1>1, TablesStay
<1>3. Requests'
  BY <1>1, <1>2, RequestsStay DEF accountVars
<1>4. StatesOnce'
  BY <1>1 DEF IInv, StatesOnce, accountVars
<1> QED
  BY <1>2, <1>3, <1>4 DEF IInv

LEMMA InitEstablishes ==
  ASSUME Init
  PROVE  IInv
<1>1. Rows = {} /\ \A r \in Repository : Taken(r) = {}
  BY DEF Init, Rows, Taken
<1>2. Tables
  BY DEF Init, AccountsInit, Tables
<1>3. Requests
  BY IdleIsAsked DEF Init, AccountsInit, Requests, Carries, Serving
<1>4. StatesOnce
  BY IdleIsAsked DEF Init, AccountsInit, StatesOnce
<1>5. Whole
  <2>1. users = {} /\ \A s \in User : namespaces[s] = NoNamespace
    BY DEF Init, AccountsInit
  <2>2. \A g \in GithubUser : identity[g] = None
    BY DEF Init, AccountsInit
  <2> QED
    BY <2>1, <2>2 DEF Whole, User
<1>6. Membership
  <2>1. \A s \in User : Members(s) = {} /\ namespaces[s] = NoNamespace
    BY DEF Init, AccountsInit, Members
  <2> QED
    BY <2>1, FS_EmptySet DEF Membership, NoNamespace
<1>7. Numbering
  BY <1>1 DEF Init, Numbering
<1> QED
  BY <1>2, <1>3, <1>4, <1>5, <1>6, <1>7 DEF IInv

LEMMA AlwaysIInv == Spec => []IInv
<1>1. Init => IInv
  BY InitEstablishes
<1>2. IInv /\ [Next]_vars => IInv'
  BY NextKeeps, StutterKeeps
<1> QED
  BY <1>1, <1>2, PTL DEF Spec

\* Every table of the Auth and Forge workers holds values of its columns, and an issue is
\* inserted under a number of at least one.
THEOREM ForgeTypeCorrect == Spec => []TypeOK
<1>1. IInv => TypeOK
  BY DEF IInv, Tables, TypeOK, Requests, Carries
<1> QED
  BY <1>1, AlwaysIInv, PTL

\* However many callbacks arrive for one OAuth state, at most one session begins for it:
\* takeState deletes the row it reads, so a state is held by one request at most.
THEOREM StatesSignInOnce == Spec => []StateSignsInOnce
<1>1. IInv => StateSignsInOnce
  BY DEF IInv, StatesOnce, StateSignsInOnce
<1> QED
  BY <1>1, AlwaysIInv, PTL

\* An account made by a GitHub sign-in has one GitHub user and owns its namespace, however
\* callbacks overlap: findOrCreateGithubUser writes all its rows in one batch.
THEOREM GithubAccountsStayWhole == Spec => []GithubAccountsAreWhole
<1>1. ASSUME IInv, NEW u \in users \cap Handle
      PROVE  Cardinality({g \in GithubUser : identity[g] = u}) = 1
  <2>1. PICK g \in GithubUser : identity[g] = u
    BY <1>1 DEF IInv, Whole
  <2>2. u # None
    BY AccountsAssumption DEF User
  <2>3. {o \in GithubUser : identity[o] = u} = {g}
    BY <1>1, <2>1, <2>2 DEF IInv, Whole
  <2> QED
    BY <2>3, FS_Singleton
<1>2. IInv => GithubAccountsAreWhole
  BY <1>1 DEF IInv, Whole, GithubAccountsAreWhole
<1> QED
  BY <1>2, AlwaysIInv, PTL

\* An organization has an owner who is a user, whatever its owners do to each other at the
\* same time: the DELETE counts the owners in the statement that removes one.
THEOREM OrganizationsAlwaysHaveAnOwner == Spec => []OrganizationsKeepOwner
<1>1. ASSUME IInv, NEW s \in User, namespaces[s].kind = "organization"
      PROVE  Owners(s) \cap users # {}
  <2>1. Owners(s) # {} /\ Members(s) \subseteq users
    BY <1>1 DEF IInv, Membership
  <2>2. Owners(s) \subseteq Members(s)
    BY DEF Owners, Members
  <2> QED
    BY <2>1, <2>2
<1>2. IInv => OrganizationsKeepOwner
  BY <1>1 DEF OrganizationsKeepOwner
<1> QED
  BY <1>2, AlwaysIInv, PTL

\* Nobody joins or leaves a personal namespace: the members of an organization are changed
\* in the namespace whose owner was checked.
THEOREM PersonalNamespacesStayAlone == Spec => []PersonalNamespacesAreAlone
<1>1. IInv => PersonalNamespacesAreAlone
  BY DEF IInv, Membership, Members, PersonalNamespacesAreAlone
<1> QED
  BY <1>1, AlwaysIInv, PTL

\* A number answered to the creator of an issue stays that issue's, and the numbers of a
\* repository have no gap, although the next number is read before the row is inserted.
THEOREM NumbersAreKept == Spec => []IssuesKeepNumbers
<1>1. IInv => IssuesKeepNumbers
  BY DEF IInv, Numbering, IssuesKeepNumbers
<1> QED
  BY <1>1, AlwaysIInv, PTL
=============================================================================
