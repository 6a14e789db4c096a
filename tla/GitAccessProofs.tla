--------------------------- MODULE GitAccessProofs ---------------------------
(***************************************************************************)
(* Theorems about access to repositories, for every number of              *)
(* repositories, names, tokens and concurrent requests and every bound on  *)
(* the messages and the visibility changes.                                *)
(***************************************************************************)
EXTENDS GitAccess, TLAPS

-----------------------------------------------------------------------------
(* The inductive invariant *)

Resolved(q) == request[q].pc \in {"token", "gate", "granted"}

Answering(q) == request[q].pc \notin {"idle", "refused"}

\* A request in progress has a name and fitting credentials.
IsNamed(q) ==
    /\ Answering(q) => request[q].name \in Name /\ usable(request[q].service, request[q].by)
    /\ request[q].pc = "token" => request[q].by \in Token

\* What it resolved to existed, and was public if the request believes so.
Saw(q) ==
    Resolved(q) =>
        /\ request[q].repo \in witness[q].existed
        /\ request[q].visibility = "public" => request[q].repo \in witness[q].public

\* The gate opened for a reason.
Opened(q) ==
    Granted(q) =>
        /\ request[q].by = "anonymous" => request[q].visibility = "public"
        /\ request[q].by = "viewer" => request[q].visibility = "public" \/ witness[q].member
        /\ request[q].service = "push" => request[q].by \in Token

\* A token revoked before the request began is still revoked, and has not been accepted.
Rejected(q) ==
    Answering(q) /\ request[q].by \in Token /\ ~ witness[q].usable =>
        /\ tokens[request[q].by].revoked
        /\ request[q].pc # "gate"
        /\ ~ (Granted(q) /\ request[q].service = "push")

Sound(q) == IsNamed(q) /\ Saw(q) /\ Opened(q) /\ Rejected(q)

IInv == TypeOK /\ \A q \in Request : Sound(q)

\* TypeOK by variable: D1 and the queues, the tokens, the requests, the history
TokensTyped == tokens \in [Token -> TokenRow] /\ member \in BOOLEAN
Asked == [pc : Pc, service : Service, by : Credential, name : Name \cup {None},
          repo : Repo \cup {None}, visibility : Visibility, source : {"kv", "d1"}]
RequestTyped == request \in [Request -> Asked]
Seen == [existed : SUBSET Repo, public : SUBSET Repo, member : BOOLEAN, usable : BOOLEAN]

LEMMA TypeParts == TypeOK <=> RegistryTypeOK /\ TokensTyped /\ RequestTyped /\ witness \in [Request -> Seen]
BY DEF TypeOK, TokensTyped, RequestTyped, Asked, Seen

-----------------------------------------------------------------------------
(* The registry *)

LEMMA SendTypes ==
    ASSUME syncs \subseteq Sync, NEW r \in Repo, NEW n \in Name, NEW s \in sendsOf(r, n)
    PROVE  s \subseteq Sync
<1>1. queuedSync(r, n) \in Sync
  BY DEF queuedSync, Sync
<1> QED
  BY <1>1 DEF sendsOf

LEMMA RegistryTypes ==
    ASSUME RegistryTypeOK, RegistryNext
    PROVE  RegistryTypeOK'
<1> USE DEF RegistryTypeOK
<1>1. ASSUME NEW r \in Repo, NEW n \in Name, NEW v \in Visibility, createRepository(r, n, v)
      PROVE  RegistryTypeOK'
  <2>1. rows' \in [Repo -> Row \cup {NoRow}]
    BY <1>1 DEF createRepository, Row
  <2>2. syncs' \subseteq Sync
    BY <1>1, SendTypes DEF createRepository
  <2> QED
    BY <1>1, <2>1, <2>2 DEF createRepository
<1>2. ASSUME NEW r \in Repo, NEW n \in Name, NEW v \in Visibility, forgeInsert(r, n, v)
      PROVE  RegistryTypeOK'
  <2>1. rows' \in [Repo -> Row \cup {NoRow}]
    BY <1>2 DEF forgeInsert, Row
  <2>2. forging' \subseteq Forging
    BY <1>2 DEF forgeInsert, Forging
  <2> QED
    BY <1>2, <2>1, <2>2 DEF forgeInsert
<1>3. ASSUME NEW f \in forging, forgePut(f) PROVE RegistryTypeOK'
  <2>1. f.repo \in Repo /\ f.name \in Name
    BY DEF Forging
  <2> QED
    BY <1>3, <2>1 DEF forgePut
<1>4. ASSUME NEW f \in forging, forgePutFail(f) PROVE RegistryTypeOK'
  BY <1>4 DEF forgePutFail, Forging
<1>5. ASSUME NEW r \in Repo, NEW v \in Visibility, patchRead(r, v) PROVE RegistryTypeOK'
  <2>1. rows[r] \in Row
    BY <1>5 DEF patchRead, Exists
  <2>2. patches' \subseteq Patch
    BY <1>5, <2>1 DEF patchRead, Patch, Row
  <2>3. patched' \in 0 .. MaxPatches
    BY <1>5, RegistryAssumption DEF patchRead
  <2> QED
    BY <1>5, <2>2, <2>3 DEF patchRead
<1>6. ASSUME NEW p \in patches, patchWrite(p) PROVE RegistryTypeOK'
  <2>1. p.repo \in Repo /\ p.name \in Name /\ p.to \in Visibility
    BY DEF Patch
  <2>2. rows' \in [Repo -> Row \cup {NoRow}]
    <3>1. CASE Exists(p.repo)
      <4>1. rows[p.repo] \in Row
        BY <2>1, <3>1 DEF Exists
      <4>2. [rows[p.repo] EXCEPT !.visibility = p.to] \in Row
        BY <2>1, <4>1 DEF Row
      <4> QED
        BY <1>6, <2>1, <3>1, <4>2 DEF patchWrite
    <3> QED
      BY <1>6, <3>1 DEF patchWrite
  <2>3. syncs' \subseteq Sync
    BY <1>6, <2>1, SendTypes DEF patchWrite
  <2> QED
    BY <1>6, <2>2, <2>3 DEF patchWrite
<1> QED
  BY <1>1, <1>2, <1>3, <1>4, <1>5, <1>6 DEF RegistryNext

LEMMA SyncTypes ==
    ASSUME RegistryTypeOK, SyncNext
    PROVE  RegistryTypeOK'
<1> USE DEF RegistryTypeOK
<1> SUFFICES ASSUME NEW m \in syncs, syncRead(m) \/ syncApply(m) \/ syncFail(m)
             PROVE  RegistryTypeOK'
  BY DEF SyncNext
<1>1. m.repo \in Repo /\ m.name \in Name /\ m.seen \in Row \cup {NoRow} /\ m \in Sync
  BY DEF Sync
<1>2. queuedSync(m.repo, m.name) \in Sync
  BY <1>1 DEF queuedSync, Sync
<1>3. CASE syncRead(m)
  <2>1. [m EXCEPT !.stage = "read", !.seen = rows[m.repo]] \in Sync
    BY <1>1 DEF Sync
  <2> QED
    BY <1>3, <2>1 DEF syncRead
<1>4. CASE syncApply(m)
  <2>1. candidatesAfter(m) \in [Name -> Repo \cup {None}]
    BY <1>1, RegistryAssumption DEF candidatesAfter, Row, NoRow
  <2> QED
    BY <1>2, <1>4, <2>1 DEF syncApply
<1>5. CASE syncFail(m)
  BY <1>2, <1>5 DEF syncFail
<1> QED
  BY <1>3, <1>4, <1>5

LEMMA DeleteTypes ==
    ASSUME RegistryTypeOK, NEW m \in deletes,
           deleteRow(m) \/ deleteRoute(m) \/ deleteRetry(m)
    PROVE  RegistryTypeOK'
<1> USE DEF RegistryTypeOK
<1>1. m.repo \in Repo /\ m.name \in Name /\ m \in Deletion
  BY DEF Deletion
<1>2. /\ [m EXCEPT !.stage = "routes"] \in Deletion
      /\ [m EXCEPT !.stage = "queued"] \in Deletion
  BY <1>1 DEF Deletion
<1>3. CASE deleteRow(m)
  BY <1>1, <1>2, <1>3 DEF deleteRow
<1>4. CASE deleteRoute(m)
  BY <1>1, <1>2, <1>4 DEF deleteRoute
<1>5. CASE deleteRetry(m)
  BY <1>1, <1>2, <1>5 DEF deleteRetry
<1> QED
  BY <1>3, <1>4, <1>5

-----------------------------------------------------------------------------
(* Types *)

LEMMA PurgeTypes ==
    ASSUME IInv, NEW q \in Request, purge(q)
    PROVE  RegistryTypeOK' /\ TokensTyped' /\ RequestTyped'
<1> USE DEF RequestTyped
<1>1. RegistryTypeOK /\ TokensTyped /\ RequestTyped /\ witness \in [Request -> Seen]
  BY TypeParts DEF IInv
<1>2. request[q].repo \in Repo /\ request[q].name \in Name
  <2>1. Sound(q)
    BY DEF IInv
  <2>2. request[q].repo \in witness[q].existed
    BY <2>1 DEF Sound, Saw, Resolved, purge
  <2>3. witness[q] \in Seen
    BY <1>1
  <2> QED
    BY <2>1, <2>2, <2>3 DEF Sound, IsNamed, Answering, purge, Seen
<1>3. deletes' \subseteq Deletion
  BY <1>1, <1>2 DEF purge, Deletion, RegistryTypeOK
<1>4. RegistryTypeOK'
  BY <1>1, <1>3 DEF purge, RegistryTypeOK
<1>5. [NoRequest EXCEPT !.pc = "refused"] \in Asked
  BY DEF Asked, NoRequest, Pc, Service, Credential, Visibility
<1>6. RequestTyped'
  BY <1>1, <1>5 DEF purge, RequestTyped
<1> QED
  BY <1>1, <1>4, <1>6 DEF purge, TokensTyped

\* What a step does to one request: nothing, or it is purged, or it takes its next step.
LEMMA BecomeTypes ==
    ASSUME RequestTyped, NEW q \in Request, NEW pc \in Pc, become(q, pc)
    PROVE  RequestTyped'
<1>1. request \in [Request -> Asked] /\ request[q] \in Asked
  BY DEF RequestTyped
<1>2. [request[q] EXCEPT !.pc = pc] \in Asked
  BY <1>1 DEF Asked
<1> QED
  BY <1>1, <1>2 DEF RequestTyped, become

LEMMA ResolvedTypes ==
    ASSUME RegistryTypeOK, RequestTyped, NEW q \in Request, NEW r \in Repo,
           NEW source \in {"kv", "d1"}, resolvedTo(q, r, source)
    PROVE  RequestTyped'
<1> DEFINE pc == IF request[q].by \in Token THEN "token" ELSE "gate"
<1>1. rows[r].visibility \in Visibility
  BY DEF RegistryTypeOK, Row, NoRow, Visibility
<1>2. pc \in Pc
  BY DEF Pc
<1>3. request' = [request EXCEPT ![q].pc = pc, ![q].repo = r, ![q].source = source,
                                 ![q].visibility = rows[r].visibility]
  BY DEF resolvedTo
<1> HIDE DEF pc
<1>4. request' = [request EXCEPT ![q] = [@ EXCEPT !.pc = pc, !.repo = r, !.source = source,
                                           !.visibility = rows[r].visibility]]
  BY <1>3, Zenon
<1>5. request[q] \in Asked /\ request \in [Request -> Asked]
  BY DEF RequestTyped
<1>6. [request[q] EXCEPT !.pc = pc, !.repo = r, !.source = source,
                         !.visibility = rows[r].visibility] \in Asked
  BY <1>1, <1>2, <1>5 DEF Asked
<1> QED
  BY <1>4, <1>5, <1>6 DEF RequestTyped

LEMMA ConfirmedIsRepo ==
    ASSUME RegistryTypeOK, RequestTyped, NEW q \in Request,
           confirmed(request[q].repo, request[q].name)
    PROVE  request[q].repo \in Repo
BY DEF RequestTyped, Asked, confirmed

LEMMA AccessTypes ==
    ASSUME IInv, AccessNext, UNCHANGED registryVars
    PROVE  TokensTyped' /\ RequestTyped'
<1>1. RegistryTypeOK /\ TokensTyped /\ RequestTyped
  BY TypeParts DEF IInv
<1>2. ASSUME NEW t \in Token, NEW level \in Level \ {"none"}, createToken(t, level)
      PROVE  TokensTyped' /\ RequestTyped'
  <2>1. tokens[t] \in TokenRow /\ level \in Level
    BY <1>1 DEF TokensTyped
  <2>2. tokens' \in [Token -> TokenRow]
    <3>1. CASE tokens' = [tokens EXCEPT ![t].made = TRUE, ![t].namespaceLevel = level]
      <4>1. tokens' = [tokens EXCEPT ![t] = [@ EXCEPT !.made = TRUE, !.namespaceLevel = level]]
        BY <3>1, Zenon
      <4>2. [tokens[t] EXCEPT !.made = TRUE, !.namespaceLevel = level] \in TokenRow
        BY <2>1 DEF TokenRow
      <4> QED
        BY <1>1, <4>1, <4>2 DEF TokensTyped
    <3>2. ASSUME NEW r \in Repo, tokens' = [tokens EXCEPT ![t].made = TRUE, ![t].repoLevel[r] = level]
          PROVE  tokens' \in [Token -> TokenRow]
      <4>1. tokens' = [tokens EXCEPT ![t] = [@ EXCEPT !.made = TRUE, !.repoLevel[r] = level]]
        BY <3>2, Zenon
      <4>2. [tokens[t].repoLevel EXCEPT ![r] = level] \in [Repo -> Level]
        BY <2>1 DEF TokenRow
      <4>3. [tokens[t] EXCEPT !.made = TRUE, !.repoLevel[r] = level] \in TokenRow
        BY <2>1, <4>2 DEF TokenRow
      <4> QED
        BY <1>1, <4>1, <4>3 DEF TokensTyped
    <3> QED
      BY <1>2, <3>1, <3>2 DEF createToken
  <2> QED
    BY <1>1, <1>2, <2>2 DEF createToken, TokensTyped, RequestTyped, Asked
<1>3. ASSUME NEW t \in Token, revokeToken(t) PROVE TokensTyped' /\ RequestTyped'
  <2>1. [tokens[t] EXCEPT !.revoked = TRUE] \in TokenRow
    BY <1>1 DEF TokensTyped, TokenRow
  <2> QED
    BY <1>1, <1>3, <2>1 DEF revokeToken, TokensTyped, RequestTyped
<1>4. CASE changeMembership
  BY <1>1, <1>4 DEF changeMembership, TokensTyped, RequestTyped, Asked
<1>5. ASSUME NEW q \in Request,
             \/ \E service \in Service, by \in Credential, n \in Name : begin(q, service, by, n)
             \/ readCandidate(q) \/ confirm(q) \/ lookup(q) \/ readToken(q) \/ gate(q)
      PROVE  TokensTyped' /\ RequestTyped'
  <2>1. TokensTyped'
    BY <1>1, <1>5 DEF begin, readCandidate, confirm, lookup, readToken, gate, TokensTyped
  <2> SUFFICES RequestTyped'
    BY <2>1
  <2>2. ASSUME NEW service \in Service, NEW by \in Credential, NEW n \in Name, begin(q, service, by, n)
        PROVE  RequestTyped'
    BY <1>1, <2>2 DEF begin, RequestTyped, Asked, NoRequest, Pc, Visibility
  <2>3. CASE readCandidate(q)
    <3>1. request[q].pc = "candidate" /\ request[q].name \in Name
      BY <2>3 DEF readCandidate, IInv, Sound, IsNamed, Answering
    <3>2. candidate(request[q].name) \in Repo \cup {None}
      BY <1>1, <3>1 DEF candidate, RegistryTypeOK
    <3> QED
      <4>1. request' = [request EXCEPT ![q] = [@ EXCEPT !.pc = "confirm",
                                                 !.repo = candidate(request[q].name)]]
        BY <2>3, Zenon DEF readCandidate
      <4>2. request \in [Request -> Asked] /\ request[q] \in Asked
        BY <1>1 DEF RequestTyped
      <4>3. [request[q] EXCEPT !.pc = "confirm", !.repo = candidate(request[q].name)] \in Asked
        BY <3>2, <4>2 DEF Asked, Pc
      <4> QED
        BY <4>1, <4>2, <4>3 DEF RequestTyped
  <2>4. CASE confirm(q)
    <3>1. CASE confirmed(request[q].repo, request[q].name)
      BY <1>1, <2>4, <3>1, ConfirmedIsRepo, ResolvedTypes DEF confirm
    <3>2. CASE ~ confirmed(request[q].repo, request[q].name)
      <4>1. become(q, "lookup") \/ become(q, "refused")
        BY <2>4, <3>2 DEF confirm
      <4> QED
        BY <1>1, <4>1, BecomeTypes DEF Pc
    <3> QED
      BY <3>1, <3>2
  <2>5. CASE lookup(q)
    <3>1. CASE become(q, "refused")
      BY <1>1, <3>1, BecomeTypes DEF Pc
    <3>2. CASE \E r \in namedBy(request[q].name) : resolvedTo(q, r, "d1")
      BY <1>1, <3>2, ResolvedTypes DEF namedBy
    <3> QED
      BY <2>5, <3>1, <3>2 DEF lookup
  <2>6. CASE readToken(q)
    <3>1. become(q, "gate") \/ become(q, "granted") \/ become(q, "refused")
      BY <2>6 DEF readToken
    <3> QED
      BY <1>1, <3>1, BecomeTypes DEF Pc
  <2>7. CASE gate(q)
    <3>1. become(q, "granted") \/ become(q, "refused")
      BY <2>7 DEF gate
    <3> QED
      BY <1>1, <3>1, BecomeTypes DEF Pc
  <2> QED
    BY <1>5, <2>2, <2>3, <2>4, <2>5, <2>6, <2>7
<1> QED
  BY <1>2, <1>3, <1>4, <1>5 DEF AccessNext

LEMMA CascadeTypes ==
    ASSUME TokensTyped, NEW r \in Repo, cascade(r)
    PROVE  tokens' \in [Token -> TokenRow]
<1>1. ASSUME NEW t \in Token PROVE [tokens[t] EXCEPT !.repoLevel[r] = "none"] \in TokenRow
  BY DEF TokensTyped, TokenRow, Level
<1> QED
  BY <1>1 DEF cascade

LEMMA WitnessTypes ==
    ASSUME TypeOK, TokensTyped', watch
    PROVE  witness' \in [Request -> Seen]
<1>1. witness \in [Request -> Seen]
  BY TypeParts
<1>2. ASSUME NEW q \in Request PROVE gathered(q) \in Seen
  <2>1. witness[q] \in Seen
    BY <1>1
  <2>2. (member' \/ (~ (request[q].pc = "idle") /\ witness[q].member)) \in BOOLEAN
    OBVIOUS
  <2> QED
    BY <2>1, <2>2 DEF gathered, Seen
<1> QED
  BY <1>1, <1>2 DEF watch

LEMMA NextTypes ==
    ASSUME IInv, Next
    PROVE  TypeOK'
<1>1. RegistryTypeOK /\ TokensTyped /\ RequestTyped
  BY TypeParts DEF IInv
<1>2. RegistryTypeOK' /\ TokensTyped' /\ RequestTyped'
  <2>1. ASSUME UNCHANGED accessVars PROVE TokensTyped' /\ RequestTyped'
    BY <1>1, <2>1 DEF accessVars, TokensTyped, RequestTyped, Asked
  <2>2. CASE RegistryNext /\ UNCHANGED accessVars
    BY <1>1, <2>1, <2>2, RegistryTypes
  <2>3. CASE SyncNext /\ UNCHANGED accessVars
    BY <1>1, <2>1, <2>3, SyncTypes
  <2>4. CASE AccessNext /\ UNCHANGED registryVars
    BY <1>1, <2>4, AccessTypes DEF registryVars, RegistryTypeOK
  <2>5. CASE \E q \in Request : purge(q)
    BY <2>5, PurgeTypes
  <2>6. CASE DeleteNext
    <3>1. PICK m \in deletes :
              \/ deleteRow(m) /\ cascade(m.repo) /\ UNCHANGED <<member, request>>
              \/ (deleteRoute(m) \/ deleteRetry(m)) /\ UNCHANGED accessVars
      BY <2>6 DEF DeleteNext
    <3>2. RegistryTypeOK'
      BY <1>1, <3>1, DeleteTypes
    <3>3. m.repo \in Repo
      BY <1>1 DEF RegistryTypeOK, Deletion
    <3> QED
      BY <1>1, <2>1, <3>1, <3>2, <3>3, CascadeTypes DEF TokensTyped, RequestTyped, Asked
  <2> QED
    BY <2>2, <2>3, <2>4, <2>5, <2>6 DEF Next
<1>3. witness' \in [Request -> Seen]
  BY <1>2, WitnessTypes DEF IInv, Next
<1> QED
  BY <1>2, <1>3 DEF TypeOK, TokensTyped, RequestTyped, Asked, Seen

-----------------------------------------------------------------------------
(* Soundness *)

\* A history only grows while its request is answered.
LEMMA WitnessGrows ==
    ASSUME TypeOK, watch, NEW q \in Request, request[q].pc # "idle", request'[q].pc # "idle"
    PROVE  /\ witness[q].existed \subseteq witness'[q].existed
           /\ witness[q].public \subseteq witness'[q].public
           /\ witness[q].member => witness'[q].member
           /\ witness'[q].usable = witness[q].usable
<1>1. witness'[q] = witness[q] \/ witness'[q] = gathered(q)
  BY DEF watch
<1>2. witness[q].member => gathered(q).member
  BY Zenon DEF gathered
<1>3. /\ witness[q].existed \subseteq gathered(q).existed
      /\ witness[q].public \subseteq gathered(q).public
      /\ gathered(q).usable = witness[q].usable
  BY DEF gathered
<1> QED
  BY <1>1, <1>2, <1>3

\* What a step that goes on with a request leaves in its history is what it could see.
LEMMA WitnessSees ==
    ASSUME watch, NEW q \in Request, InProgress(q), request'[q].pc # "idle"
    PROVE  /\ \A r \in Repo : rows'[r] # NoRow => r \in witness'[q].existed
           /\ \A r \in Repo : rows'[r] # NoRow /\ rows'[r].visibility = "public"
                                  => r \in witness'[q].public
           /\ member' => witness'[q].member
           /\ request[q].pc = "idle" =>
                  (witness'[q].usable <=> request'[q].by \in Token
                                              /\ ~ tokens[request'[q].by].revoked)
<1>1. witness'[q] = gathered(q)
  BY DEF watch
<1>2. /\ member' => gathered(q).member
      /\ request[q].pc = "idle" =>
             (gathered(q).usable <=> request'[q].by \in Token
                                         /\ ~ tokens[request'[q].by].revoked)
  BY Zenon DEF gathered
<1>3. /\ \A r \in Repo : rows'[r] # NoRow => r \in gathered(q).existed
      /\ \A r \in Repo : rows'[r] # NoRow /\ rows'[r].visibility = "public"
                             => r \in gathered(q).public
  BY DEF gathered
<1> QED
  BY <1>1, <1>2, <1>3

\* No step takes a revocation back.
LEMMA RevokedStays ==
    ASSUME TypeOK, Next, NEW t \in Token, tokens[t].revoked
    PROVE  tokens'[t].revoked
<1>1. tokens \in [Token -> TokenRow]
  BY DEF TypeOK
<1>2. ASSUME UNCHANGED accessVars PROVE tokens'[t].revoked
  BY <1>2 DEF accessVars
<1>3. CASE AccessNext
  <2>1. ASSUME NEW u \in Token, NEW level \in Level \ {"none"}, createToken(u, level)
        PROVE  tokens'[t].revoked
    <3>1. CASE u # t
      <4>1. tokens'[t] = tokens[t]
        BY <1>1, <2>1, <3>1 DEF createToken
      <4> QED
        BY <4>1
    <3>2. CASE u = t
      <4>1. \/ tokens'[t] = [tokens[t] EXCEPT !.made = TRUE, !.namespaceLevel = level]
            \/ \E r \in Repo :
                   tokens'[t] = [tokens[t] EXCEPT !.made = TRUE, !.repoLevel[r] = level]
        BY <1>1, <2>1, <3>2 DEF createToken
      <4> QED
        BY <1>1, <4>1 DEF TokenRow
    <3> QED
      BY <3>1, <3>2
  <2>2. ASSUME NEW u \in Token, revokeToken(u) PROVE tokens'[t].revoked
    BY <1>1, <2>2 DEF revokeToken, TokenRow
  <2> QED
    BY <1>3, <2>1, <2>2 DEF AccessNext, changeMembership, begin, readCandidate, confirm, lookup,
                            readToken, gate
<1>4. ASSUME NEW r, cascade(r) PROVE tokens'[t].revoked
  BY <1>1, <1>4 DEF cascade, TokenRow
<1> QED
  BY <1>2, <1>3, <1>4 DEF Next, purge, DeleteNext

LEMMA SoundIfUnmoved ==
    ASSUME IInv, Next, NEW q \in Request, request'[q] = request[q]
    PROVE  Sound(q)'
<1>1. Sound(q) /\ TypeOK /\ watch
  BY DEF IInv, Next
<1>2. CASE ~ Answering(q)
  BY <1>2 DEF Answering, Sound, IsNamed, Saw, Opened, Rejected, Resolved, Granted
<1>3. CASE Answering(q)
  <2>1. /\ witness[q].existed \subseteq witness'[q].existed
        /\ witness[q].public \subseteq witness'[q].public
        /\ witness[q].member => witness'[q].member
        /\ witness'[q].usable = witness[q].usable
    BY <1>1, <1>3, WitnessGrows DEF Answering
  <2>2. request[q].by \in Token /\ tokens[request[q].by].revoked
            => tokens'[request[q].by].revoked
    BY <1>1, RevokedStays
  <2>3. IsNamed(q)'
    BY <1>1 DEF Sound, IsNamed, Answering, usable
  <2>4. Saw(q)'
    BY <1>1, <2>1 DEF Sound, Saw, Resolved
  <2>5. Opened(q)'
    BY <1>1, <2>1 DEF Sound, Opened, Granted
  <2>6. Rejected(q)'
    BY <1>1, <2>1, <2>2 DEF Sound, Rejected, Answering, Granted
  <2> QED
    BY <2>3, <2>4, <2>5, <2>6 DEF Sound
<1> QED
  BY <1>2, <1>3

\* A refused request claims nothing.
LEMMA SoundIfRefused ==
    ASSUME RequestTyped, NEW q \in Request, request'[q].pc = "refused"
    PROVE  Sound(q)'
BY DEF Sound, IsNamed, Saw, Opened, Rejected, Answering, Resolved, Granted

\* Resolution reads the row that it believes.
LEMMA SoundIfResolved ==
    ASSUME IInv, Next, UNCHANGED registryVars, UNCHANGED tokens,
           NEW q \in Request, Answering(q), InProgress(q),
           NEW r \in Repo, Exists(r), NEW source \in {"kv", "d1"}, resolvedTo(q, r, source)
    PROVE  Sound(q)'
<1>1. Sound(q) /\ TypeOK /\ watch /\ request \in [Request ->
           [pc : Pc, service : Service, by : Credential, name : Name \cup {None},
            repo : Repo \cup {None}, visibility : Visibility, source : {"kv", "d1"}]]
  BY DEF IInv, Next, TypeOK
<1> DEFINE pc == IF request[q].by \in Token THEN "token" ELSE "gate"
<1>2. /\ request'[q].pc = pc
      /\ request'[q].repo = r
      /\ request'[q].visibility = rows[r].visibility
      /\ request'[q].name = request[q].name
      /\ request'[q].service = request[q].service
      /\ request'[q].by = request[q].by
  BY <1>1 DEF resolvedTo
<1>3. pc \in {"token", "gate"} /\ (pc = "token" <=> request[q].by \in Token)
  OBVIOUS
<1> HIDE DEF pc
<1>4. rows' = rows
  BY DEF registryVars
<1>5. IsNamed(q)'
  BY <1>1, <1>2, <1>3 DEF Sound, IsNamed, Answering, usable
<1>6. Saw(q)'
  BY <1>1, <1>2, <1>3, <1>4, WitnessSees DEF Saw, Exists
<1>7. Opened(q)'
  BY <1>2, <1>3 DEF Opened, Granted
<1>8. Rejected(q)'
  <2>1. witness'[q].usable = witness[q].usable
    BY <1>1, <1>2, <1>3, WitnessGrows DEF Answering
  <2> QED
    BY <1>1, <1>2, <1>3, <2>1 DEF Sound, Rejected, Answering, Granted
<1> QED
  BY <1>5, <1>6, <1>7, <1>8 DEF Sound

\* The only other thing a request changes is its pc.
LEMMA SoundIfBecome ==
    ASSUME IInv, Next, UNCHANGED tokens, NEW q \in Request, Answering(q), InProgress(q),
           NEW pc \in {"lookup", "gate", "granted"}, become(q, pc),
           pc \in {"gate", "granted"} => Resolved(q),
           pc = "gate" => request[q].by \in Token /\ ~ tokens[request[q].by].revoked,
           pc = "granted" =>
               /\ request[q].by = "anonymous" => request[q].visibility = "public"
               /\ request[q].by = "viewer" => request[q].visibility = "public" \/ member'
               /\ request[q].service = "push" => request[q].by \in Token /\ request[q].pc = "gate"
    PROVE  Sound(q)'
<1>1. Sound(q) /\ TypeOK /\ watch /\ request \in [Request ->
           [pc : Pc, service : Service, by : Credential, name : Name \cup {None},
            repo : Repo \cup {None}, visibility : Visibility, source : {"kv", "d1"}]]
  BY DEF IInv, Next, TypeOK
<1>2. /\ request'[q].pc = pc
      /\ request'[q].repo = request[q].repo
      /\ request'[q].visibility = request[q].visibility
      /\ request'[q].name = request[q].name
      /\ request'[q].service = request[q].service
      /\ request'[q].by = request[q].by
  BY <1>1 DEF become
<1>3. /\ witness[q].existed \subseteq witness'[q].existed
      /\ witness[q].public \subseteq witness'[q].public
      /\ witness'[q].usable = witness[q].usable
      /\ member' => witness'[q].member
  BY <1>1, <1>2, WitnessGrows, WitnessSees DEF Answering
<1>4. IsNamed(q)'
  BY <1>1, <1>2 DEF Sound, IsNamed, Answering, usable
<1>5. Saw(q)'
  BY <1>1, <1>2, <1>3 DEF Sound, Saw, Resolved
<1>6. Opened(q)'
  BY <1>2, <1>3 DEF Opened, Granted
<1>7. Rejected(q)'
  BY <1>1, <1>2, <1>3 DEF Sound, Rejected, Answering, Granted
<1> QED
  BY <1>4, <1>5, <1>6, <1>7 DEF Sound

LEMMA RequestsSound ==
    ASSUME IInv, Next, AccessNext, UNCHANGED registryVars, NEW q \in Request
    PROVE  Sound(q)'
<1>1. TypeOK /\ RequestTyped /\ RegistryTypeOK /\ Sound(q)
  BY TypeParts DEF IInv
<1> SUFFICES ASSUME request'[q] # request[q] PROVE Sound(q)'
  BY SoundIfUnmoved
<1>2. PICK p \in Request :
          \/ \E service \in Service, by \in Credential, n \in Name : begin(p, service, by, n)
          \/ readCandidate(p) \/ confirm(p) \/ lookup(p) \/ readToken(p) \/ gate(p)
  BY DEF AccessNext, createToken, revokeToken, changeMembership
<1>3. p = q /\ UNCHANGED <<tokens, member>>
  BY <1>1, <1>2 DEF begin, readCandidate, confirm, resolvedTo, become, lookup, readToken, gate,
                    RequestTyped, Asked
<1>4. ASSUME NEW service \in Service, NEW by \in Credential, NEW n \in Name,
             begin(q, service, by, n)
      PROVE  Sound(q)'
  <2>1. /\ request[q].pc = "idle"
        /\ request'[q].pc = "candidate" /\ request'[q].name = n
        /\ request'[q].service = service /\ request'[q].by = by
    BY <1>1, <1>4 DEF begin, RequestTyped, Asked, NoRequest
  <2>2. witness'[q].usable <=> by \in Token /\ ~ tokens[by].revoked
    BY <2>1, WitnessSees DEF Next, InProgress
  <2>3. usable(service, by)
    BY <1>4 DEF begin
  <2> QED
    BY <1>3, <2>1, <2>2, <2>3
       DEF Sound, IsNamed, Saw, Opened, Rejected, Answering, Resolved, Granted, usable
<1>5. CASE readCandidate(q)
  <2>1. /\ request[q].pc = "candidate" /\ request'[q].pc = "confirm"
        /\ request'[q].name = request[q].name
        /\ request'[q].service = request[q].service /\ request'[q].by = request[q].by
    BY <1>1, <1>5 DEF readCandidate, RequestTyped, Asked
  <2>2. witness'[q].usable = witness[q].usable
    BY <1>1, <2>1, WitnessGrows DEF Next
  <2> QED
    BY <1>1, <1>3, <2>1, <2>2
       DEF Sound, IsNamed, Saw, Opened, Rejected, Answering, Resolved, Granted, usable
<1>6. ASSUME request[q].pc \in {"confirm", "lookup"}, become(q, "lookup") \/ become(q, "refused")
      PROVE  Sound(q)'
  <2>1. CASE become(q, "lookup")
    BY <1>3, <1>6, <2>1, SoundIfBecome DEF Answering, InProgress
  <2>2. CASE become(q, "refused")
    BY <1>1, <2>2, SoundIfRefused DEF become, RequestTyped, Asked
  <2> QED
    BY <1>6, <2>1, <2>2
<1>7. CASE confirm(q)
  <2>1. CASE confirmed(request[q].repo, request[q].name)
    <3>1. request[q].repo \in Repo /\ Exists(request[q].repo)
      BY <1>1, <2>1, ConfirmedIsRepo DEF confirmed
    <3>2. request[q].pc = "confirm" /\ resolvedTo(q, request[q].repo, "kv")
      BY <1>7, <2>1 DEF confirm
    <3> QED
      BY <1>3, <3>1, <3>2, SoundIfResolved DEF Answering, InProgress
  <2>2. CASE ~ confirmed(request[q].repo, request[q].name)
    BY <1>6, <1>7, <2>2 DEF confirm
  <2> QED
    BY <2>1, <2>2
<1>8. CASE lookup(q)
  <2>1. request[q].pc = "lookup"
    BY <1>8 DEF lookup
  <2>2. CASE become(q, "refused")
    BY <1>6, <2>1, <2>2
  <2>3. ASSUME NEW r \in namedBy(request[q].name), resolvedTo(q, r, "d1") PROVE Sound(q)'
    <3>1. r \in Repo /\ Exists(r)
      BY DEF namedBy
    <3> QED
      BY <1>3, <2>1, <2>3, <3>1, SoundIfResolved DEF Answering, InProgress
  <2> QED
    BY <1>8, <2>2, <2>3 DEF lookup
<1>9. CASE readToken(q)
  <2>1. request[q].pc = "token" /\ request[q].by \in Token
    BY <1>1, <1>9 DEF readToken, Sound, IsNamed
  <2>2. request[q].by # "anonymous" /\ request[q].by # "viewer"
    BY <2>1, AccessAssumption
  <2>3. CASE tokens[request[q].by].made /\ ~ tokens[request[q].by].revoked
    <3>1. become(q, "gate")
      BY <1>9, <2>3 DEF readToken
    <3> QED
      BY <1>3, <2>1, <2>2, <2>3, <3>1, SoundIfBecome DEF Answering, InProgress, Resolved
  <2>4. CASE ~ (tokens[request[q].by].made /\ ~ tokens[request[q].by].revoked) /\ publicRead(q)
    <3>1. become(q, "granted") /\ request[q].service = "read"
      BY <1>9, <2>4 DEF readToken, publicRead
    <3> QED
      BY <1>3, <2>1, <2>2, <3>1, SoundIfBecome DEF Answering, InProgress, Resolved
  <2>5. CASE ~ (tokens[request[q].by].made /\ ~ tokens[request[q].by].revoked) /\ ~ publicRead(q)
    <3>1. become(q, "refused")
      BY <1>9, <2>5 DEF readToken
    <3> QED
      BY <1>1, <3>1, SoundIfRefused DEF become, RequestTyped, Asked
  <2> QED
    BY <2>3, <2>4, <2>5
<1>10. CASE gate(q)
  <2> DEFINE level == IF request[q].by \in Token
                      THEN grantedLevel(tokens[request[q].by], request[q].repo) ELSE "none"
             open == CASE request[q].service \in {"read", "push"} -> gitGate(q, level)
                       [] request[q].service = "page"  -> uiGate(q)
                       [] request[q].service = "admin" -> adminGate(q)
  <2>1. request[q].pc = "gate" /\ become(q, IF open THEN "granted" ELSE "refused")
    BY <1>10 DEF gate
  <2>2. request[q].service \in Service /\ usable(request[q].service, request[q].by)
    BY <1>1, <2>1 DEF RequestTyped, Asked, Sound, IsNamed, Answering
  <2>3. CASE open
    <3>1. request[q].by \notin Token => level = "none"
      OBVIOUS
    <3>2. request[q].by = "anonymous" \/ request[q].by = "viewer" => request[q].by \notin Token
      BY AccessAssumption
    <3> HIDE DEF level
    <3>3. CASE request[q].service \in {"read", "push"}
      <4>1. gitGate(q, level)
        BY <2>3, <3>3
      <4> QED
        BY <1>3, <2>1, <2>2, <2>3, <3>1, <3>2, <3>3, <4>1, SoundIfBecome
           DEF Answering, InProgress, Resolved, gitGate, publicRead, usable
    <3>4. CASE request[q].service = "page"
      <4>1. uiGate(q)
        BY <2>3, <3>4
      <4> QED
        BY <1>3, <2>1, <2>2, <2>3, <3>4, <4>1, SoundIfBecome
           DEF Answering, InProgress, Resolved, uiGate, isMember, usable
    <3>5. CASE request[q].service = "admin"
      <4>1. adminGate(q)
        BY <2>3, <3>5
      <4> QED
        BY <1>3, <2>1, <2>2, <2>3, <3>5, <4>1, SoundIfBecome
           DEF Answering, InProgress, Resolved, adminGate, isMember, usable
    <3> QED
      BY <2>2, <3>3, <3>4, <3>5 DEF Service
  <2>4. CASE ~ open
    <3>1. become(q, "refused")
      BY <2>1, <2>4
    <3> QED
      BY <1>1, <3>1, SoundIfRefused DEF become, RequestTyped, Asked
  <2> QED
    BY <2>3, <2>4
<1> QED
  BY <1>2, <1>3, <1>4, <1>5, <1>7, <1>8, <1>9, <1>10

LEMMA NextSound ==
    ASSUME IInv, Next
    PROVE  IInv'
<1>1. ASSUME NEW q \in Request PROVE Sound(q)'
  <2>1. RequestTyped
    BY TypeParts DEF IInv
  <2>2. CASE AccessNext /\ UNCHANGED registryVars
    BY <2>2, RequestsSound
  <2>3. CASE \E p \in Request : purge(p)
    <3>1. PICK p \in Request : purge(p)
      BY <2>3
    <3>2. CASE p = q
      <4>1. request'[q].pc = "refused"
        BY <2>1, <3>1, <3>2 DEF purge, RequestTyped, Asked, NoRequest
      <4> QED
        BY <2>1, <4>1, SoundIfRefused
    <3>3. CASE p # q
      BY <2>1, <3>1, <3>3, SoundIfUnmoved DEF purge, RequestTyped, Asked
    <3> QED
      BY <3>2, <3>3
  <2>4. CASE UNCHANGED accessVars \/ DeleteNext
    BY <2>4, SoundIfUnmoved DEF accessVars, DeleteNext
  <2> QED
    BY <2>2, <2>3, <2>4 DEF Next
<1> QED
  BY <1>1, NextTypes DEF IInv

LEMMA InitSound ==
    ASSUME Init
    PROVE  IInv
<1>1. RegistryTypeOK
  BY RegistryAssumption DEF Init, RegistryInit, RegistryTypeOK
<1>2. NoToken \in TokenRow
  BY DEF NoToken, TokenRow, Level
<1>3. NoRequest \in [pc : Pc, service : Service, by : Credential, name : Name \cup {None},
                     repo : Repo \cup {None}, visibility : Visibility, source : {"kv", "d1"}]
  BY DEF NoRequest, Pc, Service, Credential, Visibility
<1>4. TypeOK
  BY <1>1, <1>2, <1>3 DEF Init, TypeOK
<1>5. ASSUME NEW q \in Request PROVE Sound(q)
  BY DEF Init, NoRequest, Sound, IsNamed, Saw, Opened, Rejected, Answering, Resolved, Granted
<1> QED
  BY <1>4, <1>5 DEF IInv

LEMMA StutterSound ==
    ASSUME IInv, UNCHANGED vars
    PROVE  IInv'
BY DEF IInv, TypeOK, RegistryTypeOK, vars, registryVars, accessVars, Sound, IsNamed, Saw, Opened,
       Rejected, Answering, Resolved, Granted, usable

-----------------------------------------------------------------------------
(* Theorems *)

LEMMA AlwaysSound == Spec => []IInv
<1>1. IInv /\ [Next]_vars => IInv'
  BY NextSound, StutterSound
<1> QED
  BY <1>1, InitSound, PTL DEF Spec

\* However requests, queue consumers and deletions interleave, every row, message and
\* request is well typed; in particular a visibility change never writes a row that is
\* gone (updateRepositoryVisibility) and a purge names a repository that was resolved.
THEOREM AccessTypeCorrect == Spec => []TypeOK
<1>1. IInv => TypeOK
  BY DEF IInv
<1> QED
  BY <1>1, AlwaysSound, PTL

\* Whatever the ROUTES cache holds and whatever changes between the reads of a request,
\* the gates of the git worker (gateGitRead, resolveUiRepoAccess and the admin pages)
\* serve a repository only to who could see it at some moment of the request.
THEOREM RequestsAreServedRightly == Spec => []ServedRightly
<1>1. IInv => ServedRightly
  BY DEF IInv, Sound, Saw, Opened, ServedRightly, Resolved, Granted
<1> QED
  BY <1>1, AlwaysSound, PTL

\* verifyPat rejects a push whose token was revoked before the push began, although it
\* reads the token, its user and its grants one after the other.
THEOREM RevokedTokensCannotPush == Spec => []RevokedTokenCannotPush
<1>1. IInv => RevokedTokenCannotPush
  BY DEF IInv, Sound, Opened, Rejected, Answering, RevokedTokenCannotPush, Granted
<1> QED
  BY <1>1, AlwaysSound, PTL
=============================================================================
