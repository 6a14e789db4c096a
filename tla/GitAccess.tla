------------------------------ MODULE GitAccess ------------------------------
(***************************************************************************)
(* Who may read, push to and administer a repository: Smart HTTP requests  *)
(* with or without a personal access token, and pages and admin calls of   *)
(* browser sessions.  A request reads KV, D1 rows, the token, its grants   *)
(* or a membership one after the other while all of them change.           *)
(***************************************************************************)
EXTENDS RepoRegistry

CONSTANTS
    Request,
    Token        \* personal access tokens

ASSUME AccessAssumption ==
    /\ None \notin Request
    /\ Token \cap {"anonymous", "viewer"} = {}

VARIABLES
    tokens,      \* D1: personal_access_tokens with their grants
    member,      \* is the signed-in user a member of the namespace?
    request,     \* the state of each request
    witness      \* history: what was so at some moment of each request

accessVars == <<tokens, member, request>>
vars == <<registryVars, accessVars, witness>>

Level == {"none", "pull", "push"}
Service == {"read", "push", "page", "admin"}

\* No credentials (or a Basic header without a password), a token, a session
Credential == {"anonymous", "viewer"} \cup Token

\* A token before it is made is neither revoked nor has it grants.
TokenRow == [made : BOOLEAN, revoked : BOOLEAN,
             namespaceLevel : Level, repoLevel : [Repo -> Level]]
NoToken == [made |-> FALSE, revoked |-> FALSE,
            namespaceLevel |-> "none", repoLevel |-> [r \in Repo |-> "none"]]

Pc == {"idle", "candidate", "confirm", "lookup", "token", "gate", "granted", "refused"}

NoRequest == [pc |-> "idle", service |-> "read", by |-> "anonymous", name |-> None,
              repo |-> None, visibility |-> "private", source |-> "kv"]

\* The columns of D1 and the fields of a request have their types: a row is never written
\* back for a repository that is gone (updateRepositoryVisibility).
TypeOK ==
    /\ RegistryTypeOK
    /\ tokens \in [Token -> TokenRow]
    /\ member \in BOOLEAN
    /\ request \in [Request ->
           [pc : Pc, service : Service, by : Credential, name : Name \cup {None},
            repo : Repo \cup {None}, visibility : Visibility, source : {"kv", "d1"}]]
    /\ witness \in [Request -> [existed : SUBSET Repo, public : SUBSET Repo,
                                member : BOOLEAN, usable : BOOLEAN]]

Init ==
    /\ RegistryInit
    /\ tokens = [t \in Token |-> NoToken]
    /\ member = TRUE
    /\ request = [q \in Request |-> NoRequest]
    /\ witness = [q \in Request |->
                     [existed |-> {}, public |-> {}, member |-> FALSE, usable |-> FALSE]]

become(q, pc) == request' = [request EXCEPT ![q].pc = pc]

-----------------------------------------------------------------------------
(* Tokens and memberships *)

\* POST /auth/api/tokens by a member: the token and its grant in one batch.  A grant
\* for a repository deleted after it was found breaks the batch.
createToken(t, level) ==
    /\ ~ tokens[t].made /\ member
    /\ \/ tokens' = [tokens EXCEPT ![t].made = TRUE, ![t].namespaceLevel = level]
       \/ \E r \in Repo :
              /\ Exists(r)
              /\ tokens' = [tokens EXCEPT ![t].made = TRUE, ![t].repoLevel[r] = level]
    /\ UNCHANGED <<member, request>>

\* revokePatById by its owner
revokeToken(t) ==
    /\ tokens[t].made /\ ~ tokens[t].revoked
    /\ tokens' = [tokens EXCEPT ![t].revoked = TRUE]
    /\ UNCHANGED <<member, request>>

\* The forge removes the user from the namespace, or adds him again.
changeMembership ==
    /\ member' = ~ member
    /\ UNCHANGED <<tokens, request>>

-----------------------------------------------------------------------------
(* Requests: resolution, then authentication, then the gate *)

\* Pages and admin calls go with a session, Git requests with a token.
usable(service, by) ==
    \/ by = "anonymous"
    \/ by = "viewer" /\ service \in {"page", "admin"}
    \/ by \in Token /\ service \in {"read", "push"}

begin(q, service, by, n) ==
    /\ request[q].pc = "idle" /\ usable(service, by)
    /\ request' = [request EXCEPT ![q] = [NoRequest EXCEPT
           !.pc = "candidate", !.service = service, !.by = by, !.name = n]]
    /\ UNCHANGED <<tokens, member>>

readCandidate(q) ==
    /\ request[q].pc = "candidate"
    /\ request' = [request EXCEPT ![q].pc = "confirm", ![q].repo = candidate(request[q].name)]
    /\ UNCHANGED <<tokens, member>>

\* Only a request with a principal to check may look names up in D1.
fallback(q) == request[q].by # "anonymous"

resolvedTo(q, r, source) ==
    request' = [request EXCEPT ![q].pc = IF request[q].by \in Token THEN "token" ELSE "gate",
                               ![q].repo = r, ![q].source = source,
                               ![q].visibility = rows[r].visibility]

\* Mutant: the candidate is trusted without its row
confirmUnread(q) ==
    /\ request[q].pc = "confirm"
    /\ IF request[q].repo # None
       THEN request' = [request EXCEPT ![q].pc = IF request[q].by \in Token THEN "token" ELSE "gate",
                                       ![q].visibility = "public"]
       ELSE become(q, IF fallback(q) THEN "lookup" ELSE "refused")
    /\ UNCHANGED <<tokens, member>>

\* The candidate's row confirms it, or the name is looked up, or the request ends: a
\* push in a challenge, any other as not found.
confirm(q) ==
    /\ request[q].pc = "confirm"
    /\ IF confirmed(request[q].repo, request[q].name)
       THEN resolvedTo(q, request[q].repo, "kv")
       ELSE become(q, IF fallback(q) THEN "lookup" ELSE "refused")
    /\ UNCHANGED <<tokens, member>>

lookup(q) ==
    /\ request[q].pc = "lookup"
    /\ \/ /\ namedBy(request[q].name) = {}
          /\ become(q, "refused")
       \/ \E r \in namedBy(request[q].name) : resolvedTo(q, r, "d1")
    /\ UNCHANGED <<tokens, member>>

\* A rejected token still reads a public repository that KV names.
publicRead(q) ==
    /\ request[q].service = "read" /\ request[q].source = "kv"
    /\ request[q].visibility = "public"

\* Mutant: a revoked token is accepted
readTokenRevokedToo(q) ==
    /\ request[q].pc = "token"
    /\ become(q, IF tokens[request[q].by].made THEN "gate"
                 ELSE IF publicRead(q) THEN "granted" ELSE "refused")
    /\ UNCHANGED <<tokens, member>>

\* verifyPat up to the grants: findPatByPrefix, revokedAt, the hash, the user, the
\* username
readToken(q) ==
    /\ request[q].pc = "token"
    /\ LET token == tokens[request[q].by] IN
       become(q, IF token.made /\ ~ token.revoked THEN "gate"
                 ELSE IF publicRead(q) THEN "granted" ELSE "refused")
    /\ UNCHANGED <<tokens, member>>

\* A grant for the repository takes precedence over the namespace's.
grantedLevel(token, r) ==
    IF token.repoLevel[r] # "none" THEN token.repoLevel[r] ELSE token.namespaceLevel

\* gateD1FallbackGitAuth with gateGitRead or gateGitPush
gitGate(q, level) ==
    IF request[q].service = "push" THEN level = "push"
    ELSE publicRead(q) \/ level # "none"

\* loadSessionMembership
isMember(q) == request[q].by = "viewer" /\ member

\* resolveUiRepoAccess
uiGate(q) == isMember(q) \/ request[q].visibility = "public"

\* resolveAdminPageRepoAccess and resolveAdminApiRepoAccess
adminGate(q) == isMember(q)

gate(q) ==
    /\ request[q].pc = "gate"
    /\ LET level == IF request[q].by \in Token
                    THEN grantedLevel(tokens[request[q].by], request[q].repo) ELSE "none"
           open == CASE request[q].service \in {"read", "push"} -> gitGate(q, level)
                     [] request[q].service = "page"  -> uiGate(q)
                     [] request[q].service = "admin" -> adminGate(q)
       IN  become(q, IF open THEN "granted" ELSE "refused")
    /\ UNCHANGED <<tokens, member>>

AccessNext ==
    \/ \E t \in Token, level \in Level \ {"none"} : createToken(t, level)
    \/ \E t \in Token : revokeToken(t)
    \/ changeMembership
    \/ \E q \in Request :
           \/ \E service \in Service, by \in Credential, n \in Name : begin(q, service, by, n)
           \/ readCandidate(q) \/ confirm(q) \/ lookup(q) \/ readToken(q) \/ gate(q)

-----------------------------------------------------------------------------
(* Deletion *)

\* DELETE admin/purge, once confirmed, only enqueues; a failed send changes nothing.
purge(q) ==
    /\ request[q].service = "admin" /\ request[q].pc = "granted"
    /\ deletes' \in {deletes, deletes \cup
                          {[repo |-> request[q].repo, name |-> request[q].name, stage |-> "queued"]}}
    /\ request' = [request EXCEPT ![q] = [NoRequest EXCEPT !.pc = "refused"]]
    /\ UNCHANGED <<rows, issued, kv, syncs, patches, patched, forging, tokens, member>>

\* A deleted repository takes its grants with it (ON DELETE CASCADE).
cascade(r) == tokens' = [t \in Token |-> [tokens[t] EXCEPT !.repoLevel[r] = "none"]]

DeleteNext ==
    \E m \in deletes :
        \/ deleteRow(m) /\ cascade(m.repo) /\ UNCHANGED <<member, request>>
        \/ (deleteRoute(m) \/ deleteRetry(m)) /\ UNCHANGED accessVars

-----------------------------------------------------------------------------
InProgress(q) == request[q].pc \notin {"granted", "refused"}

\* From its first step to its answer a request gathers what it could rightly see.
gathered(q) ==
    LET fresh == request[q].pc = "idle"
        before == witness[q]
    IN  [existed |-> {r \in Repo : rows'[r] # NoRow} \cup IF fresh THEN {} ELSE before.existed,
         public |-> {r \in Repo : rows'[r] # NoRow /\ rows'[r].visibility = "public"}
                        \cup IF fresh THEN {} ELSE before.public,
         member |-> member' \/ (~ fresh /\ before.member),
         usable |-> IF fresh THEN request'[q].by \in Token
                                  /\ ~ tokens[request'[q].by].revoked
                    ELSE before.usable]

watch ==
    witness' = [q \in Request |->
        IF request'[q].pc # "idle" /\ InProgress(q) THEN gathered(q) ELSE witness[q]]

\* Any member of the namespace may change the registry, who stays one or whose
\* membership ended after it was checked, and not only the user of the session.
Next ==
    /\ \/ RegistryNext /\ UNCHANGED accessVars
       \/ SyncNext /\ UNCHANGED accessVars
       \/ AccessNext /\ UNCHANGED registryVars
       \/ \E q \in Request : purge(q)
       \/ DeleteNext
    /\ watch

Spec == Init /\ [][Next]_vars

-----------------------------------------------------------------------------
(* Properties *)

Granted(q) == request[q].pc = "granted"

\* However stale the ROUTES candidate and whatever changes between the reads of a
\* request, it reaches a repository only if that repository existed under way and was
\* public then, or the session's user a member then, or a token was shown.
ServedRightly ==
    \A q \in Request : Granted(q) =>
        /\ request[q].repo \in witness[q].existed
        /\ request[q].by = "anonymous" => request[q].repo \in witness[q].public
        /\ request[q].by = "viewer" =>
               request[q].repo \in witness[q].public \/ witness[q].member

\* A token that was revoked before a push began does not authorize it.
RevokedTokenCannotPush ==
    \A q \in Request : Granted(q) /\ request[q].service = "push" => witness[q].usable
=============================================================================
