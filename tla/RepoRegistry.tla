---------------------------- MODULE RepoRegistry ----------------------------
(***************************************************************************)
(* The registry of repositories: the D1 rows, the ROUTES candidate cache   *)
(* in KV, the queue messages that reconcile the two, visibility changes,   *)
(* deletion, and the resolution of a requested name to a repository.       *)
(*                                                                         *)
(* A name stands for a namespace slug with a repository slug; ids are      *)
(* fresh, so a repository is created at most once and a deleted row never  *)
(* returns.  Each action is the code between two awaits.                   *)
(***************************************************************************)
EXTENDS Naturals, FiniteSets

CONSTANTS
    Repo,         \* repository ids
    Name,
    None,         \* no repository, no name, no push
    Creators,     \* workers that create repositories, a subset of {"git", "forge"}
    MaxSyncs,     \* bound on route-cache-sync messages outstanding
    MaxPatches    \* bound on visibility requests ever made

ASSUME RegistryAssumption ==
    /\ None \notin Repo \cup Name
    /\ Creators \subseteq {"git", "forge"}
    /\ MaxSyncs \in Nat
    /\ MaxPatches \in Nat

VARIABLES
    rows,       \* D1: the row of each repository, or NoRow
    issued,     \* repositories created so far
    kv,         \* ROUTES: the repository recorded under each name, or None
    syncs,      \* route-cache-sync messages, each with the stage of its consumer
    patches,    \* visibility requests between their read and their update
    patched,    \* visibility requests made so far
    forging,    \* repositories the forge has inserted but not yet put in ROUTES
    deletes     \* repository-delete messages, each with the stage of its consumer

registryVars == <<rows, issued, kv, syncs, patches, patched, forging, deletes>>

Visibility == {"public", "private"}

Row == [name : Name, visibility : Visibility]
NoRow == [name |-> None, visibility |-> "private"]

Sync == [repo : Repo, name : Name, stage : {"queued", "read"}, seen : Row \cup {NoRow}]
Patch == [repo : Repo, name : Name, to : Visibility, previous : Visibility]
Forging == [repo : Repo, name : Name]
Deletion == [repo : Repo, name : Name, stage : {"queued", "routes"}]

queuedSync(r, n) == [repo |-> r, name |-> n, stage |-> "queued", seen |-> NoRow]

\* The registry's part of GitAccess's type invariant.
RegistryTypeOK ==
    /\ rows \in [Repo -> Row \cup {NoRow}]
    /\ issued \subseteq Repo
    /\ kv \in [Name -> Repo \cup {None}]
    /\ syncs \subseteq Sync
    /\ patches \subseteq Patch
    /\ patched \in 0 .. MaxPatches
    /\ forging \subseteq Forging
    /\ deletes \subseteq Deletion

RegistryInit ==
    /\ rows = [r \in Repo |-> NoRow]
    /\ issued = {}
    /\ kv = [n \in Name |-> None]
    /\ syncs = {}
    /\ patches = {}
    /\ patched = 0
    /\ forging = {}
    /\ deletes = {}

Exists(r) == rows[r] # NoRow

Public(r) == Exists(r) /\ rows[r].visibility = "public"

-----------------------------------------------------------------------------
(* Requests that change the registry *)

\* enqueueRouteCacheSync: a failed send is logged and forgotten.
sendsOf(r, n) ==
    {syncs} \cup IF Cardinality(syncs) < MaxSyncs THEN {syncs \cup {queuedSync(r, n)}} ELSE {}

\* POST /auth/api/repositories by a member: insertRepositoryIfNew and the send
createRepository(r, n, visibility) ==
    /\ "git" \in Creators
    /\ r \notin issued
    /\ \A other \in Repo : Exists(other) => rows[other].name # n
    /\ rows' = [rows EXCEPT ![r] = [name |-> n, visibility |-> visibility]]
    /\ issued' = issued \cup {r}
    /\ syncs' \in sendsOf(r, n)
    /\ UNCHANGED <<kv, patches, patched, forging, deletes>>

\* POST /repositories of the forge, whose INSERT OR IGNORE has the same effect
forgeInsert(r, n, visibility) ==
    /\ "forge" \in Creators
    /\ r \notin issued
    /\ \A other \in Repo : Exists(other) => rows[other].name # n
    /\ rows' = [rows EXCEPT ![r] = [name |-> n, visibility |-> visibility]]
    /\ issued' = issued \cup {r}
    /\ forging' = forging \cup {[repo |-> r, name |-> n]}
    /\ UNCHANGED <<kv, syncs, patches, patched, deletes>>

\* ROUTES.put, also for a private repository and even if the row went meanwhile
forgePut(f) ==
    /\ f \in forging
    /\ kv' = [kv EXCEPT ![f.name] = f.repo]
    /\ forging' = forging \ {f}
    /\ UNCHANGED <<rows, issued, syncs, patches, patched, deletes>>

\* The put throws: the row is deleted again, unless that throws as well.
forgePutFail(f) ==
    /\ f \in forging
    /\ rows' \in {rows, [rows EXCEPT ![f.repo] = NoRow]}
    /\ forging' = forging \ {f}
    /\ UNCHANGED <<issued, kv, syncs, patches, patched, deletes>>

\* PATCH /auth/api/repositories/:id by a member, up to the select in
\* updateRepositoryVisibility
patchRead(r, visibility) ==
    /\ Exists(r) /\ patched < MaxPatches
    /\ patches' = patches \cup
                      {[repo |-> r, name |-> rows[r].name, to |-> visibility,
                        previous |-> rows[r].visibility]}
    /\ patched' = patched + 1
    /\ UNCHANGED <<rows, issued, kv, syncs, forging, deletes>>

\* Mutant: the update writes a row that has been deleted
patchWriteUpserts(p) ==
    /\ p \in patches
    /\ rows' = [rows EXCEPT ![p.repo].visibility = p.to]
    /\ patches' = patches \ {p}
    /\ UNCHANGED <<issued, kv, syncs, patched, forging, deletes>>

\* Its update, which finds no row if the repository was deleted meanwhile, and
\* the send, which depends on the visibility that was read
patchWrite(p) ==
    /\ p \in patches
    /\ rows' = IF Exists(p.repo) THEN [rows EXCEPT ![p.repo].visibility = p.to] ELSE rows
    /\ syncs' \in IF p.previous # p.to THEN sendsOf(p.repo, p.name) ELSE {syncs}
    /\ patches' = patches \ {p}
    /\ UNCHANGED <<issued, kv, patched, forging, deletes>>

-----------------------------------------------------------------------------
(* handleRouteCacheSyncMessage *)

\* findRepositoryById and findNamespaceById
syncRead(m) ==
    /\ m \in syncs /\ m.stage = "queued"
    /\ syncs' = (syncs \ {m}) \cup {[m EXCEPT !.stage = "read", !.seen = rows[m.repo]]}
    /\ UNCHANGED <<rows, issued, kv, patches, patched, forging, deletes>>

\* What the consumer leaves in ROUTES: the captured key goes, except that a public
\* row has its record under its own name.
candidatesAfter(m) ==
    LET captured == [kv EXCEPT ![m.name] = None]
    IN  IF m.seen = NoRow THEN captured
        ELSE IF m.seen.visibility = "private"
        THEN [captured EXCEPT ![m.seen.name] = None]
        ELSE [captured EXCEPT ![m.seen.name] = m.repo]

\* Applied and acknowledged, or delivered again because the acknowledgement was lost
syncApply(m) ==
    /\ m \in syncs /\ m.stage = "read"
    /\ kv' = candidatesAfter(m)
    /\ syncs' \in {syncs \ {m}, (syncs \ {m}) \cup {queuedSync(m.repo, m.name)}}
    /\ UNCHANGED <<rows, issued, patches, patched, forging, deletes>>

\* A step of it throws: retryQueueMessage, or the attempts are used up.
syncFail(m) ==
    /\ m \in syncs /\ m.stage = "read"
    /\ syncs' \in {syncs \ {m}, (syncs \ {m}) \cup {queuedSync(m.repo, m.name)}}
    /\ UNCHANGED <<rows, issued, kv, patches, patched, forging, deletes>>

RegistryNext ==
    \/ \E r \in Repo, n \in Name, v \in Visibility : createRepository(r, n, v) \/ forgeInsert(r, n, v)
    \/ \E f \in forging : forgePut(f) \/ forgePutFail(f)
    \/ \E r \in Repo, v \in Visibility : patchRead(r, v)
    \/ \E p \in patches : patchWrite(p)

SyncNext == \E m \in syncs : syncRead(m) \/ syncApply(m) \/ syncFail(m)

-----------------------------------------------------------------------------
(* What handleRepositoryDeleteMessage does to the registry; RepoLifecycle has what
   it erases.  Any step may fail, and the message starts over. *)

deleteRow(m) ==
    /\ m \in deletes /\ m.stage = "queued"
    /\ rows' = [rows EXCEPT ![m.repo] = NoRow]
    /\ deletes' = (deletes \ {m}) \cup {[m EXCEPT !.stage = "routes"]}
    /\ UNCHANGED <<issued, kv, syncs, patches, patched, forging>>

deleteRoute(m) ==
    /\ m \in deletes /\ m.stage = "routes"
    /\ kv' = [kv EXCEPT ![m.name] = None]
    /\ deletes' \in {deletes \ {m}, (deletes \ {m}) \cup {[m EXCEPT !.stage = "queued"]}}
    /\ UNCHANGED <<rows, issued, syncs, patches, patched, forging>>

deleteRetry(m) ==
    /\ m \in deletes /\ m.stage = "routes"
    /\ deletes' = (deletes \ {m}) \cup {[m EXCEPT !.stage = "queued"]}
    /\ UNCHANGED <<rows, issued, kv, syncs, patches, patched, forging>>

-----------------------------------------------------------------------------
(* resolveRepositoryRoute, read by read; the caller keeps the candidate *)

\* getRouteCacheRecord
candidate(n) == kv[n]

\* Every cached field matches the canonical row, which is addressable at n.
confirmed(r, n) == r # None /\ Exists(r) /\ rows[r].name = n

\* findRepositoryByNamespaceAndSlug
namedBy(n) == {r \in Repo : Exists(r) /\ rows[r].name = n}
=============================================================================
