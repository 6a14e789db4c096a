---------------------------- MODULE RepoLifecycle ----------------------------
(***************************************************************************)
(* What the pushes to an owner's repositories keep in R2 and in the        *)
(* repositories' objects under his quota, and how the queue consumer of    *)
(* repository-delete erases it, both step by step and at the same time.    *)
(*                                                                         *)
(* Every repository has the same owner.  Every push stores one pack of     *)
(* unit size, named by the push.  Of an object only the receive lease and  *)
(* the active packs are left (RepoDO has the rest); RepoRegistry has what  *)
(* a deletion does to ROUTES.                                              *)
(***************************************************************************)
EXTENDS Naturals, FiniteSets

CONSTANTS
    Repo,
    Push,
    None,                 \* no push
    MaxRepositoryBytes,   \* UserGroupLimits of the owner's group
    MaxStorageBytes

ASSUME LifecycleAssumption ==
    /\ None \notin Push
    /\ MaxRepositoryBytes \in Nat
    /\ MaxStorageBytes \in Nat

VARIABLES
    row,       \* D1: "new" before it is inserted, "live", "deleted"
    push,      \* pc and repository of each push, and what it measured so far
    r2,        \* packs under each repository's prefix
    catalog,   \* active packs of each repository's object
    lease,     \* the push that holds each object's receive lease, or None
    deletes,   \* repository-delete messages, each with the stage of its consumer
    doomed     \* history: the packs that were active when the row was deleted

vars == <<row, push, r2, catalog, lease, deletes, doomed>>

Pc == {"idle", "owned", "leased", "staged", "measuring", "checked", "dropping", "done"}

\* measureStorageUsage in progress: prefixes still to list, bytes added up
NoPush == [pc |-> "idle", repo |-> None, left |-> {}, repositoryBytes |-> 0, ownerBytes |-> 0]

\* A message's consumer is at stage "queued", "list", "r2" or "do", with the listed keys.
queuedDeletion(r) == [repo |-> r, stage |-> "queued", keys |-> {}]

Init ==
    /\ row = [r \in Repo |-> "new"]
    /\ push = [p \in Push |-> NoPush]
    /\ r2 = [r \in Repo |-> {}]
    /\ catalog = [r \in Repo |-> {}]
    /\ lease = [r \in Repo |-> None]
    /\ deletes = {}
    /\ doomed = [r \in Repo |-> {}]

Live(r) == row[r] = "live"

become(p, pc) == push' = [push EXCEPT ![p].pc = pc]
finish(p) == push' = [push EXCEPT ![p] = [NoPush EXCEPT !.pc = "done"]]

-----------------------------------------------------------------------------
(* Pushes *)

insertRepository(r) ==
    /\ row[r] = "new"
    /\ row' = [row EXCEPT ![r] = "live"]
    /\ UNCHANGED <<push, r2, catalog, lease, deletes, doomed>>

\* An authorized push; resolveRepositoryStorageQuota joins the row with its owner
pushOwner(p, r) ==
    /\ push[p].pc = "idle" /\ Live(r)
    /\ push' = [push EXCEPT ![p].pc = "owned", ![p].repo = r]
    /\ UNCHANGED <<row, r2, catalog, lease, deletes, doomed>>

\* beginReceive: refused while another lease is held, unless that one expired
pushBegin(p) ==
    /\ push[p].pc = "owned"
    /\ \/ /\ lease[push[p].repo] # None
          /\ finish(p) /\ lease' = lease
       \/ /\ become(p, "leased")
          /\ lease' = [lease EXCEPT ![push[p].repo] = p]
    /\ UNCHANGED <<row, r2, catalog, deletes, doomed>>

\* stagePackToR2 with its idx and refs
pushStage(p) ==
    /\ push[p].pc = "leased"
    /\ r2' = [r2 EXCEPT ![push[p].repo] = @ \cup {p}]
    /\ become(p, "staged")
    /\ UNCHANGED <<row, catalog, lease, deletes, doomed>>

\* measureStorageUsage: the owner's rows, then one prefix after the other
measureBegin(p) ==
    /\ push[p].pc = "staged"
    /\ push' = [push EXCEPT ![p].pc = "measuring", ![p].left = {r \in Repo : Live(r)}]
    /\ UNCHANGED <<row, r2, catalog, lease, deletes, doomed>>

added(p, r, bytes) ==
    LET m == push[p] IN
    push' = [push EXCEPT ![p] =
        [pc |-> m.pc, repo |-> m.repo, left |-> m.left \ {r},
         repositoryBytes |-> IF r = m.repo THEN bytes ELSE m.repositoryBytes,
         ownerBytes |-> m.ownerBytes + bytes]]

\* Mutant: only the packs of the catalog are counted, not what is staged
listPrefixBytesActive(p, r) == Cardinality(r2[r] \cap catalog[r])

listPrefixBytes(p, r) == Cardinality(r2[r])

measure(p, r) ==
    /\ push[p].pc = "measuring" /\ r \in push[p].left
    /\ added(p, r, listPrefixBytes(p, r))
    /\ UNCHANGED <<row, r2, catalog, lease, deletes, doomed>>

assertStorageQuota(p) ==
    /\ push[p].repositoryBytes <= MaxRepositoryBytes
    /\ push[p].ownerBytes <= MaxStorageBytes

measureEnd(p) ==
    /\ push[p].pc = "measuring" /\ push[p].left = {}
    /\ push' = [push EXCEPT ![p] = [NoPush EXCEPT
           !.pc = IF assertStorageQuota(p) THEN "checked" ELSE "dropping", !.repo = push[p].repo]]
    /\ UNCHANGED <<row, r2, catalog, lease, deletes, doomed>>

\* finalizeReceive: the pack becomes active if the push still holds the lease.
pushFinalize(p) ==
    LET r == push[p].repo IN
    /\ push[p].pc = "checked"
    /\ \/ /\ lease[r] = p
          /\ catalog' = [catalog EXCEPT ![r] = @ \cup {p}]
          /\ lease' = [lease EXCEPT ![r] = None]
          /\ finish(p)
       \/ /\ lease[r] # p
          /\ become(p, "dropping")
          /\ UNCHANGED <<catalog, lease>>
    /\ UNCHANGED <<row, r2, deletes, doomed>>

\* The client goes away or a step throws.
pushFail(p) ==
    /\ push[p].pc \in {"leased", "staged", "measuring", "checked"}
    /\ push' = [push EXCEPT ![p] = [NoPush EXCEPT !.pc = "dropping", !.repo = push[p].repo]]
    /\ UNCHANGED <<row, r2, catalog, lease, deletes, doomed>>

\* cleanupFailedReceive: abortReceive and deleteStagedPack, each of which may fail; a
\* worker that died does neither.
pushDrop(p) ==
    LET r == push[p].repo IN
    /\ push[p].pc = "dropping"
    /\ lease' \in {lease, IF lease[r] = p THEN [lease EXCEPT ![r] = None] ELSE lease}
    /\ r2' \in {r2, [r2 EXCEPT ![r] = @ \ {p}]}
    /\ finish(p)
    /\ UNCHANGED <<row, catalog, deletes, doomed>>

PushNext ==
    \E p \in Push :
        \/ \E r \in Repo : pushOwner(p, r) \/ measure(p, r)
        \/ pushBegin(p) \/ pushStage(p) \/ measureBegin(p) \/ measureEnd(p)
        \/ pushFinalize(p) \/ pushFail(p) \/ pushDrop(p)

-----------------------------------------------------------------------------
(* Deletion: the steps of handleRepositoryDeleteMessage in their order *)

\* DELETE admin/purge enqueues, a second time if the page is sent again.
purge(r) ==
    /\ Live(r)
    /\ deletes' = deletes \cup {queuedDeletion(r)}
    /\ UNCHANGED <<row, push, r2, catalog, lease, doomed>>

advance(m, stage, keys) ==
    deletes' = (deletes \ {m}) \cup {[m EXCEPT !.stage = stage, !.keys = keys]}

\* Deleting a row that is gone is a replay, and the other steps follow as well.
deleteRow(m) ==
    /\ m \in deletes /\ m.stage = "queued"
    /\ row' = [row EXCEPT ![m.repo] = "deleted"]
    /\ doomed' = IF Live(m.repo) THEN [doomed EXCEPT ![m.repo] = catalog[m.repo]] ELSE doomed
    /\ advance(m, "list", {})
    /\ UNCHANGED <<push, r2, catalog, lease>>

\* The prefix is listed (one page); there may be nothing to delete.
deleteList(m) ==
    /\ m \in deletes /\ m.stage = "list"
    /\ advance(m, IF r2[m.repo] = {} THEN "do" ELSE "r2", r2[m.repo])
    /\ UNCHANGED <<row, push, r2, catalog, lease, doomed>>

deleteKeys(m) ==
    /\ m \in deletes /\ m.stage = "r2"
    /\ r2' = [r2 EXCEPT ![m.repo] = @ \ m.keys]
    /\ advance(m, "do", {})
    /\ UNCHANGED <<row, push, catalog, lease, doomed>>

\* clearRepositoryStorage, then the message is acknowledged, or comes back because
\* the reply or the acknowledgement was lost.
deleteObject(m) ==
    /\ m \in deletes /\ m.stage = "do"
    /\ catalog' = [catalog EXCEPT ![m.repo] = {}]
    /\ lease' = [lease EXCEPT ![m.repo] = None]
    /\ deletes' \in {deletes \ {m}, (deletes \ {m}) \cup {queuedDeletion(m.repo)}}
    /\ UNCHANGED <<row, push, r2, doomed>>

\* Mutant: a step that fails is passed over
deleteFailPasses(m) ==
    /\ m \in deletes /\ m.stage # "queued"
    /\ advance(m, "do", {})
    /\ UNCHANGED <<row, push, r2, catalog, lease, doomed>>

\* A step throws or the subrequest budget is used up: the message starts over.
deleteFail(m) ==
    /\ m \in deletes /\ m.stage # "queued"
    /\ deletes' = (deletes \ {m}) \cup {queuedDeletion(m.repo)}
    /\ UNCHANGED <<row, push, r2, catalog, lease, doomed>>

DeleteNext ==
    \E m \in deletes :
        deleteRow(m) \/ deleteList(m) \/ deleteKeys(m) \/ deleteObject(m) \/ deleteFail(m)

Next ==
    \/ \E r \in Repo : insertRepository(r) \/ purge(r)
    \/ PushNext
    \/ DeleteNext

Spec == Init /\ [][Next]_vars

-----------------------------------------------------------------------------
(* Properties *)

\* Pushes to different repositories of an owner that measure and commit at the same
\* time never take his active packs beyond either limit of his group, because each
\* staged its pack before it measured (executeReceivePipeline).
QuotaHolds ==
    /\ \A r \in Repo : Live(r) => Cardinality(catalog[r]) <= MaxRepositoryBytes
    /\ Cardinality(UNION {catalog[r] : r \in {x \in Repo : Live(x)}}) <= MaxStorageBytes

\* Once a deletion is acknowledged nothing is left of the packs the repository had
\* when its row went, whichever steps failed and were replayed.
DeletedIsErased ==
    \A r \in Repo :
        row[r] = "deleted" /\ (\A m \in deletes : m.repo # r)
            => doomed[r] \cap (r2[r] \cup catalog[r]) = {}
=============================================================================
