----------------------------- MODULE RepoSystem -----------------------------
(***************************************************************************)
(* The repository object together with what lives outside it: the R2       *)
(* bucket, the push workers, the maintenance queue with its consumers, the *)
(* R2 purge of idle cleanup, and a reader.                                 *)
(*                                                                         *)
(* A pack's artifacts (.pack, .idx, .refs) are one element of r2.  A       *)
(* worker that stops for good simply takes no further step.  Each RPC is   *)
(* one step of the object (RepoDO) together with the worker's reaction to  *)
(* its reply; a reply that never arrives is a step of its own.             *)
(***************************************************************************)
EXTENDS RepoDO

CONSTANTS
    LostReplies,     \* commit calls that may succeed and lose their reply
    OperatorRemoves, \* does the operator use DELETE /admin/pack?
    Readers,         \* are there fetches and page views?
    DELETE_DELAY,    \* COMPACTION_DELETE_DELAY_SECONDS
    MaxMessages      \* bound on compaction messages outstanding

ASSUME SystemAssumption ==
    /\ LostReplies \subseteq {"push", "compaction"}
    /\ OperatorRemoves \in BOOLEAN
    /\ Readers \in BOOLEAN
    /\ DELETE_DELAY \in Nat
    /\ MaxMessages \in Nat \ {0}

VARIABLES
    r2,         \* keys whose artifacts are in the bucket
    job,        \* per token: where the worker holding it stands
    queue,      \* compaction messages not yet acknowledged
    deletes,    \* compaction-delete messages: keys and earliest delivery
    purge,      \* purgeR2Mirror: its stage and the listed keys still to delete
    reader,     \* a request reading from a catalog snapshot
    spoiled     \* history: keys exposed to a lost commit reply or to an idle purge

sysVars == <<vars, r2, job, queue, deletes, purge, reader, spoiled>>

\* leased    a begin call was granted        aborting  about to abort the lease
\* staged    the pack and its index are in R2 deleting  about to delete the staged pack
\* dropping  about to delete the staged pack and then abort the compaction lease
\* blocked   about to clear a compaction request that cannot be served
JobState == {"none", "leased", "staged", "aborting", "deleting", "dropping", "blocked", "done"}

NoPurge == [stage |-> "off", keys |-> {}]

NoReader == [since |-> 0, keys |-> {}]

become(t, state) == job' = [job EXCEPT ![t] = state]

\* env.REPO_TASKS_QUEUE.send of a compaction message; a failed send is logged
sendCompaction == queue' \in {queue, IF queue < MaxMessages THEN queue + 1 ELSE queue}

\* Mutant: every acknowledgement takes a message off, also a redelivered one
ackedTwice == queue - 1

\* message.ack(); the message may already be gone when it was delivered twice
acked == IF queue > 0 THEN queue - 1 ELSE 0

SysInit ==
    /\ Init
    /\ r2 = {}
    /\ job = [t \in Token |-> "none"]
    /\ queue = 0
    /\ deletes = {}
    /\ purge = NoPurge
    /\ reader = NoReader
    /\ spoiled = {}

-----------------------------------------------------------------------------
(* Push workers: handleStreamingReceivePackPOST and executeReceivePipeline *)

pushBegin(t) ==
    /\ beginReceive(t)
    /\ become(t, "leased")
    /\ UNCHANGED <<r2, queue, deletes, purge, reader, spoiled>>

preflightOk(t, cmds) ==
    allValidRefNames(cmds) /\ validateReceiveCommands(grants[t].refs, cmds)

pushPreflightReject(t, cmds) ==
    /\ job[t] = "leased" /\ grants[t].kind = "receive"
    /\ ~ preflightOk(t, cmds)
    /\ abortReceive(t)
    /\ become(t, "done")
    /\ UNCHANGED <<r2, queue, deletes, purge, reader, spoiled>>

\* stagePackToR2, scanPack, resolveDeltasAndWriteIdx
pushStage(t) ==
    /\ job[t] = "leased" /\ grants[t].kind = "receive"
    /\ r2' = r2 \cup {<<"rx", t>>}
    /\ become(t, "staged")
    /\ UNCHANGED <<vars, queue, deletes, purge, reader, spoiled>>

\* stageMultipartPack, stageKnownLengthPack: the upload stops midway or has the wrong
\* digest; the catch deletes what it may have written, unless that fails too.
pushStageFail(t) ==
    /\ job[t] = "leased" /\ grants[t].kind = "receive"
    /\ r2' \in {r2, r2 \cup {<<"rx", t>>}}
    /\ become(t, "aborting")
    /\ UNCHANGED <<vars, queue, deletes, purge, reader, spoiled>>

\* Any error before finalizeReceive: abort, over quota, not connected, ...
pushFail(t) ==
    /\ job[t] \in {"leased", "staged"} /\ grants[t].kind = "receive"
    /\ become(t, "aborting")
    /\ UNCHANGED <<vars, r2, queue, deletes, purge, reader, spoiled>>

readyToFinalize(t, cmds) ==
    /\ job[t] = IF hasNonDelete(cmds) THEN "staged" ELSE "leased"
    /\ preflightOk(t, cmds)

\* Mutant: the cleanup of staged packs also runs after a commit
pushFinalizeThenCleanup(t, cmds, objs) ==
    /\ readyToFinalize(t, cmds)
    /\ finalizeReceive(t, cmds, objs)
    /\ become(t, "deleting")
    /\ UNCHANGED <<r2, queue, deletes, purge, reader, spoiled>>

pushFinalize(t, cmds, objs) ==
    /\ readyToFinalize(t, cmds)
    /\ finalizeReceive(t, cmds, objs)
    /\ IF hasNonDelete(cmds) /\ catalogNeedsCompaction(packCatalog')
       THEN sendCompaction ELSE queue' = queue
    /\ become(t, "done")
    /\ UNCHANGED <<r2, deletes, purge, reader, spoiled>>

\* The object committed, but the worker's await throws: its catch cleans up.
pushFinalizeReplyLost(t, cmds, objs) ==
    /\ "push" \in LostReplies
    /\ readyToFinalize(t, cmds)
    /\ finalizeReceive(t, cmds, objs)
    /\ become(t, "aborting")
    /\ spoiled' = spoiled \cup {<<"rx", t>>}
    /\ UNCHANGED <<r2, queue, deletes, purge, reader>>

\* A mismatch deletes the staged pack, throws, and cleans up again in the catch;
\* a conflict only deletes the staged pack.
pushFinalizeRefused(t, cmds) ==
    /\ readyToFinalize(t, cmds)
    /\ \/ finalizeReceiveMismatch(t) /\ become(t, "aborting")
       \/ finalizeReceiveConflict(t, cmds) /\ become(t, "deleting")
    /\ UNCHANGED <<r2, queue, deletes, purge, reader, spoiled>>

\* cleanupFailedReceive's abortReceiveLease, or an abort that fails
pushAbort(t) ==
    /\ job[t] = "aborting" /\ grants[t].kind # "compact"
    /\ abortReceive(t) \/ UNCHANGED vars
    /\ become(t, "deleting")
    /\ UNCHANGED <<r2, queue, deletes, purge, reader, spoiled>>

\* deleteStagedPackArtifacts; when its attempts fail the blob is left behind
deleteStagedPack(t) == r2' \in {r2, r2 \ {<<"rx", t>>, <<"cmp", t>>}}

stagedPackDelete(t) ==
    /\ job[t] = "deleting"
    /\ deleteStagedPack(t)
    /\ become(t, "done")
    /\ UNCHANGED <<vars, queue, deletes, purge, reader, spoiled>>

-----------------------------------------------------------------------------
(* The queue consumer: handleCompactionMessage *)

\* A busy receive keeps the message for a retry; any other answer acknowledges it.
consumerSkip ==
    /\ queue > 0
    /\ beginCompactionSkip
    /\ queue' = IF compactionWanted /\ activeLease(receiveLease) THEN queue ELSE acked
    /\ UNCHANGED <<r2, job, deletes, purge, reader, spoiled>>

\* The message stays outstanding until the handler acknowledges it.
consumerBegin(t) ==
    /\ queue > 0
    /\ beginCompaction(t)
    /\ become(t, "leased")
    /\ UNCHANGED <<r2, queue, deletes, purge, reader, spoiled>>

\* The snapshot needs the index of every active pack, the rewrite the sources
\* themselves; the rewritten pack is staged and indexed.
compactStage(t) ==
    /\ job[t] = "leased" /\ grants[t].kind = "compact"
    /\ Active(grants[t].catalog) \subseteq r2
    /\ r2' = r2 \cup {<<"cmp", t>>}
    /\ become(t, "staged")
    /\ UNCHANGED <<vars, queue, deletes, purge, reader, spoiled>>

\* Snapshot unavailable, source missing or rewrite failed: the lease is aborted
\* and the message retried, unless the rewrite can never succeed.
compactFail(t) ==
    /\ job[t] = "leased" /\ grants[t].kind = "compact"
    /\ abortCompaction(t) \/ UNCHANGED vars
    /\ become(t, "done") \/ become(t, "blocked")
    /\ UNCHANGED <<r2, queue, deletes, purge, reader, spoiled>>

\* clearCompactionRequestAfterBlocked, and the message is acknowledged
compactBlocked(t) ==
    /\ job[t] = "blocked"
    /\ clearCompactionRequest \/ UNCHANGED vars
    /\ queue' = acked
    /\ become(t, "done")
    /\ UNCHANGED <<r2, deletes, purge, reader, spoiled>>

\* An error after staging: the catch deletes the staged pack, then aborts
compactError(t) ==
    /\ job[t] = "staged" /\ grants[t].kind = "compact"
    /\ become(t, "dropping")
    /\ UNCHANGED <<vars, r2, queue, deletes, purge, reader, spoiled>>

compactDrop(t) ==
    /\ job[t] = "dropping"
    /\ deleteStagedPack(t)
    /\ abortCompaction(t) \/ UNCHANGED vars
    /\ become(t, "done")
    /\ UNCHANGED <<queue, deletes, purge, reader, spoiled>>

compactCommit(t, objs) ==
    /\ job[t] = "staged"
    /\ commitCompaction(t, objs)
    /\ queue' \in {acked, IF catalogNeedsCompaction(packCatalog') THEN acked + 1 ELSE acked}
    /\ deletes' \in {deletes, deletes \cup {[keys |-> grants[t].sources,
                                             notBefore |-> now + DELETE_DELAY]}}
    /\ become(t, "done")
    /\ UNCHANGED <<r2, purge, reader, spoiled>>

\* The object committed, but the consumer's await throws: its catch deletes the
\* staged pack, aborts and retries.
compactCommitReplyLost(t, objs) ==
    /\ "compaction" \in LostReplies
    /\ job[t] = "staged"
    /\ commitCompaction(t, objs)
    /\ become(t, "dropping")
    /\ spoiled' = spoiled \cup {<<"cmp", t>>}
    /\ UNCHANGED <<r2, queue, deletes, purge, reader>>

\* Mutant: the sources are scheduled for deletion although the commit was refused
compactCommitRetryDeletes(t) ==
    /\ job[t] = "staged"
    /\ commitCompactionRetry(t)
    /\ become(t, "deleting")
    /\ deletes' = deletes \cup {[keys |-> grants[t].sources, notBefore |-> now + DELETE_DELAY]}
    /\ UNCHANGED <<r2, queue, purge, reader, spoiled>>

compactCommitRetry(t) ==
    /\ job[t] = "staged"
    /\ commitCompactionRetry(t)
    /\ become(t, "deleting")
    /\ UNCHANGED <<r2, queue, deletes, purge, reader, spoiled>>

\* Mutant: the delivery delay is ignored
deleteSupersededAtOnce(m) ==
    /\ m \in deletes
    /\ r2' = r2 \ m.keys
    /\ deletes' \in {deletes, deletes \ {m}}
    /\ UNCHANGED <<vars, job, queue, purge, reader, spoiled>>

\* handleCompactionDeleteMessage: acknowledged, or delivered again
deleteSuperseded(m) ==
    /\ m \in deletes /\ m.notBefore <= now
    /\ r2' = r2 \ m.keys
    /\ deletes' \in {deletes, deletes \ {m}}
    /\ UNCHANGED <<vars, job, queue, purge, reader, spoiled>>

-----------------------------------------------------------------------------
(* The object's own steps that touch the queue or R2 *)

\* alarm() runs to its end, the purge included, before it is invoked again.
alarmRearmSystem(sent) ==
    /\ purge = NoPurge
    /\ alarmRearm(sent)
    /\ queue' = IF sent /\ queue < MaxMessages THEN queue + 1 ELSE queue
    /\ UNCHANGED <<r2, job, deletes, purge, reader, spoiled>>

\* performIdleCleanup: deleteAll, then purgeR2Mirror
alarmErase ==
    /\ purge = NoPurge
    /\ alarmEmptyIdle
    /\ purge' = [stage |-> "list", keys |-> {}]
    /\ UNCHANGED <<r2, job, queue, deletes, reader, spoiled>>

purgeList ==
    /\ purge.stage = "list"
    /\ purge' = [stage |-> "delete", keys |-> r2]
    /\ UNCHANGED <<vars, r2, job, queue, deletes, reader, spoiled>>

\* One listed key is deleted, or its delete fails and is skipped.
purgeDelete(k) ==
    /\ purge.stage = "delete" /\ k \in purge.keys
    /\ r2' \in {r2, r2 \ {k}}
    /\ purge' = [purge EXCEPT !.keys = @ \ {k}]
    /\ spoiled' = spoiled \cup {k}
    /\ UNCHANGED <<vars, job, queue, deletes, reader>>

purgeEnd ==
    /\ purge.stage = "delete" /\ purge.keys = {}
    /\ purge' = NoPurge
    /\ UNCHANGED <<vars, r2, job, queue, deletes, reader, spoiled>>

\* A reader does not count on a pack the operator removes meanwhile.
removePackSystem(k) ==
    /\ OperatorRemoves
    /\ \/ removePackCheck(k) /\ r2' = r2 /\ reader' = reader
       \/ /\ removePackRow(k)
          /\ r2' \in {r2, r2 \ {k}}
          /\ reader' = [reader EXCEPT !.keys = @ \ {k}]
    /\ UNCHANGED <<job, queue, deletes, purge, spoiled>>

\* POST admin/compact: a recorded request is sent to the queue after the answer.
operatorRequest ==
    /\ requestCompaction
    /\ IF compactionWanted' THEN sendCompaction ELSE queue' = queue
    /\ UNCHANGED <<r2, job, deletes, purge, reader, spoiled>>

\* Steps of the object nobody outside reacts to.  HEAD, the stamp in memory and an
\* operator who clears the request, as compactBlocked does, are left to RepoDO.
objectAlone ==
    /\ \/ beginReceiveBusy \/ tick
       \/ \E newRefs \in AdminRefs : setRefs(newRefs)
       \/ purge = NoPurge /\ (alarmActive \/ alarmNonEmptyIdle)
    /\ UNCHANGED <<r2, job, queue, deletes, purge, reader, spoiled>>

\* A fetch or a page view: getActivePackCatalog, then reads of those packs
readerBegin ==
    /\ Readers /\ reader = NoReader
    /\ read
    /\ reader' = [since |-> now, keys |-> Active(packCatalog)]
    /\ UNCHANGED <<r2, job, queue, deletes, purge, spoiled>>

readerEnd ==
    /\ reader # NoReader
    /\ reader' = NoReader
    /\ UNCHANGED <<vars, r2, job, queue, deletes, purge, spoiled>>

PushNext ==
    \E t \in Token :
        \/ pushBegin(t) \/ pushStage(t) \/ pushStageFail(t)
        \/ pushFail(t) \/ pushAbort(t) \/ stagedPackDelete(t)
        \/ \E cmds \in CommandLists :
               \/ pushPreflightReject(t, cmds)
               \/ pushFinalizeRefused(t, cmds)
               \/ \E objs \in StagedObjects :
                      pushFinalize(t, cmds, objs) \/ pushFinalizeReplyLost(t, cmds, objs)

ConsumerNext ==
    \/ consumerSkip
    \/ \E t \in Token :
           \/ consumerBegin(t) \/ compactStage(t) \/ compactFail(t) \/ compactBlocked(t)
           \/ compactError(t) \/ compactDrop(t) \/ compactCommitRetry(t)
           \/ \E objs \in SUBSET Object :
                  compactCommit(t, objs) \/ compactCommitReplyLost(t, objs)
    \/ \E m \in deletes : deleteSuperseded(m)

ObjectNext ==
    \/ \E sent \in BOOLEAN : alarmRearmSystem(sent)
    \/ alarmErase \/ purgeList \/ purgeEnd
    \/ \E k \in PackKey : purgeDelete(k) \/ removePackSystem(k)
    \/ operatorRequest \/ objectAlone
    \/ readerBegin \/ readerEnd

SysNext == PushNext \/ ConsumerNext \/ ObjectNext

SysSpec == SysInit /\ [][SysNext]_sysVars

-----------------------------------------------------------------------------
(* Properties *)

\* Callers, queues and R2 have their types; a message is acknowledged once.
SysTypeOK ==
    /\ r2 \subseteq PackKey
    /\ job \in [Token -> JobState]
    /\ queue \in 0 .. MaxMessages
    /\ deletes \subseteq [keys : SUBSET PackKey, notBefore : Nat]
    /\ purge \in [stage : {"off", "list", "delete"}, keys : SUBSET PackKey]
    /\ reader \in [since : Nat, keys : SUBSET PackKey]
    /\ spoiled \subseteq PackKey

\* Every pack the catalog lists as active is in the bucket: a cleanup that fails or is
\* retried "must never affect correctness" (docs/streaming-push.md).
ActivePacksStored == Active(packCatalog) \subseteq r2

\* No cleanup of a failed push or compaction, no delayed delete of superseded packs and no
\* operator removal takes away a pack that is active, in any order and with any retry:
\* only a commit whose reply was lost and the purge of idle cleanup can.
OnlyFaultsLosePacks == Active(packCatalog) \subseteq r2 \cup spoiled

\* A pending compaction-delete message never names a pack that is active, however
\* late it is delivered and whatever was lost, retried or erased in between.
DeletesSpareActivePacks == \A m \in deletes : m.keys \cap Active(packCatalog) = {}

\* A reader that works from the catalog it was given finds every pack for as long
\* as compaction-delete waits, however compactions overlap with it.
ReaderFindsPacks ==
    reader # NoReader /\ now < reader.since + DELETE_DELAY =>
        reader.keys \subseteq r2 \cup spoiled
=============================================================================
