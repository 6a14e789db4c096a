------------------------------- MODULE RepoDO -------------------------------
(***************************************************************************)
(* The repository Durable Object: refs, HEAD, the pack catalog, the        *)
(* receive and compaction leases and the alarm, and every RPC and alarm    *)
(* outcome that changes them.                                              *)
(*                                                                         *)
(* One handler is one action.  Awaiting the object's own storage keeps its *)
(* input gate closed, so a handler that awaits nothing else runs without   *)
(* interleaving; removePack awaits R2 between reading the row and deleting *)
(* it, and is two actions.  Every RPC first runs ensureAccessAndAlarm.     *)
(*                                                                         *)
(* The callers are the environment: a caller finalizes, commits or aborts  *)
(* with what its own begin call returned, kept here in grants.             *)
(* Times are in abstract units, 0 standing for an absent timestamp.        *)
(***************************************************************************)
EXTENDS GitRefs, PackCatalog

CONSTANTS
    CommandLists,            \* ref command lists clients send
    StagedObjects,           \* contents a pushed pack may have
    AdminRefs,               \* refs maps PUT /admin/refs may send
    AdminHeads,              \* heads PUT /admin/head may send
    AdminOid,                \* oids PUT /admin/refs may name unchecked
    RECEIVE_LEASE_TTL,
    COMPACT_LEASE_TTL,
    COMPACTION_REARM_DELAY,
    COMPACTION_WAKE_DELAY,
    ACCESS_THROTTLE,         \* the 60 s between two lastAccessMs writes
    IDLE,                    \* idleMs
    CLAMP,                   \* the 5 ms of ensureScheduled
    MaxNow                   \* bound on the clock

ASSUME RepoAssumption ==
    /\ CommandLists \subseteq Seq(Command)
    /\ Oid \subseteq Object
    /\ StagedObjects \subseteq SUBSET Object
    /\ AdminRefs \subseteq Refs
    /\ AdminHeads \subseteq HeadState
    /\ AdminOid \subseteq Oid
    /\ RECEIVE_LEASE_TTL \in Nat \ {0}
    /\ COMPACT_LEASE_TTL \in Nat \ {0}
    /\ COMPACTION_REARM_DELAY \in Nat \ {0}
    /\ COMPACTION_WAKE_DELAY \in Nat \ {0}
    /\ ACCESS_THROTTLE \in Nat
    /\ IDLE \in Nat \ {0}
    /\ CLAMP \in Nat
    /\ MaxNow \in Nat

VARIABLES
    now,                 \* Date.now()
    refs, head, refsVersion,
    packCatalog, packsetVersion, nextPackSeq,
    receiveLease, compactLease,
    compactionWanted,    \* compactionWantedAt is set
    lastAccessMs,        \* in storage
    lastAccessMemMs,     \* in the instance's memory
    alarm,
    issued,              \* tokens randomUUID has returned
    grants,              \* per token, the begin result its caller still holds
    removing             \* removePack calls awaiting R2

refVars     == <<refs, head, refsVersion>>
packVars    == <<packCatalog, packsetVersion, nextPackSeq>>
leaseVars   == <<receiveLease, compactLease>>
accessVars  == <<lastAccessMs, lastAccessMemMs, alarm>>
callerVars  == <<issued, grants>>
vars == <<now, refVars, packVars, leaseVars, compactionWanted, accessVars,
          callerVars, removing>>

-----------------------------------------------------------------------------
(* Leases *)

Lease == [token : Token \cup {NoToken}, expiresAt : Nat]

NoLease == [token |-> NoToken, expiresAt |-> 0]

activeLease(lease) == lease.expiresAt > now

clearExpired(lease) == IF activeLease(lease) THEN lease ELSE NoLease

clearExpiredLeases ==
    /\ receiveLease' = clearExpired(receiveLease)
    /\ compactLease' = clearExpired(compactLease)

\* activeCatalog, as begin calls return it
ActiveView(cat) == [k \in PackKey |-> IF k \in Active(cat) THEN cat[k] ELSE NoRow]

Grant == [kind    : {"none", "receive", "compact"},
          refs    : Refs,
          catalog : Catalog,
          version : Nat,
          sources : SUBSET PackKey,
          tier    : Nat]

NoGrant == [kind |-> "none", refs |-> NoRefs, catalog |-> EmptyCatalog,
            version |-> 0, sources |-> {}, tier |-> 0]

receiveGrant ==
    [NoGrant EXCEPT !.kind = "receive", !.refs = refs,
                    !.catalog = ActiveView(packCatalog), !.version = packsetVersion]

compactionGrant ==
    [NoGrant EXCEPT !.kind = "compact",
                    !.catalog = ActiveView(packCatalog), !.version = packsetVersion,
                    !.sources = planSources(packCatalog), !.tier = planTier(packCatalog) + 1]

-----------------------------------------------------------------------------
(* The alarm and the access stamp *)

touchDue == lastAccessMemMs = 0 \/ now - lastAccessMemMs >= ACCESS_THROTTLE

touchedAccessMs == IF touchDue THEN now ELSE lastAccessMs

nextIdleAt(access) == (IF access = 0 THEN now ELSE access) + IDLE

planNextAlarm(access) ==
    IF activeLease(receiveLease) THEN receiveLease.expiresAt
    ELSE IF activeLease(compactLease) THEN compactLease.expiresAt
    ELSE IF compactionWanted THEN now + COMPACTION_REARM_DELAY
    ELSE IF nextIdleAt(access) <= now THEN now + IDLE ELSE nextIdleAt(access)

scheduleAlarmIfSooner(prev, when) ==
    IF prev = 0 \/ prev < now \/ prev > when THEN when ELSE prev

ensureScheduled(prev, access) ==
    LET when == planNextAlarm(access)
    IN  scheduleAlarmIfSooner(prev, IF when < now + CLAMP THEN now + CLAMP ELSE when)

touchedAlarm == ensureScheduled(alarm, touchedAccessMs)

\* The alarm after ensureAccessAndAlarm and a scheduleCompactionWake
wokenAlarm == scheduleAlarmIfSooner(touchedAlarm, now + COMPACTION_WAKE_DELAY)

touch ==
    /\ lastAccessMs' = touchedAccessMs
    /\ lastAccessMemMs' = IF touchDue THEN now ELSE lastAccessMemMs

ensureAccessAndAlarm == touch /\ alarm' = touchedAlarm

\* A push or a compaction that leaves the catalog overflowing records the
\* request and wakes the alarm; compaction also drops a satisfied request.
wakeIfNeeded(cat) ==
    alarm' = IF catalogNeedsCompaction(cat) THEN wokenAlarm ELSE touchedAlarm

-----------------------------------------------------------------------------
Init ==
    /\ now = 1
    /\ refs = NoRefs /\ head = DEFAULT_HEAD /\ refsVersion = 0
    /\ packCatalog = EmptyCatalog /\ packsetVersion = 0 /\ nextPackSeq = 1
    /\ receiveLease = NoLease /\ compactLease = NoLease
    /\ compactionWanted = FALSE
    /\ lastAccessMs = 0 /\ lastAccessMemMs = 0 /\ alarm = 0
    /\ issued = {} /\ grants = [t \in Token |-> NoGrant]
    /\ removing = {}

-----------------------------------------------------------------------------
(* Receive *)

beginReceiveBusy ==
    /\ activeLease(receiveLease)
    /\ clearExpiredLeases
    /\ ensureAccessAndAlarm
    /\ UNCHANGED <<now, refVars, packVars, compactionWanted, callerVars, removing>>

beginReceive(t) ==
    /\ t \notin issued
    /\ ~ activeLease(receiveLease)
    /\ receiveLease' = [token |-> t, expiresAt |-> now + RECEIVE_LEASE_TTL]
    /\ compactLease' = clearExpired(compactLease)
    /\ issued' = issued \cup {t}
    /\ grants' = [grants EXCEPT ![t] = receiveGrant]
    /\ ensureAccessAndAlarm
    /\ UNCHANGED <<now, refVars, packVars, compactionWanted, removing>>

\* The caller may abort long after the lease is gone; only its own token counts.
abortReceive(t) ==
    /\ t \in issued /\ grants[t].kind # "compact"
    /\ receiveLease' = IF receiveLease.token = t THEN NoLease ELSE receiveLease
    /\ grants' = [grants EXCEPT ![t] = NoGrant]
    /\ ensureAccessAndAlarm
    /\ UNCHANGED <<now, refVars, packVars, compactLease, compactionWanted, issued, removing>>

finalizeReceiveMismatch(t) ==
    /\ grants[t].kind = "receive"
    /\ receiveLease.token # t
    /\ grants' = [grants EXCEPT ![t] = NoGrant]
    /\ ensureAccessAndAlarm
    /\ UNCHANGED <<now, refVars, packVars, leaseVars, compactionWanted, issued, removing>>

finalizeReceiveConflict(t, cmds) ==
    /\ grants[t].kind = "receive"
    /\ receiveLease.token = t
    /\ ~ (allValidRefNames(cmds) /\ validateReceiveCommands(refs, cmds))
    /\ receiveLease' = NoLease
    /\ grants' = [grants EXCEPT ![t] = NoGrant]
    /\ ensureAccessAndAlarm
    /\ UNCHANGED <<now, refVars, packVars, compactLease, compactionWanted, issued, removing>>

\* What runPackConnectivityCheck established before the call: every new tip is
\* in the staged pack or in a pack that was active when the lease was granted.
\* Mutant: tips that only exist as ref values pass
connectedUnchecked(t, cmds, objs) == newTips(cmds) \subseteq Oid

connected(t, cmds, objs) == newTips(cmds) \subseteq objs \cup ActiveObjects(grants[t].catalog)

\* Mutant: the overflow is only reported to the caller, not recorded
commitReceivedPackUnrecorded(t, objs) ==
    /\ packCatalog' = [packCatalog EXCEPT ![<<"rx", t>>] = ReceiveRow(nextPackSeq, objs)]
    /\ nextPackSeq' = nextPackSeq + 1
    /\ packsetVersion' = packsetVersion + 1
    /\ UNCHANGED compactionWanted
    /\ wakeIfNeeded(packCatalog')

\* Mutant: the pack's row is not inserted
commitReceivedPackRowless(t, objs) ==
    /\ nextPackSeq' = nextPackSeq + 1
    /\ packsetVersion' = packsetVersion + 1
    /\ alarm' = touchedAlarm
    /\ UNCHANGED <<packCatalog, compactionWanted>>

commitReceivedPack(t, objs) ==
    /\ packCatalog' = [packCatalog EXCEPT ![<<"rx", t>>] = ReceiveRow(nextPackSeq, objs)]
    /\ nextPackSeq' = nextPackSeq + 1
    /\ packsetVersion' = packsetVersion + 1
    /\ compactionWanted' = (compactionWanted \/ catalogNeedsCompaction(packCatalog'))
    /\ wakeIfNeeded(packCatalog')

finalizeReceive(t, cmds, objs) ==
    /\ grants[t].kind = "receive"
    /\ receiveLease.token = t
    /\ allValidRefNames(cmds) /\ validateReceiveCommands(refs, cmds)
    /\ connected(t, cmds, objs)
    /\ IF hasNonDelete(cmds)
       THEN commitReceivedPack(t, objs)
       ELSE UNCHANGED <<packVars, compactionWanted>> /\ alarm' = touchedAlarm
    /\ refs' = applyReceiveCommands(refs, cmds)
    /\ head' = resolveHead(head, refs')
    /\ refsVersion' = refsVersion + 1
    /\ receiveLease' = NoLease
    /\ grants' = [grants EXCEPT ![t] = NoGrant]
    /\ touch
    /\ UNCHANGED <<now, compactLease, issued, removing>>

-----------------------------------------------------------------------------
(* Compaction *)

\* No lease stands in the way of a recorded request.
compactionDue ==
    compactionWanted /\ ~ activeLease(receiveLease) /\ ~ activeLease(compactLease)

\* Nothing is granted: no request, a lease in the way, or a catalog already
\* within the policy, in which case the request is dropped.
beginCompactionSkip ==
    /\ ~ compactionDue \/ ~ catalogNeedsCompaction(packCatalog)
    /\ compactionWanted' = (compactionWanted /\ ~ compactionDue)
    /\ clearExpiredLeases
    /\ ensureAccessAndAlarm
    /\ UNCHANGED <<now, refVars, packVars, callerVars, removing>>

beginCompaction(t) ==
    /\ t \notin issued
    /\ compactionDue
    /\ catalogNeedsCompaction(packCatalog)
    /\ receiveLease' = NoLease
    /\ compactLease' = [token |-> t, expiresAt |-> now + COMPACT_LEASE_TTL]
    /\ issued' = issued \cup {t}
    /\ grants' = [grants EXCEPT ![t] = compactionGrant]
    /\ ensureAccessAndAlarm
    /\ UNCHANGED <<now, refVars, packVars, compactionWanted, removing>>

abortCompaction(t) ==
    /\ t \in issued /\ grants[t].kind # "receive"
    /\ compactLease' = IF compactLease.token = t THEN NoLease ELSE compactLease
    /\ grants' = [grants EXCEPT ![t] = NoGrant]
    /\ ensureAccessAndAlarm
    /\ UNCHANGED <<now, refVars, packVars, receiveLease, compactionWanted, issued, removing>>

\* The conditions under which commitCompactionState accepts, the lease apart
\* Mutant: a running push does not stop the commit
commitAllowedDuringReceive(t) ==
    /\ packsetVersion = grants[t].version
    /\ rowsMatchForCommit(packCatalog, grants[t].catalog, grants[t].sources)

commitAllowed(t) ==
    /\ ~ activeLease(receiveLease)
    /\ packsetVersion = grants[t].version
    /\ rowsMatchForCommit(packCatalog, grants[t].catalog, grants[t].sources)

\* status "retry": a stale token leaves the lease alone, the other reasons drop it
commitCompactionRetry(t) ==
    /\ grants[t].kind = "compact"
    /\ compactLease.token # t \/ ~ commitAllowed(t)
    /\ compactLease' = IF compactLease.token = t THEN NoLease ELSE compactLease
    /\ grants' = [grants EXCEPT ![t] = NoGrant]
    /\ ensureAccessAndAlarm
    /\ UNCHANGED <<now, refVars, packVars, receiveLease, compactionWanted, issued, removing>>

\* What the rewrite established: the target pack holds every object of the
\* sources, and besides them only delta bases found in other active packs.
\* Mutant: objects of the sources may be left out of the target
rewrittenPartly(t, objs) == objs \subseteq ActiveObjects(grants[t].catalog)

rewritten(t, objs) ==
    /\ UNION {grants[t].catalog[k].objs : k \in grants[t].sources} \subseteq objs
    /\ objs \subseteq ActiveObjects(grants[t].catalog)

commitCompaction(t, objs) ==
    LET g == grants[t]
        target == <<"cmp", t>>
        row == CompactRow(g.catalog, g.sources, g.tier, objs)
    IN  /\ g.kind = "compact"
        /\ compactLease.token = t
        /\ commitAllowed(t)
        /\ rewritten(t, objs)
        /\ packCatalog' = Supersede([packCatalog EXCEPT ![target] = row], g.sources, target)
        /\ packsetVersion' = packsetVersion + 1
        /\ compactionWanted' = catalogNeedsCompaction(packCatalog')
        /\ wakeIfNeeded(packCatalog')
        /\ compactLease' = NoLease
        /\ grants' = [grants EXCEPT ![t] = NoGrant]
        /\ touch
        /\ UNCHANGED <<now, refVars, nextPackSeq, receiveLease, issued, removing>>

requestCompaction ==
    /\ compactionWanted' = catalogNeedsCompaction(packCatalog)
    /\ wakeIfNeeded(packCatalog)
    /\ touch
    /\ UNCHANGED <<now, refVars, packVars, leaseVars, callerVars, removing>>

clearCompactionRequest ==
    /\ compactionWanted' = FALSE
    /\ ensureAccessAndAlarm
    /\ UNCHANGED <<now, refVars, packVars, leaseVars, callerVars, removing>>

-----------------------------------------------------------------------------
(* Refs, HEAD and packs through the admin routes; reads *)

\* listRefs, getActivePackCatalog, getRepoActivity, previewCompaction, the
\* debug calls, and a removePack that is rejected
read ==
    /\ ensureAccessAndAlarm
    /\ UNCHANGED <<now, refVars, packVars, leaseVars, compactionWanted, callerVars, removing>>

getHead ==
    /\ head' = resolveHead(head, refs)
    /\ ensureAccessAndAlarm
    /\ UNCHANGED <<now, refs, refsVersion, packVars, leaseVars, compactionWanted,
                   callerVars, removing>>

setRefs(newRefs) ==
    /\ \A r \in RefName : newRefs[r] \in AdminOid \cup {ZeroOid} \cup ActiveObjects(packCatalog)
    /\ refs' = newRefs
    /\ ensureAccessAndAlarm
    /\ UNCHANGED <<now, head, refsVersion, packVars, leaseVars, compactionWanted,
                   callerVars, removing>>

setHead(newHead) ==
    /\ head' = newHead
    /\ ensureAccessAndAlarm
    /\ UNCHANGED <<now, refs, refsVersion, packVars, leaseVars, compactionWanted,
                   callerVars, removing>>

\* Mutant: any pack in the catalog may be removed
removePackCheckAnyState(k) ==
    /\ packCatalog[k].state # "none"
    /\ removing' = removing \cup {k}
    /\ ensureAccessAndAlarm
    /\ UNCHANGED <<now, refVars, packVars, leaseVars, compactionWanted, callerVars>>

\* removePack up to its first R2 delete
removePackCheck(k) ==
    /\ packCatalog[k].state = "superseded"
    /\ removing' = removing \cup {k}
    /\ ensureAccessAndAlarm
    /\ UNCHANGED <<now, refVars, packVars, leaseVars, compactionWanted, callerVars>>

\* removePack after the R2 deletes: the row goes, whatever it is by then
removePackRow(k) ==
    /\ k \in removing
    /\ removing' = removing \ {k}
    /\ packCatalog' = [packCatalog EXCEPT ![k] = NoRow]
    /\ UNCHANGED <<now, refVars, packsetVersion, nextPackSeq, leaseVars, compactionWanted,
                   accessVars, callerVars>>

\* Mutant: a cleanup key by key that forgets the compaction request
deleteAllButRequest ==
    /\ refs' = NoRefs /\ head' = DEFAULT_HEAD /\ refsVersion' = 0
    /\ packCatalog' = EmptyCatalog /\ packsetVersion' = 0 /\ nextPackSeq' = 1
    /\ receiveLease' = NoLease /\ compactLease' = NoLease
    /\ UNCHANGED compactionWanted
    /\ lastAccessMs' = 0 /\ alarm' = 0

\* Mutant: an absent nextPackSeq is read as 0
deleteAllWithoutDefaults ==
    /\ refs' = NoRefs /\ head' = DEFAULT_HEAD /\ refsVersion' = 0
    /\ packCatalog' = EmptyCatalog /\ packsetVersion' = 0 /\ nextPackSeq' = 0
    /\ receiveLease' = NoLease /\ compactLease' = NoLease
    /\ compactionWanted' = FALSE
    /\ lastAccessMs' = 0 /\ alarm' = 0

\* ctx.storage.deleteAll(), with the defaults ensureRepoMetadataDefaults restores: the instance's memory survives it
deleteAll ==
    /\ refs' = NoRefs /\ head' = DEFAULT_HEAD /\ refsVersion' = 0
    /\ packCatalog' = EmptyCatalog /\ packsetVersion' = 0 /\ nextPackSeq' = 1
    /\ receiveLease' = NoLease /\ compactLease' = NoLease
    /\ compactionWanted' = FALSE
    /\ lastAccessMs' = 0 /\ alarm' = 0

clearRepositoryStorage ==
    /\ deleteAll
    /\ UNCHANGED <<now, lastAccessMemMs, callerVars, removing>>

-----------------------------------------------------------------------------
(* alarm() *)

alarmDue == alarm # 0 /\ alarm <= now

idleExceeded == lastAccessMs = 0 \/ now - lastAccessMs >= IDLE

looksEmpty == refs = NoRefs /\ head.oid = ZeroOid /\ Active(packCatalog) = {}

alarmRearm(sent) ==
    /\ alarmDue /\ compactionDue
    /\ clearExpiredLeases
    /\ alarm' = IF sent THEN 0 ELSE now + COMPACTION_REARM_DELAY
    /\ UNCHANGED <<now, refVars, packVars, compactionWanted, lastAccessMs, lastAccessMemMs,
                   callerVars, removing>>

alarmActive ==
    /\ alarmDue /\ ~ compactionDue /\ ~ idleExceeded
    /\ clearExpiredLeases
    /\ alarm' = ensureScheduled(0, lastAccessMs)
    /\ UNCHANGED <<now, refVars, packVars, compactionWanted, lastAccessMs, lastAccessMemMs,
                   callerVars, removing>>

idleCleanupDue == alarmDue /\ ~ compactionDue /\ idleExceeded /\ looksEmpty

alarmEmptyIdle ==
    /\ idleCleanupDue
    /\ deleteAll
    /\ UNCHANGED <<now, lastAccessMemMs, callerVars, removing>>

alarmNonEmptyIdle ==
    /\ alarmDue /\ ~ compactionDue /\ idleExceeded /\ ~ looksEmpty
    /\ clearExpiredLeases
    /\ alarm' = 0
    /\ UNCHANGED <<now, refVars, packVars, compactionWanted, lastAccessMs, lastAccessMemMs,
                   callerVars, removing>>

\* Eviction and re-construction: the constructor reloads the access stamp.
\* A removePack in flight dies with the instance.
restart ==
    /\ lastAccessMemMs' = lastAccessMs
    /\ removing' = {}
    /\ UNCHANGED <<now, refVars, packVars, leaseVars, compactionWanted, lastAccessMs, alarm,
                   callerVars>>

tick ==
    /\ now < MaxNow
    /\ now' = now + 1
    /\ UNCHANGED <<refVars, packVars, leaseVars, compactionWanted, accessVars, callerVars,
                   removing>>

-----------------------------------------------------------------------------
ReceiveNext ==
    \/ beginReceiveBusy
    \/ \E t \in Token : beginReceive(t)
    \/ \E t \in Token : abortReceive(t)
    \/ \E t \in Token : finalizeReceiveMismatch(t)
    \/ \E t \in Token, cmds \in CommandLists : finalizeReceiveConflict(t, cmds)
    \/ \E t \in Token, cmds \in CommandLists, objs \in StagedObjects :
           finalizeReceive(t, cmds, objs)

CompactionNext ==
    \/ beginCompactionSkip
    \/ \E t \in Token : beginCompaction(t)
    \/ \E t \in Token : abortCompaction(t)
    \/ \E t \in Token : commitCompactionRetry(t)
    \/ \E t \in Token, objs \in SUBSET Object : commitCompaction(t, objs)
    \/ requestCompaction
    \/ clearCompactionRequest

AdminNext ==
    \/ read
    \/ getHead
    \/ \E newRefs \in AdminRefs : setRefs(newRefs)
    \/ \E newHead \in AdminHeads : setHead(newHead)
    \/ \E k \in PackKey : removePackCheck(k)
    \/ \E k \in PackKey : removePackRow(k)
    \/ clearRepositoryStorage

AlarmNext ==
    \/ \E sent \in BOOLEAN : alarmRearm(sent)
    \/ alarmActive
    \/ alarmEmptyIdle
    \/ alarmNonEmptyIdle

Next == ReceiveNext \/ CompactionNext \/ AdminNext \/ AlarmNext \/ restart \/ tick

Spec == Init /\ [][Next]_vars
-----------------------------------------------------------------------------
(* Properties *)

\* Every column of the object has its type, after any sequence of calls.
TypeOK ==
    /\ now \in Nat \ {0}
    /\ refs \in Refs /\ head \in HeadState /\ refsVersion \in Nat
    /\ packCatalog \in Catalog /\ packsetVersion \in Nat /\ nextPackSeq \in Nat \ {0}
    /\ receiveLease \in Lease /\ compactLease \in Lease
    /\ compactionWanted \in BOOLEAN
    /\ lastAccessMs \in Nat /\ lastAccessMemMs \in Nat /\ alarm \in Nat
    /\ issued \subseteq Token /\ grants \in [Token -> Grant]
    /\ removing \subseteq PackKey

\* Active packs represent a disjoint cover of the receive-sequence numbers
\* handed out so far (docs/streaming-push.md): finalizeReceive's numbering and
\* commitCompaction's merge of ranges lose none and count none twice, whatever
\* leases expire, and whatever is removed, in between.
DisjointCover == Covers(packCatalog, nextPackSeq) /\ Separate(packCatalog)

\* A pack in a higher tier is older than every pack in a lower tier, so the
\* newest-first order by seqHi that readers use never puts a compacted pack
\* before one it did not replace.
TierOrder == Layered(packCatalog)

\* While a receive lease is unexpired, the active catalog is the one its holder
\* was given: no compaction commits, and no other push, under a running push,
\* although beginReceive does not look at the compaction lease.
ReceiveSnapshotStable ==
    activeLease(receiveLease) =>
        LET g == grants[receiveLease.token]
        IN  g.kind = "receive" => g.catalog = ActiveView(packCatalog)

\* Every ref a push has set points at an object in an active pack, through
\* compactions, expired leases finalized late, pack removal and erasure; only
\* the operator's PUT /admin/refs can name an object nobody holds.
RefsResolve ==
    \A r \in RefName : refs[r] \in {ZeroOid} \cup AdminOid \cup ActiveObjects(packCatalog)

\* What compaction superseded is redundant, so deleting its R2 artifacts
\* (compaction-delete) and its row (removePack) loses no object.
SupersededIsRedundant ==
    \A k \in PackKey :
        packCatalog[k].state = "superseded" => packCatalog[k].objs \subseteq ActiveObjects(packCatalog)

\* The need for compaction is never lost: from the step that makes a tier
\* overflow until the step that resolves it the request stays recorded, unless
\* someone clears it (clearCompactionRequest).
NeedStaysRecorded ==
    [][ catalogNeedsCompaction(packCatalog)' /\ ~ compactionWanted' =>
            \/ catalogNeedsCompaction(packCatalog) /\ ~ compactionWanted
            \/ clearCompactionRequest ]_vars

\* A recorded request is never stale: it is set only by steps that see a tier
\* overflow and dropped by the commit that resolves it, so a consumer that finds
\* one always finds a plan and the below-threshold answer is never given.
RequestIsReal == compactionWanted => catalogNeedsCompaction(packCatalog)

Erased == refs' = NoRefs /\ packCatalog' = EmptyCatalog

\* No step other than erasing the repository takes an object out of the active
\* packs, or moves the version that guards a compaction backwards.
ObjectsAreKept ==
    [][ \/ Erased
        \/ /\ ActiveObjects(packCatalog) \subseteq ActiveObjects(packCatalog)'
           /\ packsetVersion <= packsetVersion' ]_vars

-----------------------------------------------------------------------------
\* The object implements the abstract repository: a compaction, an expired
\* lease, an alarm, a restart or a refused push is invisible to its users, and
\* every committed push is one atomic compare-and-swap of the refs.
Repo == INSTANCE GitRepo WITH objects <- ActiveObjects(packCatalog)

ImplementsGitRepo == Repo!Spec
=============================================================================
