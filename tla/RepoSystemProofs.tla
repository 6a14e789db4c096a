-------------------------- MODULE RepoSystemProofs --------------------------
(***************************************************************************)
(* Theorems about the packs in the bucket, for every number of pushes,     *)
(* compactions, lost replies, late deliveries and purges: cleanups and     *)
(* delayed deletes spare what the catalog and its readers count on.        *)
(***************************************************************************)
EXTENDS RepoSystem, RepoDOProofs

-----------------------------------------------------------------------------
(***************************************************************************)
(* The inductive invariant.  A token is issued once and commits once, so a *)
(* key that ever was in the catalog is spent: it never becomes active      *)
(* again.  Everything the workers delete is either spent and superseded,   *)
(* or the pack of a worker that gave up before it committed.               *)
(***************************************************************************)
Spent(t) == t \in issued /\ grants[t].kind = "none"

Cleaning == {"aborting", "deleting", "dropping"}

SpentKeys ==
    \A k \in PackKey :
        \/ packCatalog[k].state # "none"
        \/ k \in removing
        \/ k \in reader.keys
        \/ \E m \in deletes : k \in m.keys
        => Spent(k[2])

\* A delete message is about no active pack, and about a pack of a reader only once the
\* reader's time is over.
Sparing ==
    /\ reader.since <= now
    /\ \A m \in deletes :
           /\ m.keys \cap Active(packCatalog) = {}
           /\ m.keys \cap reader.keys # {} => m.notBefore >= reader.since + DELETE_DELAY

\* The pack a worker is about to commit
Staged(t) == IF grants[t].kind = "receive" THEN <<"rx", t>> ELSE <<"cmp", t>>

Stored ==
    /\ Active(packCatalog) \subseteq r2 \cup spoiled
    /\ now < reader.since + DELETE_DELAY => reader.keys \subseteq r2 \cup spoiled
    /\ \A t \in Token : job[t] = "staged" /\ grants[t].kind # "none" =>
           Staged(t) \in r2 \cup spoiled

\* Who cleans up has nothing that counts, unless the reply of its commit was lost.
CleanupSpares ==
    \A t \in Token : job[t] \in Cleaning =>
        {<<"rx", t>>, <<"cmp", t>>} \cap (Active(packCatalog) \cup reader.keys) \subseteq spoiled

\* Workers hold tokens that begin calls handed out.
Workers == \A t \in Token : job[t] # "none" => t \in issued

BucketInv == Workers /\ SpentKeys /\ Sparing /\ Stored /\ CleanupSpares

SysIInv == IInv /\ SysTypeOK /\ BucketInv

-----------------------------------------------------------------------------
(* Tokens and keys *)

LEMMA KeyOfToken ==
    /\ \A k \in PackKey : k[2] \in Token /\ k \in {<<"rx", k[2]>>, <<"cmp", k[2]>>}
    /\ \A t \in Token : /\ <<"rx", t>> \in PackKey /\ <<"rx", t>>[2] = t
                        /\ <<"cmp", t>> \in PackKey /\ <<"cmp", t>>[2] = t
BY DEF PackKey

\* A token that was issued keeps its grant or loses it, and gets no other.
LEMMA TokenStep ==
    ASSUME IInv, [Next]_vars, NEW t \in Token, t \in issued
    PROVE  t \in issued' /\ grants'[t] \in {grants[t], NoGrant}
<1> USE DEF callerVars
<1>1. GrantMayGo => grants'[t] \in {grants[t], NoGrant}
  BY GrantGoes DEF IInv
<1>2. ASSUME NEW u \in Token, beginReceive(u) \/ beginCompaction(u)
      PROVE  t \in issued' /\ grants'[t] \in {grants[t], NoGrant}
  BY <1>2 DEF beginReceive, beginCompaction, IInv, TypeOK
<1>3. ASSUME clearRepositoryStorage \/ alarmEmptyIdle
      PROVE  t \in issued' /\ grants'[t] \in {grants[t], NoGrant}
  BY <1>3 DEF clearRepositoryStorage, alarmEmptyIdle
<1>4. ASSUME ReceiveNext, ~ \E u \in Token : beginReceive(u)
      PROVE  issued' = issued /\ GrantMayGo
  BY <1>4 DEF ReceiveNext, beginReceiveBusy, abortReceive, finalizeReceiveMismatch,
              finalizeReceiveConflict, finalizeReceive, GrantMayGo
<1>5. ASSUME CompactionNext, ~ \E u \in Token : beginCompaction(u)
      PROVE  issued' = issued /\ GrantMayGo
  BY <1>5 DEF CompactionNext, beginCompactionSkip, abortCompaction, commitCompactionRetry,
              commitCompaction, requestCompaction, clearCompactionRequest, GrantMayGo
<1>6. ASSUME AdminNext, ~ clearRepositoryStorage PROVE issued' = issued /\ GrantMayGo
  BY <1>6 DEF AdminNext, read, getHead, setRefs, setHead, removePackCheck, removePackRow, GrantMayGo
<1>7. ASSUME AlarmNext, ~ alarmEmptyIdle PROVE issued' = issued /\ GrantMayGo
  BY <1>7 DEF AlarmNext, alarmRearm, alarmActive, alarmNonEmptyIdle, GrantMayGo
<1>8. ASSUME restart \/ tick \/ UNCHANGED vars PROVE issued' = issued /\ GrantMayGo
  BY <1>8 DEF restart, tick, vars, GrantMayGo
<1> QED
  BY <1>1, <1>2, <1>3, <1>4, <1>5, <1>6, <1>7, <1>8 DEF Next

LEMMA SpentStays ==
    ASSUME IInv, [Next]_vars, NEW t \in Token, Spent(t)
    PROVE  Spent(t)'
BY TokenStep DEF Spent, NoGrant

-----------------------------------------------------------------------------
(* Steps of the object that bring no pack *)

Calm ==
    /\ \A k \in PackKey : packCatalog'[k].state # "none" => packCatalog[k].state # "none"
    /\ Active(packCatalog') \subseteq Active(packCatalog)
    /\ \A k \in removing' : k \in removing \/ packCatalog[k].state # "none"

LEMMA SamePacksAreCalm ==
    ASSUME UNCHANGED <<packCatalog, removing>>
    PROVE  Calm
BY DEF Calm

\* A pack that no longer counts for the catalog, for a reader or for its worker
Gone(k) ==
    /\ k \notin Active(packCatalog)
    /\ k \in reader.keys => now >= reader.since + DELETE_DELAY \/ k \notin reader'.keys
    /\ Spent(k[2]) \/ job'[k[2]] # "staged"

JobMoves(u) ==
    /\ job'[u] \in Cleaning => job[u] \in Cleaning \/ grants[u].kind # "none"
    /\ job'[u] = "staged" => job[u] = "staged" \/ (grants' = grants /\ Staged(u) \in r2')
    /\ job'[u] # "none" => job[u] # "none" \/ u \in issued'

LEMMA CalmKeeps ==
    ASSUME SysIInv, [Next]_vars, SysTypeOK', Calm,
           \A u \in Token : JobMoves(u),
           deletes' \subseteq deletes,
           reader'.since = reader.since \/ reader' = NoReader, reader'.keys \subseteq reader.keys,
           spoiled \subseteq spoiled',
           \A k \in PackKey : k \in r2 \cup spoiled => k \in r2' \cup spoiled' \/ Gone(k)
    PROVE  BucketInv'
<1> USE DEF SysIInv, BucketInv
<1>1. now' \in Nat /\ now \in Nat /\ now' >= now /\ reader.since \in Nat /\ DELETE_DELAY \in Nat
  BY ClockStep, SystemAssumption DEF IInv, TypeOK, SysTypeOK
<1>2. Active(packCatalog) \subseteq PackKey /\ reader.keys \subseteq PackKey
  BY DEF Active, SysTypeOK
<1>3. Workers'
  BY TokenStep DEF Workers, JobMoves
<1>4. SpentKeys'
  <2> SUFFICES ASSUME NEW k \in PackKey,
                      \/ packCatalog'[k].state # "none"
                      \/ k \in removing'
                      \/ k \in reader'.keys
                      \/ \E m \in deletes' : k \in m.keys
               PROVE  Spent(k[2])'
    BY DEF SpentKeys
  <2>1. Spent(k[2]) /\ k[2] \in Token
    BY KeyOfToken DEF SpentKeys, Calm
  <2> QED
    BY <2>1, SpentStays
<1>5. Sparing'
  BY <1>1 DEF Sparing, Calm, NoReader
<1>6. Stored'
  <2>1. Active(packCatalog') \subseteq r2' \cup spoiled'
    BY <1>2 DEF Stored, Calm, Gone
  <2>2. now' < reader'.since + DELETE_DELAY => reader'.keys \subseteq r2' \cup spoiled'
    BY <1>1, <1>2 DEF Stored, Gone, NoReader
  <2>3. ASSUME NEW t \in Token, job'[t] = "staged", grants'[t].kind # "none"
        PROVE  Staged(t)' \in r2' \cup spoiled'
    <3>1. CASE job[t] = "staged"
      <4>1. grants'[t] = grants[t]
        BY <2>3, <3>1, TokenStep DEF Workers, NoGrant
      <4>2. Staged(t) \in r2 \cup spoiled /\ Staged(t) \in PackKey /\ Staged(t)[2] = t
        BY <2>3, <3>1, <4>1, KeyOfToken DEF Stored, Staged
      <4>3. ~ Gone(Staged(t))
        BY <2>3, <4>1, <4>2 DEF Gone, Spent
      <4>4. Staged(t) \in r2' \cup spoiled'
        BY <4>2, <4>3
      <4> QED
        BY <4>1, <4>4 DEF Staged
    <3>2. CASE grants' = grants /\ Staged(t) \in r2'
      BY <3>2 DEF Staged
    <3> QED
      BY <2>3, <3>1, <3>2 DEF JobMoves
  <2> QED
    BY <2>1, <2>2, <2>3 DEF Stored
<1>7. CleanupSpares'
  <2> SUFFICES ASSUME NEW t \in Token, job'[t] \in Cleaning,
                      NEW k \in {<<"rx", t>>, <<"cmp", t>>},
                      k \in Active(packCatalog') \cup reader'.keys
               PROVE  k \in spoiled'
    BY DEF CleanupSpares
  <2>1. k \in Active(packCatalog) \cup reader.keys
    BY DEF Calm
  <2>2. k \in PackKey /\ k[2] = t
    BY KeyOfToken
  <2>3. grants[t].kind = "none"
    BY <2>1, <2>2 DEF SpentKeys, Spent, Active
  <2>4. job[t] \in Cleaning
    BY <2>3 DEF JobMoves
  <2> QED
    BY <2>1, <2>4 DEF CleanupSpares
<1> QED
  BY <1>3, <1>4, <1>5, <1>6, <1>7

-----------------------------------------------------------------------------
(* Commits *)

\* A grant is used up to bring its pack into the catalog.
Commits(t, k) ==
    /\ k[2] = t /\ t \in issued /\ grants[t].kind # "none" /\ grants'[t].kind = "none"
    /\ UNCHANGED <<now, removing>>
    /\ \A j \in PackKey : packCatalog'[j].state # "none" => j = k \/ packCatalog[j].state # "none"
    /\ Active(packCatalog') \subseteq Active(packCatalog) \cup {k}

LEMMA CommitKeeps ==
    ASSUME SysIInv, [Next]_vars, SysTypeOK', NEW t \in Token, NEW k \in PackKey, Commits(t, k),
           job[t] = "staged", k = Staged(t),
           \A u \in Token : u # t => job'[u] = job[u],
           job'[t] \in {"done"} \cup Cleaning, job'[t] \in Cleaning => k \in spoiled',
           r2' = r2, reader' = reader, spoiled \subseteq spoiled',
           \A m \in deletes' :
               \/ m \in deletes
               \/ /\ m.keys \subseteq Active(packCatalog)
                  /\ m.keys \cap Active(packCatalog') = {}
                  /\ m.notBefore = now + DELETE_DELAY
    PROVE  BucketInv'
<1> USE DEF SysIInv, BucketInv
<1>1. now' = now /\ now \in Nat /\ reader.since \in Nat /\ DELETE_DELAY \in Nat
  BY SystemAssumption DEF IInv, TypeOK, SysTypeOK, Commits
<1>2. Active(packCatalog) \subseteq PackKey /\ reader.keys \subseteq PackKey
  BY DEF Active, SysTypeOK
<1>3. Workers'
  BY TokenStep DEF Workers, Commits
<1>4. ~ Spent(k[2]) /\ k \notin reader.keys /\ \A m \in deletes : k \notin m.keys
  BY DEF Commits, Spent, SpentKeys
<1>5. SpentKeys'
  <2> SUFFICES ASSUME NEW j \in PackKey,
                      \/ packCatalog'[j].state # "none"
                      \/ j \in removing'
                      \/ j \in reader'.keys
                      \/ \E m \in deletes' : j \in m.keys
               PROVE  Spent(j[2])'
    BY DEF SpentKeys
  <2>1. CASE j = k
    <3>1. k[2] = t /\ t \in issued' /\ grants'[t].kind = "none"
      BY TokenStep DEF Commits
    <3> QED
      BY <2>1, <3>1 DEF Spent
  <2>2. CASE j # k
    <3>1. \/ packCatalog[j].state # "none"
          \/ j \in removing
          \/ j \in reader.keys
          \/ \E m \in deletes : j \in m.keys
      BY <2>2 DEF Commits, Active
    <3>2. Spent(j[2]) /\ j[2] \in Token
      BY <3>1, KeyOfToken DEF SpentKeys
    <3> QED
      BY <3>2, SpentStays
  <2> QED
    BY <2>1, <2>2
<1>6. Sparing'
  <2> SUFFICES ASSUME NEW m \in deletes'
               PROVE  /\ m.keys \cap Active(packCatalog') = {}
                      /\ m.keys \cap reader.keys # {} => m.notBefore >= reader.since + DELETE_DELAY
    BY <1>1 DEF Sparing
  <2>1. CASE m \in deletes
    BY <1>4, <2>1 DEF Sparing, Commits
  <2>2. CASE m \notin deletes
    BY <1>1, <2>2 DEF Sparing
  <2> QED
    BY <2>1, <2>2
<1>7. Stored'
  <2>1. k \in r2' \cup spoiled'
    BY DEF Stored, Commits
  <2>2. Active(packCatalog') \subseteq r2' \cup spoiled'
    BY <2>1 DEF Stored, Commits
  <2>3. ASSUME NEW u \in Token, job'[u] = "staged", grants'[u].kind # "none"
        PROVE  Staged(u)' \in r2' \cup spoiled'
    <3>1. u # t /\ job[u] = "staged"
      BY <2>3 DEF Commits
    <3>2. grants'[u] = grants[u]
      BY <2>3, <3>1, TokenStep DEF Workers, NoGrant
    <3> QED
      BY <2>3, <3>1, <3>2 DEF Stored, Staged
  <2> QED
    BY <1>1, <2>2, <2>3 DEF Stored
<1>8. CleanupSpares'
  <2> SUFFICES ASSUME NEW u \in Token, job'[u] \in Cleaning,
                      NEW j \in {<<"rx", u>>, <<"cmp", u>>},
                      j \in Active(packCatalog') \cup reader'.keys
               PROVE  j \in spoiled'
    BY DEF CleanupSpares
  <2>1. j \in PackKey /\ j[2] = u
    BY KeyOfToken
  <2>2. CASE j = k
    BY <2>1, <2>2 DEF Commits
  <2>3. CASE j # k
    <3>1. j \in Active(packCatalog) \cup reader.keys
      BY <2>3 DEF Commits
    <3>2. Spent(u)
      BY <2>1, <3>1 DEF SpentKeys, Active
    <3>3. u # t
      BY <3>2 DEF Spent, Commits
    <3> QED
      BY <3>1, <3>3 DEF CleanupSpares
  <2> QED
    BY <2>2, <2>3
<1> QED
  BY <1>3, <1>5, <1>6, <1>7, <1>8

-----------------------------------------------------------------------------
(* Typing *)

LEMMA QueueTypes ==
    ASSUME SysTypeOK
    PROVE  /\ acked \in 0 .. MaxMessages /\ acked + 1 \in 0 .. MaxMessages
           /\ sendCompaction => queue' \in 0 .. MaxMessages
BY SystemAssumption DEF SysTypeOK, acked, sendCompaction

LEMMA JobTypes ==
    ASSUME SysTypeOK, NEW t \in Token, NEW state \in JobState, become(t, state)
    PROVE  job' \in [Token -> JobState]
BY DEF SysTypeOK, become

LEMMA PushTyped ==
    ASSUME SysIInv, PushNext
    PROVE  SysTypeOK'
<1> USE DEF SysIInv
<1>1. ASSUME NEW t \in Token, pushBegin(t) \/ pushStage(t) \/ pushStageFail(t) \/ pushFail(t)
      PROVE  SysTypeOK'
  <2>1. job' \in [Token -> JobState]
    BY <1>1, JobTypes DEF pushBegin, pushStage, pushStageFail, pushFail, JobState
  <2> QED
    BY <1>1, <2>1, KeyOfToken DEF pushBegin, pushStage, pushStageFail, pushFail, SysTypeOK
<1>2. ASSUME NEW t \in Token, pushAbort(t) \/ stagedPackDelete(t)
      PROVE  SysTypeOK'
  <2>1. job' \in [Token -> JobState]
    BY <1>2, JobTypes DEF pushAbort, stagedPackDelete, JobState
  <2> QED
    BY <1>2, <2>1 DEF pushAbort, stagedPackDelete, deleteStagedPack, SysTypeOK
<1>3. ASSUME NEW t \in Token, NEW cmds \in CommandLists,
             pushPreflightReject(t, cmds) \/ pushFinalizeRefused(t, cmds)
      PROVE  SysTypeOK'
  <2>1. job' \in [Token -> JobState]
    BY <1>3, JobTypes DEF pushPreflightReject, pushFinalizeRefused, JobState
  <2> QED
    BY <1>3, <2>1 DEF pushPreflightReject, pushFinalizeRefused, SysTypeOK
<1>4. ASSUME NEW t \in Token, NEW cmds \in CommandLists, NEW objs \in StagedObjects,
             pushFinalize(t, cmds, objs) \/ pushFinalizeReplyLost(t, cmds, objs)
      PROVE  SysTypeOK'
  <2>1. job' \in [Token -> JobState]
    BY <1>4, JobTypes DEF pushFinalize, pushFinalizeReplyLost, JobState
  <2>2. queue' \in 0 .. MaxMessages
    BY <1>4, QueueTypes DEF pushFinalize, pushFinalizeReplyLost, SysTypeOK
  <2> QED
    BY <1>4, <2>1, <2>2, KeyOfToken DEF pushFinalize, pushFinalizeReplyLost, SysTypeOK
<1> QED
  BY <1>1, <1>2, <1>3, <1>4 DEF PushNext

LEMMA ConsumerTyped ==
    ASSUME SysIInv, ConsumerNext
    PROVE  SysTypeOK'
<1> USE DEF SysIInv
<1>1. CASE consumerSkip
  BY <1>1, QueueTypes DEF consumerSkip, SysTypeOK
<1>2. ASSUME NEW t \in Token, \/ consumerBegin(t) \/ compactStage(t) \/ compactFail(t)
                              \/ compactError(t) \/ compactDrop(t) \/ compactCommitRetry(t)
      PROVE  SysTypeOK'
  <2>1. job' \in [Token -> JobState]
    BY <1>2, JobTypes DEF consumerBegin, compactStage, compactFail, compactError, compactDrop,
                          compactCommitRetry, JobState
  <2> QED
    BY <1>2, <2>1, KeyOfToken DEF consumerBegin, compactStage, compactFail, compactError,
                                  compactDrop, compactCommitRetry, deleteStagedPack, SysTypeOK
<1>3. ASSUME NEW t \in Token, compactBlocked(t)
      PROVE  SysTypeOK'
  <2>1. job' \in [Token -> JobState]
    BY <1>3, JobTypes DEF compactBlocked, JobState
  <2> QED
    BY <1>3, <2>1, QueueTypes DEF compactBlocked, SysTypeOK
<1>4. ASSUME NEW t \in Token, NEW objs \in SUBSET Object,
             compactCommit(t, objs) \/ compactCommitReplyLost(t, objs)
      PROVE  SysTypeOK'
  <2>1. job' \in [Token -> JobState]
    BY <1>4, JobTypes DEF compactCommit, compactCommitReplyLost, JobState
  <2>2. queue' \in 0 .. MaxMessages
    BY <1>4, QueueTypes DEF compactCommit, compactCommitReplyLost, SysTypeOK
  <2>3. [keys |-> grants[t].sources, notBefore |-> now + DELETE_DELAY] \in
            [keys : SUBSET PackKey, notBefore : Nat]
    BY SystemAssumption DEF IInv, TypeOK, Grant
  <2> QED
    BY <1>4, <2>1, <2>2, <2>3, KeyOfToken DEF compactCommit, compactCommitReplyLost, SysTypeOK
<1>5. ASSUME NEW m \in deletes, deleteSuperseded(m)
      PROVE  SysTypeOK'
  BY <1>5 DEF deleteSuperseded, SysTypeOK
<1> QED
  BY <1>1, <1>2, <1>3, <1>4, <1>5 DEF ConsumerNext

LEMMA ObjectTyped ==
    ASSUME SysIInv, ObjectNext
    PROVE  SysTypeOK'
<1> USE DEF SysIInv
<1>1. ASSUME NEW sent \in BOOLEAN, alarmRearmSystem(sent) PROVE SysTypeOK'
  BY <1>1, SystemAssumption DEF alarmRearmSystem, SysTypeOK
<1>2. CASE alarmErase \/ purgeList \/ purgeEnd
  BY <1>2 DEF alarmErase, purgeList, purgeEnd, NoPurge, SysTypeOK
<1>3. ASSUME NEW k \in PackKey, purgeDelete(k) PROVE SysTypeOK'
  BY <1>3 DEF purgeDelete, SysTypeOK
<1>4. ASSUME NEW k \in PackKey, removePackSystem(k) PROVE SysTypeOK'
  BY <1>4 DEF removePackSystem, SysTypeOK
<1>5. CASE objectAlone
  BY <1>5 DEF objectAlone, SysTypeOK
<1>6. CASE readerBegin \/ readerEnd
  BY <1>6 DEF readerBegin, readerEnd, NoReader, Active, SysTypeOK, IInv, TypeOK
<1>7. CASE operatorRequest
  BY <1>7, SystemAssumption DEF operatorRequest, sendCompaction, SysTypeOK
<1> QED
  BY <1>1, <1>2, <1>3, <1>4, <1>5, <1>6, <1>7 DEF ObjectNext

LEMMA SysTypeStep ==
    ASSUME SysIInv, [SysNext]_sysVars
    PROVE  SysTypeOK'
<1>1. CASE UNCHANGED sysVars
  BY <1>1 DEF sysVars, SysIInv, SysTypeOK
<1> QED
  BY <1>1, PushTyped, ConsumerTyped, ObjectTyped DEF SysNext

-----------------------------------------------------------------------------
(* Every step of the system is a step of the object, or none. *)

LEMMA ObjectSteps ==
    ASSUME [SysNext]_sysVars
    PROVE  [Next]_vars
<1> USE DEF Next, ReceiveNext, CompactionNext, AdminNext, AlarmNext
<1>1. CASE PushNext
  BY <1>1 DEF PushNext, pushBegin, pushStage, pushStageFail, pushFail, pushAbort,
              stagedPackDelete, pushPreflightReject, pushFinalizeRefused, pushFinalize,
              pushFinalizeReplyLost
<1>2. CASE ConsumerNext
  BY <1>2 DEF ConsumerNext, consumerSkip, consumerBegin, compactStage, compactFail,
              compactBlocked, compactError, compactDrop, compactCommitRetry, compactCommit,
              compactCommitReplyLost, deleteSuperseded
<1>3. CASE ObjectNext
  BY <1>3 DEF ObjectNext, alarmRearmSystem, alarmErase, purgeList, purgeEnd, purgeDelete,
              removePackSystem, operatorRequest, objectAlone, readerBegin, readerEnd
<1>4. CASE UNCHANGED sysVars
  BY <1>4 DEF sysVars
<1> QED
  BY <1>1, <1>2, <1>3, <1>4 DEF SysNext

-----------------------------------------------------------------------------
(* Steps of workers *)

LEMMA JobsStay ==
    ASSUME job' = job
    PROVE  \A u \in Token : JobMoves(u)
BY DEF JobMoves

\* A worker that commits nothing and deletes nothing that counts
LEMMA WorkerKeeps ==
    ASSUME SysIInv, [SysNext]_sysVars, Calm, NEW t \in Token, NEW state \in JobState,
           become(t, state),
           job[t] # "none" \/ t \in issued',
           state \in Cleaning => job[t] \in Cleaning \/ grants[t].kind # "none",
           state = "staged" => grants' = grants /\ Staged(t) \in r2',
           deletes' \subseteq deletes, reader' = reader, spoiled' = spoiled,
           \A k \in PackKey : k \in r2 \cup spoiled => k \in r2' \cup spoiled \/ Gone(k)
    PROVE  BucketInv'
<1>1. job'[t] = state /\ \A u \in Token : u # t => job'[u] = job[u]
  BY DEF become, SysIInv, SysTypeOK
<1>2. \A u \in Token : JobMoves(u)
  BY <1>1 DEF JobMoves
<1> QED
  BY <1>2, ObjectSteps, SysTypeStep, CalmKeeps

\* What a worker deletes when it gives up is its own, and counts for nobody.
LEMMA OwnPackGoes ==
    ASSUME SysIInv, NEW t \in Token, job[t] \in Cleaning, deleteStagedPack(t), job'[t] = "done"
    PROVE  \A k \in PackKey : k \in r2 \cup spoiled => k \in r2' \cup spoiled \/ Gone(k)
<1> SUFFICES ASSUME NEW k \in PackKey, k \in r2, k \notin r2', k \notin spoiled
             PROVE  Gone(k)
  OBVIOUS
<1>1. k \in {<<"rx", t>>, <<"cmp", t>>}
  BY DEF deleteStagedPack
<1>2. k[2] = t
  BY <1>1, KeyOfToken
<1>3. k \notin Active(packCatalog) \cup reader.keys
  BY <1>1 DEF SysIInv, BucketInv, CleanupSpares
<1> QED
  BY <1>2, <1>3 DEF Gone

LEMMA SamePackVarsAreCalm ==
    ASSUME UNCHANGED packVars, UNCHANGED removing
    PROVE  Calm
BY SamePacksAreCalm DEF packVars

LEMMA AbortsAreCalm ==
    ASSUME NEW t \in Token
    PROVE  /\ abortReceive(t) \/ UNCHANGED vars => Calm
           /\ abortCompaction(t) \/ UNCHANGED vars => Calm
BY SamePackVarsAreCalm DEF abortReceive, abortCompaction, vars

LEMMA PushKeeps ==
    ASSUME SysIInv, PushNext
    PROVE  BucketInv'
<1>1. [SysNext]_sysVars
  BY DEF SysNext
<1>2. UNCHANGED vars => Calm
  BY SamePackVarsAreCalm DEF vars
<1>3. ASSUME NEW t \in Token, pushBegin(t) PROVE BucketInv'
  <2>1. Calm
    BY <1>3, SamePackVarsAreCalm DEF pushBegin, beginReceive
  <2> QED
    BY <1>1, <1>3, <2>1, WorkerKeeps DEF pushBegin, beginReceive, JobState, Cleaning
<1>4. ASSUME NEW t \in Token, pushStage(t) PROVE BucketInv'
  <2>1. grants' = grants /\ Staged(t) \in r2'
    BY <1>4 DEF pushStage, vars, callerVars, Staged
  <2> QED
    BY <1>1, <1>2, <1>4, <2>1, WorkerKeeps DEF pushStage, JobState, Cleaning
<1>5. ASSUME NEW t \in Token, pushStageFail(t) \/ pushFail(t) PROVE BucketInv'
  BY <1>1, <1>2, <1>5, WorkerKeeps DEF pushStageFail, pushFail, JobState, Cleaning
<1>6. ASSUME NEW t \in Token, pushAbort(t) PROVE BucketInv'
  BY <1>1, <1>6, AbortsAreCalm, WorkerKeeps DEF pushAbort, JobState, Cleaning
<1>7. ASSUME NEW t \in Token, stagedPackDelete(t) PROVE BucketInv'
  <2>1. job'[t] = "done" /\ job[t] \in Cleaning
    BY <1>7 DEF stagedPackDelete, become, Cleaning, SysIInv, SysTypeOK
  <2>2. \A k \in PackKey : k \in r2 \cup spoiled => k \in r2' \cup spoiled \/ Gone(k)
    BY <1>7, <2>1, OwnPackGoes DEF stagedPackDelete
  <2> QED
    BY <1>1, <1>2, <1>7, <2>2, WorkerKeeps DEF stagedPackDelete, JobState, Cleaning
<1>8. ASSUME NEW t \in Token, NEW cmds \in CommandLists, pushPreflightReject(t, cmds)
      PROVE  BucketInv'
  BY <1>1, <1>8, AbortsAreCalm, WorkerKeeps DEF pushPreflightReject, JobState, Cleaning
<1>9. ASSUME NEW t \in Token, NEW cmds \in CommandLists, pushFinalizeRefused(t, cmds)
      PROVE  BucketInv'
  <2>1. Calm /\ grants[t].kind # "none" /\ job[t] # "none"
    BY <1>9, SamePackVarsAreCalm
       DEF pushFinalizeRefused, readyToFinalize, finalizeReceiveMismatch, finalizeReceiveConflict
  <2> QED
    BY <1>1, <1>9, <2>1, WorkerKeeps DEF pushFinalizeRefused, JobState
<1>10. ASSUME NEW t \in Token, NEW cmds \in CommandLists, NEW objs \in StagedObjects,
              pushFinalize(t, cmds, objs) \/ pushFinalizeReplyLost(t, cmds, objs)
       PROVE  BucketInv'
  <2> DEFINE key == <<"rx", t>>
  <2>1. /\ finalizeReceive(t, cmds, objs) /\ readyToFinalize(t, cmds)
        /\ r2' = r2 /\ deletes' = deletes /\ reader' = reader /\ spoiled \subseteq spoiled'
        /\ \E state \in {"done", "aborting"} :
               become(t, state) /\ (state = "aborting" => key \in spoiled')
    BY <1>10 DEF pushFinalize, pushFinalizeReplyLost
  <2>2. /\ job'[t] \in {"done", "aborting"} /\ \A u \in Token : u # t => job'[u] = job[u]
        /\ job'[t] = "aborting" => key \in spoiled'
    BY <2>1 DEF become, SysIInv, SysTypeOK
  <2>3. /\ grants[t].kind = "receive" /\ grants'[t].kind = "none" /\ UNCHANGED <<now, removing>>
        /\ Staged(t) = key /\ t \in issued /\ job[t] # "none"
    BY <2>1, LeaseKey DEF finalizeReceive, readyToFinalize, NoGrant, SysIInv, IInv, TypeOK, Staged
  <2>4. CASE hasNonDelete(cmds)
    <3>1. Receives(t, objs)
      BY <2>1, <2>4, FinalizeReceives DEF SysIInv
    <3>2. \A j \in PackKey : j # key => packCatalog'[j] = packCatalog[j]
      BY <3>1 DEF Receives, SysIInv, IInv, TypeOK, Catalog
    <3>3. key \in PackKey /\ key[2] = t
      BY KeyOfToken
    <3>4. Commits(t, key)
      BY <2>3, <3>2, <3>3 DEF Commits, Active
    <3>5. job[t] = "staged"
      BY <2>1, <2>4 DEF readyToFinalize
    <3> HIDE DEF key
    <3> QED
      BY <1>1, <2>1, <2>2, <2>3, <3>3, <3>4, <3>5, CommitKeeps, ObjectSteps, SysTypeStep
         DEF Cleaning
  <2>5. CASE ~ hasNonDelete(cmds)
    <3>1. Calm
      BY <2>1, <2>3, <2>5, SamePackVarsAreCalm DEF finalizeReceive
    <3>2. \A u \in Token : JobMoves(u)
      BY <2>2, <2>3 DEF JobMoves, Cleaning
    <3> QED
      BY <1>1, <2>1, <3>1, <3>2, CalmKeeps, ObjectSteps, SysTypeStep
  <2> QED
    BY <2>4, <2>5
<1> QED
  BY <1>3, <1>4, <1>5, <1>6, <1>7, <1>8, <1>9, <1>10 DEF PushNext

LEMMA ConsumerKeeps ==
    ASSUME SysIInv, ConsumerNext
    PROVE  BucketInv'
<1>1. [SysNext]_sysVars
  BY DEF SysNext
<1>2. UNCHANGED vars => Calm
  BY SamePackVarsAreCalm DEF vars
<1>3. CASE consumerSkip
  <2>1. Calm
    BY <1>3, SamePackVarsAreCalm DEF consumerSkip, beginCompactionSkip
  <2> QED
    BY <1>1, <1>3, <2>1, JobsStay, CalmKeeps, ObjectSteps, SysTypeStep DEF consumerSkip
<1>4. ASSUME NEW t \in Token, consumerBegin(t) PROVE BucketInv'
  <2>1. Calm
    BY <1>4, SamePackVarsAreCalm DEF consumerBegin, beginCompaction
  <2> QED
    BY <1>1, <1>4, <2>1, WorkerKeeps DEF consumerBegin, beginCompaction, JobState, Cleaning
<1>5. ASSUME NEW t \in Token, compactStage(t) PROVE BucketInv'
  <2>1. grants' = grants /\ Staged(t) \in r2'
    BY <1>5 DEF compactStage, vars, callerVars, Staged
  <2> QED
    BY <1>1, <1>2, <1>5, <2>1, WorkerKeeps DEF compactStage, JobState, Cleaning
<1>6. ASSUME NEW t \in Token, compactFail(t) PROVE BucketInv'
  BY <1>1, <1>6, AbortsAreCalm, WorkerKeeps DEF compactFail, JobState, Cleaning
<1>7. ASSUME NEW t \in Token, compactBlocked(t) PROVE BucketInv'
  <2>1. Calm
    BY <1>2, <1>7, SamePackVarsAreCalm DEF compactBlocked, clearCompactionRequest
  <2> QED
    BY <1>1, <1>7, <2>1, WorkerKeeps DEF compactBlocked, JobState, Cleaning
<1>8. ASSUME NEW t \in Token, compactError(t) PROVE BucketInv'
  BY <1>1, <1>2, <1>8, WorkerKeeps DEF compactError, JobState, Cleaning
<1>9. ASSUME NEW t \in Token, compactDrop(t) PROVE BucketInv'
  <2>1. job'[t] = "done" /\ job[t] \in Cleaning
    BY <1>9 DEF compactDrop, become, Cleaning, SysIInv, SysTypeOK
  <2>2. \A k \in PackKey : k \in r2 \cup spoiled => k \in r2' \cup spoiled \/ Gone(k)
    BY <1>9, <2>1, OwnPackGoes DEF compactDrop
  <2> QED
    BY <1>1, <1>9, <2>2, AbortsAreCalm, WorkerKeeps DEF compactDrop, JobState, Cleaning
<1>10. ASSUME NEW t \in Token, compactCommitRetry(t) PROVE BucketInv'
  <2>1. Calm /\ grants[t].kind # "none"
    BY <1>10, SamePackVarsAreCalm DEF compactCommitRetry, commitCompactionRetry
  <2> QED
    BY <1>1, <1>10, <2>1, WorkerKeeps DEF compactCommitRetry, JobState
<1>11. ASSUME NEW t \in Token, NEW objs \in SUBSET Object,
              compactCommit(t, objs) \/ compactCommitReplyLost(t, objs)
       PROVE  BucketInv'
  <2> DEFINE key == <<"cmp", t>>
             sources == grants[t].sources
  <2>1. /\ commitCompaction(t, objs) /\ job[t] = "staged"
        /\ r2' = r2 /\ reader' = reader /\ spoiled \subseteq spoiled'
        /\ deletes' \subseteq deletes \cup {[keys |-> sources, notBefore |-> now + DELETE_DELAY]}
        /\ \E state \in {"done", "dropping"} :
               become(t, state) /\ (state = "dropping" => key \in spoiled')
    BY <1>11 DEF compactCommit, compactCommitReplyLost
  <2>2. /\ job'[t] \in {"done", "dropping"} /\ \A u \in Token : u # t => job'[u] = job[u]
        /\ job'[t] = "dropping" => key \in spoiled'
    BY <2>1 DEF become, SysIInv, SysTypeOK
  <2>3. /\ grants[t].kind = "compact" /\ grants'[t].kind = "none" /\ UNCHANGED <<now, removing>>
        /\ Staged(t) = key /\ t \in issued
    BY <2>1, LeaseKey DEF commitCompaction, NoGrant, SysIInv, IInv, TypeOK, Staged
  <2>4. Compacts(t, objs)
    BY <2>1, CommitCompacts DEF SysIInv
  <2>5. key \in PackKey /\ key[2] = t
    BY KeyOfToken
  <2>6. sources \subseteq Active(packCatalog) /\ key \notin sources
    BY <2>4 DEF Compacts, PlanOf
  <2>7. packCatalog \in Catalog
    BY DEF SysIInv, IInv, TypeOK
  <2>8. \A j \in PackKey : j \notin sources /\ j # key => packCatalog'[j] = packCatalog[j]
    BY <2>4, <2>7 DEF Compacts, Supersede, Catalog
  <2>9. \A j \in sources : packCatalog'[j].state = "superseded"
    BY <2>4, <2>6, <2>7 DEF Compacts, Supersede, Active, Catalog, Row
  <2>10. sources \cap Active(packCatalog') = {}
    BY <2>9 DEF Active
  <2>11. Commits(t, key)
    BY <2>3, <2>5, <2>6, <2>8, <2>9 DEF Commits, Active
  <2> HIDE DEF key, sources
  <2> QED
    BY <1>1, <2>1, <2>2, <2>3, <2>5, <2>6, <2>10, <2>11, CommitKeeps, ObjectSteps, SysTypeStep
       DEF Cleaning
<1>12. ASSUME NEW m \in deletes, deleteSuperseded(m) PROVE BucketInv'
  <2>1. /\ m.notBefore <= now /\ r2' = r2 \ m.keys /\ deletes' \subseteq deletes
        /\ UNCHANGED <<vars, job, queue, purge, reader, spoiled>>
    BY <1>12 DEF deleteSuperseded
  <2>2. ASSUME NEW k \in PackKey, k \in m.keys PROVE Gone(k)
    <3>1. Spent(k[2]) /\ k \notin Active(packCatalog)
      BY <2>2 DEF SysIInv, BucketInv, SpentKeys, Sparing
    <3>2. k \in reader.keys => now >= reader.since + DELETE_DELAY
      <4>1. now \in Nat /\ reader.since \in Nat /\ m.notBefore \in Nat /\ DELETE_DELAY \in Nat
        BY SystemAssumption DEF SysIInv, IInv, TypeOK, SysTypeOK
      <4>2. k \in reader.keys => m.notBefore >= reader.since + DELETE_DELAY
        BY <2>2 DEF SysIInv, BucketInv, Sparing
      <4> QED
        BY <2>1, <4>1, <4>2
    <3> QED
      BY <3>1, <3>2 DEF Gone
  <2>3. \A k \in PackKey : k \in r2 \cup spoiled => k \in r2' \cup spoiled' \/ Gone(k)
    BY <2>1, <2>2
  <2> QED
    BY <1>1, <1>2, <2>1, <2>3, JobsStay, CalmKeeps, ObjectSteps, SysTypeStep
<1> QED
  BY <1>3, <1>4, <1>5, <1>6, <1>7, <1>8, <1>9, <1>10, <1>11, <1>12 DEF ConsumerNext

-----------------------------------------------------------------------------
(* Steps of the object, of the purge and of readers *)

\* A row that removePack takes away is spent and not active, and nobody reads it.
LEMMA RemovePackSpares ==
    ASSUME SysIInv, [SysNext]_sysVars, NEW k \in PackKey, removePackSystem(k)
    PROVE  BucketInv'
<1>1. UNCHANGED <<job, queue, deletes, purge, spoiled>>
  BY DEF removePackSystem
<1>2. CASE removePackCheck(k) /\ r2' = r2 /\ reader' = reader
  <2>1. Calm
    BY <1>2 DEF removePackCheck, packVars, Calm
  <2> QED
    BY <1>1, <1>2, <2>1, JobsStay, CalmKeeps, ObjectSteps, SysTypeStep
<1>3. CASE /\ removePackRow(k) /\ r2' \in {r2, r2 \ {k}}
           /\ reader' = [reader EXCEPT !.keys = @ \ {k}]
  <2>1. /\ packCatalog' = [packCatalog EXCEPT ![k] = NoRow] /\ k \in removing
        /\ removing' = removing \ {k}
    BY <1>3 DEF removePackRow
  <2>2. packCatalog \in Catalog /\ k \notin Active(packCatalog)
    BY <2>1 DEF SysIInv, IInv, TypeOK, CatalogInv, RemovingInert
  <2>3. Calm
    BY <2>1, <2>2 DEF Calm, Active, NoRow, Catalog
  <2>4. reader'.since = reader.since /\ reader'.keys = reader.keys \ {k}
    BY <1>3 DEF SysIInv, SysTypeOK
  <2>5. Spent(k[2])
    BY <2>1 DEF SysIInv, BucketInv, SpentKeys
  <2>6. Gone(k)
    BY <2>2, <2>4, <2>5 DEF Gone
  <2> QED
    BY <1>1, <1>3, <2>3, <2>4, <2>6, JobsStay, CalmKeeps, ObjectSteps, SysTypeStep
<1> QED
  BY <1>2, <1>3 DEF removePackSystem

\* A reader starts with packs that are active, hence stored and about to be deleted by nobody.
LEMMA ReaderBeginKeeps ==
    ASSUME SysIInv, [SysNext]_sysVars, readerBegin
    PROVE  BucketInv'
<1>1. /\ UNCHANGED <<now, packVars, callerVars, removing>>
      /\ reader' = [since |-> now, keys |-> Active(packCatalog)]
      /\ UNCHANGED <<r2, job, queue, deletes, purge, spoiled>>
  BY DEF readerBegin, read
<1>2. UNCHANGED <<now, packCatalog, issued, grants, removing, r2, job, deletes, spoiled>>
  BY <1>1 DEF packVars, callerVars
<1>3. reader'.since = now /\ reader'.keys = Active(packCatalog) /\ now \in Nat
  BY <1>1 DEF SysIInv, IInv, TypeOK
<1> USE DEF SysIInv, BucketInv
<1>4. Workers'
  BY <1>2 DEF Workers
<1>5. SpentKeys'
  BY <1>2, <1>3 DEF SpentKeys, Spent, Active
<1>6. Sparing'
  BY <1>2, <1>3 DEF Sparing
<1>7. Stored'
  BY <1>2, <1>3 DEF Stored, Staged
<1>8. CleanupSpares'
  BY <1>2, <1>3 DEF CleanupSpares
<1> QED
  BY <1>4, <1>5, <1>6, <1>7, <1>8

LEMMA ObjectKeeps ==
    ASSUME SysIInv, ObjectNext
    PROVE  BucketInv'
<1>1. [SysNext]_sysVars
  BY DEF SysNext
<1>2. UNCHANGED vars => Calm
  BY SamePackVarsAreCalm DEF vars
<1>3. ASSUME NEW sent \in BOOLEAN, alarmRearmSystem(sent) PROVE BucketInv'
  <2>1. Calm
    BY <1>3, SamePackVarsAreCalm DEF alarmRearmSystem, alarmRearm
  <2> QED
    BY <1>1, <1>3, <2>1, JobsStay, CalmKeeps, ObjectSteps, SysTypeStep DEF alarmRearmSystem
<1>4. CASE alarmErase
  <2>1. Calm
    BY <1>4 DEF alarmErase, alarmEmptyIdle, deleteAll, Calm, EmptyCatalog, NoRow, Active
  <2> QED
    BY <1>1, <1>4, <2>1, JobsStay, CalmKeeps, ObjectSteps, SysTypeStep DEF alarmErase
<1>5. CASE purgeList \/ purgeEnd
  BY <1>1, <1>2, <1>5, JobsStay, CalmKeeps, ObjectSteps, SysTypeStep DEF purgeList, purgeEnd
<1>6. ASSUME NEW k \in PackKey, purgeDelete(k) PROVE BucketInv'
  <2>1. r2 \cup spoiled \subseteq r2' \cup spoiled'
    BY <1>6 DEF purgeDelete
  <2> QED
    BY <1>1, <1>2, <1>6, <2>1, JobsStay, CalmKeeps, ObjectSteps, SysTypeStep DEF purgeDelete
<1>7. CASE objectAlone
  <2>1. Calm
    <3>1. UNCHANGED packVars /\ removing' = removing
      BY <1>7 DEF objectAlone, beginReceiveBusy, tick, setRefs, alarmActive, alarmNonEmptyIdle
    <3> QED
      BY <3>1, SamePackVarsAreCalm
  <2> QED
    BY <1>1, <1>7, <2>1, JobsStay, CalmKeeps, ObjectSteps, SysTypeStep DEF objectAlone
<1>8. CASE readerEnd
  <2>1. reader'.keys \subseteq reader.keys
    BY <1>8 DEF readerEnd, NoReader
  <2> QED
    BY <1>1, <1>2, <1>8, <2>1, JobsStay, CalmKeeps, ObjectSteps, SysTypeStep DEF readerEnd
<1>9. CASE operatorRequest
  <2>1. Calm
    BY <1>9, SamePackVarsAreCalm DEF operatorRequest, requestCompaction
  <2> QED
    BY <1>1, <1>9, <2>1, JobsStay, CalmKeeps, ObjectSteps, SysTypeStep DEF operatorRequest
<1> QED
  BY <1>1, <1>3, <1>4, <1>5, <1>6, <1>7, <1>8, <1>9, RemovePackSpares, ReaderBeginKeeps DEF ObjectNext

-----------------------------------------------------------------------------
(* The invariant and the theorems *)

LEMMA SysInitEstablishes ==
    ASSUME SysInit
    PROVE  SysIInv
<1>1. IInv
  BY InitTyped, InitCatalog DEF SysInit, IInv
<1>2. SysTypeOK
  BY SystemAssumption DEF SysInit, SysTypeOK, JobState, NoPurge, NoReader
<1>3. Active(packCatalog) = {}
  BY DEF SysInit, Init, EmptyCatalog, NoRow, Active
<1>4. SpentKeys
  BY DEF SysInit, Init, EmptyCatalog, NoRow, NoReader, SpentKeys
<1>5. Workers /\ Sparing /\ Stored /\ CleanupSpares
  BY <1>3 DEF SysInit, Init, NoReader, Workers, Sparing, Stored, CleanupSpares, Cleaning
<1> QED
  BY <1>1, <1>2, <1>4, <1>5 DEF SysIInv, BucketInv

LEMMA SysInductive ==
    ASSUME SysIInv, [SysNext]_sysVars
    PROVE  SysIInv'
<1>1. IInv'
  BY ObjectSteps, Inductive DEF SysIInv
<1>2. SysTypeOK'
  BY SysTypeStep
<1>3. CASE UNCHANGED sysVars
  <2>1. Calm
    BY <1>3, SamePackVarsAreCalm DEF sysVars, vars
  <2> QED
    BY <1>1, <1>2, <1>3, <2>1, JobsStay, CalmKeeps, ObjectSteps DEF sysVars, SysIInv
<1> QED
  BY <1>1, <1>2, <1>3, PushKeeps, ConsumerKeeps, ObjectKeeps DEF SysNext, SysIInv

LEMMA SysInvariance == SysSpec => []SysIInv
<1>1. SysInit => SysIInv
  BY SysInitEstablishes
<1>2. SysIInv /\ [SysNext]_sysVars => SysIInv'
  BY SysInductive
<1> QED
  BY <1>1, <1>2, PTL DEF SysSpec

\* Workers, queue, bucket and readers keep their types; in particular the queue never
\* holds a negative number of messages, however often one is acknowledged.
THEOREM SystemTypeCorrect == SysSpec => []SysTypeOK
<1>1. SysIInv => SysTypeOK
  BY DEF SysIInv
<1> QED
  BY <1>1, SysInvariance, PTL

\* An active pack is in the bucket, whatever workers clean up, however late and in whatever
\* order, unless a commit lost its reply or idle cleanup purged the bucket.
THEOREM CleanupsSparePacks == SysSpec => []OnlyFaultsLosePacks
<1>1. SysIInv => OnlyFaultsLosePacks
  BY DEF SysIInv, BucketInv, Stored, OnlyFaultsLosePacks
<1> QED
  BY <1>1, SysInvariance, PTL

\* A compaction-delete message never names an active pack, however late it is delivered: the
\* token in a pack's key is issued once and commits once.
THEOREM DeletesAreSafe == SysSpec => []DeletesSpareActivePacks
<1>1. SysIInv => DeletesSpareActivePacks
  BY DEF SysIInv, BucketInv, Sparing, DeletesSpareActivePacks
<1> QED
  BY <1>1, SysInvariance, PTL

\* Whoever was given a catalog finds its packs for DELETE_DELAY, whatever is compacted.
THEOREM ReadersFindTheirPacks == SysSpec => []ReaderFindsPacks
<1>1. SysIInv => ReaderFindsPacks
  BY DEF SysIInv, BucketInv, Stored, ReaderFindsPacks
<1> QED
  BY <1>1, SysInvariance, PTL

\* The object in its surroundings behaves as the object alone.  All its theorems hold here.
THEOREM SystemContainsObject == SysSpec => Spec
<1>1. SysInit => Init
  BY DEF SysInit
<1>2. [SysNext]_sysVars => [Next]_vars
  BY ObjectSteps
<1> QED
  BY <1>1, <1>2, PTL DEF SysSpec, Spec
=============================================================================
