------------------------------ MODULE RepoWake ------------------------------
(***************************************************************************)
(* How a repository is woken to compact itself: the request, the leases in *)
(* its way, the object's single alarm, the idle deadline that shares it,   *)
(* and the maintenance queue.  The repository holds packs, so idle cleanup *)
(* never erases it.                                                        *)
(*                                                                         *)
(* Times are durations: what is left of a lease or until the alarm, and    *)
(* the age of the access stamp, so that the state space is finite without  *)
(* a bound on the clock and eventualities can be checked.  Of the catalog  *)
(* only its distance from the policy is left, of a lease's token only      *)
(* whether the lease is stored.                                            *)
(***************************************************************************)
EXTENDS Naturals

CONSTANTS
    RECEIVE_LEASE_TTL,
    COMPACT_LEASE_TTL,
    COMPACTION_REARM_DELAY,
    COMPACTION_WAKE_DELAY,
    ACCESS_THROTTLE,
    IDLE,
    MaxExcess,     \* bound on the compactions a push may make necessary
    MaxMessages    \* bound on compaction messages outstanding

ASSUME WakeAssumption ==
    /\ RECEIVE_LEASE_TTL \in Nat \ {0}
    /\ COMPACT_LEASE_TTL \in Nat \ {0}
    /\ COMPACTION_REARM_DELAY \in Nat \ {0}
    /\ COMPACTION_WAKE_DELAY \in Nat \ {0}
    /\ ACCESS_THROTTLE \in Nat
    /\ IDLE \in Nat \ {0}
    /\ MaxExcess \in Nat \ {0}
    /\ MaxMessages \in Nat \ {0}

VARIABLES
    excess,     \* compactions until the catalog is within the policy
    wanted,     \* compactionWantedAt is set
    receive,    \* receiveLease
    compact,    \* compactLease
    current,    \* no push has committed since compactLease was granted
    alarm,      \* time left until the alarm
    age,        \* of lastAccessMs
    queue,      \* compaction messages not yet acknowledged
    cleared     \* history: the request was cleared and none was recorded since

wakeVars == <<excess, wanted, receive, compact, current, alarm, age, queue>>

\* An expired lease stays stored, with nothing left, until someone clears it.
LeaseFor(ttl) == [stored : BOOLEAN, left : 0 .. ttl]

NoLease == [stored |-> FALSE, left |-> 0]

granted(ttl) == [stored |-> TRUE, left |-> ttl]

clearExpired(lease) == IF lease.left > 0 THEN lease ELSE NoLease

\* No alarm is set: later than any alarm can be
Never == RECEIVE_LEASE_TTL + COMPACT_LEASE_TTL + COMPACTION_REARM_DELAY
             + COMPACTION_WAKE_DELAY + IDLE

\* An older stamp behaves like this one.
OldestAge == IDLE + ACCESS_THROTTLE

-----------------------------------------------------------------------------
(* The access stamp and the alarm, as every RPC touches them first *)

touchedAge == IF age >= ACCESS_THROTTLE THEN 0 ELSE age

planNextAlarm(a) ==
    IF receive.left > 0 THEN receive.left
    ELSE IF compact.left > 0 THEN compact.left
    ELSE IF wanted THEN COMPACTION_REARM_DELAY
    ELSE IF a >= IDLE THEN IDLE ELSE IDLE - a

\* An alarm that is already past is replaced, whether sooner or not; with none
\* left one cannot tell due from past.
scheduleAlarmIfSooner(prev, when) ==
    (IF prev > when THEN {when} ELSE {prev}) \cup (IF prev = 0 THEN {when} ELSE {})

touchedAlarms == scheduleAlarmIfSooner(alarm, planNextAlarm(touchedAge))

wokenAlarms ==
    {IF a > COMPACTION_WAKE_DELAY THEN COMPACTION_WAKE_DELAY ELSE a : a \in touchedAlarms}

access(alarms) == age' = touchedAge /\ alarm' \in alarms

wakeIfNeeded(stillNeeded) == access(IF stillNeeded THEN wokenAlarms ELSE touchedAlarms)

\* A send may fail; it is logged and forgotten.
sent(q) == IF q < MaxMessages THEN q + 1 ELSE q

acked(q) == IF q > 0 THEN q - 1 ELSE 0

WakeInit ==
    /\ excess = 0 /\ wanted = FALSE
    /\ receive = NoLease /\ compact = NoLease /\ current = FALSE
    /\ alarm = Never /\ age = OldestAge
    /\ queue = 0
    /\ cleared = FALSE

-----------------------------------------------------------------------------
(* Calls from users and push workers *)

\* A read, a call refused because of a lease, an abort or a finalize whose lease
\* is not the stored one; clearExpiredLeases is part of some of them.
otherCall ==
    /\ receive' \in {receive, clearExpired(receive)}
    /\ compact' \in {compact, clearExpired(compact)}
    /\ current' \in {current, current /\ compact'.stored}
    /\ access(touchedAlarms)
    /\ UNCHANGED <<excess, wanted, queue>>

pushBegin ==
    /\ receive.left = 0
    /\ receive' = granted(RECEIVE_LEASE_TTL)
    /\ compact' = clearExpired(compact)
    /\ current' = (current /\ compact'.stored)
    /\ access(touchedAlarms)
    /\ UNCHANGED <<excess, wanted, queue>>

\* Aborted, refused, or only deleting refs
pushRelease ==
    /\ receive.stored
    /\ receive' = NoLease
    /\ access(touchedAlarms)
    /\ UNCHANGED <<excess, wanted, compact, current, queue>>

\* A pack is added; the worker sends a message if a tier overflows.
pushCommit ==
    /\ receive.stored
    /\ receive' = NoLease
    /\ excess' \in excess .. MaxExcess
    /\ wanted' = (wanted \/ excess' > 0)
    /\ current' = FALSE
    /\ wakeIfNeeded(excess' > 0)
    /\ queue' \in {queue, IF excess' > 0 THEN sent(queue) ELSE queue}
    /\ UNCHANGED compact

requestCompaction ==
    /\ wanted' = (excess > 0)
    /\ wakeIfNeeded(excess > 0)
    /\ queue' \in {queue, IF excess > 0 THEN sent(queue) ELSE queue}
    /\ UNCHANGED <<excess, receive, compact, current>>

\* By an operator, or by a consumer whose compaction can never succeed
clearCompactionRequest ==
    /\ wanted' = FALSE
    /\ access(touchedAlarms)
    /\ UNCHANGED <<excess, receive, compact, current, queue>>

-----------------------------------------------------------------------------
(* The queue consumer *)

due == wanted /\ receive.left = 0 /\ compact.left = 0

\* A message that finds a push is retried until its attempts are used up; any
\* other message that is not served is acknowledged.
deliverSkip ==
    /\ queue > 0
    /\ ~ due \/ excess = 0
    /\ wanted' = (wanted /\ ~ due)
    /\ receive' = clearExpired(receive)
    /\ compact' = clearExpired(compact)
    /\ current' = (current /\ compact'.stored)
    /\ queue' \in IF wanted /\ receive.left > 0 THEN {queue, acked(queue)} ELSE {acked(queue)}
    /\ access(touchedAlarms)
    /\ UNCHANGED excess

\* Mutant: the compaction is granted the receive's time.
deliverBeginReceiveTtl ==
    /\ queue > 0
    /\ due /\ excess > 0
    /\ receive' = NoLease
    /\ compact' = granted(RECEIVE_LEASE_TTL)
    /\ current' = TRUE
    /\ queue' \in {queue, acked(queue)}
    /\ access(touchedAlarms)
    /\ UNCHANGED <<excess, wanted>>

\* The message comes back after a failure, unless this was its last attempt.
deliverBegin ==
    /\ queue > 0
    /\ due /\ excess > 0
    /\ receive' = NoLease
    /\ compact' = granted(COMPACT_LEASE_TTL)
    /\ current' = TRUE
    /\ queue' \in {queue, acked(queue)}
    /\ access(touchedAlarms)
    /\ UNCHANGED <<excess, wanted>>

\* Mutant: the request is dropped although other tiers still overflow
compactCommitForgets ==
    /\ compact.stored /\ current /\ receive.left = 0
    /\ excess > 0
    /\ excess' = excess - 1
    /\ wanted' = FALSE
    /\ access(touchedAlarms)
    /\ queue' = acked(queue)
    /\ compact' = NoLease
    /\ current' = FALSE
    /\ UNCHANGED receive

\* One step of the plan is done; what is left of it is requested again.
compactCommit ==
    /\ compact.stored /\ current /\ receive.left = 0
    /\ excess > 0
    /\ excess' = excess - 1
    /\ wanted' = (excess' > 0)
    /\ wakeIfNeeded(excess' > 0)
    /\ queue' \in {acked(queue), queue,
                   IF excess' > 0 THEN sent(acked(queue)) ELSE acked(queue)}
    /\ compact' = NoLease
    /\ current' = FALSE
    /\ UNCHANGED receive

\* Aborted, or refused by commitCompaction.  The message comes back, unless this
\* was its last attempt or the compaction can never succeed.
compactRelease ==
    /\ compact.stored
    /\ compact' = NoLease
    /\ current' = FALSE
    /\ queue' \in {queue, acked(queue)}
    /\ access(touchedAlarms)
    /\ UNCHANGED <<excess, wanted, receive>>

-----------------------------------------------------------------------------
(* alarm() *)

expiryClears ==
    /\ receive' = clearExpired(receive)
    /\ compact' = clearExpired(compact)
    /\ current' = (current /\ compact'.stored)

\* Mutant: a send that fails does not set the alarm again
alarmRearmOnce(success) ==
    /\ alarm = 0 /\ due
    /\ expiryClears
    /\ alarm' = Never
    /\ queue' = IF success THEN sent(queue) ELSE queue
    /\ UNCHANGED <<excess, wanted, age>>

alarmRearm(success) ==
    /\ alarm = 0 /\ due
    /\ expiryClears
    /\ alarm' = IF success THEN Never ELSE COMPACTION_REARM_DELAY
    /\ queue' = IF success THEN sent(queue) ELSE queue
    /\ UNCHANGED <<excess, wanted, age>>

alarmActive ==
    /\ alarm = 0 /\ ~ due /\ age < IDLE
    /\ expiryClears
    /\ alarm' = planNextAlarm(age)
    /\ UNCHANGED <<excess, wanted, age, queue>>

\* clearIdleAlarm
alarmNonEmptyIdle ==
    /\ alarm = 0 /\ ~ due /\ age >= IDLE
    /\ expiryClears
    /\ alarm' = Never
    /\ UNCHANGED <<excess, wanted, age, queue>>

less(n) == IF n > 0 THEN n - 1 ELSE 0

older == IF age < OldestAge THEN age + 1 ELSE age

\* An alarm that is due fires before the next unit of time is over.
tick ==
    /\ alarm # 0
    /\ receive' = [receive EXCEPT !.left = less(@)]
    /\ compact' = [compact EXCEPT !.left = less(@)]
    /\ alarm' = IF alarm = Never THEN Never ELSE alarm - 1
    /\ age' = older
    /\ UNCHANGED <<excess, wanted, current, queue>>

-----------------------------------------------------------------------------
PushNext == pushBegin \/ pushRelease \/ pushCommit

OperatorNext == requestCompaction \/ clearCompactionRequest

deliver == deliverSkip \/ deliverBegin

ConsumerNext == deliver \/ compactCommit \/ compactRelease

alarmNext ==
    (\E success \in BOOLEAN : alarmRearm(success)) \/ alarmActive \/ alarmNonEmptyIdle

RepoNext == PushNext \/ OperatorNext \/ otherCall \/ ConsumerNext \/ alarmNext \/ tick

WakeNext ==
    /\ RepoNext
    /\ cleared' = ((cleared \/ clearCompactionRequest) /\ ~ wanted')

WakeSpec == WakeInit /\ [][WakeNext]_<<wakeVars, cleared>>

\* Time passes; an alarm that keeps falling due fires at last, however often calls
\* replace it, and not every send it makes fails; a message in the queue is delivered.
Platform ==
    /\ WF_wakeVars(tick)
    /\ SF_wakeVars(alarmNext) /\ SF_wakeVars(alarmRearm(TRUE))
    /\ WF_wakeVars(deliver)

FairSpec == WakeSpec /\ Platform

-----------------------------------------------------------------------------
(* Properties *)

\* Leases, alarms and ages have their types and bounds: no lease is stored beyond
\* the time of its own kind (leases.ts, lease.ts).
WakeTypeOK ==
    /\ excess \in 0 .. MaxExcess /\ wanted \in BOOLEAN
    /\ receive \in LeaseFor(RECEIVE_LEASE_TTL) /\ compact \in LeaseFor(COMPACT_LEASE_TTL)
    /\ current \in BOOLEAN
    /\ alarm \in 0 .. Never /\ age \in 0 .. OldestAge
    /\ queue \in 0 .. MaxMessages
    /\ cleared \in BOOLEAN

\* "Re-arm compaction via alarms when a compaction request or lease is active"
\* (scheduler.ts): a recorded request always has an alarm or a message that will
\* come back to it, whichever step of the chain was the last to run.
RequestIsWatched == wanted => alarm # Never \/ queue > 0

\* Unless pushes keep coming, a recorded request is dropped or given a compaction
\* lease again and again: no failed send, lost retry, crashed worker, expired lease or
\* postponed alarm leaves it waiting for a user to call.
RequestIsServed == <>[](receive.left = 0) => []<>(~ wanted \/ compact.left > 0)

\* Once pushes end and nobody clears requests any more, compactions that do not fail
\* for ever bring the catalog within the policy, unless the last request had been
\* cleared: each commit hands what is left to do to the next.
OverflowIsResolved ==
    /\ <>[][~ PushNext /\ ~ clearCompactionRequest]_wakeVars
    /\ SF_wakeVars(compactCommit)
    => <>[](excess = 0 \/ cleared)
=============================================================================
