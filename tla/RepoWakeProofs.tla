--------------------------- MODULE RepoWakeProofs ---------------------------
(***************************************************************************)
(* Theorems about the wake-up chain of compaction, for every choice of     *)
(* delays.                                                                 *)
(***************************************************************************)
EXTENDS RepoWake, TLAPS

-----------------------------------------------------------------------------
(***************************************************************************)
(* What a deployment has to respect: nothing the alarm waits for, save a   *)
(* receive lease, takes as long as a repository needs to become idle.  The *)
(* access stamp may be ACCESS_THROTTLE - 1 old after a call.               *)
(***************************************************************************)
IdleOutlastsDelays ==
    \A delay \in {COMPACT_LEASE_TTL, COMPACTION_REARM_DELAY, COMPACTION_WAKE_DELAY} :
        delay + less(ACCESS_THROTTLE) < IDLE

\* The stamp was touched when the compaction lease was granted.
Fresh == compact.left > 0 => age + compact.left <= COMPACT_LEASE_TTL + less(ACCESS_THROTTLE)

\* An alarm that will fire at time a: before the repository is idle, or after all leases.
InTime(a, stampAge, receiveLeft, compactLeft) ==
    stampAge + a < IDLE \/ (a >= receiveLeft /\ a >= compactLeft)

Watched ==
    wanted => IF alarm = Never THEN queue > 0
              ELSE InTime(alarm, age, receive.left, compact.left)

WakeIInv == WakeTypeOK /\ Fresh /\ Watched

-----------------------------------------------------------------------------
(* Leases, the stamp and the alarm *)

LEMMA DelayTypes ==
    /\ RECEIVE_LEASE_TTL \in Nat /\ COMPACT_LEASE_TTL \in Nat
    /\ COMPACTION_REARM_DELAY \in Nat /\ COMPACTION_WAKE_DELAY \in Nat
    /\ ACCESS_THROTTLE \in Nat /\ IDLE \in Nat
    /\ RECEIVE_LEASE_TTL > 0 /\ COMPACT_LEASE_TTL > 0
    /\ COMPACTION_REARM_DELAY > 0 /\ COMPACTION_WAKE_DELAY > 0 /\ IDLE > 0
    /\ MaxExcess \in Nat /\ MaxMessages \in Nat /\ MaxMessages > 0
    /\ Never \in Nat /\ OldestAge \in Nat
    /\ less(ACCESS_THROTTLE) \in Nat
BY WakeAssumption DEF Never, OldestAge, less

LEMMA PositiveIsBoolean ==
    \A n : (n > 0) \in BOOLEAN
OBVIOUS

LEMMA LessIsMonotone ==
    ASSUME NEW a \in Nat, NEW n \in Nat, a # 0, a >= n
    PROVE  a - 1 >= less(n)
BY DEF less

LEMMA LeaseTypes ==
    ASSUME WakeTypeOK
    PROVE  /\ receive.left \in 0 .. RECEIVE_LEASE_TTL /\ compact.left \in 0 .. COMPACT_LEASE_TTL
           /\ receive.left \in Nat /\ compact.left \in Nat
           /\ receive.stored \in BOOLEAN /\ compact.stored \in BOOLEAN
           /\ alarm \in Nat /\ age \in Nat /\ alarm <= Never /\ age <= OldestAge
BY DelayTypes DEF WakeTypeOK, LeaseFor

LEMMA NoLeaseTypes ==
    ASSUME NEW ttl \in Nat
    PROVE  /\ NoLease \in LeaseFor(ttl) /\ NoLease.left = 0
           /\ granted(ttl) \in LeaseFor(ttl) /\ granted(ttl).left = ttl
           /\ \A lease \in LeaseFor(ttl) :
                  clearExpired(lease) \in LeaseFor(ttl) /\ clearExpired(lease).left = lease.left
                  /\ clearExpired(lease).stored \in BOOLEAN
<1>1. /\ NoLease \in LeaseFor(ttl) /\ NoLease.left = 0
      /\ granted(ttl) \in LeaseFor(ttl) /\ granted(ttl).left = ttl
  <2>1. 0 \in 0 .. ttl /\ ttl \in 0 .. ttl
    OBVIOUS
  <2> QED
    BY <2>1 DEF LeaseFor, NoLease, granted
<1>2. ASSUME NEW lease \in LeaseFor(ttl)
      PROVE  /\ clearExpired(lease) \in LeaseFor(ttl) /\ clearExpired(lease).left = lease.left
             /\ clearExpired(lease).stored \in BOOLEAN
  <2>1. lease.left \in 0 .. ttl /\ lease.stored \in BOOLEAN
    BY DEF LeaseFor
  <2>2. CASE lease.left > 0
    <3>1. clearExpired(lease) = lease
      BY <2>2 DEF clearExpired
    <3> QED
      BY <2>1, <3>1
  <2>3. CASE ~ lease.left > 0
    <3>1. clearExpired(lease) = NoLease /\ lease.left = 0
      BY <2>1, <2>3 DEF clearExpired
    <3>2. NoLease.stored \in BOOLEAN
      BY DEF NoLease
    <3> QED
      BY <1>1, <3>1, <3>2
  <2> QED
    BY <2>2, <2>3
<1> QED
  BY <1>1, <1>2

LEMMA QueueTypes ==
    ASSUME WakeTypeOK
    PROVE  /\ sent(queue) \in 0 .. MaxMessages /\ sent(queue) > 0
           /\ acked(queue) \in 0 .. MaxMessages /\ sent(acked(queue)) \in 0 .. MaxMessages
BY DelayTypes DEF WakeTypeOK, sent, acked

LEMMA TouchedAgeTypes ==
    ASSUME WakeTypeOK
    PROVE  /\ touchedAge \in Nat /\ touchedAge <= age /\ touchedAge <= less(ACCESS_THROTTLE)
           /\ touchedAge \in 0 .. OldestAge
<1>1. CASE age >= ACCESS_THROTTLE
  <2>1. touchedAge = 0
    BY <1>1 DEF touchedAge
  <2> QED
    BY <2>1, DelayTypes, LeaseTypes
<1>2. CASE ~ age >= ACCESS_THROTTLE
  <2>1. touchedAge = age
    BY <1>2 DEF touchedAge
  <2> QED
    BY <1>2, <2>1, DelayTypes, LeaseTypes DEF less
<1> QED
  BY <1>1, <1>2

LEMMA PlanTypes ==
    ASSUME WakeTypeOK, NEW a \in Nat
    PROVE  planNextAlarm(a) \in Nat /\ planNextAlarm(a) < Never
BY DelayTypes, LeaseTypes DEF planNextAlarm, Never

LEMMA TouchedAlarmTypes ==
    ASSUME WakeTypeOK, NEW x \in touchedAlarms
    PROVE  /\ x \in Nat /\ x < Never
           /\ x <= planNextAlarm(touchedAge)
           /\ x = planNextAlarm(touchedAge) \/ (x = alarm /\ alarm # Never)
<1>1. planNextAlarm(touchedAge) \in Nat /\ planNextAlarm(touchedAge) < Never
  BY TouchedAgeTypes, PlanTypes
<1> QED
  BY <1>1, DelayTypes, LeaseTypes DEF touchedAlarms, scheduleAlarmIfSooner

LEMMA WokenAlarmTypes ==
    ASSUME WakeTypeOK, NEW x \in wokenAlarms
    PROVE  x \in Nat /\ x < Never /\ x <= COMPACTION_WAKE_DELAY
BY TouchedAlarmTypes, DelayTypes DEF wokenAlarms, Never

-----------------------------------------------------------------------------
(* Typing *)

LEMMA WakeInitTypes ==
    ASSUME WakeInit
    PROVE  WakeTypeOK
<1>1. NoLease \in LeaseFor(RECEIVE_LEASE_TTL) /\ NoLease \in LeaseFor(COMPACT_LEASE_TTL)
  BY NoLeaseTypes, DelayTypes
<1>2. /\ 0 \in 0 .. MaxExcess /\ 0 \in 0 .. MaxMessages
      /\ Never \in 0 .. Never /\ OldestAge \in 0 .. OldestAge
  BY DelayTypes
<1> QED
  BY <1>1, <1>2 DEF WakeInit, WakeTypeOK

LEMMA WakeTypeStep ==
    ASSUME WakeTypeOK, [WakeNext]_<<wakeVars, cleared>>
    PROVE  WakeTypeOK'
<1> DEFINE leasesOK == /\ receive' \in LeaseFor(RECEIVE_LEASE_TTL)
                       /\ compact' \in LeaseFor(COMPACT_LEASE_TTL)
                       /\ current' \in BOOLEAN
           alarmOK == alarm' \in 0 .. Never /\ age' \in 0 .. OldestAge
           tablesOK == excess' \in 0 .. MaxExcess /\ wanted' \in BOOLEAN /\ queue' \in 0 .. MaxMessages
<1>1. /\ receive \in LeaseFor(RECEIVE_LEASE_TTL) /\ compact \in LeaseFor(COMPACT_LEASE_TTL)
      /\ clearExpired(receive) \in LeaseFor(RECEIVE_LEASE_TTL)
      /\ clearExpired(compact) \in LeaseFor(COMPACT_LEASE_TTL)
      /\ NoLease \in LeaseFor(RECEIVE_LEASE_TTL) /\ NoLease \in LeaseFor(COMPACT_LEASE_TTL)
      /\ granted(RECEIVE_LEASE_TTL) \in LeaseFor(RECEIVE_LEASE_TTL)
      /\ granted(COMPACT_LEASE_TTL) \in LeaseFor(COMPACT_LEASE_TTL)
      /\ current \in BOOLEAN
  BY NoLeaseTypes, DelayTypes DEF WakeTypeOK
<1>2. \A lease \in LeaseFor(COMPACT_LEASE_TTL) : lease.stored \in BOOLEAN
  BY DEF LeaseFor
<1>3. ASSUME RepoNext PROVE leasesOK
  <2>1. CASE otherCall \/ pushBegin \/ pushRelease \/ pushCommit
    BY <1>1, <1>2, <2>1 DEF otherCall, pushBegin, pushRelease, pushCommit
  <2>2. CASE OperatorNext \/ ConsumerNext
    BY <1>1, <1>2, <2>2 DEF OperatorNext, requestCompaction, clearCompactionRequest, ConsumerNext,
       deliver, deliverSkip, deliverBegin, compactCommit, compactRelease
  <2>3. CASE alarmNext
    BY <1>1, <1>2, <2>3 DEF alarmNext, alarmRearm, alarmActive, alarmNonEmptyIdle, expiryClears
  <2>4. CASE tick
    BY <1>1, <2>4, DelayTypes DEF tick, less, LeaseFor
  <2> QED
    BY <1>3, <2>1, <2>2, <2>3, <2>4 DEF RepoNext, PushNext
<1>4. ASSUME RepoNext PROVE alarmOK
  <2>1. ASSUME access(touchedAlarms) \/ access(wokenAlarms)
        PROVE  alarmOK
    BY <2>1, TouchedAgeTypes, TouchedAlarmTypes, WokenAlarmTypes, DelayTypes DEF access
  <2>2. \A needed : wakeIfNeeded(needed) => access(touchedAlarms) \/ access(wokenAlarms)
    BY DEF wakeIfNeeded
  <2>3. CASE PushNext \/ OperatorNext \/ otherCall \/ ConsumerNext
    BY <2>1, <2>2, <2>3 DEF PushNext, OperatorNext, ConsumerNext, otherCall, pushBegin,
       pushRelease, pushCommit, requestCompaction, clearCompactionRequest, deliver, deliverSkip,
       deliverBegin, compactCommit, compactRelease
  <2>4. CASE alarmNext
    <3>1. planNextAlarm(age) \in 0 .. Never
      BY LeaseTypes, PlanTypes, DelayTypes
    <3>2. COMPACTION_REARM_DELAY \in 0 .. Never /\ Never \in 0 .. Never
      BY DelayTypes DEF Never
    <3> QED
      BY <2>4, <3>1, <3>2 DEF alarmNext, alarmRearm, alarmActive, alarmNonEmptyIdle, WakeTypeOK
  <2>5. CASE tick
    BY <2>5, LeaseTypes, DelayTypes DEF tick, older
  <2> QED
    BY <1>4, <2>3, <2>4, <2>5 DEF RepoNext
<1>5. ASSUME RepoNext PROVE tablesOK
  <2>1. /\ excess \in 0 .. MaxExcess /\ wanted \in BOOLEAN /\ queue \in 0 .. MaxMessages
        /\ excess \in Nat
    BY DelayTypes DEF WakeTypeOK
  <2>2. CASE pushCommit
    <3>1. excess' \in 0 .. MaxExcess
      BY <2>1, <2>2, DelayTypes DEF pushCommit
    <3>2. wanted' \in BOOLEAN
      BY <2>2, Zenon DEF pushCommit
    <3>3. queue' \in 0 .. MaxMessages
      BY <2>1, <2>2, QueueTypes DEF pushCommit
    <3> QED
      BY <3>1, <3>2, <3>3
  <2>3. CASE pushBegin \/ pushRelease \/ OperatorNext \/ otherCall
    <3>1. excess' \in 0 .. MaxExcess /\ queue' \in 0 .. MaxMessages
      BY <2>1, <2>3, QueueTypes DEF OperatorNext, otherCall, pushBegin, pushRelease,
         requestCompaction, clearCompactionRequest
    <3>2. \/ wanted' = wanted
          \/ wanted' = FALSE
          \/ wanted' = (excess > 0)
      BY <2>3, Zenon DEF OperatorNext, otherCall, pushBegin, pushRelease, requestCompaction,
         clearCompactionRequest
    <3>3. wanted' \in BOOLEAN
      BY <2>1, <3>2, PositiveIsBoolean, Zenon
    <3> QED
      BY <3>1, <3>3
  <2>5. CASE ConsumerNext
    <3>1. excess' \in {excess, excess - 1} /\ (excess' = excess - 1 => excess > 0)
      BY <2>1, <2>5 DEF ConsumerNext, deliver, deliverSkip, deliverBegin, compactCommit,
         compactRelease
    <3>2. excess' \in 0 .. MaxExcess
      BY <2>1, <3>1, DelayTypes
    <3>3. wanted' \in BOOLEAN
      <4>1. CASE deliverSkip
        BY <4>1, Zenon DEF deliverSkip
      <4>2. CASE compactCommit
        BY <4>2, PositiveIsBoolean, Zenon DEF compactCommit
      <4>3. CASE deliverBegin \/ compactRelease
        BY <2>1, <4>3 DEF deliverBegin, compactRelease
      <4> QED
        BY <2>5, <4>1, <4>2, <4>3 DEF ConsumerNext, deliver
    <3>4. queue' \in 0 .. MaxMessages
      BY <2>1, <2>5, QueueTypes DEF ConsumerNext, deliver, deliverSkip, deliverBegin,
         compactCommit, compactRelease
    <3> QED
      BY <3>2, <3>3, <3>4
  <2>4. CASE alarmNext \/ tick
    BY <2>1, <2>4, QueueTypes DEF alarmNext, alarmRearm, alarmActive, alarmNonEmptyIdle, tick
  <2> QED
    BY <1>5, <2>2, <2>3, <2>4, <2>5 DEF RepoNext, PushNext
<1>6. CASE UNCHANGED <<wakeVars, cleared>>
  BY <1>6 DEF wakeVars, WakeTypeOK
<1>7. CASE WakeNext
  <2>1. cleared' \in BOOLEAN
    BY <1>7 DEF WakeNext
  <2> HIDE DEF leasesOK, alarmOK, tablesOK
  <2>2. leasesOK /\ alarmOK /\ tablesOK
    BY <1>3, <1>4, <1>5, <1>7 DEF WakeNext
  <2> QED
    BY <2>1, <2>2 DEF WakeTypeOK, leasesOK, alarmOK, tablesOK
<1> QED
  BY <1>6, <1>7

-----------------------------------------------------------------------------
(* The alarm comes in time *)

LEMMA PlanIsInTime ==
    ASSUME WakeTypeOK, Fresh, IdleOutlastsDelays, wanted, NEW a \in Nat, a <= age
    PROVE  InTime(planNextAlarm(a), a, receive.left, compact.left)
BY LeaseTypes, DelayTypes DEF Fresh, IdleOutlastsDelays, planNextAlarm, InTime

LEMMA TouchIsInTime ==
    ASSUME WakeIInv, IdleOutlastsDelays, wanted, NEW x \in touchedAlarms
    PROVE  InTime(x, touchedAge, receive.left, compact.left)
<1>1. x = planNextAlarm(touchedAge) \/ (x = alarm /\ alarm # Never)
  BY TouchedAlarmTypes DEF WakeIInv
<1>2. CASE x = planNextAlarm(touchedAge)
  BY <1>2, PlanIsInTime, TouchedAgeTypes DEF WakeIInv
<1>3. CASE x = alarm /\ alarm # Never
  <2>1. InTime(alarm, age, receive.left, compact.left)
    BY <1>3 DEF WakeIInv, Watched
  <2> QED
    BY <1>3, <2>1, TouchedAgeTypes, LeaseTypes, DelayTypes DEF InTime, WakeIInv
<1> QED
  BY <1>1, <1>2, <1>3

\* Any alarm of a short delay is in time: the call has just touched the stamp.
LEMMA ShortIsInTime ==
    ASSUME WakeTypeOK, IdleOutlastsDelays, NEW x \in Nat, NEW receiveLeft, NEW compactLeft,
           NEW delay \in {COMPACT_LEASE_TTL, COMPACTION_REARM_DELAY, COMPACTION_WAKE_DELAY},
           x <= delay
    PROVE  InTime(x, touchedAge, receiveLeft, compactLeft)
<1>1. delay \in Nat /\ delay + less(ACCESS_THROTTLE) < IDLE
  BY DelayTypes DEF IdleOutlastsDelays
<1> QED
  BY <1>1, TouchedAgeTypes, DelayTypes DEF InTime

\* A call that records no request and lets leases only shrink
LEMMA CallKeeps ==
    ASSUME WakeIInv, IdleOutlastsDelays, WakeTypeOK', access(touchedAlarms), wanted' => wanted,
           receive'.left <= receive.left, compact'.left = 0 \/ compact'.left = compact.left
    PROVE  WakeIInv'
<1>1. alarm' \in touchedAlarms /\ age' = touchedAge
  BY DEF access
<1>2. alarm' # Never
  BY <1>1, TouchedAlarmTypes, DelayTypes DEF WakeIInv
<1>3. /\ receive.left \in Nat /\ compact.left \in Nat /\ receive'.left \in Nat
      /\ compact'.left \in Nat /\ alarm' \in Nat /\ age' \in Nat /\ age \in Nat /\ age' <= age
  BY <1>1, LeaseTypes, TouchedAgeTypes, DelayTypes DEF WakeIInv, WakeTypeOK, LeaseFor
<1>4. wanted' => InTime(alarm', age', receive'.left, compact'.left)
  <2> SUFFICES ASSUME wanted' PROVE InTime(alarm', age', receive'.left, compact'.left)
    OBVIOUS
  <2>1. InTime(alarm', age', receive.left, compact.left)
    BY <1>1, TouchIsInTime
  <2> QED
    BY <1>3, <2>1 DEF InTime
<1>5. Fresh'
  BY <1>3, DelayTypes DEF WakeIInv, Fresh
<1> QED
  BY <1>2, <1>4, <1>5 DEF WakeIInv, Watched

\* A call that wakes the alarm
LEMMA WakeKeeps ==
    ASSUME WakeIInv, IdleOutlastsDelays, WakeTypeOK', access(wokenAlarms),
           compact'.left = 0 \/ compact'.left = compact.left
    PROVE  WakeIInv'
<1>1. alarm' \in wokenAlarms /\ age' = touchedAge
  BY DEF access
<1>2. alarm' \in Nat /\ alarm' < Never /\ alarm' <= COMPACTION_WAKE_DELAY
  BY <1>1, WokenAlarmTypes DEF WakeIInv
<1>3. InTime(alarm', age', receive'.left, compact'.left)
  BY <1>1, <1>2, ShortIsInTime DEF WakeIInv
<1>4. compact.left \in Nat /\ age \in Nat /\ age' \in Nat /\ age' <= age
  BY <1>1, LeaseTypes, TouchedAgeTypes DEF WakeIInv
<1>5. Fresh'
  BY <1>4, DelayTypes DEF WakeIInv, Fresh
<1> QED
  BY <1>2, <1>3, <1>5, DelayTypes DEF WakeIInv, Watched

\* A begin call grants its lease after the alarm was set.
LEMMA BeginKeeps ==
    ASSUME WakeIInv, IdleOutlastsDelays, WakeTypeOK', pushBegin \/ deliverBegin
    PROVE  WakeIInv'
<1>1. /\ alarm' \in touchedAlarms /\ age' = touchedAge /\ receive.left = 0
      /\ wanted' = wanted
  BY DEF pushBegin, deliverBegin, access, due
<1>2. /\ receive.left \in Nat /\ compact.left \in Nat /\ compact.left <= COMPACT_LEASE_TTL
      /\ age \in Nat /\ touchedAge \in Nat /\ touchedAge <= age
      /\ touchedAge <= less(ACCESS_THROTTLE)
  BY LeaseTypes, TouchedAgeTypes, DelayTypes DEF WakeIInv
<1>3. /\ alarm' \in Nat /\ alarm' < Never /\ alarm' <= planNextAlarm(touchedAge)
  BY <1>1, TouchedAlarmTypes DEF WakeIInv
<1>4. wanted => planNextAlarm(touchedAge) \in {compact.left, COMPACTION_REARM_DELAY}
  BY <1>1 DEF planNextAlarm
<1>5. wanted => \E delay \in {COMPACT_LEASE_TTL, COMPACTION_REARM_DELAY, COMPACTION_WAKE_DELAY} :
                    alarm' <= delay
  BY <1>2, <1>3, <1>4, DelayTypes
<1>6. wanted' => InTime(alarm', age', receive'.left, compact'.left)
  BY <1>1, <1>3, <1>5, ShortIsInTime DEF WakeIInv
<1>7. compact'.left \in {compact.left, COMPACT_LEASE_TTL}
  BY NoLeaseTypes, DelayTypes DEF pushBegin, deliverBegin, WakeIInv, WakeTypeOK
<1>8. pushBegin => compact'.left = compact.left
  BY NoLeaseTypes, DelayTypes DEF pushBegin, WakeIInv, WakeTypeOK
<1>9. Fresh'
  <2>1. CASE compact'.left = compact.left
    BY <1>1, <1>2, <2>1, DelayTypes DEF Fresh, WakeIInv
  <2>2. CASE compact'.left = COMPACT_LEASE_TTL
    BY <1>1, <1>2, <2>2, DelayTypes DEF Fresh
  <2> QED
    BY <1>7, <2>1, <2>2
<1> QED
  BY <1>3, <1>6, <1>9, DelayTypes DEF WakeIInv, Watched

LEMMA AlarmKeeps ==
    ASSUME WakeIInv, IdleOutlastsDelays, WakeTypeOK', alarmNext
    PROVE  WakeIInv'
<1>1. /\ alarm = 0 /\ receive'.left = receive.left /\ compact'.left = compact.left
      /\ wanted' = wanted /\ age' = age
  BY NoLeaseTypes, DelayTypes
     DEF alarmNext, alarmRearm, alarmActive, alarmNonEmptyIdle, expiryClears, WakeIInv, WakeTypeOK
<1>2. /\ receive.left \in Nat /\ compact.left \in Nat /\ age \in Nat /\ Never # 0
  BY LeaseTypes, DelayTypes DEF WakeIInv, Never
<1>3. Fresh'
  BY <1>1 DEF WakeIInv, Fresh
<1>4. Watched'
  <2>1. ASSUME NEW success \in BOOLEAN, alarmRearm(success) PROVE Watched'
    <3>1. receive.left = 0 /\ compact.left = 0
      BY <2>1 DEF alarmRearm, due
    <3>2. \/ alarm' = Never /\ queue' = sent(queue)
          \/ alarm' = COMPACTION_REARM_DELAY
      BY <2>1 DEF alarmRearm
    <3>3. COMPACTION_REARM_DELAY # Never
      BY DelayTypes DEF Never
    <3> QED
      BY <1>1, <3>1, <3>2, <3>3, QueueTypes, DelayTypes DEF Watched, InTime, WakeIInv
  <2>2. CASE alarmActive
    <3>1. alarm' = planNextAlarm(age)
      BY <2>2 DEF alarmActive
    <3>2. alarm' # Never
      BY <1>2, <3>1, PlanTypes, DelayTypes DEF WakeIInv
    <3>3. wanted => InTime(alarm', age, receive.left, compact.left)
      BY <1>2, <3>1, PlanIsInTime DEF WakeIInv
    <3> QED
      BY <1>1, <3>2, <3>3 DEF Watched
  <2>3. CASE alarmNonEmptyIdle
    <3>1. age >= IDLE /\ ~ due
      BY <2>3 DEF alarmNonEmptyIdle
    <3>2. ~ wanted
      BY <1>1, <1>2, <3>1, DelayTypes DEF WakeIInv, Watched, InTime, due
    <3> QED
      BY <1>1, <3>2 DEF Watched
  <2> QED
    BY <2>1, <2>2, <2>3 DEF alarmNext
<1> QED
  BY <1>3, <1>4 DEF WakeIInv

LEMMA TickKeeps ==
    ASSUME WakeIInv, WakeTypeOK', tick
    PROVE  WakeIInv'
<1>1. /\ receive.left \in Nat /\ compact.left \in Nat /\ age \in Nat /\ alarm \in Nat
  BY LeaseTypes DEF WakeIInv
<1>2. /\ receive'.left = less(receive.left) /\ compact'.left = less(compact.left)
      /\ alarm' = IF alarm = Never THEN Never ELSE alarm - 1
      /\ alarm # 0 /\ alarm <= Never /\ wanted' = wanted /\ queue' = queue
  <2>1. receive = [stored |-> receive.stored, left |-> receive.left]
        /\ compact = [stored |-> compact.stored, left |-> compact.left]
    BY DEF WakeIInv, WakeTypeOK, LeaseFor
  <2>2. receive'.left = less(receive.left) /\ compact'.left = less(compact.left)
    BY <2>1 DEF tick
  <2> QED
    BY <2>2, LeaseTypes DEF tick, WakeIInv
<1>3. age' \in {age, age + 1}
  BY DEF tick, older
<1>4. Fresh'
  BY <1>1, <1>2, <1>3, DelayTypes DEF WakeIInv, Fresh, less
<1>5. Watched'
  <2>1. CASE alarm = Never
    BY <1>2, <2>1 DEF WakeIInv, Watched
  <2>2. CASE alarm # Never
    <3>1. alarm' = alarm - 1 /\ alarm' # Never
      BY <1>1, <1>2, <2>2, DelayTypes
    <3>2. ASSUME InTime(alarm, age, receive.left, compact.left)
          PROVE  InTime(alarm', age', receive'.left, compact'.left)
      <4>1. CASE age + alarm < IDLE
        <5>1. IDLE \in Nat
          BY DelayTypes
        <5>2. age + (alarm - 1) < IDLE /\ (age + 1) + (alarm - 1) < IDLE
          BY <1>1, <4>1, <5>1
        <5>3. age' + alarm' < IDLE
          BY <1>3, <3>1, <5>2
        <5> QED
          BY <5>3 DEF InTime
      <4>2. CASE alarm >= receive.left /\ alarm >= compact.left
        <5>1. alarm - 1 >= less(receive.left) /\ alarm - 1 >= less(compact.left)
          BY <1>1, <1>2, <4>2, LessIsMonotone
        <5> QED
          BY <1>2, <3>1, <5>1 DEF InTime
      <4> QED
        BY <3>2, <4>1, <4>2 DEF InTime
    <3> QED
      BY <1>2, <2>2, <3>1, <3>2 DEF WakeIInv, Watched
  <2> QED
    BY <2>1, <2>2
<1> QED
  BY <1>4, <1>5 DEF WakeIInv

LEMMA WakeStep ==
    ASSUME WakeIInv, IdleOutlastsDelays, [WakeNext]_<<wakeVars, cleared>>
    PROVE  WakeIInv'
<1>1. WakeTypeOK'
  BY WakeTypeStep DEF WakeIInv
<1>2. /\ receive.left \in Nat /\ compact.left \in Nat
      /\ clearExpired(receive).left = receive.left /\ clearExpired(compact).left = compact.left
      /\ NoLease.left = 0
  BY LeaseTypes, NoLeaseTypes, DelayTypes DEF WakeIInv, WakeTypeOK
<1>3. CASE otherCall \/ pushRelease \/ clearCompactionRequest \/ deliverSkip \/ compactRelease
  <2>1. access(touchedAlarms)
    BY <1>3 DEF otherCall, pushRelease, clearCompactionRequest, deliverSkip, compactRelease
  <2>3. wanted' => wanted
    <3>1. CASE deliverSkip
      BY <3>1, Zenon DEF deliverSkip
    <3>2. CASE otherCall \/ pushRelease \/ clearCompactionRequest \/ compactRelease
      BY <3>2 DEF otherCall, pushRelease, clearCompactionRequest, compactRelease
    <3> QED
      BY <1>3, <3>1, <3>2
  <2>2. receive'.left <= receive.left /\ (compact'.left = 0 \/ compact'.left = compact.left)
    <3>1. /\ receive'.left \in {receive.left, 0}
          /\ compact'.left = 0 \/ compact'.left = compact.left
      <4>1. CASE otherCall
        BY <1>2, <4>1 DEF otherCall
      <4>2. CASE deliverSkip
        BY <1>2, <4>2 DEF deliverSkip
      <4>3. CASE pushRelease \/ clearCompactionRequest \/ compactRelease
        BY <1>2, <4>3 DEF pushRelease, clearCompactionRequest, compactRelease
      <4> QED
        BY <1>3, <4>1, <4>2, <4>3
    <3> QED
      BY <1>2, <3>1
  <2> QED
    BY <1>1, <2>1, <2>2, <2>3, CallKeeps
<1>4. CASE requestCompaction \/ pushCommit \/ compactCommit
  <2>1. receive'.left <= receive.left /\ (compact'.left = 0 \/ compact'.left = compact.left)
    BY <1>2, <1>4 DEF requestCompaction, pushCommit, compactCommit
  <2>2. \/ access(wokenAlarms)
        \/ access(touchedAlarms) /\ (wanted' => wanted)
    BY <1>4 DEF requestCompaction, pushCommit, compactCommit, wakeIfNeeded
  <2> QED
    BY <1>1, <2>1, <2>2, CallKeeps, WakeKeeps
<1>5. CASE UNCHANGED <<wakeVars, cleared>>
  BY <1>1, <1>5 DEF wakeVars, WakeIInv, Fresh, Watched
<1> QED
  BY <1>1, <1>3, <1>4, <1>5, BeginKeeps, AlarmKeeps, TickKeeps
     DEF WakeNext, RepoNext, PushNext, OperatorNext, ConsumerNext, deliver

-----------------------------------------------------------------------------
\* What is left of leases and until the alarm, and the age of the stamp, stay within the
\* bounds of their delays, whatever the delays are.
THEOREM WakeTypeCorrect == WakeSpec => []WakeTypeOK
<1>1. WakeInit => WakeTypeOK
  BY WakeInitTypes
<1>2. WakeTypeOK /\ [WakeNext]_<<wakeVars, cleared>> => WakeTypeOK'
  BY WakeTypeStep
<1> QED
  BY <1>1, <1>2, PTL DEF WakeSpec

\* Wherever the idle time outlasts the compaction lease and the delays of the alarm, a
\* recorded request always has an alarm or a message: idle cleanup never clears the alarm
\* that was to come back to it.
THEOREM RequestsAreWatched ==
    ASSUME IdleOutlastsDelays
    PROVE  WakeSpec => []RequestIsWatched
<1>1. WakeInit => WakeIInv
  <2> SUFFICES ASSUME WakeInit PROVE WakeIInv
    OBVIOUS
  <2>1. ~ compact.left > 0 /\ ~ wanted
    BY DEF WakeInit, NoLease
  <2> QED
    BY <2>1, WakeInitTypes DEF WakeIInv, Fresh, Watched
<1>2. WakeIInv /\ [WakeNext]_<<wakeVars, cleared>> => WakeIInv'
  BY WakeStep
<1>3. WakeIInv => RequestIsWatched
  BY DEF WakeIInv, Watched, RequestIsWatched
<1> QED
  BY <1>1, <1>2, <1>3, PTL DEF WakeSpec
=============================================================================
