-------------------------- MODULE SchedulerProofs --------------------------
(***************************************************************************)
(* Proofs about Scheduler, for any number of run goroutines, any schedules *)
(* and any length of days, weeks and clock.                                *)
(*                                                                         *)
(* Inv adds what the properties rest on: the guard is held while a run is  *)
(* in progress, the stored cancel is that of the run in progress, an idle  *)
(* wait without a due instant goes on with instant 0, a plan is made on    *)
(* the saved schedule or with a wake-up coming, and a run that is to be    *)
(* settled has succeeded.                                                  *)
(***************************************************************************)
EXTENDS Scheduler, WellFoundedInduction, TLAPS

GuardHeld == \A r \in Runs : InProgress(r) => guard

CurrentInProgress == current # Free => InProgress(current)

RetryWithoutInstant == loop.at = "retry" => loop.until = 0

PlansAreHeard == loop.at = "plan" /\ loop.heard # config => wake \/ notifying

SuccessesAreRecorded ==
  \A r \in Runs : runs[r] # Free =>
    /\ (/\ runs[r].trigger # "manual" /\ runs[r].status = "ok"
        /\ runs[r].at \in {"returned", "released", "mark", "settle"})
         => runs[r].day \in succeeded
    /\ runs[r].at = "settle" => runs[r].status = "ok"

Exclusion == GuardHeld /\ OneRunAtATime /\ CurrentInProgress

Inv == /\ TypeOK
       /\ GuardHeld /\ OneRunAtATime /\ CurrentInProgress
       /\ RetryWithoutInstant /\ PlansAreHeard /\ ChangesAreHeard
       /\ SuccessesAreRecorded /\ SettledDaysSucceeded
       /\ StopReachesScheduledRuns

-----------------------------------------------------------------------------
(* The calendar                                                            *)

Before == {p \in Nat \X Nat : p[1] < p[2]}

LEMMA BeforeIsLess == Before = OpToRel(<, Nat)
BY Zenon DEF Before, OpToRel

LEMMA NotBefore ==
  ASSUME NEW x \in Nat, NEW y \in Nat, <<y, x>> \notin Before
  PROVE  x <= y
<1>1. <<y, x>> \in Nat \X Nat /\ <<y, x>>[1] = y /\ <<y, x>>[2] = x
  OBVIOUS
<1>2. ~(y < x)
  BY <1>1, Zenon DEF Before
<1> QED
  BY <1>2

\* A set of days that is not empty has a first one.
LEMMA FirstDay ==
  ASSUME NEW S \in SUBSET Nat, S # {}
  PROVE  Min(S) \in S /\ \A y \in S : Min(S) <= y
<1>1. \E x \in S : \A y \in S : <<y, x>> \notin OpToRel(<, Nat)
  BY NatLessThanWellFounded, WFMin, Zenon
<1>2. PICK x \in S : \A y \in S : <<y, x>> \notin Before
  BY <1>1, BeforeIsLess, Zenon
<1>3. \A y \in S : x <= y
  BY <1>2, NotBefore
<1> QED
  BY <1>3 DEF Min

LEMMA DayIsNat ==
  ASSUME NEW t \in Nat
  PROVE  Day(t) \in Nat /\ 1 <= Day(t)
<1>1. DayLength \in Nat \ {0}
  BY ScheduleConstants
<1>2. t \div DayLength \in Nat
  BY <1>1
<1> QED
  BY <1>2 DEF Day

LEMMA DueIsNat ==
  ASSUME NEW cfg \in Configs, NEW day \in Nat, 1 <= day
  PROVE  Due(cfg, day) \in Nat
<1>1. DayLength \in Nat /\ cfg.due \in Nat
  BY ScheduleConstants
<1>2. day - 1 \in Nat
  OBVIOUS
<1>3. (day - 1) * DayLength \in Nat
  BY <1>1, <1>2
<1> QED
  BY <1>1, <1>3 DEF Due

\* The next due instant is an instant.
LEMMA NextBoundaryIsNat ==
  ASSUME NEW t \in Nat, NEW cfg \in Configs
  PROVE  NextBoundary(t, cfg) \in Nat
<1> DEFINE first == IF Due(cfg, Day(t)) > t THEN Day(t) ELSE Day(t) + 1
           days  == {d \in first..(first + WeekLength - 1) : Selected(cfg, d)}
<1>1. first \in Nat /\ 1 <= first
  BY DayIsNat
<1>2. days \in SUBSET Nat /\ \A d \in days : 1 <= d
  <2> HIDE DEF first
  <2> QED
    BY <1>1, ScheduleConstants
<1>3. days # {} => Min(days) \in days
  <2> HIDE DEF days
  <2> QED
    BY <1>2, FirstDay
<1>4. days # {} => Due(cfg, Min(days)) \in Nat
  <2> HIDE DEF days
  <2> QED
    BY <1>2, <1>3, DueIsNat
<1>5. NextBoundary(t, cfg) = IF days = {} THEN 0 ELSE Due(cfg, Min(days))
  BY DEF NextBoundary
<1> HIDE DEF days
<1> QED
  BY <1>4, <1>5


-----------------------------------------------------------------------------
(* Runs and the loop                                                       *)

LEMMA AtOfRun ==
  ASSUME NEW x \in Run,
         NEW place \in {"accepted", "running", "returned", "released", "mark", "settle"}
  PROVE  /\ At(x, place) \in Run /\ At(x, place).at = place
         /\ At(x, place).trigger = x.trigger /\ At(x, place).day = x.day
         /\ At(x, place).startedAt = x.startedAt
         /\ At(x, place).status = x.status /\ At(x, place).cancelled = x.cancelled
BY DEF At, Run

LEMMA EndedOfRun ==
  ASSUME NEW x \in Run, NEW status \in {"ok", "error"}
  PROVE  /\ Ended(x, status) \in Run /\ Ended(x, status).at = "returned"
         /\ Ended(x, status).trigger = x.trigger /\ Ended(x, status).day = x.day
         /\ Ended(x, status).startedAt = x.startedAt
         /\ Ended(x, status).status = status /\ Ended(x, status).cancelled = x.cancelled
BY DEF Ended, Run

LEMMA CancelledByOfRun ==
  ASSUME NEW x \in Run, NEW who \in {"user", "deadline", "stop", "other run"}
  PROVE  /\ CancelledBy(x, who) \in Run /\ CancelledBy(x, who).at = x.at
         /\ CancelledBy(x, who).trigger = x.trigger /\ CancelledBy(x, who).day = x.day
         /\ CancelledBy(x, who).startedAt = x.startedAt
         /\ CancelledBy(x, who).status = x.status
         /\ CancelledBy(x, who).cancelled # "no"
BY DEF CancelledBy, Run

LEMMA AtOfLoop ==
  ASSUME NEW x \in Loop,
         NEW place \in {"read", "plan", "idle", "retry", "sleep", "fire", "run", "ended"}
  PROVE  /\ At(x, place) \in Loop /\ At(x, place).at = place
         /\ At(x, place).heard = x.heard /\ At(x, place).until = x.until
BY DEF At, Loop

-----------------------------------------------------------------------------
(* Types                                                                   *)

LEMMA AcquireTypes ==
  ASSUME TypeOK, NEW r \in Runs, NEW day \in Nat,
         NEW trigger \in {"scheduled", "manual", "missed_startup"},
         Acquire(r, trigger, day)
  PROVE  guard' \in BOOLEAN /\ runs' \in [Runs -> Run \cup {Free}]
BY DEF TypeOK, Acquire, Run

LEMMA SettlementTypes ==
  ASSUME TypeOK, NEW day \in Nat, NEW reason \in {"scheduled", "ignored", "run_now"},
         NEW ok \in BOOLEAN, ApplySettlement(day, reason, ok)
  PROVE  /\ lastRun' \in [at: Nat, status: {"", "ok", "error"}]
         /\ settled' \in [day: Nat, reason: {"", "scheduled", "ignored", "run_now"}]
         /\ attempt' \in [day: Nat, status: {"", "error"}]
<1>1. CASE settled.day >= day
  BY <1>1 DEF TypeOK, ApplySettlement
<1>2. CASE ~(settled.day >= day)
  <2>1. /\ settled' = [day |-> day, reason |-> reason]
        /\ attempt' = [day |-> 0, status |-> ""]
        /\ lastRun' = [at |-> now, status |-> "ok"] \/ lastRun' = lastRun
    BY <1>2, Zenon DEF ApplySettlement
  <2>2. now \in Nat /\ lastRun \in [at: Nat, status: {"", "ok", "error"}]
    BY DEF TypeOK
  <2>3. lastRun' \in [at: Nat, status: {"", "ok", "error"}]
    <3>1. CASE lastRun' = [at |-> now, status |-> "ok"]
      BY <2>2, <3>1
    <3>2. CASE lastRun' = lastRun
      BY <2>2, <3>2
    <3> QED
      BY <2>1, <3>1, <3>2
  <2> QED
    BY <2>1, <2>3
<1> QED
  BY <1>1, <1>2

LEMMA InitTypes == Init => TypeOK
<1> SUFFICES ASSUME Init PROVE TypeOK
  OBVIOUS
<1>1. now \in Nat
  <2>1. now \in 0..MaxTime
    BY Zenon DEF Init
  <2> QED
    BY <2>1, ScheduleConstants
<1>2. loop \in Loop
  BY DEF Init, Started, Loop
<1>3. missed \in [day: Nat, action: {"", "ignore", "run_now", "running"}]
  BY DEF Init, Unclaimed
<1> QED
  BY <1>1, <1>2, <1>3 DEF Init, TypeOK

LEMMA LiveRun ==
  ASSUME TypeOK, NEW r \in Runs, runs[r] # Free
  PROVE  runs[r] \in Run
BY DEF TypeOK

LEMMA RunChanges ==
  ASSUME TypeOK, NEW r \in Runs, NEW x \in Run \cup {Free},
         runs' = [runs EXCEPT ![r] = x]
  PROVE  runs' \in [Runs -> Run \cup {Free}]
BY DEF TypeOK

\* The types of the store, of the loop and its signals, of the runs, and of the
\* clock and what is remembered, each changed by a few actions only.
StoreTypes ==
  /\ config \in Configs
  /\ lastRun \in [at: Nat, status: {"", "ok", "error"}]
  /\ settled \in [day: Nat, reason: {"", "scheduled", "ignored", "run_now"}]
  /\ attempt \in [day: Nat, status: {"", "error"}]

LoopTypes == loop \in Loop /\ wake \in BOOLEAN /\ notifying \in BOOLEAN /\ stopping \in BOOLEAN

RunTypes == guard \in BOOLEAN /\ current \in Runs \cup {Free} /\ runs \in [Runs -> Run \cup {Free}]

ClockTypes ==
  /\ now \in Nat /\ startedAt \in Nat
  /\ missed \in [day: Nat, action: {"", "ignore", "run_now", "running"}]
  /\ succeeded \subseteq Nat

LEMMA TypeParts == TypeOK <=> StoreTypes /\ LoopTypes /\ RunTypes /\ ClockTypes
BY Zenon DEF TypeOK, StoreTypes, LoopTypes, RunTypes, ClockTypes

LEMMA StepStoreTypes ==
  ASSUME TypeOK, Next
  PROVE  StoreTypes'
<1>1. ASSUME UNCHANGED store
      PROVE  StoreTypes'
  <2>1. UNCHANGED <<config, lastRun, settled, attempt>>
    BY <1>1 DEF store
  <2> QED
    BY <2>1, TypeParts DEF StoreTypes
<1>2. ASSUME NEW cfg \in Configs, SaveConfig(cfg)
      PROVE  StoreTypes'
  BY <1>2, TypeParts DEF SaveConfig, StoreTypes
<1>3. ASSUME UNCHANGED config, NEW day \in Nat, NEW ok \in BOOLEAN,
             NEW reason \in {"scheduled", "ignored", "run_now"},
             ApplySettlement(day, reason, ok)
      PROVE  StoreTypes'
  <2>1. config' \in Configs
    BY <1>3, TypeParts DEF StoreTypes
  <2> QED
    BY <1>3, <2>1, SettlementTypes DEF StoreTypes
<1>4. ASSUME NEW r \in Runs, runs[r] # Free, MarkScheduleRun(r)
      PROVE  StoreTypes'
  <2>1. \/ lastRun' = lastRun
        \/ lastRun' = [at |-> runs[r].startedAt, status |-> runs[r].status]
    BY <1>4 DEF MarkScheduleRun
  <2>2. runs[r].startedAt \in Nat /\ runs[r].status \in {"", "ok", "error"}
    BY <1>4, LiveRun DEF Run
  <2>3. [at |-> runs[r].startedAt, status |-> runs[r].status]
          \in [at: Nat, status: {"", "ok", "error"}]
    BY <2>2
  <2>4. UNCHANGED <<config, settled, attempt>>
    BY <1>4 DEF MarkScheduleRun
  <2> QED
    BY <2>1, <2>3, <2>4, TypeParts, Zenon DEF StoreTypes
<1>5. ASSUME NEW r \in Runs, runs[r] # Free, SettleScheduledRun(r)
      PROVE  StoreTypes'
  <2>1. runs[r].day \in Nat
    BY <1>5, LiveRun DEF Run
  <2>2. /\ UNCHANGED config
        /\ UNCHANGED store \/ ApplySettlement(runs[r].day, "scheduled", FALSE)
    BY <1>5 DEF SettleScheduledRun, store
  <2> QED
    BY <1>1, <1>3, <2>1, <2>2
<1>6. ASSUME NEW r \in Runs, runs[r] # Free, SettleMissedRun(r)
      PROVE  StoreTypes'
  <2>1. runs[r].day \in Nat /\ runs[r].status \in {"", "ok", "error"}
    BY <1>6, LiveRun DEF Run
  <2>2. CASE UNCHANGED config /\ ApplySettlement(runs[r].day, "run_now", TRUE)
    BY <1>3, <2>1, <2>2
  <2>3. CASE /\ UNCHANGED <<config, settled, lastRun>> /\ runs[r].status # "ok"
             /\ attempt' = [day |-> runs[r].day, status |-> runs[r].status]
    <3>1. attempt' \in [day: Nat, status: {"", "error"}]
      BY <2>1, <2>3
    <3> QED
      BY <2>3, <3>1, TypeParts, Zenon DEF StoreTypes
  <2>4. \/ UNCHANGED store
        \/ UNCHANGED config /\ ApplySettlement(runs[r].day, "run_now", TRUE)
        \/ /\ UNCHANGED <<config, settled, lastRun>> /\ runs[r].status # "ok"
           /\ attempt' = [day |-> runs[r].day, status |-> runs[r].status]
    BY <1>6 DEF SettleMissedRun, store
  <2> QED
    BY <1>1, <2>2, <2>3, <2>4
<1>7. ASSUME IgnoreMissed
      PROVE  StoreTypes'
  <2>1. missed.day \in Nat
    BY TypeParts DEF ClockTypes
  <2>2. /\ UNCHANGED config
        /\ UNCHANGED store \/ ApplySettlement(missed.day, "ignored", FALSE)
    BY <1>7 DEF IgnoreMissed, store
  <2> QED
    BY <1>1, <1>3, <2>1, <2>2
<1> QED
  BY <1>1, <1>2, <1>4, <1>5, <1>6, <1>7
     DEF Next, Step, NotifyConfigChanged, TriggerNow, StoreCancel, Returns, ReleaseGuard,
         DeferredCancel, Deadline, CancelRun, ReadConfig, Plan, EndWait, EndSleep,
         FireScheduledTick, ClaimMissed, RunMissed, Stop, Restart, TimePasses

LEMMA StepLoopTypes ==
  ASSUME TypeOK, Next
  PROVE  LoopTypes'
<1>1. loop \in Loop /\ wake \in BOOLEAN /\ notifying \in BOOLEAN /\ stopping \in BOOLEAN
  BY TypeParts DEF LoopTypes
<1>2. \A place \in {"read", "plan", "idle", "retry", "sleep", "fire", "run", "ended"} :
        At(loop, place) \in Loop
  BY <1>1, AtOfLoop
<1>3. wake' \in BOOLEAN /\ notifying' \in BOOLEAN /\ stopping' \in BOOLEAN
  BY <1>1 DEF Next, Step, SaveConfig, NotifyConfigChanged, TriggerNow, StoreCancel, Returns,
       ReleaseGuard, DeferredCancel, Deadline, CancelRun, ReadConfig, Plan, EndWait,
       EndSleep, FireScheduledTick, MarkScheduleRun, SettleScheduledRun, SettleMissedRun,
       ClaimMissed, IgnoreMissed, RunMissed, Stop, Restart, TimePasses, signals
<1>4. ASSUME ReadConfig
      PROVE  loop' \in Loop
  <2>1. \/ loop' = At(loop, "ended")
        \/ \E at \in {"plan", "idle"} :
             loop' = [at |-> at, heard |-> config, until |-> loop.until]
    BY <1>4 DEF ReadConfig
  <2>2. config \in Configs /\ loop.until \in Nat
    BY <1>1, TypeParts DEF StoreTypes, Loop
  <2>3. \A at \in {"plan", "idle"} :
          [at |-> at, heard |-> config, until |-> loop.until] \in Loop
    BY <2>2 DEF Loop
  <2> QED
    BY <1>2, <2>1, <2>3
<1>5. ASSUME Plan
      PROVE  loop' \in Loop
  <2>1. now \in Nat /\ loop.heard \in Configs
    BY <1>1, TypeParts DEF ClockTypes, Loop
  <2>2. NextBoundary(now, loop.heard) \in Nat
    BY <2>1, NextBoundaryIsNat
  <2>3. \E at \in {"idle", "retry", "sleep"} :
          loop' = [at |-> at, heard |-> loop.heard, until |-> NextBoundary(now, loop.heard)]
    BY <1>5, Zenon DEF Plan
  <2> QED
    BY <2>1, <2>2, <2>3 DEF Loop
<1>6. ASSUME EndWait \/ EndSleep \/ FireScheduledTick
      PROVE  loop' \in Loop
  <2>1. \E place \in {"read", "sleep", "fire", "run", "ended"} : loop' = At(loop, place)
    BY <1>6 DEF EndWait, EndSleep, FireScheduledTick
  <2> QED
    BY <1>2, <2>1
<1>7. ASSUME NEW r \in Runs, MarkScheduleRun(r) \/ SettleScheduledRun(r)
      PROVE  loop' \in Loop
  <2>1. loop' = loop \/ loop' = At(loop, "read")
    BY <1>7 DEF MarkScheduleRun, SettleScheduledRun
  <2> QED
    BY <1>1, <1>2, <2>1
<1>8. ASSUME Restart
      PROVE  loop' \in Loop
  <2>1. config \in Configs
    BY TypeParts DEF StoreTypes
  <2> QED
    BY <1>8, <2>1 DEF Restart, Started, Loop
<1>9. ASSUME \/ \E r \in Runs : \/ TriggerNow(r) \/ StoreCancel(r) \/ ReleaseGuard(r)
                                \/ DeferredCancel(r) \/ Deadline(r) \/ SettleMissedRun(r)
                                \/ \E status \in {"ok", "error"} : Returns(r, status)
             \/ \E cfg \in Configs : SaveConfig(cfg)
             \/ \E action \in {"ignore", "run_now"} : ClaimMissed(action)
             \/ NotifyConfigChanged \/ CancelRun \/ IgnoreMissed \/ RunMissed
             \/ Stop \/ TimePasses
      PROVE  loop' \in Loop
  <2>1. loop' = loop
    BY <1>9 DEF TriggerNow, StoreCancel, ReleaseGuard, DeferredCancel, Deadline,
                SettleMissedRun, Returns, SaveConfig, ClaimMissed, NotifyConfigChanged,
                CancelRun, IgnoreMissed, RunMissed, Stop, TimePasses
  <2> QED
    BY <1>1, <2>1
<1>10. loop' \in Loop
  BY <1>4, <1>5, <1>6, <1>7, <1>8, <1>9 DEF Next, Step
<1> QED
  BY <1>3, <1>10 DEF LoopTypes

LEMMA StepRunTypes ==
  ASSUME TypeOK, CurrentInProgress, Next
  PROVE  RunTypes'
<1>1. guard \in BOOLEAN /\ current \in Runs \cup {Free} /\ runs \in [Runs -> Run \cup {Free}]
  BY TypeParts DEF RunTypes
<1>2. guard' \in BOOLEAN /\ current' \in Runs \cup {Free}
  BY <1>1 DEF Next, Step, SaveConfig, NotifyConfigChanged, TriggerNow, StoreCancel, Returns,
       ReleaseGuard, DeferredCancel, Deadline, CancelRun, ReadConfig, Plan, EndWait,
       EndSleep, FireScheduledTick, MarkScheduleRun, SettleScheduledRun, SettleMissedRun,
       ClaimMissed, IgnoreMissed, RunMissed, Stop, Restart, TimePasses, Acquire
<1>3. ASSUME NEW r \in Runs, NEW x \in Run \cup {Free}, runs' = [runs EXCEPT ![r] = x]
      PROVE  runs' \in [Runs -> Run \cup {Free}]
  BY <1>3, RunChanges
<1>4. ASSUME NEW r \in Runs, runs[r] # Free, StoreCancel(r) \/ ReleaseGuard(r) \/ MarkScheduleRun(r)
      PROVE  runs' \in [Runs -> Run \cup {Free}]
  <2>1. \A place \in {"running", "released", "settle"} : At(runs[r], place) \in Run
    BY <1>4, LiveRun, AtOfRun
  <2>2. \/ runs' = [runs EXCEPT ![r] = Free]
        \/ \E place \in {"running", "released", "settle"} :
             runs' = [runs EXCEPT ![r] = At(runs[r], place)]
    BY <1>4 DEF StoreCancel, ReleaseGuard, MarkScheduleRun
  <2> QED
    BY <1>3, <2>1, <2>2
<1>5. ASSUME NEW r \in Runs, runs[r] # Free, Deadline(r)
      PROVE  runs' \in [Runs -> Run \cup {Free}]
  <2>1. CancelledBy(runs[r], "deadline") \in Run
    BY <1>5, LiveRun, CancelledByOfRun
  <2>2. runs' = [runs EXCEPT ![r] = CancelledBy(runs[r], "deadline")]
    BY <1>5 DEF Deadline
  <2> QED
    BY <1>3, <2>1, <2>2
<1>6. ASSUME NEW r \in Runs, runs[r] # Free, NEW status \in {"ok", "error"}, Returns(r, status)
      PROVE  runs' \in [Runs -> Run \cup {Free}]
  <2>1. Ended(runs[r], status) \in Run
    BY <1>6, LiveRun, EndedOfRun
  <2>2. runs' = [runs EXCEPT ![r] = Ended(runs[r], status)]
    BY <1>6 DEF Returns
  <2> QED
    BY <1>3, <2>1, <2>2
<1>7. ASSUME NEW r \in Runs, SettleScheduledRun(r) \/ SettleMissedRun(r)
      PROVE  runs' \in [Runs -> Run \cup {Free}]
  BY <1>3, <1>7 DEF SettleScheduledRun, SettleMissedRun
<1>8. ASSUME NEW r \in Runs, runs[r] # Free, DeferredCancel(r)
      PROVE  runs' \in [Runs -> Run \cup {Free}]
  <2>1. current # Free => current \in Runs /\ runs[current] # Free
    BY <1>1 DEF CurrentInProgress, InProgress
  <2>2. \A q \in Runs : q = current => CancelledBy(runs[q], "other run") \in Run
    BY <2>1, FreeIsNoRun, LiveRun, CancelledByOfRun
  <2>3. At(runs[r], "mark") \in Run
    BY <1>8, LiveRun, AtOfRun
  <2>4. runs' = [q \in Runs |->
          IF q = r THEN IF runs[r].trigger = "manual" THEN Free ELSE At(runs[r], "mark")
          ELSE IF q = current THEN CancelledBy(runs[q], "other run") ELSE runs[q]]
    BY <1>8 DEF DeferredCancel
  <2> QED
    BY <1>1, <2>2, <2>3, <2>4
<1>9. ASSUME CancelRun
      PROVE  runs' \in [Runs -> Run \cup {Free}]
  <2>1. current \in Runs /\ runs[current] # Free
    BY <1>1, <1>9 DEF CancelRun, CurrentInProgress, InProgress
  <2>2. CancelledBy(runs[current], "user") \in Run
    BY <2>1, LiveRun, CancelledByOfRun
  <2>3. runs' = [runs EXCEPT ![current] = CancelledBy(runs[current], "user")]
    BY <1>9 DEF CancelRun
  <2> QED
    BY <1>3, <2>1, <2>2, <2>3
<1>10. ASSUME NEW r \in Runs, TriggerNow(r)
       PROVE  runs' \in [Runs -> Run \cup {Free}]
  <2>1. Day(now) \in Nat
    BY DayIsNat, TypeParts DEF ClockTypes
  <2> QED
    BY <1>10, <2>1, AcquireTypes DEF TriggerNow
<1>11. ASSUME FireScheduledTick \/ RunMissed
       PROVE  runs' \in [Runs -> Run \cup {Free}]
  <2>1. Day(now) \in Nat /\ missed.day \in Nat
    BY DayIsNat, TypeParts DEF ClockTypes
  <2>2. \/ runs' = runs
        \/ \E r \in Runs : Acquire(r, "scheduled", Day(now))
        \/ \E r \in Runs : Acquire(r, "missed_startup", missed.day)
    BY <1>11 DEF FireScheduledTick, RunMissed
  <2> QED
    BY <1>1, <2>1, <2>2, AcquireTypes
<1>12. ASSUME Stop
       PROVE  runs' \in [Runs -> Run \cup {Free}]
  <2>1. \A q \in Runs : runs[q] # Free => CancelledBy(runs[q], "stop") \in Run
    BY LiveRun, CancelledByOfRun
  <2>2. runs' = [q \in Runs |->
          IF runs[q] # Free /\ (q = current \/ runs[q].trigger = "scheduled")
          THEN CancelledBy(runs[q], "stop") ELSE runs[q]]
    BY <1>12 DEF Stop
  <2> QED
    BY <1>1, <2>1, <2>2
<1>13. ASSUME Restart
       PROVE  runs' \in [Runs -> Run \cup {Free}]
  BY <1>13 DEF Restart
<1>14. ASSUME \/ \E cfg \in Configs : SaveConfig(cfg)
              \/ NotifyConfigChanged \/ ReadConfig \/ Plan \/ EndWait \/ EndSleep
              \/ \E action \in {"ignore", "run_now"} : ClaimMissed(action)
              \/ IgnoreMissed \/ TimePasses
       PROVE  runs' \in [Runs -> Run \cup {Free}]
  <2>1. runs' = runs
    BY <1>14 DEF SaveConfig, NotifyConfigChanged, ReadConfig, Plan, EndWait, EndSleep,
                 ClaimMissed, IgnoreMissed, TimePasses
  <2> QED
    BY <1>1, <2>1
<1>15. runs' \in [Runs -> Run \cup {Free}]
  BY <1>4, <1>5, <1>6, <1>7, <1>8, <1>9, <1>10, <1>11, <1>12, <1>13, <1>14 DEF Next, Step
<1> QED
  BY <1>2, <1>15 DEF RunTypes

LEMMA StepClockTypes ==
  ASSUME TypeOK, Next
  PROVE  ClockTypes'
<1>1. /\ now \in Nat /\ startedAt \in Nat /\ Day(now) \in Nat
      /\ missed \in [day: Nat, action: {"", "ignore", "run_now", "running"}]
      /\ succeeded \subseteq Nat
  BY TypeParts, DayIsNat DEF ClockTypes
<1>2. now' \in Nat /\ startedAt' \in Nat
  <2>1. (now' = now \/ now' = now + 1) /\ (startedAt' = startedAt \/ startedAt' = now)
    BY DEF Next, Step, SaveConfig, NotifyConfigChanged, TriggerNow, StoreCancel, Returns,
         ReleaseGuard, DeferredCancel, Deadline, CancelRun, ReadConfig, Plan, EndWait,
         EndSleep, FireScheduledTick, MarkScheduleRun, SettleScheduledRun, SettleMissedRun,
         ClaimMissed, IgnoreMissed, RunMissed, Stop, Restart, TimePasses
  <2>2. now \in Nat
    BY <1>1, Zenon
  <2>3. now + 1 \in Nat
    BY <2>2
  <2> QED
    BY <1>1, <2>1, <2>3, Zenon
<1>3. missed' \in [day: Nat, action: {"", "ignore", "run_now", "running"}]
  <2>1. \/ missed' = missed \/ missed' = Unclaimed
        \/ \E action \in {"ignore", "run_now"} : missed' = [day |-> Day(now), action |-> action]
        \/ missed' = [day |-> missed.day, action |-> "running"]
    BY DEF Next, Step, SaveConfig, NotifyConfigChanged, TriggerNow, StoreCancel, Returns,
         ReleaseGuard, DeferredCancel, Deadline, CancelRun, ReadConfig, Plan, EndWait,
         EndSleep, FireScheduledTick, MarkScheduleRun, SettleScheduledRun, SettleMissedRun,
         ClaimMissed, IgnoreMissed, RunMissed, Stop, Restart, TimePasses
  <2>2. Unclaimed \in [day: Nat, action: {"", "ignore", "run_now", "running"}]
    BY DEF Unclaimed
  <2>3. \A action \in {"ignore", "run_now", "running"} :
          /\ [day |-> Day(now), action |-> action]
               \in [day: Nat, action: {"", "ignore", "run_now", "running"}]
          /\ [day |-> missed.day, action |-> action]
               \in [day: Nat, action: {"", "ignore", "run_now", "running"}]
    BY <1>1
  <2> QED
    BY <1>1, <2>1, <2>2, <2>3, Zenon
<1>4. succeeded' \subseteq Nat
  <2>1. \/ succeeded' = succeeded
        \/ \E r \in Runs : runs[r] # Free /\ succeeded' = succeeded \cup {runs[r].day}
    BY DEF Next, Step, SaveConfig, NotifyConfigChanged, TriggerNow, StoreCancel, Returns,
         ReleaseGuard, DeferredCancel, Deadline, CancelRun, ReadConfig, Plan, EndWait,
         EndSleep, FireScheduledTick, MarkScheduleRun, SettleScheduledRun, SettleMissedRun,
         ClaimMissed, IgnoreMissed, RunMissed, Stop, Restart, TimePasses
  <2>2. \A r \in Runs : runs[r] # Free => runs[r].day \in Nat
    BY LiveRun DEF Run
  <2> QED
    BY <1>1, <2>1, <2>2
<1> QED
  BY <1>2, <1>3, <1>4 DEF ClockTypes

LEMMA StepTypes ==
  ASSUME TypeOK, CurrentInProgress, Next
  PROVE  TypeOK'
<1>1. StoreTypes' /\ LoopTypes' /\ RunTypes' /\ ClockTypes'
  BY StepStoreTypes, StepLoopTypes, StepRunTypes, StepClockTypes
<1>2. TypeOK' <=> (StoreTypes' /\ LoopTypes' /\ RunTypes' /\ ClockTypes')
  BY Zenon DEF TypeOK, StoreTypes, LoopTypes, RunTypes, ClockTypes
<1> QED
  BY <1>1, <1>2

-----------------------------------------------------------------------------
(* What a step does to a run                                               *)

RunStarts(q) ==
  /\ runs[q] = Free /\ ~guard /\ guard'
  /\ runs'[q].at = "accepted" /\ runs'[q].status = ""
  /\ stopping' /\ runs'[q].trigger = "scheduled" => runs'[q].cancelled # "no"

RunGoesOn(q) ==
  /\ runs[q] # Free
  /\ runs'[q].trigger = runs[q].trigger /\ runs'[q].day = runs[q].day
  /\ runs[q].cancelled # "no" => runs'[q].cancelled # "no"
  /\ stopping' => stopping \/ runs[q].trigger # "scheduled" \/ runs'[q].cancelled # "no"
  /\ \/ runs'[q].at = runs[q].at /\ runs'[q].status = runs[q].status
     \/ runs[q].at = "accepted" /\ runs'[q].at = "running"
     \/ /\ runs[q].at = "running" /\ runs'[q].at = "returned"
        /\ runs'[q].status = "ok" /\ runs[q].trigger # "manual" => runs[q].day \in succeeded'
     \/ /\ runs[q].at = "returned" /\ runs'[q].at = "released"
        /\ runs'[q].status = runs[q].status /\ ~guard'
     \/ runs[q].at = "released" /\ runs'[q].at = "mark" /\ runs'[q].status = runs[q].status
     \/ /\ runs[q].at = "mark" /\ runs'[q].at = "settle"
        /\ runs'[q].status = runs[q].status /\ runs[q].status = "ok"

LEMMA RunUntouched ==
  ASSUME NEW q \in Runs, runs[q] # Free, runs'[q] = runs[q], stopping' = stopping
  PROVE  RunGoesOn(q)
BY Zenon DEF RunGoesOn

LEMMA RunCancelled ==
  ASSUME TypeOK, NEW q \in Runs, runs[q] # Free,
         NEW who \in {"user", "deadline", "stop", "other run"},
         runs'[q] = CancelledBy(runs[q], who)
  PROVE  RunGoesOn(q)
<1>1. runs[q] \in Run
  BY LiveRun
<1>2. /\ CancelledBy(runs[q], who).at = runs[q].at
      /\ CancelledBy(runs[q], who).status = runs[q].status
      /\ CancelledBy(runs[q], who).trigger = runs[q].trigger
      /\ CancelledBy(runs[q], who).day = runs[q].day
      /\ CancelledBy(runs[q], who).cancelled # "no"
  BY <1>1, CancelledByOfRun, Zenon
<1> QED
  BY <1>2, Zenon DEF RunGoesOn

LEMMA RunMoves ==
  ASSUME TypeOK, NEW q \in Runs, runs[q] # Free, stopping' = stopping,
         NEW place \in {"running", "released", "mark", "settle"},
         runs'[q] = At(runs[q], place),
         \/ runs[q].at = "accepted" /\ place = "running"
         \/ runs[q].at = "returned" /\ place = "released" /\ ~guard'
         \/ runs[q].at = "released" /\ place = "mark"
         \/ runs[q].at = "mark" /\ runs[q].status = "ok" /\ place = "settle"
  PROVE  RunGoesOn(q)
<1>1. runs[q] \in Run
  BY LiveRun
<1>2. /\ runs'[q].at = place
      /\ runs'[q].trigger = runs[q].trigger /\ runs'[q].day = runs[q].day
      /\ runs'[q].status = runs[q].status /\ runs'[q].cancelled = runs[q].cancelled
  BY <1>1, AtOfRun
<1>3. \/ runs[q].at = "accepted" /\ runs'[q].at = "running"
      \/ runs[q].at = "returned" /\ runs'[q].at = "released" /\ ~guard'
      \/ runs[q].at = "released" /\ runs'[q].at = "mark"
      \/ runs[q].at = "mark" /\ runs'[q].at = "settle" /\ runs[q].status = "ok"
  BY <1>2
<1> QED
  BY <1>2, <1>3, Zenon DEF RunGoesOn

LEMMA AcquireStarts ==
  ASSUME TypeOK, NEW r \in Runs, NEW day,
         NEW trigger \in {"scheduled", "manual", "missed_startup"},
         Acquire(r, trigger, day), stopping' = stopping,
         NEW q \in Runs, runs'[q] # Free
  PROVE  RunStarts(q) \/ RunGoesOn(q)
<1>1. CASE q = r
  <2> DEFINE ended == IF stopping /\ trigger = "scheduled" THEN "stop" ELSE "no"
             new == [trigger |-> trigger, at |-> "accepted", day |-> day,
                     startedAt |-> now, status |-> "", cancelled |-> ended]
  <2>1. runs[q] = Free /\ ~guard /\ guard' /\ runs'[q] = new
    BY <1>1 DEF Acquire, TypeOK
  <2>2. /\ new.at = "accepted" /\ new.status = ""
        /\ new.trigger = trigger /\ new.cancelled = ended
    <3> HIDE DEF ended
    <3> QED
      OBVIOUS
  <2>3. stopping /\ trigger = "scheduled" => ended # "no"
    OBVIOUS
  <2> HIDE DEF new, ended
  <2> QED
    BY <2>1, <2>2, <2>3 DEF RunStarts
<1>2. CASE q # r
  <2>1. runs'[q] = runs[q]
    BY <1>2 DEF Acquire, TypeOK
  <2> QED
    BY <2>1, RunUntouched
<1> QED
  BY <1>1, <1>2

LEMMA RunLife ==
  ASSUME TypeOK, CurrentInProgress, Next, NEW q \in Runs, runs'[q] # Free
  PROVE  RunStarts(q) \/ RunGoesOn(q)
<1>1. ASSUME UNCHANGED <<stopping, runs>>
      PROVE  RunGoesOn(q)
  BY <1>1, RunUntouched
<1>2. ASSUME NEW r \in Runs, TriggerNow(r)
      PROVE  RunStarts(q) \/ RunGoesOn(q)
  BY <1>2, AcquireStarts DEF TriggerNow, signals
<1>3. ASSUME NEW r \in Runs, runs[r] # Free, StoreCancel(r)
      PROVE  RunGoesOn(q)
  <2>1. CASE q = r
    <3>1. runs'[q] = At(runs[q], "running") /\ runs[q].at = "accepted" /\ stopping' = stopping
      BY <1>3, <2>1 DEF StoreCancel, TypeOK, signals
    <3> QED
      BY <1>3, <2>1, <3>1, RunMoves
  <2>2. CASE q # r
    BY <1>3, <2>2, RunUntouched DEF StoreCancel, TypeOK, signals
  <2> QED
    BY <2>1, <2>2
<1>4. ASSUME NEW r \in Runs, runs[r] # Free, ReleaseGuard(r)
      PROVE  RunGoesOn(q)
  <2>1. CASE q = r
    <3>1. runs'[q] = At(runs[q], "released") /\ runs[q].at = "returned" /\ ~guard' /\ stopping' = stopping
      BY <1>4, <2>1 DEF ReleaseGuard, TypeOK, signals
    <3> QED
      BY <1>4, <2>1, <3>1, RunMoves
  <2>2. CASE q # r
    BY <1>4, <2>2, RunUntouched DEF ReleaseGuard, TypeOK, signals
  <2> QED
    BY <2>1, <2>2
<1>5. ASSUME NEW r \in Runs, runs[r] # Free, DeferredCancel(r)
      PROVE  RunGoesOn(q)
  <2>1. CASE q = r
    <3>1. runs'[q] = At(runs[q], "mark") /\ runs[q].at = "released" /\ stopping' = stopping
      BY <1>5, <2>1 DEF DeferredCancel, signals
    <3> QED
      BY <1>5, <2>1, <3>1, RunMoves
  <2>2. CASE q # r /\ q = current
    <3>1. runs[q] # Free
      BY <2>2, FreeIsNoRun DEF CurrentInProgress, InProgress
    <3>2. runs'[q] = CancelledBy(runs[q], "other run")
      BY <1>5, <2>2 DEF DeferredCancel
    <3> QED
      BY <3>1, <3>2, RunCancelled
  <2>3. CASE q # r /\ q # current
    BY <1>5, <2>3, RunUntouched DEF DeferredCancel, signals
  <2> QED
    BY <2>1, <2>2, <2>3
<1>6. ASSUME NEW r \in Runs, runs[r] # Free, Deadline(r)
      PROVE  RunGoesOn(q)
  <2>1. CASE q = r
    <3>1. runs'[q] = CancelledBy(runs[q], "deadline")
      BY <1>6, <2>1 DEF Deadline, TypeOK
    <3> QED
      BY <1>6, <2>1, <3>1, RunCancelled
  <2>2. CASE q # r
    BY <1>6, <2>2, RunUntouched DEF Deadline, TypeOK, signals
  <2> QED
    BY <2>1, <2>2
<1>7. ASSUME NEW r \in Runs, runs[r] # Free, MarkScheduleRun(r)
      PROVE  RunGoesOn(q)
  <2>1. CASE q = r
    <3>1. /\ runs'[q] = At(runs[q], "settle") /\ runs[q].at = "mark" /\ runs[q].status = "ok"
          /\ stopping' = stopping
      BY <1>7, <2>1 DEF MarkScheduleRun, TypeOK, signals
    <3> QED
      BY <1>7, <2>1, <3>1, RunMoves
  <2>2. CASE q # r
    BY <1>7, <2>2, RunUntouched DEF MarkScheduleRun, TypeOK, signals
  <2> QED
    BY <2>1, <2>2
<1>8. ASSUME NEW r \in Runs, runs[r] # Free, SettleScheduledRun(r) \/ SettleMissedRun(r)
      PROVE  RunGoesOn(q)
  <2>1. runs' = [runs EXCEPT ![r] = Free] /\ stopping' = stopping
    BY <1>8 DEF SettleScheduledRun, SettleMissedRun, signals
  <2> QED
    BY <2>1, RunUntouched DEF TypeOK
<1>9. ASSUME NEW r \in Runs, runs[r] # Free, NEW status \in {"ok", "error"}, Returns(r, status)
      PROVE  RunGoesOn(q)
  <2>1. CASE q = r
    <3>1. /\ runs'[q] = Ended(runs[q], status) /\ runs[q].at = "running"
          /\ stopping' = stopping
      BY <1>9, <2>1 DEF Returns, TypeOK, signals
    <3>2. status = "ok" /\ runs[q].trigger # "manual" => runs[q].day \in succeeded'
      BY <1>9, <2>1 DEF Returns
    <3>3. /\ runs'[q].at = "returned" /\ runs'[q].status = status
          /\ runs'[q].trigger = runs[q].trigger /\ runs'[q].day = runs[q].day
          /\ runs'[q].cancelled = runs[q].cancelled
      BY <1>9, <2>1, <3>1, LiveRun, EndedOfRun
    <3> QED
      BY <1>9, <2>1, <3>1, <3>2, <3>3, Zenon DEF RunGoesOn
  <2>2. CASE q # r
    BY <1>9, <2>2, RunUntouched DEF Returns, TypeOK, signals
  <2> QED
    BY <2>1, <2>2
<1>10. ASSUME CancelRun
       PROVE  RunGoesOn(q)
  <2>1. CASE q = current
    <3>1. runs[q] # Free
      BY <2>1, FreeIsNoRun DEF CurrentInProgress, InProgress
    <3>2. runs'[q] = CancelledBy(runs[q], "user")
      BY <1>10, <2>1 DEF CancelRun, TypeOK
    <3> QED
      BY <3>1, <3>2, RunCancelled
  <2>2. CASE q # current
    BY <1>10, <2>2, RunUntouched DEF CancelRun, TypeOK, signals
  <2> QED
    BY <2>1, <2>2
<1>11. ASSUME FireScheduledTick \/ RunMissed
       PROVE  RunStarts(q) \/ RunGoesOn(q)
  <2>1. /\ stopping' = stopping
        /\ \/ runs' = runs
           \/ \E r \in Runs : Acquire(r, "scheduled", Day(now))
           \/ \E r \in Runs : Acquire(r, "missed_startup", missed.day)
    BY <1>11 DEF FireScheduledTick, RunMissed, signals
  <2> QED
    BY <1>1, <2>1, AcquireStarts
<1>12. ASSUME Stop
       PROVE  RunGoesOn(q)
  <2>1. CASE runs[q] # Free /\ (q = current \/ runs[q].trigger = "scheduled")
    <3>1. runs'[q] = CancelledBy(runs[q], "stop")
      BY <1>12, <2>1, Zenon DEF Stop
    <3> QED
      BY <2>1, <3>1, RunCancelled
  <2>2. CASE ~(runs[q] # Free /\ (q = current \/ runs[q].trigger = "scheduled"))
    <3>1. runs'[q] = runs[q]
      BY <1>12, <2>2, Zenon DEF Stop
    <3> QED
      BY <2>2, <3>1, Zenon DEF RunGoesOn
  <2> QED
    BY <2>1, <2>2
<1>13. ~Restart
  BY DEF Restart
<1>14. ASSUME \/ \E cfg \in Configs : SaveConfig(cfg)
              \/ NotifyConfigChanged \/ ReadConfig \/ Plan \/ EndWait \/ EndSleep
              \/ \E action \in {"ignore", "run_now"} : ClaimMissed(action)
              \/ IgnoreMissed \/ TimePasses
       PROVE  RunGoesOn(q)
  <2>1. UNCHANGED <<stopping, runs>>
    BY <1>14 DEF SaveConfig, NotifyConfigChanged, ReadConfig, Plan, EndWait, EndSleep,
                 ClaimMissed, IgnoreMissed, TimePasses, signals
  <2> QED
    BY <1>1, <2>1
<1> QED
  BY <1>2, <1>3, <1>4, <1>5, <1>6, <1>7, <1>8, <1>9, <1>10, <1>11, <1>12, <1>13, <1>14
     DEF Next, Step

\* A run in progress stays on the books until the process ends.
LEMMA RunLasts ==
  ASSUME TypeOK, CurrentInProgress, Next, ~Restart, NEW q \in Runs, InProgress(q)
  PROVE  runs'[q] # Free
<1>1. runs[q] \in Run /\ runs[q] # Free /\ runs[q].at \in {"accepted", "running", "returned"}
  BY LiveRun DEF InProgress
<1>2. \/ runs'[q] = runs[q]
      \/ \E place \in {"running", "released"} : runs'[q] = At(runs[q], place)
      \/ \E status \in {"ok", "error"} : runs'[q] = Ended(runs[q], status)
      \/ \E who \in {"user", "deadline", "stop", "other run"} :
           runs'[q] = CancelledBy(runs[q], who)
  <2>1. ASSUME UNCHANGED runs
        PROVE  runs'[q] = runs[q]
    BY <2>1
  <2>2. ASSUME NEW r \in Runs, NEW trigger, NEW day, Acquire(r, trigger, day)
        PROVE  runs'[q] = runs[q]
    BY <1>1, <2>2 DEF Acquire, TypeOK
  <2>3. ASSUME NEW r \in Runs, runs[r] # Free, StoreCancel(r)
        PROVE  runs'[q] = runs[q] \/ runs'[q] = At(runs[q], "running")
    BY <2>3 DEF StoreCancel, TypeOK
  <2>4. ASSUME NEW r \in Runs, runs[r] # Free, ReleaseGuard(r)
        PROVE  runs'[q] = runs[q] \/ runs'[q] = At(runs[q], "released")
    BY <2>4 DEF ReleaseGuard, TypeOK
  <2>5. ASSUME NEW r \in Runs, runs[r] # Free, DeferredCancel(r)
        PROVE  runs'[q] = runs[q] \/ runs'[q] = CancelledBy(runs[q], "other run")
    BY <1>1, <2>5 DEF DeferredCancel
  <2>6. ASSUME NEW r \in Runs, runs[r] # Free, Deadline(r)
        PROVE  runs'[q] = runs[q] \/ runs'[q] = CancelledBy(runs[q], "deadline")
    BY <2>6 DEF Deadline, TypeOK
  <2>7. ASSUME NEW r \in Runs, runs[r] # Free,
               MarkScheduleRun(r) \/ SettleScheduledRun(r) \/ SettleMissedRun(r)
        PROVE  runs'[q] = runs[q]
    <3>1. runs[r].at \in {"mark", "settle"}
      BY <2>7 DEF MarkScheduleRun, SettleScheduledRun, SettleMissedRun
    <3>2. q # r
      BY <1>1, <3>1
    <3> QED
      BY <2>7, <3>2 DEF MarkScheduleRun, SettleScheduledRun, SettleMissedRun, TypeOK
  <2>8. ASSUME NEW r \in Runs, runs[r] # Free, NEW status \in {"ok", "error"},
               Returns(r, status)
        PROVE  runs'[q] = runs[q] \/ runs'[q] = Ended(runs[q], status)
    BY <2>8 DEF Returns, TypeOK
  <2>9. ASSUME CancelRun
        PROVE  runs'[q] = runs[q] \/ runs'[q] = CancelledBy(runs[q], "user")
    BY <2>9 DEF CancelRun, TypeOK
  <2>10. ASSUME FireScheduledTick \/ RunMissed
         PROVE  runs'[q] = runs[q]
    BY <2>1, <2>2, <2>10 DEF FireScheduledTick, RunMissed
  <2>11. ASSUME Stop
         PROVE  runs'[q] = runs[q] \/ runs'[q] = CancelledBy(runs[q], "stop")
    BY <2>11, Zenon DEF Stop
  <2>12. ASSUME \/ \E cfg \in Configs : SaveConfig(cfg)
                \/ NotifyConfigChanged \/ ReadConfig \/ Plan \/ EndWait \/ EndSleep
                \/ \E action \in {"ignore", "run_now"} : ClaimMissed(action)
                \/ IgnoreMissed \/ TimePasses
         PROVE  runs'[q] = runs[q]
    BY <2>1, <2>12 DEF SaveConfig, NotifyConfigChanged, ReadConfig, Plan, EndWait, EndSleep,
                       ClaimMissed, IgnoreMissed, TimePasses
  <2>13. ASSUME NEW r \in Runs, TriggerNow(r)
         PROVE  runs'[q] = runs[q]
    BY <2>2, <2>13 DEF TriggerNow
  <2> QED
    BY <2>3, <2>4, <2>5, <2>6, <2>7, <2>8, <2>9, <2>10, <2>11, <2>12, <2>13 DEF Next, Step
<1>3. runs'[q] \in Run
  <2>1. \A place \in {"running", "released"} : At(runs[q], place) \in Run
    BY <1>1, AtOfRun
  <2>2. \A status \in {"ok", "error"} : Ended(runs[q], status) \in Run
    BY <1>1, EndedOfRun
  <2>3. \A who \in {"user", "deadline", "stop", "other run"} : CancelledBy(runs[q], who) \in Run
    BY <1>1, CancelledByOfRun
  <2> QED
    BY <1>1, <1>2, <2>1, <2>2, <2>3, Zenon
<1> QED
  BY <1>3, FreeIsNoRun

-----------------------------------------------------------------------------
(* One run at a time                                                       *)

LEMMA InitExclusion == Init => Exclusion
BY FreeIsNoRun DEF Init, Exclusion, GuardHeld, OneRunAtATime, CurrentInProgress, InProgress

LEMMA AcquireExcludes ==
  ASSUME TypeOK, Exclusion, UNCHANGED current,
         NEW r \in Runs, NEW trigger, NEW day, Acquire(r, trigger, day)
  PROVE  Exclusion'
<1>1. ~guard /\ guard'
  BY DEF Acquire
<1>2. \A q \in Runs : ~InProgress(q)
  BY <1>1, Zenon DEF Exclusion, GuardHeld
<1>3. \A q \in Runs : q # r => runs'[q] = runs[q]
  BY DEF Acquire, TypeOK
<1>4. \A q \in Runs : InProgress(q)' => q = r
  BY <1>2, <1>3, Zenon DEF InProgress
<1>5. current = Free
  BY <1>2 DEF TypeOK, Exclusion, CurrentInProgress
<1> QED
  BY <1>1, <1>4, <1>5, Zenon DEF Exclusion, GuardHeld, OneRunAtATime, CurrentInProgress

LEMMA ReleaseExcludes ==
  ASSUME TypeOK, Exclusion, NEW r \in Runs, runs[r] # Free, ReleaseGuard(r)
  PROVE  Exclusion'
<1>1. /\ runs[r].at = "returned" /\ runs'[r] = At(runs[r], "released")
      /\ current' = IF current = r THEN Free ELSE current
  BY DEF ReleaseGuard, TypeOK
<1>2. InProgress(r)
  BY <1>1 DEF InProgress
<1>3. At(runs[r], "released").at = "released"
  BY LiveRun, AtOfRun
<1>4. ~InProgress(r)'
  BY <1>1, <1>3 DEF InProgress
<1>5. \A q \in Runs : q # r => runs'[q] = runs[q]
  BY DEF ReleaseGuard, TypeOK
<1>6. \A q \in Runs : ~InProgress(q)'
  <2>1. \A q \in Runs : InProgress(q) => q = r
    BY <1>2, Zenon DEF Exclusion, OneRunAtATime
  <2> QED
    BY <1>4, <1>5, <2>1, Zenon DEF InProgress
<1>7. current' = Free
  <2>1. current # Free => current = r
    BY <1>2, FreeIsNoRun DEF TypeOK, Exclusion, OneRunAtATime, CurrentInProgress
  <2> QED
    BY <1>1, <2>1
<1> QED
  BY <1>6, <1>7, Zenon DEF Exclusion, GuardHeld, OneRunAtATime, CurrentInProgress

\* The guard changes hands in these actions only.
LEMMA GuardChanges ==
  ASSUME Next, guard' # guard
  PROVE  \/ Restart
         \/ \E r \in Runs : runs[r] # Free /\ ReleaseGuard(r)
         \/ /\ UNCHANGED current
            /\ \E r \in Runs, trigger \in {"scheduled", "manual", "missed_startup"} :
                 \E day : Acquire(r, trigger, day)
BY DEF Next, Step, SaveConfig, NotifyConfigChanged, TriggerNow, StoreCancel, Returns,
       DeferredCancel, Deadline, CancelRun, ReadConfig, Plan, EndWait, EndSleep,
       FireScheduledTick, MarkScheduleRun, SettleScheduledRun, SettleMissedRun,
       ClaimMissed, IgnoreMissed, RunMissed, Stop, TimePasses

\* And so does the stored cancel.
LEMMA CurrentChanges ==
  ASSUME TypeOK, Next, current' # Free, current' # current
  PROVE  \E r \in Runs : current' = r /\ runs[r] # Free /\ runs[r].at = "accepted"
BY DEF Next, Step, SaveConfig, NotifyConfigChanged, TriggerNow, StoreCancel, Returns,
       ReleaseGuard, DeferredCancel, Deadline, CancelRun, ReadConfig, Plan, EndWait,
       EndSleep, FireScheduledTick, MarkScheduleRun, SettleScheduledRun, SettleMissedRun,
       ClaimMissed, IgnoreMissed, RunMissed, Stop, Restart, TimePasses

LEMMA RestartExcludes == Restart => Exclusion'
BY FreeIsNoRun DEF Restart, Exclusion, GuardHeld, OneRunAtATime, CurrentInProgress, InProgress

LEMMA StepExclusion ==
  ASSUME TypeOK, Exclusion, Next
  PROVE  Exclusion'
<1>1. CASE Restart
  BY <1>1, RestartExcludes
<1>2. CASE guard' # guard /\ ~Restart
  BY <1>2, GuardChanges, AcquireExcludes, ReleaseExcludes
<1>3. CASE guard' = guard /\ ~Restart
  <2>1. CurrentInProgress
    BY DEF Exclusion
  <2>2. ASSUME NEW q \in Runs, InProgress(q)'
        PROVE  InProgress(q)
    <3>1. runs'[q] # Free
      BY <2>2, Zenon DEF InProgress
    <3>2. CASE RunStarts(q)
      BY <1>3, <3>2 DEF RunStarts
    <3>3. CASE RunGoesOn(q)
      BY <2>2, <3>3 DEF RunGoesOn, InProgress
    <3> QED
      BY <2>1, <3>1, <3>2, <3>3, RunLife
  <2>3. ASSUME NEW q \in Runs, InProgress(q)
        PROVE  InProgress(q)'
    <3>1. runs'[q] # Free
      BY <1>3, <2>1, <2>3, RunLasts
    <3>2. guard
      BY <2>3 DEF Exclusion, GuardHeld
    <3>3. RunGoesOn(q)
      BY <2>1, <3>1, <3>2, RunLife DEF RunStarts
    <3>4. runs'[q].at # "released" \/ runs[q].at = "released"
      BY <1>3, <3>2, <3>3, Zenon DEF RunGoesOn
    <3> QED
      BY <2>3, <3>1, <3>3, <3>4 DEF RunGoesOn, InProgress
  <2>4. CurrentInProgress'
    <3>1. CASE current' = current /\ current # Free
      <4>1. current \in Runs
        BY <3>1 DEF TypeOK
      <4>2. InProgress(current)
        BY <2>1, <3>1 DEF CurrentInProgress
      <4>3. \A q \in Runs : InProgress(q) => InProgress(q)'
        BY <2>3
      <4> QED
        BY <3>1, <4>1, <4>2, <4>3 DEF CurrentInProgress, InProgress
    <3>2. CASE current' # current /\ current' # Free
      <4>1. PICK r \in Runs : current' = r /\ runs[r] # Free /\ runs[r].at = "accepted"
        BY <3>2, CurrentChanges
      <4>2. InProgress(r)
        BY <4>1 DEF InProgress
      <4>3. InProgress(r)'
        BY <2>3, <4>2
      <4> QED
        BY <4>1, <4>3 DEF CurrentInProgress, InProgress
    <3> QED
      BY <3>1, <3>2 DEF CurrentInProgress
  <2>5. \A q \in Runs : InProgress(q)' => InProgress(q)
    BY <2>2
  <2> QED
    BY <1>3, <2>4, <2>5, Zenon DEF Exclusion, GuardHeld, OneRunAtATime
<1> QED
  BY <1>1, <1>2, <1>3

-----------------------------------------------------------------------------
(* Stop and the successes                                                  *)

LEMMA StepStopReaches ==
  ASSUME TypeOK, CurrentInProgress, StopReachesScheduledRuns, Next
  PROVE  StopReachesScheduledRuns'
<1> SUFFICES ASSUME stopping', NEW q \in Runs, InProgress(q)', runs'[q].trigger = "scheduled"
             PROVE  runs'[q].cancelled # "no"
  BY Zenon DEF StopReachesScheduledRuns
<1>1. runs'[q] # Free
  BY Zenon DEF InProgress
<1>2. CASE RunStarts(q)
  BY <1>2 DEF RunStarts
<1>3. CASE RunGoesOn(q)
  <2>1. runs[q].trigger = "scheduled"
    BY <1>3 DEF RunGoesOn
  <2>2. ASSUME stopping, ~InProgress(q)
        PROVE  FALSE
    BY <1>3, <2>2 DEF RunGoesOn, InProgress
  <2>3. stopping => runs[q].cancelled # "no"
    BY <2>1, <2>2, Zenon DEF StopReachesScheduledRuns
  <2> QED
    BY <1>3, <2>1, <2>3, Zenon DEF RunGoesOn
<1> QED
  BY <1>1, <1>2, <1>3, RunLife

LEMMA SuccessesStay ==
  ASSUME Next
  PROVE  succeeded \subseteq succeeded'
BY DEF Next, Step, SaveConfig, NotifyConfigChanged, TriggerNow, StoreCancel, Returns,
       ReleaseGuard, DeferredCancel, Deadline, CancelRun, ReadConfig, Plan, EndWait,
       EndSleep, FireScheduledTick, MarkScheduleRun, SettleScheduledRun, SettleMissedRun,
       ClaimMissed, IgnoreMissed, RunMissed, Stop, Restart, TimePasses

LEMMA StepSuccesses ==
  ASSUME TypeOK, CurrentInProgress, SuccessesAreRecorded, Next
  PROVE  SuccessesAreRecorded'
<1> SUFFICES ASSUME NEW q \in Runs, runs'[q] # Free
             PROVE  /\ (/\ runs'[q].trigger # "manual" /\ runs'[q].status = "ok"
                        /\ runs'[q].at \in {"returned", "released", "mark", "settle"})
                         => runs'[q].day \in succeeded'
                    /\ runs'[q].at = "settle" => runs'[q].status = "ok"
  BY Zenon DEF SuccessesAreRecorded
<1>1. CASE RunStarts(q)
  BY <1>1 DEF RunStarts
<1>2. CASE RunGoesOn(q)
  <2>1. /\ (/\ runs[q].trigger # "manual" /\ runs[q].status = "ok"
            /\ runs[q].at \in {"returned", "released", "mark", "settle"})
             => runs[q].day \in succeeded
        /\ runs[q].at = "settle" => runs[q].status = "ok"
    BY <1>2, Zenon DEF SuccessesAreRecorded, RunGoesOn
  <2>2. runs[q].day \in succeeded => runs[q].day \in succeeded'
    BY SuccessesStay
  <2> QED
    BY <1>2, <2>1, <2>2 DEF RunGoesOn
<1> QED
  BY <1>1, <1>2, RunLife

-----------------------------------------------------------------------------
(* The ledger                                                              *)

LEMMA SettlementMoves ==
  ASSUME TypeOK, NEW day \in Nat, NEW reason \in {"scheduled", "ignored", "run_now"},
         NEW ok \in BOOLEAN, ApplySettlement(day, reason, ok), settled' # settled
  PROVE  settled.day < day /\ settled' = [day |-> day, reason |-> reason]
<1>1. ~(settled.day >= day) /\ settled' = [day |-> day, reason |-> reason]
  BY DEF ApplySettlement
<1>2. settled.day \in Nat
  BY DEF TypeOK
<1> QED
  BY <1>1, <1>2

\* The ledger moves to a later day only, which the user ignored or for which a
\* run that returned ok is being settled.
LEMMA SettledChanges ==
  ASSUME TypeOK, Next, settled' # settled
  PROVE  /\ settled.day < settled'.day
         /\ \/ settled'.reason = "ignored"
            \/ \E r \in Runs : /\ runs[r] # Free /\ settled'.day = runs[r].day
                               /\ runs[r].trigger # "manual"
                               /\ \/ runs[r].at = "settle"
                                  \/ runs[r].at = "mark" /\ runs[r].status = "ok"
<1>1. ASSUME NEW r \in Runs, runs[r] # Free, SettleScheduledRun(r)
      PROVE  /\ settled.day < settled'.day /\ settled'.day = runs[r].day
             /\ runs[r].trigger # "manual" /\ runs[r].at = "settle"
  <2>1. ApplySettlement(runs[r].day, "scheduled", FALSE)
    BY <1>1 DEF SettleScheduledRun
  <2>2. runs[r].day \in Nat
    BY <1>1, LiveRun DEF Run
  <2>3. settled.day < runs[r].day /\ settled' = [day |-> runs[r].day, reason |-> "scheduled"]
    BY <2>1, <2>2, SettlementMoves
  <2>4. runs[r].trigger = "scheduled" /\ runs[r].at = "settle"
    BY <1>1 DEF SettleScheduledRun
  <2> QED
    BY <2>3, <2>4
<1>2. ASSUME NEW r \in Runs, runs[r] # Free, SettleMissedRun(r)
      PROVE  /\ settled.day < settled'.day /\ settled'.day = runs[r].day
             /\ runs[r].trigger # "manual" /\ runs[r].at = "mark" /\ runs[r].status = "ok"
  <2>1. ApplySettlement(runs[r].day, "run_now", TRUE) /\ runs[r].status = "ok"
    BY <1>2 DEF SettleMissedRun
  <2>2. runs[r].day \in Nat
    BY <1>2, LiveRun DEF Run
  <2>3. settled.day < runs[r].day /\ settled' = [day |-> runs[r].day, reason |-> "run_now"]
    BY <2>1, <2>2, SettlementMoves
  <2>4. runs[r].trigger = "missed_startup" /\ runs[r].at = "mark"
    BY <1>2 DEF SettleMissedRun
  <2> QED
    BY <2>1, <2>3, <2>4
<1>3. ASSUME IgnoreMissed
      PROVE  settled.day < settled'.day /\ settled'.reason = "ignored"
  <2>1. ApplySettlement(missed.day, "ignored", FALSE)
    BY <1>3 DEF IgnoreMissed
  <2>2. missed.day \in Nat
    BY DEF TypeOK
  <2>3. settled.day < missed.day /\ settled' = [day |-> missed.day, reason |-> "ignored"]
    BY <2>1, <2>2, SettlementMoves
  <2> QED
    BY <2>3
<1>4. \/ IgnoreMissed
      \/ \E r \in Runs : runs[r] # Free /\ (SettleScheduledRun(r) \/ SettleMissedRun(r))
  BY DEF Next, Step, SaveConfig, NotifyConfigChanged, TriggerNow, StoreCancel, Returns,
         ReleaseGuard, DeferredCancel, Deadline, CancelRun, ReadConfig, Plan, EndWait,
         EndSleep, FireScheduledTick, MarkScheduleRun, ClaimMissed, RunMissed, Stop,
         Restart, TimePasses, store
<1> QED
  BY <1>1, <1>2, <1>3, <1>4

LEMMA StepSettledDays ==
  ASSUME TypeOK, SuccessesAreRecorded, SettledDaysSucceeded, Next
  PROVE  SettledDaysSucceeded'
<1>1. succeeded \subseteq succeeded'
  BY SuccessesStay
<1>2. CASE settled' = settled
  BY <1>1, <1>2, Zenon DEF SettledDaysSucceeded
<1>3. CASE settled' # settled
  <2>1. CASE settled'.reason = "ignored"
    BY <2>1 DEF SettledDaysSucceeded
  <2>2. ASSUME NEW r \in Runs, runs[r] # Free, settled'.day = runs[r].day,
               runs[r].trigger # "manual",
               runs[r].at = "settle" \/ (runs[r].at = "mark" /\ runs[r].status = "ok")
        PROVE  SettledDaysSucceeded'
    <3>1. runs[r].status = "ok"
      BY <2>2, Zenon DEF SuccessesAreRecorded
    <3>2. runs[r].at \in {"returned", "released", "mark", "settle"}
      BY <2>2
    <3>3. runs[r].day \in succeeded
      BY <2>2, <3>1, <3>2, Zenon DEF SuccessesAreRecorded
    <3> QED
      BY <1>1, <2>2, <3>3, Zenon DEF SettledDaysSucceeded
  <2> QED
    BY <1>3, <2>1, <2>2, SettledChanges
<1> QED
  BY <1>2, <1>3

-----------------------------------------------------------------------------
(* The schedule the loop has heard                                         *)

Heard == RetryWithoutInstant /\ PlansAreHeard /\ ChangesAreHeard

\* The loop waits for nothing.
LEMMA LoopElsewhere ==
  ASSUME loop'.at \in {"read", "fire", "run", "ended"}
  PROVE  Heard'
BY DEF Heard, RetryWithoutInstant, PlansAreHeard, ChangesAreHeard

\* The loop waits on, and no wake-up is lost.
LEMMA LoopWaits ==
  ASSUME TypeOK, Heard, loop' = loop, wake \/ notifying => wake' \/ notifying',
         config' = config \/ wake' \/ notifying', now' \in Nat, now <= now'
  PROVE  Heard'
<1>1. now \in Nat /\ loop.until \in Nat
  BY DEF TypeOK, Loop
<1>2. now' < loop.until => now < loop.until
  BY <1>1
<1>3. RetryWithoutInstant'
  BY Zenon DEF Heard, RetryWithoutInstant
<1>4. PlansAreHeard'
  BY Zenon DEF Heard, PlansAreHeard
<1>5. ChangesAreHeard'
  BY <1>2, Zenon DEF Heard, ChangesAreHeard
<1> QED
  BY <1>3, <1>4, <1>5 DEF Heard

LEMMA StepHeard ==
  ASSUME TypeOK, Heard, Next
  PROVE  Heard'
<1>1. loop \in Loop /\ now \in Nat
  BY DEF TypeOK
<1>2. \A place \in {"read", "fire", "run", "ended"} : At(loop, place).at = place
  BY <1>1, AtOfLoop
<1>3. ASSUME UNCHANGED <<loop, wake, notifying, config, now>>
      PROVE  Heard'
  BY <1>1, <1>3, LoopWaits
<1>4. ASSUME loop' = At(loop, "read") \/ loop' = At(loop, "fire")
             \/ loop' = At(loop, "run") \/ loop' = At(loop, "ended")
      PROVE  Heard'
  BY <1>2, <1>4, LoopElsewhere
<1>5. ASSUME NEW cfg \in Configs, SaveConfig(cfg)
      PROVE  Heard'
  BY <1>1, <1>5, LoopWaits DEF SaveConfig
<1>6. ASSUME NotifyConfigChanged
      PROVE  Heard'
  BY <1>1, <1>6, LoopWaits DEF NotifyConfigChanged, store
<1>7. ASSUME ReadConfig
      PROVE  Heard'
  <2>1. ASSUME NEW at \in {"plan", "idle"},
               loop' = [at |-> at, heard |-> config, until |-> loop.until]
        PROVE  Heard'
    <3>1. loop'.at \in {"plan", "idle"} /\ loop'.heard = config /\ config' = config
      BY <1>7, <2>1 DEF ReadConfig, store
    <3> QED
      BY <3>1 DEF Heard, RetryWithoutInstant, PlansAreHeard, ChangesAreHeard
  <2> QED
    BY <1>4, <1>7, <2>1 DEF ReadConfig
<1>8. ASSUME Plan
      PROVE  Heard'
  <2>1. /\ loop.at = "plan" /\ UNCHANGED <<config, wake, notifying>>
        /\ loop'.heard = loop.heard /\ loop'.until = NextBoundary(now, loop.heard)
        /\ loop'.at \in {"idle", "retry", "sleep"}
        /\ loop'.at = "retry" => NextBoundary(now, loop.heard) = 0
    BY <1>8 DEF Plan, store, signals
  <2>2. loop.heard # config => wake \/ notifying
    BY <2>1, Zenon DEF Heard, PlansAreHeard
  <2>3. RetryWithoutInstant'
    BY <2>1, Zenon DEF RetryWithoutInstant
  <2>4. PlansAreHeard'
    BY <2>1 DEF PlansAreHeard
  <2>5. ChangesAreHeard'
    BY <2>1, <2>2, Zenon DEF ChangesAreHeard
  <2> QED
    BY <2>3, <2>4, <2>5 DEF Heard
<1>9. ASSUME EndWait
      PROVE  Heard'
  <2>1. CASE loop.at = "retry" /\ loop' = At(loop, "sleep")
    <3>1. loop.until = 0
      BY <2>1, Zenon DEF Heard, RetryWithoutInstant
    <3>2. loop'.at = "sleep" /\ loop'.until = 0
      BY <1>1, <2>1, <3>1, AtOfLoop
    <3>3. now' = now
      BY <1>9 DEF EndWait
    <3>4. ~(now' < loop'.until)
      BY <1>1, <3>2, <3>3
    <3> QED
      BY <3>2, <3>4 DEF Heard, RetryWithoutInstant, PlansAreHeard, ChangesAreHeard
  <2> QED
    BY <1>4, <1>9, <2>1 DEF EndWait
<1>10. ASSUME EndSleep \/ FireScheduledTick
       PROVE  Heard'
  BY <1>4, <1>10 DEF EndSleep, FireScheduledTick
<1>11. ASSUME NEW r \in Runs, MarkScheduleRun(r) \/ SettleScheduledRun(r)
       PROVE  Heard'
  BY <1>3, <1>4, <1>11 DEF MarkScheduleRun, SettleScheduledRun, signals
<1>12. ASSUME Restart
       PROVE  Heard'
  BY <1>12, LoopElsewhere DEF Restart, Started
<1>13. ASSUME TimePasses
       PROVE  Heard'
  <2>1. /\ UNCHANGED <<loop, wake, notifying, config>> /\ now' = now + 1
    BY <1>13, Zenon DEF TimePasses, store, signals
  <2>2. now' \in Nat /\ now <= now'
    BY <1>1, <2>1
  <2> QED
    BY <2>1, <2>2, LoopWaits
<1>14. ASSUME \/ \E r \in Runs : \/ TriggerNow(r) \/ StoreCancel(r) \/ ReleaseGuard(r)
                                 \/ DeferredCancel(r) \/ Deadline(r) \/ SettleMissedRun(r)
                                 \/ \E status \in {"ok", "error"} : Returns(r, status)
              \/ CancelRun \/ IgnoreMissed \/ RunMissed \/ Stop
              \/ \E action \in {"ignore", "run_now"} : ClaimMissed(action)
       PROVE  Heard'
  <2>1. UNCHANGED <<loop, wake, notifying, config, now>>
    BY <1>14 DEF TriggerNow, StoreCancel, ReleaseGuard, DeferredCancel, Deadline,
                 SettleMissedRun, Returns, CancelRun, IgnoreMissed, RunMissed, Stop,
                 ClaimMissed, store, signals
  <2> QED
    BY <1>3, <2>1
<1> QED
  BY <1>5, <1>6, <1>7, <1>8, <1>9, <1>10, <1>11, <1>12, <1>13, <1>14 DEF Next, Step

-----------------------------------------------------------------------------
(* The invariant                                                           *)

LEMMA InitInv == Init => Inv
<1> SUFFICES ASSUME Init PROVE Inv
  OBVIOUS
<1>1. TypeOK /\ Exclusion
  BY InitTypes, InitExclusion
<1>2. Heard
  BY DEF Init, Started, Heard, RetryWithoutInstant, PlansAreHeard, ChangesAreHeard
<1>3. SuccessesAreRecorded /\ SettledDaysSucceeded /\ StopReachesScheduledRuns
  BY DEF Init, SuccessesAreRecorded, SettledDaysSucceeded, StopReachesScheduledRuns
<1> QED
  BY <1>1, <1>2, <1>3 DEF Inv, Exclusion, Heard

LEMMA StepInv == Inv /\ [Next]_vars => Inv'
<1> SUFFICES ASSUME Inv, [Next]_vars PROVE Inv'
  OBVIOUS
<1>1. CASE Next
  <2>1. /\ TypeOK /\ Exclusion /\ Heard /\ CurrentInProgress /\ SuccessesAreRecorded
        /\ SettledDaysSucceeded /\ StopReachesScheduledRuns
    BY Zenon DEF Inv, Exclusion, Heard
  <2>2. TypeOK' /\ Exclusion' /\ Heard'
    BY <1>1, <2>1, StepTypes, StepExclusion, StepHeard
  <2>3. SuccessesAreRecorded' /\ SettledDaysSucceeded' /\ StopReachesScheduledRuns'
    BY <1>1, <2>1, StepSuccesses, StepSettledDays, StepStopReaches
  <2> QED
    BY <2>2, <2>3, Zenon DEF Inv, Exclusion, Heard
<1>2. CASE UNCHANGED vars
  <2>1. /\ UNCHANGED <<config, lastRun, settled, attempt, now, startedAt, loop, wake>>
        /\ UNCHANGED <<notifying, stopping, guard, current, runs, missed, succeeded>>
    BY <1>2 DEF vars, store, signals
  <2>2. TypeOK'
    BY <2>1 DEF TypeOK, Inv
  <2>3. (GuardHeld /\ OneRunAtATime /\ CurrentInProgress)'
    BY <2>1 DEF Inv, GuardHeld, OneRunAtATime, CurrentInProgress, InProgress
  <2>4. (RetryWithoutInstant /\ PlansAreHeard /\ ChangesAreHeard)'
    BY <2>1 DEF Inv, RetryWithoutInstant, PlansAreHeard, ChangesAreHeard
  <2>5. (SuccessesAreRecorded /\ SettledDaysSucceeded)'
    BY <2>1 DEF Inv, SuccessesAreRecorded, SettledDaysSucceeded
  <2>6. StopReachesScheduledRuns'
    BY <2>1 DEF Inv, StopReachesScheduledRuns, InProgress
  <2> QED
    BY <2>2, <2>3, <2>4, <2>5, <2>6 DEF Inv
<1> QED
  BY <1>1, <1>2

\* Every state the scheduler reaches satisfies the inductive invariant.
THEOREM Invariance == Spec => []Inv
BY InitInv, StepInv, PTL DEF Spec

\* The scheduler's state keeps its type: the schedule is one a user saved, every
\* run is a run, every instant and date a number.
THEOREM TypeCorrect == Spec => []TypeOK
<1>1. Inv => TypeOK
  BY DEF Inv
<1> QED
  BY Invariance, <1>1, PTL

\* Two runs are never in progress, whoever of the loop, the user and the missed
\* day started them, however many goroutines there are (acquire, releaseGuard).
THEOREM OneRun == Spec => []OneRunAtATime
<1>1. Inv => OneRunAtATime
  BY DEF Inv
<1> QED
  BY Invariance, <1>1, PTL

\* A schedule saved while the loop waits on the old one is heard: the wake
\* channel, with room for one token, loses none (NotifyConfigChanged, sleepUntil).
THEOREM ChangesHeard == Spec => []ChangesAreHeard
<1>1. Inv => ChangesAreHeard
  BY DEF Inv
<1> QED
  BY Invariance, <1>1, PTL

\* A day settled by a run had a run for that very day return ok
\* (executeRun, ResolveMissedStartupDate, ApplyScheduleSettlement).
THEOREM SettledDays == Spec => []SettledDaysSucceeded
<1>1. Inv => SettledDaysSucceeded
  BY DEF Inv
<1> QED
  BY Invariance, <1>1, PTL

\* Once Stop has cancelled the loop, no scheduled run keeps a live context,
\* the one the loop was just about to start included (Stop, acquire).
THEOREM StopReaches == Spec => []StopReachesScheduledRuns
<1>1. Inv => StopReachesScheduledRuns
  BY DEF Inv
<1> QED
  BY Invariance, <1>1, PTL

\* The ledger only ever moves to a later day (ApplyScheduleSettlement).
THEOREM SettlementsFinal == Spec => SettlementsAreFinal
<1>1. Inv /\ [Next]_vars => [settled' # settled => settled.day < settled'.day]_vars
  <2>1. ASSUME Inv, Next
        PROVE  settled' # settled => settled.day < settled'.day
    BY <2>1, SettledChanges DEF Inv
  <2> QED
    BY <2>1
<1> QED
  BY Invariance, <1>1, PTL DEF Spec, SettlementsAreFinal

=============================================================================
