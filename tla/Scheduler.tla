----------------------------- MODULE Scheduler -----------------------------
(***************************************************************************)
(* The download scheduler: one loop that sleeps until the next due instant *)
(* of the saved schedule, runs the user triggers by hand, the run of a     *)
(* startup-missed day, one guard that keeps two runs apart, cancellation,  *)
(* and the settlement of local dates in download_schedule_config.          *)
(*                                                                         *)
(* Goroutines interleave between the statements of executeRun: the guard   *)
(* taken, the cancel stored, the callback, the guard released, the         *)
(* deferred cancel, and each statement on the store.  The callback is      *)
(* external: it returns any status at any time, or never.                  *)
(***************************************************************************)
EXTENDS Integers, FiniteSets, FiniteSetsExt

CONSTANTS
  Runs,        \* bound: run goroutines alive at once
  Free,        \* no run
  Configs,     \* schedules the user may save: [enabled, weekdays, due]
  WeekLength,  \* days in a week
  DayLength,   \* clock instants in a day
  MaxTime      \* bound: the clock reads 0..MaxTime

ASSUME ScheduleConstants ==
  /\ WeekLength \in Nat \ {0} /\ DayLength \in Nat \ {0} /\ MaxTime \in Nat
  /\ Configs \subseteq [enabled: BOOLEAN, weekdays: SUBSET (0..(WeekLength - 1)),
                        due: 0..(DayLength - 1)]

VARIABLES
  config,      \* download_schedule_config: the saved schedule
  lastRun,     \* last_run_at_ms and last_run_status
  settled,     \* last_settled_local_date (0: none) and its reason
  attempt,     \* last_missed_attempt_local_date and status
  now,         \* wall clock
  startedAt,   \* processStartedAt
  loop,        \* the loop goroutine
  wake,        \* the wake channel holds a token
  notifying,   \* a save of the schedule has not called NotifyConfigChanged yet
  stopping,    \* Stop has cancelled the loop's context
  guard,       \* running
  current,     \* the run whose cancel runCancel holds; Free for nil
  runs,        \* the runs in progress
  missed,      \* the missed day ResolveMissedStartupDate has claimed
  succeeded    \* history: days a run for them returned ok

store   == <<config, lastRun, settled, attempt>>
signals == <<wake, notifying, stopping>>
vars == <<store, now, startedAt, loop, signals, guard, current, runs, missed, succeeded>>

-----------------------------------------------------------------------------
Day(t) == t \div DayLength + 1
Due(cfg, day) == (day - 1) * DayLength + cfg.due
Selected(cfg, day) == day % WeekLength \in cfg.weekdays

Run == [trigger: {"scheduled", "manual", "missed_startup"},
        at: {"accepted", "running", "returned", "released", "mark", "settle"},
        day: Nat, startedAt: Nat, status: {"", "ok", "error"},
        cancelled: {"no", "user", "deadline", "stop", "other run"}]

ASSUME FreeIsNoRun == Free \notin Runs /\ Free \notin Run

\* Where the loop is: it reads the schedule, plans on what it heard, and then
\* sleeps until a due instant or waits an idle interval, to read again ("idle")
\* or to go on without a due instant ("retry").
Loop == [at: {"read", "plan", "idle", "retry", "sleep", "fire", "run", "ended"},
         heard: Configs, until: Nat]

Started == [at |-> "read", heard |-> config, until |-> 0]

\* Mutant: no due instant is told by the zero time's stamp, long before 0.
NextBoundaryUnchecked(t, cfg) ==
  LET first == IF Due(cfg, Day(t)) > t THEN Day(t) ELSE Day(t) + 1
      days  == {d \in first..(first + WeekLength - 1) : Selected(cfg, d)}
  IN  IF days = {} THEN -1 ELSE Due(cfg, Min(days))

\* nextDailyBoundaryAfter: the first due instant strictly after t on a selected
\* weekday, 0 when no day of the following week is selected.
NextBoundary(t, cfg) ==
  LET first == IF Due(cfg, Day(t)) > t THEN Day(t) ELSE Day(t) + 1
      days  == {d \in first..(first + WeekLength - 1) : Selected(cfg, d)}
  IN  IF days = {} THEN 0 ELSE Due(cfg, Min(days))

\* The start-up notice: today was selected and due before the process started,
\* and neither the ledger nor the last run resolves it.
MissedToday ==
  LET today == Day(now)
      due   == Due(config, today)
  IN  /\ config.enabled /\ Selected(config, today)
      /\ now > due /\ startedAt > due
      /\ settled.day < today
      /\ ~(lastRun.status = "ok" /\ Day(lastRun.at) = today /\ lastRun.at >= due)

\* A run, or the loop, that has come to another place; a run whose callback
\* has returned; a run whose context is cancelled, by the first who does.
At(x, place) == [x EXCEPT !.at = place]
Ended(x, status) == [x EXCEPT !.at = "returned", !.status = status]
CancelledBy(x, who) == [x EXCEPT !.cancelled = IF @ = "no" THEN who ELSE @]

InProgress(r) == runs[r] # Free /\ runs[r].at \in {"accepted", "running", "returned"}

-----------------------------------------------------------------------------
(* The store                                                               *)

\* Mutant: a settlement is written whatever date is stored.
SettleAnyDate(day, reason, ok) ==
  /\ settled' = [day |-> day, reason |-> reason]
  /\ attempt' = [day |-> 0, status |-> ""]
  /\ lastRun' = IF ok THEN [at |-> now, status |-> "ok"] ELSE lastRun

\* ApplyScheduleSettlement: an older or equal date changes nothing.
ApplySettlement(day, reason, ok) ==
  IF settled.day >= day
  THEN UNCHANGED <<settled, attempt, lastRun>>
  ELSE /\ settled' = [day |-> day, reason |-> reason]
       /\ attempt' = [day |-> 0, status |-> ""]
       /\ lastRun' = IF ok THEN [at |-> now, status |-> "ok"] ELSE lastRun

\* SetScheduleConfig, then NotifyConfigChanged.  Bound: one save at a time.
SaveConfig(cfg) ==
  /\ ~notifying
  /\ config' = cfg /\ notifying' = TRUE
  /\ UNCHANGED <<lastRun, settled, attempt, now, startedAt, loop, wake, stopping,
                 guard, current, runs, missed, succeeded>>

\* Mutant: an unbuffered wake channel, heard only by a loop asleep.
NotifySleeping ==
  /\ notifying /\ notifying' = FALSE
  /\ wake' = (wake \/ loop.at \in {"idle", "retry", "sleep"})
  /\ UNCHANGED <<store, now, startedAt, loop, stopping, guard, current, runs, missed, succeeded>>

NotifyConfigChanged ==
  /\ notifying /\ notifying' = FALSE
  /\ wake' = TRUE
  /\ UNCHANGED <<store, now, startedAt, loop, stopping, guard, current, runs, missed, succeeded>>

-----------------------------------------------------------------------------
(* A run                                                                   *)

\* Mutant: the scheduled run's context is not derived from the loop's.
AcquireDetached(r, trigger, day) ==
  /\ ~guard /\ runs[r] = Free
  /\ guard' = TRUE
  /\ runs' = [runs EXCEPT ![r] =
       [trigger |-> trigger, at |-> "accepted", day |-> day, startedAt |-> now,
        status |-> "", cancelled |-> "no"]]

\* The guard, and a context that is cancelled with the caller's: the loop's for
\* a scheduled run, the application's otherwise.
Acquire(r, trigger, day) ==
  /\ ~guard /\ runs[r] = Free
  /\ guard' = TRUE
  /\ runs' = [runs EXCEPT ![r] =
       [trigger |-> trigger, at |-> "accepted", day |-> day, startedAt |-> now,
        status |-> "",
        cancelled |-> IF stopping /\ trigger = "scheduled" THEN "stop" ELSE "no"]]

\* acquire stores the cancel function, and executeRun calls the callback.
StoreCancel(r) ==
  /\ runs[r].at = "accepted"
  /\ current' = r
  /\ runs' = [runs EXCEPT ![r] = At(@, "running")]
  /\ UNCHANGED <<store, now, startedAt, loop, signals, guard, missed, succeeded>>

Returns(r, status) ==
  /\ runs[r].at = "running"
  /\ runs' = [runs EXCEPT ![r] = Ended(@, status)]
  /\ succeeded' = IF status = "ok" /\ runs[r].trigger # "manual"
                  THEN succeeded \cup {runs[r].day} ELSE succeeded
  /\ UNCHANGED <<store, now, startedAt, loop, signals, guard, current, missed>>

\* releaseGuard, which alone frees the guard.
ReleaseGuard(r) ==
  /\ runs[r].at = "returned"
  /\ current' = IF current = r THEN Free ELSE current
  /\ guard' = FALSE
  /\ runs' = [runs EXCEPT ![r] = At(@, "released")]
  /\ UNCHANGED <<store, now, startedAt, loop, signals, missed, succeeded>>

\* executeRun's deferred cancel, after the release: it calls whatever runCancel
\* holds by then.
DeferredCancel(r) ==
  /\ runs[r].at = "released"
  /\ runs' = [q \in Runs |->
       IF q = r THEN IF runs[r].trigger = "manual" THEN Free ELSE At(runs[r], "mark")
       ELSE IF q = current THEN CancelledBy(runs[q], "other run")
       ELSE runs[q]]
  /\ UNCHANGED <<store, now, startedAt, loop, signals, guard, current, missed, succeeded>>

\* Mutant: the guard is freed at the deadline too.
DeadlineFrees(r) ==
  /\ runs[r].at = "running"
  /\ runs' = [runs EXCEPT ![r] = CancelledBy(@, "deadline")]
  /\ guard' = FALSE
  /\ UNCHANGED <<store, now, startedAt, loop, signals, current, missed, succeeded>>

\* MaxRunDuration: the run's context expires.
Deadline(r) ==
  /\ runs[r].at = "running"
  /\ runs' = [runs EXCEPT ![r] = CancelledBy(@, "deadline")]
  /\ UNCHANGED <<store, now, startedAt, loop, signals, guard, current, missed, succeeded>>

CancelRun ==
  /\ current # Free
  /\ runs' = [runs EXCEPT ![current] = CancelledBy(@, "user")]
  /\ UNCHANGED <<store, now, startedAt, loop, signals, guard, current, missed, succeeded>>

TriggerNow(r) ==
  /\ Acquire(r, "manual", Day(now))
  /\ UNCHANGED <<store, now, startedAt, loop, signals, current, missed, succeeded>>

-----------------------------------------------------------------------------
(* The loop                                                                *)

\* loadEnabledScheduleConfig, unless the loop's context is over; a failed read
\* is tried again after the idle interval.
ReadConfig ==
  /\ loop.at = "read"
  /\ \/ stopping /\ loop' = At(loop, "ended")
     \/ /\ ~stopping
        /\ \E at \in {"plan", "idle"} :
             loop' = [at |-> at, heard |-> config, until |-> loop.until]
  /\ UNCHANGED <<store, now, startedAt, signals, guard, current, runs, missed, succeeded>>

\* nextScheduledBoundary on what was read.  Without a due instant it waits, and
\* then hands the loop the zero time.
Plan ==
  /\ loop.at = "plan"
  /\ loop' = LET next == NextBoundary(now, loop.heard)
             IN  [at |-> IF ~loop.heard.enabled THEN "idle"
                         ELSE IF next = 0 THEN "retry" ELSE "sleep",
                  heard |-> loop.heard, until |-> next]
  /\ UNCHANGED <<store, now, startedAt, signals, guard, current, runs, missed, succeeded>>

\* sleepUntil selects on the context, the wake channel and the timer, any that
\* is ready.  An idle wait goes on in the same way after either of the last two.
EndWait ==
  /\ loop.at \in {"idle", "retry"}
  /\ \/ stopping /\ loop' = At(loop, "ended") /\ wake' = wake
     \/ /\ wake' \in {wake, FALSE}
        /\ loop' = At(loop, IF loop.at = "idle" THEN "read" ELSE "sleep")
  /\ UNCHANGED <<store, now, startedAt, notifying, stopping, guard, current, runs, missed, succeeded>>

EndSleep ==
  /\ loop.at = "sleep"
  /\ \/ /\ stopping
        /\ loop' = At(loop, "ended") /\ wake' = wake
     \/ /\ wake
        /\ loop' = At(loop, IF stopping THEN "ended" ELSE "read") /\ wake' = FALSE
     \/ /\ now >= loop.until
        /\ loop' = At(loop, IF stopping THEN "ended" ELSE "fire") /\ wake' = wake
  /\ UNCHANGED <<store, now, startedAt, notifying, stopping, guard, current, runs, missed, succeeded>>

\* fireScheduledTick: a held guard skips the tick.
FireScheduledTick ==
  /\ loop.at = "fire"
  /\ \/ /\ guard
        /\ loop' = At(loop, "read")
        /\ UNCHANGED <<guard, runs>>
     \/ /\ \E r \in Runs : Acquire(r, "scheduled", Day(now))
        /\ loop' = At(loop, "run")
  /\ UNCHANGED <<store, now, startedAt, signals, current, missed, succeeded>>

\* The scheduled run is over: it is marked and, when ok, settled.  Each
\* statement may fail, and both do once Stop has cancelled the loop's context.
MarkScheduleRun(r) ==
  /\ runs[r].at = "mark" /\ runs[r].trigger = "scheduled"
  /\ \/ lastRun' = lastRun
     \/ ~stopping /\ lastRun' = [at |-> runs[r].startedAt, status |-> runs[r].status]
  /\ IF runs[r].status = "ok"
     THEN runs' = [runs EXCEPT ![r] = At(@, "settle")] /\ loop' = loop
     ELSE runs' = [runs EXCEPT ![r] = Free] /\ loop' = At(loop, "read")
  /\ UNCHANGED <<config, settled, attempt, now, startedAt, signals, guard, current, missed, succeeded>>

\* Mutant: the day of the settlement is the day the run ended.
SettleDayItEnded(r) ==
  /\ runs[r].at = "settle" /\ runs[r].trigger = "scheduled"
  /\ \/ UNCHANGED <<settled, attempt, lastRun>>
     \/ ~stopping /\ ApplySettlement(Day(now), "scheduled", FALSE)
  /\ runs' = [runs EXCEPT ![r] = Free]
  /\ loop' = At(loop, "read")
  /\ UNCHANGED <<config, now, startedAt, signals, guard, current, missed, succeeded>>

SettleScheduledRun(r) ==
  /\ runs[r].at = "settle" /\ runs[r].trigger = "scheduled"
  /\ \/ UNCHANGED <<settled, attempt, lastRun>>
     \/ ~stopping /\ ApplySettlement(runs[r].day, "scheduled", FALSE)
  /\ runs' = [runs EXCEPT ![r] = Free]
  /\ loop' = At(loop, "read")
  /\ UNCHANGED <<config, now, startedAt, signals, guard, current, missed, succeeded>>

-----------------------------------------------------------------------------
(* The startup-missed day                                                  *)

Unclaimed == [day |-> 0, action |-> ""]

\* ResolveMissedStartupDate claims the day and reads the schedule once; a second
\* caller is turned away while the claim is held.
ClaimMissed(action) ==
  /\ missed = Unclaimed /\ MissedToday
  /\ missed' = [day |-> Day(now), action |-> action]
  /\ UNCHANGED <<store, now, startedAt, loop, signals, guard, current, runs, succeeded>>

IgnoreMissed ==
  /\ missed.action = "ignore"
  /\ \/ UNCHANGED <<settled, attempt, lastRun>>
     \/ ApplySettlement(missed.day, "ignored", FALSE)
  /\ missed' = Unclaimed
  /\ UNCHANGED <<config, now, startedAt, loop, signals, guard, current, runs, succeeded>>

RunMissed ==
  /\ missed.action = "run_now"
  /\ \/ /\ guard
        /\ missed' = Unclaimed
        /\ UNCHANGED <<guard, runs>>
     \/ /\ \E r \in Runs : Acquire(r, "missed_startup", missed.day)
        /\ missed' = [day |-> missed.day, action |-> "running"]
  /\ UNCHANGED <<store, now, startedAt, loop, signals, current, succeeded>>

\* The missed run is over: ok settles the day, anything else records an attempt.
SettleMissedRun(r) ==
  /\ runs[r].at = "mark" /\ runs[r].trigger = "missed_startup"
  /\ \/ UNCHANGED <<settled, attempt, lastRun>>
     \/ runs[r].status = "ok" /\ ApplySettlement(runs[r].day, "run_now", TRUE)
     \/ /\ runs[r].status # "ok"
        /\ attempt' = [day |-> runs[r].day, status |-> runs[r].status]
        /\ UNCHANGED <<settled, lastRun>>
  /\ missed' = Unclaimed
  /\ runs' = [runs EXCEPT ![r] = Free]
  /\ UNCHANGED <<config, now, startedAt, loop, signals, guard, current, succeeded>>

-----------------------------------------------------------------------------
(* The process                                                             *)

\* The loop's context, with it the context of a scheduled run, and the run
\* whose cancel is stored.
Stop ==
  /\ ~stopping /\ stopping' = TRUE
  /\ runs' = [r \in Runs |->
       IF runs[r] # Free /\ (r = current \/ runs[r].trigger = "scheduled")
       THEN CancelledBy(runs[r], "stop") ELSE runs[r]]
  /\ UNCHANGED <<store, now, startedAt, loop, wake, notifying, guard, current, missed, succeeded>>

\* The process ends, by Stop or not, and starts again.
Restart ==
  /\ startedAt' = now
  /\ loop' = Started
  /\ wake' = FALSE /\ notifying' = FALSE /\ stopping' = FALSE
  /\ guard' = FALSE /\ current' = Free
  /\ runs' = [r \in Runs |-> Free]
  /\ missed' = Unclaimed
  /\ UNCHANGED <<store, now, succeeded>>

TimePasses ==
  /\ now < MaxTime /\ now' = now + 1
  /\ UNCHANGED <<store, startedAt, loop, signals, guard, current, runs, missed, succeeded>>

-----------------------------------------------------------------------------
(* Specification                                                           *)

Init ==
  /\ config \in Configs
  /\ lastRun = [at |-> 0, status |-> ""]
  /\ settled = [day |-> 0, reason |-> ""]
  /\ attempt = [day |-> 0, status |-> ""]
  /\ now \in 0..MaxTime /\ startedAt = now
  /\ loop = Started
  /\ wake = FALSE /\ notifying = FALSE /\ stopping = FALSE
  /\ guard = FALSE /\ current = Free
  /\ runs = [r \in Runs |-> Free]
  /\ missed = Unclaimed
  /\ succeeded = {}

\* What the scheduler itself does for a run; the callback's return is not its own.
Step(r) ==
  \/ StoreCancel(r) \/ ReleaseGuard(r) \/ DeferredCancel(r) \/ Deadline(r)
  \/ MarkScheduleRun(r) \/ SettleScheduledRun(r) \/ SettleMissedRun(r)

Next ==
  \/ \E cfg \in Configs : SaveConfig(cfg)
  \/ NotifyConfigChanged
  \/ \E r \in Runs : TriggerNow(r)
  \/ \E r \in {q \in Runs : runs[q] # Free} :
       Step(r) \/ \E status \in {"ok", "error"} : Returns(r, status)
  \/ CancelRun
  \/ ReadConfig \/ Plan \/ EndWait \/ EndSleep \/ FireScheduledTick
  \/ \E action \in {"ignore", "run_now"} : ClaimMissed(action)
  \/ IgnoreMissed \/ RunMissed
  \/ Stop \/ Restart \/ TimePasses

Spec == Init /\ [][Next]_vars

\* The Go scheduler runs every ready goroutine, and a context expires; nothing
\* is assumed of the callback, the user or the clock.
FairSpec ==
  Spec /\ \A r \in Runs : WF_vars(runs[r] # Free /\ Step(r))

-----------------------------------------------------------------------------
(* Properties                                                              *)

TypeOK ==
  /\ config \in Configs
  /\ lastRun \in [at: Nat, status: {"", "ok", "error"}]
  /\ settled \in [day: Nat, reason: {"", "scheduled", "ignored", "run_now"}]
  /\ attempt \in [day: Nat, status: {"", "error"}]
  /\ now \in Nat /\ startedAt \in Nat
  /\ loop \in Loop
  /\ wake \in BOOLEAN /\ notifying \in BOOLEAN /\ stopping \in BOOLEAN
  /\ guard \in BOOLEAN
  /\ current \in Runs \cup {Free}
  /\ runs \in [Runs -> Run \cup {Free}]
  /\ missed \in [day: Nat, action: {"", "ignore", "run_now", "running"}]
  /\ succeeded \subseteq Nat

\* The concurrent-run guard: two runs are never in progress, whichever of the
\* loop, the user and the missed day started them.
OneRunAtATime ==
  \A q, r \in Runs : InProgress(q) /\ InProgress(r) => q = r

\* A schedule saved while the loop waits on the old one is heard, the save that
\* falls between the read and the wait included: a wake-up is left for the loop,
\* or the save is about to send one.
ChangesAreHeard ==
  (/\ loop.heard # config
   /\ loop.at \in {"idle", "retry"} \/ (loop.at = "sleep" /\ now < loop.until))
    => wake \/ notifying

\* A day the ledger calls settled by a run had a run for that very day return
\* ok, midnights and failed statements in between notwithstanding.
SettledDaysSucceeded ==
  settled.reason \in {"scheduled", "run_now"} => settled.day \in succeeded

\* A settlement is final: the ledger only ever moves to a later day, although a
\* scheduled run, an ignored day and a missed run settle without a common lock.
SettlementsAreFinal ==
  [][settled' # settled => settled.day < settled'.day]_vars

\* Once Stop has cancelled the loop, no scheduled run keeps a live context, the
\* one the loop was just about to start included.
StopReachesScheduledRuns ==
  stopping => \A r \in Runs :
    InProgress(r) /\ runs[r].trigger = "scheduled" => runs[r].cancelled # "no"

\* "Empty weekday set disables scheduling: idle re-check, never fire".
NoWeekdayNeverFires == loop.at = "fire" => loop.heard.weekdays # {}

\* What releaseGuard's comment is after: a run that unwinds late does not touch
\* a later run.
RunsUnwindAlone == \A r \in Runs : runs[r] # Free => runs[r].cancelled # "other run"

\* "a wedged run can never suppress all future runs forever": once a run is past
\* its deadline the guard is released.
DeadlineFreesGuard ==
  \A r \in Runs : (runs[r] # Free /\ runs[r].cancelled = "deadline") ~> ~guard

=============================================================================
