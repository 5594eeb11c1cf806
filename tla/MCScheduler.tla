---------------------------- MODULE MCScheduler -----------------------------
(* Small instances of Scheduler for TLC: days of three instants with the due *)
(* one in the middle, so that a run can start on its day, end on the next,   *)
(* and a start of the process can miss it; weeks of two days; the run        *)
(* goroutines interchangeable.                                               *)
EXTENDS Scheduler, TLC

EveryDay  == [enabled |-> TRUE, weekdays |-> {0, 1}, due |-> 1]
NoWeekday == [enabled |-> TRUE, weekdays |-> {}, due |-> 1]
Disabled  == [enabled |-> FALSE, weekdays |-> {0, 1}, due |-> 1]

OneConfig    == {EveryDay}
ThreeConfigs == {EveryDay, NoWeekday, Disabled}
EmptyWeek    == {NoWeekday}

Symmetry == Permutations(Runs)

\* Two slices of one instance: two runs over two days while the schedule is left alone,
\* and its changes around one run up to the first due instant.
Slices ==
  \/ config = EveryDay /\ loop.heard = EveryDay /\ ~notifying /\ ~wake
  \/ now <= EveryDay.due /\ Cardinality({r \in Runs : runs[r] # Free}) <= 1

\* Who cancelled a run and the recorded attempt are read by no guard: what asks only
\* whether a run was cancelled may identify states that differ in them only.
WithoutRecords ==
  <<config, lastRun, settled, now, startedAt, loop, signals, guard, current, missed,
    succeeded, [r \in Runs |-> IF runs[r] = Free THEN Free
                 ELSE [runs[r] EXCEPT !.cancelled = IF @ = "no" THEN "no" ELSE "stop"]]>>

=============================================================================
