SPECIFICATION Spec
CONSTANTS
  Runs = {r1,r2}
  Free = Free
  Configs <- ThreeConfigs
  WeekLength = 2
  DayLength = 3
  MaxTime = 4
SYMMETRY Symmetry
VIEW WithoutRecords
CONSTRAINT Slices
INVARIANTS
  TypeOK
  OneRunAtATime
  SettledDaysSucceeded
  ChangesAreHeard
  StopReachesScheduledRuns
PROPERTY
  SettlementsAreFinal
