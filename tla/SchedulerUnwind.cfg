SPECIFICATION Spec
CONSTANTS
  Runs = {r1,r2}
  Free = Free
  Configs <- OneConfig
  WeekLength = 2
  DayLength = 3
  MaxTime = 2
SYMMETRY Symmetry
INVARIANT
  RunsUnwindAlone
