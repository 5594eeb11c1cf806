SPECIFICATION Spec
CONSTANTS
  Runs = {r1}
  Free = Free
  Configs <- EmptyWeek
  WeekLength = 2
  DayLength = 3
  MaxTime = 2
INVARIANT
  NoWeekdayNeverFires
