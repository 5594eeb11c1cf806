SPECIFICATION FairSpec
CONSTANTS
  Runs = {r1}
  Free = Free
  Configs <- OneConfig
  WeekLength = 2
  DayLength = 3
  MaxTime = 2
PROPERTY
  DeadlineFreesGuard
