\* One loop, across midnight.
SPECIFICATION Spec
CONSTANTS
  Jobs <- MCJobs
  Minute = 6
  WallClock <- MCWallClock
  MaxInt = 199
  Period = 3
  MaxDelay = 1
  MaxStarts = 1
  MaxTime = 13
INVARIANT StandardCron
CHECK_DEADLOCK FALSE
