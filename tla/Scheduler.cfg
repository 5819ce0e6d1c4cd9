\* Two loops in a row over two minutes and a bit, across midnight.
SPECIFICATION Spec
CONSTANTS
  Jobs <- MCJobs
  Minute = 6
  WallClock <- MCWallClock
  MaxInt = 199
  Period = 3
  MaxDelay = 1
  MaxStarts = 2
  MaxTime = 13
INVARIANTS TypeOK StopReachesEveryLoop OneLateCheck OncePerMinute FiresAsWritten NoMinuteMissed IntervalsKept
CHECK_DEADLOCK FALSE
