\* Two sessions compete for one slot.
SPECIFICATION FairSpec
CONSTANTS
  Ids = {s1, s2}
  MaxConcurrent = 1
INVARIANTS TypeOK ProcessesBounded VerdictsMatchFates WaitIsFinalUnlessKilled
PROPERTIES ProcessesEnd SessionsEnd
CHECK_DEADLOCK FALSE
