\* Every interleaving of a daemon and the task commands, with failed saves,
\* processes that die at any step, and restarts.
SPECIFICATION FairSpec
CONSTANTS
  d1 = d1
  c1 = c1
  c2 = c2
  Daemons <- MCDaemons
  Clis <- MCOneCli
  MaxAdds = 2
  Faults = TRUE
INVARIANTS TypeOK IdsAreUnique ClaimsInOrder WorkersOwnTheirTasks LostOnlyByStaleSaves AtMostOnce
PROPERTIES DaemonNeverForgets ImplementsLedger NoStarvation
