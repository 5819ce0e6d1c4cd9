\* Two agents, three items, calls overlap and saves may fail.
SPECIFICATION Spec
CONSTANTS
  Agents = {a1, a2}
  MaxAdds = 3
  Faults = TRUE
INVARIANTS TypeOK AllOrdered NextIsOldest SerialCallsExact
CHECK_DEADLOCK FALSE
