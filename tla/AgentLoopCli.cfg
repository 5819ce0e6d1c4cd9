\* One client, one cycle.
SPECIFICATION Spec
CONSTANTS
  Providers = {"claude-cli"}
  MaxActSteps = 3
  MaxCalls = 2
  MaxCycles = 1
INVARIANT ResultsReachModel
