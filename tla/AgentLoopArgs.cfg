\* One client, one cycle.
SPECIFICATION Spec
CONSTANTS
  Providers = {"anthropic"}
  MaxActSteps = 3
  MaxCalls = 2
  MaxCycles = 1
INVARIANT AdvertisedCallsArrive
