\* Every client; three rounds with two calls each, two cycles.
SPECIFICATION Spec
CONSTANTS
  Providers = {"anthropic", "openai", "claude-cli"}
  MaxActSteps = 3
  MaxCalls = 2
  MaxCycles = 2
INVARIANTS TypeOK CallsAreAnswered ResultsReachApiModels SendsBounded OutcomeTellsEffects
