SPECIFICATION Spec
CONSTANTS
  Tries = 3
  MaxCalls = 3
INVARIANTS OwnAnswer OneInFlight
