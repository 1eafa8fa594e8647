SPECIFICATION Spec
CONSTANTS
  N = 2
  MaxRequests = 2
  Concurrency = 1
INVARIANT AnyVerdictPromise
