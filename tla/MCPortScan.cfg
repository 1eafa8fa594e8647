SPECIFICATION FairSpec
CONSTANTS
  NTargets = 2
  NPorts = 2
  Concurrency = 9
  DefaultWorkers = 1
  MaxWorkers = 2
  RateLimit = 9
  DefaultRate = 2
  MaxRate = 4
  Second = 4
  IpRank <- MCIpRank
INVARIANTS TypeOK Accounting ConcurrencyBound RateBound ResultsExact QuietReturn NoPanic
PROPERTIES Termination Refinement
