SPECIFICATION FairSpec
CONSTANTS
  N = 2
  MaxRequests = 2
  Concurrency = 1
INVARIANTS TypeOK ConfidenceEarned VerdictEarned OneAuditCall BatchComplete SummaryAddsUp
PROPERTIES ProbingEnds
