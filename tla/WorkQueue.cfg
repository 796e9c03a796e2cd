SPECIFICATION FairSpec
CONSTANTS
  Messages = {1, 2}
  Runs = {r1, r2}
  BatchSize = 2
  Concurrency = 1
  MaxReads = 2
INVARIANTS TypeOK CallsWithinBudget GivenUpAfterBudget DeletedAfterWork
PROPERTY ImplementsQueue
CHECK_DEADLOCK FALSE
