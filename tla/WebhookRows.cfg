SPECIFICATION FairSpec
CONSTANTS
  Deliveries = {d1}
  Handlers = {h1, h2}
  MaxAttempts = 2
  MaxFaults = 1
  MaxResets = 1
  None = None
INVARIANTS TypeOK PendingIsInHand OutcomeTold AttemptsBounded
PROPERTY Settles
CHECK_DEADLOCK FALSE
