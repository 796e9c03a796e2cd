SPECIFICATION FairSpec
CONSTANTS
  Builds = {b1}
  Requests = {r1, r2}
  Limit = 1
  MaxStarts = 2
  MaxAtOnce = 2
  MaxFaults = 1
  None = None
INVARIANTS TypeOK WithinPlan OverMeansOver AnnouncedOnce EndIsBilled

CHECK_DEADLOCK FALSE
PROPERTIES EndsStand SlotGivenBack
