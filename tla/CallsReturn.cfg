\* No deadline, no dropped caller: every call returns by itself.
CONSTANTS
  c1 = c1
  c2 = c2
  c3 = c3
  c4 = c4
  MaxAgents = 2
  MaxMessages = 1
  Calls <- ThreeCalls
  Plan <- SpawnStopSend
  Limits = {2}
  DeferredCapacity = 1
  UrgentCapacity = 1
  Nobody = Nobody
  Disturbances = {}
SPECIFICATION FairSpec
PROPERTIES
  CallsReturn
CHECK_DEADLOCK FALSE
