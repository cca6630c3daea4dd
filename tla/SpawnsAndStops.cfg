\* Two levels of children; deadlines pass, callers give up, spawns fail.
CONSTANTS
  c1 = c1
  c2 = c2
  c3 = c3
  c4 = c4
  MaxAgents = 2
  MaxMessages = 2
  Calls <- ThreeCalls
  Plan <- SpawnsAndStops
  Limits = {2}
  DeferredCapacity = 1
  UrgentCapacity = 1
  Nobody = Nobody
  Disturbances = {"failure", "drop", "timeout"}
SPECIFICATION Spec
INVARIANTS
  CapacityConserved
  CloseCoversSubtree
  ClosedMeansQuiet
CHECK_DEADLOCK FALSE
