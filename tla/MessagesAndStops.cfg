\* One child, two spawns and two messages, a limit that goes to none and back; its driver may die.
CONSTANTS
  c1 = c1
  c2 = c2
  c3 = c3
  c4 = c4
  MaxAgents = 1
  MaxMessages = 2
  Calls <- FourCalls
  Plan <- MessagesAndStops
  Limits = {0, 1}
  DeferredCapacity = 1
  UrgentCapacity = 1
  Nobody = Nobody
  Disturbances = {"failure", "steer", "submit", "death", "limit"}
SPECIFICATION Spec
INVARIANTS
  PendingIsHeld
  DeliveredOnce
  TaskWasGiven
  NoLostWakeup
  DeferredInOrder
CHECK_DEADLOCK FALSE
