\* One process forks a session whose assistant is still speaking.
CONSTANTS
  p1 = p1
  p2 = p2
  m1 = m1
  Processes = {p1}
  Messages = {}
  MaxSessions = 2
  MaxOpens = 2
  MaxSequence = 5
  MaxTrouble = 0
  Features = {"fork"}
SPECIFICATION Spec
INVARIANT ForksCanBeLoaded
CHECK_DEADLOCK FALSE
