\* Two processes share the database, in which an earlier session may be.
CONSTANTS
  p1 = p1
  p2 = p2
  m1 = m1
  Processes <- TwoProcesses
  Messages <- OneMessage
  MaxSessions = 3
  MaxOpens = 2
  MaxSequence = 4
  MaxTrouble = 2
  Features = {"replace", "close", "fork", "message", "quit", "failure"}
SYMMETRY Same
SPECIFICATION Spec
INVARIANTS
  SequencesRise
  AncestryIsDurable
  UntouchedLeavesNothing
  NoMessageIsForgotten
CHECK_DEADLOCK FALSE
