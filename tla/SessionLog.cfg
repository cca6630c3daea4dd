\* Two handles of one process or of two, two requests each.
CONSTANTS
  Writers = {w1, w2}
  Processes = {p1, p2}
  Shapes <- TwoShapes
  OlderRecords <- OlderKinds
  MaxRequests = 2
  MaxTries = 2
  MaxRows = 2
  Nobody = Nobody
SYMMETRY Alike
SPECIFICATION Spec
INVARIANTS
  AllOrNothing
  AnswersAreTrue
  NothingBehindTheOwner
PROPERTIES
  EventsAreKept
CHECK_DEADLOCK FALSE
