\* Four requests for one overview, three at a time.
CONSTANTS
  Slots = {r1, r2, r3}
  Overviews = {v}
  Default = default
  Others = {}
  Threads = {}
  None = None
  MaxAsks = 4
  MaxRefreshes = 0
  MaxChanges = 0
  MaxTurns = 0
SPECIFICATION Spec
INVARIANT OneRunPerOverview
CHECK_DEADLOCK FALSE
