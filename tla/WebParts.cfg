\* Two sessions and panes; a text of the user's and one of others; two requests at a time.
CONSTANTS
  Sessions = {s1, s2}
  Panes = {q1, q2}
  None = None
  Stored = 1
  MaxEntries = 3
  MaxRevision = 2
  MaxFacts = 1
  MaxEvents = 3
  Texts = {a}
  OthersTexts = {c}
  Empty = e
  MaxEdits = 2
  MaxLives = 1
  MaxTrouble = 1
  Slots = {r1, r2}
  Overviews = {v}
  Default = default
  Others = {early}
  Threads = {t}
  MaxAsks = 2
  MaxRefreshes = 1
  MaxChanges = 1
  MaxTurns = 1
SYMMETRY Same
SPECIFICATION PartsSpec
INVARIANTS
  QuietTabsShowTheSessions
  FocusIsActive
  DraftsAgree
  EditsAreKept
  SentAsShown
  
  QuestionsEnd
CHECK_DEADLOCK FALSE
