\* One child with four tokens; forests of five; five messages of which two are kept; one entry.
CONSTANTS
  MaxToken = 4
  MaxAgents = 5
  Agents = {a1, a2}
  RootSession = root
  MaxRetained = 2
  MaxMessages = 5
  Shown = {a1}
SPECIFICATION TablesSpec
INVARIANTS
  ResultAnswersPrompt
  TurnsAreAccountedFor
  NoMissedOutcome
  WalksFollowTheTree
  ThreadsStayWhole
  RosterCatchesUp
PROPERTY
  KeepsContract
CHECK_DEADLOCK FALSE
