\* A prompt is steered while an auxiliary job of the pane runs.
CONSTANTS
  MaxPrompts = 2
  MaxMessages = 0
  MaxTurns = 3
  MaxInterrupts = 0
  MaxShells = 0
  MayFail = FALSE
  Backends = {"codex"}
  Disturbances = {"auxiliary"}
  Texts <- TextsOf
SPECIFICATION Spec
INVARIANT SteersReachTheConversation
CHECK_DEADLOCK FALSE
