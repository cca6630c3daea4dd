\* Two prompts and a message of another session, with an interrupt.
CONSTANTS
  MaxPrompts = 2
  MaxMessages = 1
  MaxTurns = 3
  MaxInterrupts = 1
  MaxShells = 1
  MayFail = TRUE
  Backends = {"codex", "claude"}
  Disturbances = {"delete", "edit", "compact", "shell", "subagent", "auxiliary"}
  Texts <- TextsOf
SPECIFICATION Spec
INVARIANTS
  TurnsAreCounted
  PromptsAreKept
  GivenOnce
  NothingStuck
  CompactsAlone
CHECK_DEADLOCK FALSE
