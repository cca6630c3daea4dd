----------------------------- MODULE SubagentsMC -----------------------------
(* Instances of Subagents for TLC: which call may be which operation.      *)
EXTENDS Subagents

CONSTANTS c1, c2, c3, c4

ThreeCalls == {c1, c2, c3}
FourCalls  == {c1, c2, c3, c4}

(* A child, perhaps with a child of its own, is stopped and messaged while *)
(* deadlines pass and callers give up.                                     *)
SpawnsAndStops == [c \in ThreeCalls |->
  IF c = c1 THEN {"spawn"}
  ELSE IF c = c2 THEN {"spawn", "send", "interrupt", "close", "cancel_all"}
  ELSE {"send", "close", "close_all"}]

(* A child is sent two messages while it is stopped, or while another      *)
(* spawn takes the capacity and fails.                                     *)
MessagesAndStops == [c \in FourCalls |->
  IF c = c1 THEN {"spawn"} ELSE IF c = c4 THEN {"spawn", "interrupt", "close"}
  ELSE {"send"}]

(* Sessions of several levels stop and message each other.                 *)
SpawnStopSend == [c \in ThreeCalls |->
  IF c = c1 THEN {"spawn"}
  ELSE IF c = c2 THEN {"spawn", "interrupt", "close"}
  ELSE {"send", "interrupt", "close", "close_all"}]

==============================================================================
