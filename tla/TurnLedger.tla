------------------------------ MODULE TurnLedger ------------------------------
(***************************************************************************)
(* What a pane counts of the turns it started:                             *)
(* tui/components/root/turns.rs.  A turn ends with two signals that race,  *)
(* the worker's and the agent stream's; the ledger pairs them.  unmatched  *)
(* holds the signals of each kind that wait for one of the other.          *)
(***************************************************************************)
EXTENDS Integers

NoTurns == [turns |-> 0, worker |-> 0, agent |-> 0]

TurnStarted(l) == [l EXCEPT !.turns = @ + 1]

(* saturating_sub *)
OneLess(n) == IF n = 0 THEN 0 ELSE n - 1

(* A turn is over with the second of its signals, or with the worker's     *)
(* alone when the agent had not accepted it.                               *)
(* fault: the worker's signal alone ends a turn. *)
FaultyIsOver(l, end) == end # "terminal" \/ l.worker > 0
IsOver(l, end) ==
  CASE end = "rejected" -> TRUE
    [] end = "worker"   -> l.agent > 0
    [] end = "terminal" -> l.worker > 0

Matched(l, end) ==
  CASE end = "rejected" -> l
    [] end = "worker"   -> [l EXCEPT !.agent = OneLess(@)]
    [] end = "terminal" -> [l EXCEPT !.worker = OneLess(@)]

EndRecorded(l, end) ==
  IF IsOver(l, end) THEN [Matched(l, end) EXCEPT !.turns = OneLess(@)]
  ELSE IF end = "worker" THEN [l EXCEPT !.worker = @ + 1]
  ELSE [l EXCEPT !.agent = @ + 1]

TurnRunning(l) == l.turns > 0
==============================================================================
