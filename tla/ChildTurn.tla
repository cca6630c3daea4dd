------------------------------ MODULE ChildTurn ------------------------------
(***************************************************************************)
(* The turns of one child session: the registry handlers that open, steer, *)
(* complete and close a turn (crates/subagents/src/runtime/mod.rs and      *)
(* state.rs over turn.rs), called by the child's harness (harness.rs), by  *)
(* its event task, by close requests, by the child's own submit_result     *)
(* calls and by a waiter.  Every handler runs under the registry lock, so  *)
(* each is one action; what the harness awaits in between (agent.prompt,   *)
(* control.steer, the turn itself) is a state of "harness".                *)
(***************************************************************************)
EXTENDS TurnSlot, AgentStatus

VARIABLES
  slot,         \* ChildSession.turn
  status,       \* ChildSession.status
  terminals,    \* ChildSession.terminal: the number of wait-terminal outcomes,
  outcome,      \* ... and the latest one
  output,       \* ChildSession.last_output
  harness,      \* where the harness is in its loop
  quoted,       \* the token of the prompt the harness is handing to the child
  told,         \* external: tokens in the child's conversation
  prompt,       \* external: token of the prompt the child works on, 0 for none
  waiter,       \* a wait call: "none", "waiting", or "owed" from the moment
                \* a turn of the child ended under it (history)
  seen,         \* the terminal count that call saw first
  started       \* history: turns opened

registryVars == <<slot, status, terminals, outcome, output>>
childVars    == <<told, prompt>>
waitVars     == <<waiter, seen>>
vars == <<registryVars, harness, quoted, childVars, waitVars, started>>

HarnessStates == {"idle", "prompting", "active", "steering", "steered", "gone"}

Results == {"ok", "cancelled", "error"}

TypeOK ==
  /\ slot \in Slots
  /\ status \in Statuses
  /\ terminals \in Nat
  /\ outcome \in WaitTerminal \cup {"none"}
  /\ output \in 0 .. MaxToken
  /\ harness \in HarnessStates
  /\ quoted \in 0 .. MaxToken
  /\ told \subseteq Tokens
  /\ prompt \in 0 .. MaxToken
  /\ waiter \in {"none", "waiting", "owed"}
  /\ seen \in Nat
  /\ started \in Nat

Init ==
  /\ slot = FreshSlot /\ status = "pending"
  /\ terminals = 0 /\ outcome = "none" /\ output = None
  /\ harness = "idle" /\ quoted = None
  /\ told = {} /\ prompt = None
  /\ waiter = "none" /\ seen = 0
  /\ started = 0

-----------------------------------------------------------------------------
(* ChildSession::set_status                                                *)
SetStatus(st) ==
  /\ status' = st
  /\ IF st \in WaitTerminal
     THEN terminals' = terminals + 1 /\ outcome' = st
     ELSE UNCHANGED <<terminals, outcome>>

(* The turn ends, as the wait call may see it.                             *)
TurnEnds ==
  /\ slot' = Finished(slot)
  /\ waiter' = IF waiter = "waiting" /\ IsActive(slot) /\ status \notin Stopped
               THEN "owed" ELSE waiter

(* start_turn: harness_turn_started.  A refusal (CannotStartTurn) changes  *)
(* nothing here.                                                           *)
StartTurn ==
  /\ harness = "idle"
  /\ status \in Startable
  /\ CanStart(slot)
  /\ slot' = Started(slot)
  /\ status' = "running"
  /\ harness' = "prompting"
  /\ quoted' = slot.issued + 1
  /\ prompt' = None
  /\ started' = started + 1
  /\ UNCHANGED <<terminals, outcome, output, told, waitVars>>

(* agent.prompt returns: the child's conversation now holds the token.     *)
PromptAccepted ==
  /\ harness = "prompting"
  /\ harness' = "active"
  /\ told' = told \cup {quoted}
  /\ prompt' = quoted
  /\ UNCHANGED <<registryVars, quoted, waitVars, started>>

(* agent.prompt fails: harness_turn_start_failed.                          *)
PromptFailed ==
  /\ harness = "prompting"
  /\ harness' = "idle"
  /\ TurnEnds
  /\ IF status \in Stopped
     THEN UNCHANGED <<status, terminals, outcome>>
     ELSE SetStatus("failed")
  /\ UNCHANGED <<output, quoted, childVars, seen, started>>

(* accept_delivery of an urgent message: begin_turn_steer.                 *)
BeginTurnSteer ==
  /\ harness = "active"
  /\ CanSteer(slot)
  /\ slot' = SteerBegun(slot)
  /\ quoted' = slot.issued + 1
  /\ harness' = "steering"
  /\ UNCHANGED <<status, terminals, outcome, output, childVars, waitVars,
                 started>>

(* The child's session admits the steering prompt.                         *)
SteerAdmitted ==
  /\ harness = "steering"
  /\ harness' = "steered"
  /\ told' = told \cup {quoted}
  /\ prompt' = quoted
  /\ UNCHANGED <<registryVars, quoted, waitVars, started>>

(* control.steer returned: finish_turn_steer(steer, result.is_ok()).       *)
FinishTurnSteer ==
  /\ harness \in {"steering", "steered"}
  /\ slot' = SteerFinished(slot, quoted, harness = "steered")
  /\ harness' = "active"
  /\ UNCHANGED <<status, terminals, outcome, output, quoted, childVars,
                 waitVars, started>>

(* The child calls submit_result with a token it was told, at any time     *)
(* after it was told; the output answers the prompt that carried it.       *)
SubmitResult ==
  \E t \in told, valid \in BOOLEAN :
    /\ slot' = AfterSubmit(slot, t, t, valid)
    /\ UNCHANGED <<status, terminals, outcome, output, harness, quoted,
                   childVars, waitVars, started>>

(* The harness publishes the turn's result: harness_turn_finished and      *)
(* complete_session.                                                       *)
StatusAfter(result) ==
  IF status \in Stopped THEN status
  ELSE IF result = "cancelled" THEN "interrupted"
  ELSE IF result = "ok" /\ slot.submitted # None THEN "completed"
  ELSE "failed"

FinishTurn(result) ==
  /\ harness = "active"
  /\ harness' = "idle"
  /\ IF IsActive(slot)
     THEN /\ TurnEnds
          /\ SetStatus(StatusAfter(result))
          /\ output' = IF StatusAfter(result) = "completed"
                       THEN slot.submitted ELSE output
     ELSE UNCHANGED <<registryVars, waiter>>
  /\ UNCHANGED <<quoted, childVars, seen, started>>

(* request_close: any session of the subtree is marked, whatever it was.   *)
RequestClose ==
  /\ status' = "closing"
  /\ UNCHANGED <<slot, terminals, outcome, output, harness, quoted, childVars,
                 waitVars, started>>

(* finish_close, once every turn of the subtree is inactive.               *)
FinishClose ==
  /\ status \in Stopped
  /\ ~IsActive(slot)
  /\ status' = "closed"
  /\ UNCHANGED <<slot, terminals, outcome, output, harness, quoted, childVars,
                 waitVars, started>>

(* harness_closed, by the closing harness itself or by the event task of a *)
(* child that is already being closed (runtime_closed).                    *)
HarnessClosed ==
  /\ \/ harness = "idle" /\ harness' = "gone"
     \/ status \in Stopped /\ UNCHANGED harness
  /\ IF status = "closed"
     THEN UNCHANGED <<slot, status, waiter>>
     ELSE TurnEnds /\ status' = "closed"
  /\ UNCHANGED <<terminals, outcome, output, quoted, childVars, seen, started>>

-----------------------------------------------------------------------------
(* fault: the live status is reported, which may have moved on             *)
FaultyStatusSince(n) == status

(* summary_since: what a wait call that saw n outcomes is told.            *)
StatusSince(n) == IF terminals > n THEN outcome ELSE status

(* Registry::wait: the count is read only if the child is not terminal.    *)
WaitBegins ==
  /\ waiter = "none"
  /\ status \notin WaitTerminal
  /\ waiter' = "waiting"
  /\ seen' = terminals
  /\ UNCHANGED <<registryVars, harness, quoted, childVars, started>>

(* It returns once the child is terminal, or when its deadline passes.     *)
WaitReturns ==
  /\ waiter # "none"
  /\ waiter' = "none"
  /\ UNCHANGED <<registryVars, harness, quoted, childVars, seen, started>>

Next ==
  \/ StartTurn \/ PromptAccepted \/ PromptFailed
  \/ BeginTurnSteer \/ SteerAdmitted \/ FinishTurnSteer
  \/ SubmitResult
  \/ \E result \in Results : FinishTurn(result)
  \/ RequestClose \/ FinishClose \/ HarnessClosed
  \/ WaitBegins \/ WaitReturns

Spec == Init /\ [][Next]_vars
-----------------------------------------------------------------------------
(* The accepted result answers the prompt the child works on now: neither  *)
(* a prompt that an urgent message replaced nor one of an earlier turn.    *)
(* (turn.rs:3-6; begin_turn_steer, finish_turn_steer, submit_result)       *)
ResultAnswersPrompt == slot.submitted # None => slot.submitted = prompt

(* A turn is open exactly while the child is Running or is being closed,   *)
(* and the harness is then at work on it: no turn is left open that nobody *)
(* will finish, which would make every later start fail.                   *)
OpenTurnIsOwned ==
  /\ status = "running" => IsActive(slot)
  /\ IsActive(slot) => /\ status \in {"running", "closing"}
                       /\ harness \notin {"idle", "gone"}

(* Until the child is closed, every turn that was opened and is over has   *)
(* been counted as exactly one outcome, however it ended.                  *)
(* (set_status, harness_turn_finished, harness_turn_start_failed)          *)
OneOutcomePerTurn ==
  status \notin Stopped =>
    started = terminals + (IF status = "running" THEN 1 ELSE 0)

(* Every turn has somebody who will finish it, and is counted once when it *)
(* is over, in whichever order its end, a steer and a close come.          *)
TurnsAreAccountedFor == OpenTurnIsOwned /\ OneOutcomePerTurn

(* A turn that ends while a caller waits is reported to that caller even   *)
(* when the child has gone on to another turn or is being closed by the    *)
(* time the caller looks (state.rs:31-36, summary_since).                  *)
NoMissedOutcome ==
  waiter = "owed" => StatusSince(seen) \in WaitTerminal

(* A child that is being closed or is closed never takes another turn and  *)
(* never leaves these two states (harness_turn_started,                    *)
(* harness_turn_start_failed, harness_turn_finished).                      *)
StoppedForGood ==
  [][(status \in Stopped) => (status' \in Stopped /\ started' = started)]_vars

(* The child's turns implement the contract of turn tokens.                *)
OnItsWay == IF IsActive(slot) /\ harness \in {"prompting", "steering"}
            THEN slot.token ELSE None
Contract == INSTANCE TurnContract
              WITH prompt <- IF IsActive(slot) THEN prompt ELSE None,
                   result <- slot.submitted,
                   next <- OnItsWay, last <- slot.issued
KeepsContract == Contract!Spec
==============================================================================
